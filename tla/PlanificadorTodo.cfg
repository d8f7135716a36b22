SPECIFICATION Spec
CONSTANTS
  NULL = NULL  t1 = t1  t2 = t2  t3 = t3  c1 = c1  c2 = c2
  Algoritmos = {"FIFO", "PRIORIDADES", "CMN", "COLAS MULTINIVEL"}
  Tcbs = {t1, t2}
  Ids = {0, 1}
  Prioridades = {0, 1}
  Funciones <- Syscalls
  Creadores = {}
  Previos = {t1, t2}
  RespuestasMemoria = {TRUE, FALSE}
  Basura = {t1, t2, NULL}
  MaxCola = 2
PROPERTY ReadyConserva
CHECK_DEADLOCK FALSE
