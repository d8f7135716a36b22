SPECIFICATION FairSpec
CONSTANTS
  NULL = NULL  t1 = t1  t2 = t2  t3 = t3  c1 = c1  c2 = c2
  Algoritmos = {"FIFO"}
  Tcbs = {t1, t2}
  Ids = {0, 1}
  Prioridades = {0}
  Funciones = {"IO"}
  Creadores = {c1}
  Previos = {}
  RespuestasMemoria = {TRUE}
  Basura = {}
  MaxCola = 4
PROPERTY ListoSePlanifica
CHECK_DEADLOCK FALSE
