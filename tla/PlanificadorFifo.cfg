SPECIFICATION Spec
CONSTANTS
  NULL = NULL  t1 = t1  t2 = t2  t3 = t3  c1 = c1  c2 = c2
  Algoritmos = {"FIFO"}
  Tcbs <- Todos
  Ids = {0, 1}
  Prioridades = {0}
  Funciones <- SinDano
  Creadores = {c1, c2}
  Previos = {t1}
  RespuestasMemoria = {TRUE, FALSE}
  Basura = {}
  MaxCola = 4
INVARIANTS TypeOK EjecutaUno SinColgados LugarUnico
PROPERTIES CumpleCiclo
CHECK_DEADLOCK FALSE
