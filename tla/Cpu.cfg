SPECIFICATION FairSpec
CONSTANTS
  Programas <- Varios
  Ancho = 3
  Limite = 2
  RegistrosBasura <- Basura
  MaxRafagas = 2
  MaxInterrupciones = 2
  MaxRetorno = 6
INVARIANTS TypeOK SyscallCierra RecorreEnOrden
PROPERTIES TodaRafagaVuelve DesalojoLlega
CHECK_DEADLOCK FALSE
