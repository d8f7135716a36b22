SPECIFICATION FairSpec
CONSTANTS
  Enlaces = {"dispatch", "interrupt", "memoria"}
  Tcbs <- TcbsMC
  Tamanios = {0, 6, 16, 21, 4096}
  Legible = 24
  Basura = {0, 2}
  MaxOperaciones = 3
INVARIANT LoEnviadoEsLoLeido
PROPERTY OperacionLlega
CHECK_DEADLOCK FALSE
