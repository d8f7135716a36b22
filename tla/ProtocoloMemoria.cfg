SPECIFICATION Spec
CONSTANTS
  Enlaces = {"memoria"}
  Tcbs <- TcbsMC
  Tamanios = {0}
  Legible = 24
  Basura = {0, 2}
  MaxOperaciones = 1
INVARIANT CodigoReconocido
CHECK_DEADLOCK FALSE
