SPECIFICATION Spec
CONSTANTS
  Configs <- ConfigsFijas
  TamTotal = 10
  Pedidos <- PedidosMC
  EfectosFree = {"abort", "sigue"}
  EfectosBase = {"abort", "sigue"}
INVARIANTS OcupadasDisjuntas InvFijas EligeBien
PROPERTIES ConcesionEstable CumplePromesa
CHECK_DEADLOCK FALSE
