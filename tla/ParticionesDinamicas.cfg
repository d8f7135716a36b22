SPECIFICATION Spec
CONSTANTS
  Configs <- ConfigsDinamicas
  TamTotal = 7
  Pedidos <- PedidosMC
  EfectosFree = {"abort"}
  EfectosBase = {"abort", "sigue"}
INVARIANTS TypeOK InvSinJuntas ConcesionVigente EligeBien
PROPERTY CumplePromesa
CHECK_DEADLOCK FALSE
