SPECIFICATION Spec
CONSTANTS
  p1 = p1  p2 = p2  b1 = b1  b2 = b2  t0 = t0  t1 = t1
  Nada = Nada
  Principal = principal
  Largo = largo
  Pids <- PidsMC
  Bloques <- BloquesMC
  Tids <- TidsMC
  MaxHilos = 2
  MaxRafagas = 2
  MaxCola = 2
SYMMETRY Simetria
INVARIANTS TypeOK SinColgar BloqueConDuenio HiloPresente ContextoFiel
CHECK_DEADLOCK FALSE
