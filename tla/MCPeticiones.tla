---------------------------- MODULE MCPeticiones ----------------------------
(* Two processes, two partitions, two TIDs. *)
EXTENDS Peticiones, TLC

CONSTANTS p1, p2, b1, b2, t0, t1

PidsMC == {p1, p2}
BloquesMC == {b1, b2}
TidsMC == {t0, t1}

Simetria == Permutations(PidsMC) \cup Permutations(BloquesMC) \cup Permutations(TidsMC)
=============================================================================
