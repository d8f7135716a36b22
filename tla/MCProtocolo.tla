----------------------------- MODULE MCProtocolo -----------------------------
(* Two hilos, with fields that look like operations.  In the .cfg, sizes that   *)
(* send nothing of a TCB, cut it, are exact, go past its end inside an integer, *)
(* and are more than send() can read.                                           *)
EXTENDS Protocolo

TcbsMC == {<<1, 0, 2, 1>>, <<258, 1, 0, 1>>}
=============================================================================
