---------------------------- MODULE MCLargoPlazo ----------------------------
(* Values for the constants of LargoPlazo. *)
EXTENDS LargoPlazo

CONSTANTS h1, h2

DosHilos == {h1, h2}
UnoODos == {{h1}, {h1, h2}}
=============================================================================
