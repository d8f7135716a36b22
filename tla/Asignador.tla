----------------------------- MODULE Asignador -----------------------------
(***************************************************************************)
(* What the user-memory allocator of Memoria promises, without partitions: *)
(* a process gets a block inside memory that overlaps no live block, and   *)
(* keeps it until it gives it back.  The server may stop at any moment, and*)
(* with the block at the base of memory all the others are lost.           *)
(***************************************************************************)
EXTENDS Integers

CONSTANTS TamTotal, Pedidos

VARIABLES
  bloques,   \* the blocks in use
  vivo       \* the server answers and has memory to give

Bloque == [base : Nat, limite : Nat]

Ajenos(a, b) == a.base + a.limite <= b.base \/ b.base + b.limite <= a.base

Init == bloques = {} /\ vivo = TRUE

Otorgar ==
  /\ vivo
  /\ \E base \in 0 .. TamTotal, limite \in Pedidos :
       LET b == [base |-> base, limite |-> limite]
       IN  /\ base + limite <= TamTotal
           /\ \A c \in bloques : Ajenos(b, c)
           /\ bloques' = bloques \cup {b}
  /\ UNCHANGED vivo

Devolver ==
  /\ vivo
  /\ \E b \in bloques : bloques' = bloques \ {b}
  /\ UNCHANGED vivo

\* free() of the base of memory: no block outlives it, and no other is given.
DevolverTodo ==
  /\ vivo /\ vivo' = FALSE
  /\ \E b \in bloques : b.base = 0
  /\ bloques' = {}

Caer == vivo /\ vivo' = FALSE /\ UNCHANGED bloques

Next == Otorgar \/ Devolver \/ DevolverTodo \/ Caer

Spec == Init /\ [][Next]_<<bloques, vivo>>

=============================================================================
