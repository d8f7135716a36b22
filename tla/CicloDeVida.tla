----------------------------- MODULE CicloDeVida -----------------------------
(***************************************************************************)
(* What the Kernel promises about the life of a hilo: one at most runs,    *)
(* it runs only after it was ready, it waits only after it ran, and it     *)
(* never comes back once it has ended or has been lost.                    *)
(***************************************************************************)
CONSTANT Hilos
VARIABLE estado

Estados == {"nuevo", "listo", "ejecuta", "espera", "fin"}

Init == estado \in [Hilos -> {"nuevo", "listo"}]

Pasa(h, de, a) == estado[h] \in de /\ estado' = [estado EXCEPT ![h] = a]

Encolar(h)   == Pasa(h, {"nuevo", "espera"}, "listo")
Ejecutar(h)  == Pasa(h, {"listo"}, "ejecuta") /\ \A otro \in Hilos : estado[otro] # "ejecuta"
Bloquear(h)  == Pasa(h, {"ejecuta"}, "espera")
Terminar(h)  == Pasa(h, {"ejecuta"}, "fin")
\* Memoria refuses it, or its place in the queue is lost.
Perder(h)    == Pasa(h, {"nuevo", "espera"}, "fin")

Next == \E h \in Hilos :
          Encolar(h) \/ Ejecutar(h) \/ Bloquear(h) \/ Terminar(h) \/ Perder(h)

Spec == Init /\ [][Next]_estado
=============================================================================
