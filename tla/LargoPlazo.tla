----------------------------- MODULE LargoPlazo -----------------------------
(***************************************************************************)
(* The long-term scheduler of the Kernel: crearProceso and finalizarProceso *)
(* run by several kernel threads over the NEW and READY queues, the         *)
(* semaphore sem_nuevoProceso and the list of TID counters.                 *)
(*                                                                          *)
(* One step per critical section: what a mutex protects is atomic, and the  *)
(* emptiness test of cola_new, which nothing protects, is a step of its own.*)
(* A PCB is its PID.  pcb->TIDs is created empty and never filled, so the   *)
(* loop of finalizarProceso over it does nothing.  Memoria's answer is any  *)
(* of Respuestas.  A process that is finished is one that crearProceso put  *)
(* in cola_ready; its PCB is never taken out of that queue.                 *)
(***************************************************************************)
EXTENDS Integers, Sequences, FiniteSets, SequencesExt

CONSTANTS
  Hilos,        \* kernel threads that call crearProceso and finalizarProceso
  Equipos,      \* those that do in a given execution
  Respuestas,   \* what Memoria may answer: 1 accepts
  MaxPids,      \* bound on the PCBs created
  MaxTcbs       \* bound on the hilos created in each process

ASSUME LargoAssumption ==
  /\ IsFiniteSet(Hilos)
  /\ Equipos \subseteq SUBSET Hilos
  /\ Respuestas \subseteq Int
  /\ MaxPids \in Nat
  /\ MaxTcbs \in Nat

VARIABLES
  equipo,
  process_id,
  cola_new,
  cola_ready,
  lista_thread_id,  \* the TID counters, by position
  sem_nuevoProceso,
  hilo,             \* per thread: where it is and its nuevoPCB
  liberados,        \* PCBs freed
  leidos            \* per PID, the TIDs read for its hilos, in order

vars == <<equipo, process_id, cola_new, cola_ready, lista_thread_id, sem_nuevoProceso,
          hilo, liberados, leidos>>

Pids == 0 .. MaxPids - 1
NINGUNO == -1
Etapas == {"libre", "crea", "consulta", "encola", "encola_y_pide", "pide", "saca",
           "pasa", "crea_hilo", "agrega_contador", "espera", "avisa"}

Va(h, pc) == hilo' = [hilo EXCEPT ![h].pc = pc]
Esta(h, pc) == hilo[h].pc = pc

Init ==
  /\ equipo \in Equipos
  /\ process_id = 0
  /\ cola_new = <<>> /\ cola_ready = <<>> /\ lista_thread_id = <<>>
  /\ sem_nuevoProceso = 0
  /\ hilo = [h \in Hilos |-> [pc |-> "libre", pcb |-> NINGUNO]]
  /\ liberados = {}
  /\ leidos = [p \in Pids |-> <<>>]

---------------------------------------------------------------------------
(* crearProceso *)

Llamar(h) ==
  /\ Esta(h, "libre")
  /\ process_id < MaxPids
  /\ Va(h, "crea")
  /\ UNCHANGED <<equipo, process_id, cola_new, cola_ready, lista_thread_id, sem_nuevoProceso,
                 liberados, leidos>>

\* Under process_id_mutex.
crear_pcb(h) ==
  /\ Esta(h, "crea")
  /\ process_id < MaxPids
  /\ process_id' = process_id + 1
  /\ hilo' = [hilo EXCEPT ![h] = [pc |-> "consulta", pcb |-> process_id]]
  /\ UNCHANGED <<equipo, cola_new, cola_ready, lista_thread_id, sem_nuevoProceso,
                 liberados, leidos>>

ConsultarMutOrden(h) ==
  /\ Esta(h, "consulta")
  /\ Va(h, IF cola_new = <<>> THEN "pide" ELSE "encola")
  /\ UNCHANGED <<equipo, process_id, cola_new, cola_ready, lista_thread_id, sem_nuevoProceso,
                 liberados, leidos>>

ConsultarMut(h) ==
  /\ Esta(h, "consulta")
  /\ Va(h, "encola_y_pide")
  /\ UNCHANGED <<equipo, process_id, cola_new, cola_ready, lista_thread_id, sem_nuevoProceso,
                 liberados, leidos>>

\* queue_is_empty(cola_new), without mutex_cola_new.
Consultar(h) ==
  /\ Esta(h, "consulta")
  /\ Va(h, IF cola_new = <<>> THEN "encola_y_pide" ELSE "encola")
  /\ UNCHANGED <<equipo, process_id, cola_new, cola_ready, lista_thread_id, sem_nuevoProceso,
                 liberados, leidos>>

\* The thread that found others waiting returns: it will not ask for its own.
Encolar(h) ==
  /\ Esta(h, "encola") \/ Esta(h, "encola_y_pide")
  /\ cola_new' = Append(cola_new, hilo[h].pcb)
  /\ hilo' = [hilo EXCEPT ![h] = IF Esta(h, "encola") THEN [pc |-> "libre", pcb |-> NINGUNO]
                                 ELSE [@ EXCEPT !.pc = "pide"]]
  /\ UNCHANGED <<equipo, process_id, cola_ready, lista_thread_id, sem_nuevoProceso,
                 liberados, leidos>>

\* crearProcesoMemoria.
Responder(h) ==
  /\ Esta(h, "pide")
  /\ \E r \in Respuestas : Va(h, IF r = 1 THEN "saca" ELSE "espera")
  /\ UNCHANGED <<equipo, process_id, cola_new, cola_ready, lista_thread_id, sem_nuevoProceso,
                 liberados, leidos>>

\* queue_pop takes whatever PCB is first, or nothing.
Sacar(h) ==
  /\ Esta(h, "saca")
  /\ cola_new' = IF cola_new = <<>> THEN <<>> ELSE Tail(cola_new)
  /\ Va(h, "pasa")
  /\ UNCHANGED <<equipo, process_id, cola_ready, lista_thread_id, sem_nuevoProceso,
                 liberados, leidos>>

PasarAReady(h) ==
  /\ Esta(h, "pasa")
  /\ cola_ready' = Append(cola_ready, hilo[h].pcb)
  /\ Va(h, "crea_hilo")
  /\ UNCHANGED <<equipo, process_id, cola_new, lista_thread_id, sem_nuevoProceso,
                 liberados, leidos>>

\* crear_tcb: list_get gives 0 (NULL) and list_replace does nothing when the
\* list has no such position.
crear_tcb(pid) ==
  LET hay == pid + 1 \in DOMAIN lista_thread_id
  IN /\ leidos' = [leidos EXCEPT ![pid] = Append(@, IF hay THEN lista_thread_id[pid + 1] ELSE 0)]
     /\ lista_thread_id' = IF hay THEN [lista_thread_id EXCEPT ![pid + 1] = @ + 1]
                           ELSE lista_thread_id

\* crear_hilo for hilo 0 of the new process.
CrearHiloCero(h) ==
  /\ Esta(h, "crea_hilo")
  /\ crear_tcb(hilo[h].pcb)
  /\ Va(h, "agrega_contador")
  /\ UNCHANGED <<equipo, process_id, cola_new, cola_ready, sem_nuevoProceso,
                 liberados>>

\* list_add_in_index adds nothing beyond the end, and moves what follows.
AgregarContador(h) ==
  /\ Esta(h, "agrega_contador")
  /\ lista_thread_id' = IF hilo[h].pcb <= Len(lista_thread_id)
                        THEN InsertAt(lista_thread_id, hilo[h].pcb + 1, 0)
                        ELSE lista_thread_id
  /\ hilo' = [hilo EXCEPT ![h] = [pc |-> "libre", pcb |-> NINGUNO]]
  /\ UNCHANGED <<equipo, process_id, cola_new, cola_ready, sem_nuevoProceso,
                 liberados, leidos>>

ReintentarMut(h) ==
  /\ Esta(h, "espera")
  /\ sem_nuevoProceso' = sem_nuevoProceso - 1
  /\ hilo' = [hilo EXCEPT ![h] = [pc |-> "crea", pcb |-> NINGUNO]]
  /\ UNCHANGED <<equipo, process_id, cola_new, cola_ready, lista_thread_id,
                 liberados, leidos>>

\* sem_wait, and crearProceso again from the start: its PCB is a new one.
Reintentar(h) ==
  /\ Esta(h, "espera")
  /\ sem_nuevoProceso > 0
  /\ sem_nuevoProceso' = sem_nuevoProceso - 1
  /\ hilo' = [hilo EXCEPT ![h] = [pc |-> "crea", pcb |-> NINGUNO]]
  /\ UNCHANGED <<equipo, process_id, cola_new, cola_ready, lista_thread_id,
                 liberados, leidos>>

---------------------------------------------------------------------------
(* THREAD_CREATE, and finalizarProceso *)

\* crear_hilo in a process that crearProceso is done with.
CrearHilo(h, pid) ==
  /\ Esta(h, "libre")
  /\ Contains(cola_ready, pid) /\ pid \notin liberados
  /\ \A otro \in Hilos : hilo[otro].pcb # pid
  /\ Len(leidos[pid]) < MaxTcbs
  /\ crear_tcb(pid)
  /\ UNCHANGED <<equipo, process_id, cola_new, cola_ready, sem_nuevoProceso, hilo,
                 liberados>>

\* The PCB is freed if Memoria agrees, the semaphore is posted in any case.
finalizarProceso(h, pid) ==
  /\ Esta(h, "libre")
  /\ Contains(cola_ready, pid) /\ pid \notin liberados
  /\ \A otro \in Hilos : hilo[otro].pcb # pid
  /\ \E r \in Respuestas : liberados' = IF r = 1 THEN liberados \cup {pid} ELSE liberados
  /\ Va(h, "avisa")
  /\ UNCHANGED <<equipo, process_id, cola_new, cola_ready, lista_thread_id,
                 sem_nuevoProceso, leidos>>

\* Bounded by one post per process, which is what ends when Memoria agrees.
Avisar(h) ==
  /\ Esta(h, "avisa")
  /\ sem_nuevoProceso < MaxPids
  /\ sem_nuevoProceso' = sem_nuevoProceso + 1
  /\ Va(h, "libre")
  /\ UNCHANGED <<equipo, process_id, cola_new, cola_ready, lista_thread_id,
                 liberados, leidos>>

CrearProceso(h) ==
  \/ crear_pcb(h) \/ Consultar(h) \/ Encolar(h) \/ Responder(h) \/ Sacar(h)
  \/ PasarAReady(h) \/ CrearHiloCero(h) \/ AgregarContador(h) \/ Reintentar(h)
Next ==
  \E h \in equipo :
    \/ Llamar(h) \/ CrearProceso(h) \/ Avisar(h)
    \/ \E pid \in Pids : CrearHilo(h, pid) \/ finalizarProceso(h, pid)

Spec == Init /\ [][Next]_vars

---------------------------------------------------------------------------
(* Properties *)

\* The PCBs, the counters and the semaphore stay in range: sem_wait never takes
\* what no finalizarProceso posted.
TypeOK ==
  /\ process_id \in 0 .. MaxPids
  /\ cola_new \in Seq(Pids) /\ cola_ready \in Seq(Pids)
  /\ lista_thread_id \in Seq(Nat)
  /\ sem_nuevoProceso \in Nat
  /\ hilo \in [Hilos -> [pc : Etapas, pcb : Pids \cup {NINGUNO}]]
  /\ liberados \subseteq Pids
  /\ leidos \in [Pids -> Seq(Nat)]

Veces(cola, p) == Cardinality({i \in DOMAIN cola : cola[i] = p})

\* Every thread that asked Memoria and has not popped yet has its place in
\* cola_new, whoever's PCB holds it: queue_pop never meets an empty queue, even
\* when several threads found cola_new empty at the same time.
LugarEnNew ==
  Cardinality({h \in Hilos : hilo[h].pc \in {"pide", "saca", "espera"}}) <= Len(cola_new)

\* What follows holds while a single thread calls crearProceso: of two, the pops
\* of those that both found cola_new empty can take each other's PCB, and
\* list_add_in_index can put a counter at another PID.
Solo == Cardinality(equipo) = 1

\* When no call to crearProceso is half way, each PCB is in NEW or in READY, in
\* only one of them and once.
NewOReady ==
  Solo /\ (\A h \in equipo : hilo[h].pc \in {"libre", "espera", "avisa"}) =>
    \A p \in 0 .. process_id - 1 : Veces(cola_new, p) + Veces(cola_ready, p) = 1

\* Once crearProceso is done with a process, lista_thread_id has its counter.
ContadorPropio ==
  Solo => \A p \in Pids :
    Contains(cola_ready, p) /\ (\A h \in equipo : hilo[h].pcb # p)
      => p + 1 \in DOMAIN lista_thread_id

\* NEW is served in order: no process reaches READY before one that arrived
\* earlier and is still waiting.
NewEsFIFO ==
  LET orden == cola_ready \o cola_new
  IN Solo => \A i, j \in DOMAIN orden : i < j => orden[i] < orden[j]

=============================================================================
