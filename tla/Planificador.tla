---------------------------- MODULE Planificador ----------------------------
(***************************************************************************)
(* The short-term scheduler of the Kernel (planificador_corto_plazo), the  *)
(* syscalls it serves between two dispatches (interpretarCPU) and the      *)
(* threads that meanwhile create hilos and queue them (crear_hilo).        *)
(*                                                                         *)
(* One kernel thread runs the scheduler; its place in the code is pc.      *)
(* mutex_lista_exec_hilo is only ever taken by that thread, so it is not   *)
(* represented; mutex_cola_ready_fifo_prioridades is.  A TCB is an element *)
(* of Tcbs, its (PID, TID) pair is id: crear_tcb never assigns the TID, so *)
(* id is any value of Ids.  TCB.estado is written and never read by FIFO   *)
(* and PRIORIDADES, and is left out.                                       *)
(*                                                                         *)
(* agregarHiloAReady pushes without the mutex: a push that overlaps        *)
(* another operation on the queue is a data race.  Its outcomes: the       *)
(* element is queued; lost (not linked, or linked and not counted, which   *)
(* no later operation reaches); counted but not linked, or linked with one *)
(* counted too many (NULL in ready).  The write of a push through a node   *)
(* that the pop has just freed is taken to damage nothing else.            *)
(***************************************************************************)
EXTENDS Integers, Sequences, FiniteSets, SequencesExt

CONSTANTS
  Algoritmos,         \* what ALGORITMO_PLANIFICACION may be
  Tcbs,               \* addresses malloc may return for a TCB
  NULL,
  Ids,                \* (PID, TID) pairs a TCB may carry; 0 stands for TID 0
  Prioridades,
  Funciones,          \* the syscalls the programs make
  Creadores,          \* kernel threads that run crear_hilo beside the scheduler
  Previos,            \* TCBs already queued when the scheduler first looks
  RespuestasMemoria,  \* what Memoria may answer, as a bool
  Basura,             \* addresses the uninitialised "elegido" may hold; NULL
                      \* stands for those that cannot be read
  MaxCola             \* bound: no dispatch with more than these in ready, no
                      \* THREAD_JOIN or DUMP_MEMORY with these in bloq

Syscalls == {"DUMP_MEMORY", "IO", "PROCESS_CREATE", "THREAD_CREATE", "THREAD_JOIN",
             "THREAD_CANCEL", "MUTEX", "THREAD_EXIT", "WRITE_MEM", "PROCESS_EXIT",
             "OTRA"}

ASSUME PlanAssumption ==
  /\ Algoritmos \subseteq {"FIFO", "PRIORIDADES", "CMN", "COLAS MULTINIVEL"}
  /\ NULL \notin Tcbs
  /\ Prioridades \subseteq Nat
  /\ Funciones \subseteq Syscalls
  /\ Previos \subseteq Tcbs /\ IsFiniteSet(Previos)
  /\ RespuestasMemoria \subseteq BOOLEAN
  /\ Basura \subseteq Tcbs \cup {NULL}
  /\ MaxCola \in Nat

VARIABLES
  algoritmo,
  proceso,     \* how the Kernel process stands
  pc,          \* where the scheduler thread is
  tcb,         \* the memory of each TCB
  exec,        \* lista_exec_hilo
  bloq,        \* lista_bloq_hilo
  ready,       \* cola_ready_fifo_prioridades
  deps,        \* lista_dependencias
  mutexReady,  \* mutex_cola_ready_fifo_prioridades taken
  cpu,         \* the TCB the CPU works on, NULL when it owes no answer
  enIO,        \* the TCB interpretarCPU sleeps for
  creando      \* per creator: the TCB whose push is under way, and if it was raced

vars == <<algoritmo, proceso, pc, tcb, exec, bloq, ready, deps, mutexReady, cpu,
          enIO, creando>>
listas == <<exec, bloq, deps>>

Punteros == Tcbs \cup {NULL}
Usos == {"sin_usar", "vivo", "liberado"}
Lugares == {"inicio", "pide_ready", "mira_ready", "espera_cpu", "en_io",
            "espera_semaforo"}

\* Lists hold TCB addresses or NULL; the scheduler is at a known place.
TypeOK ==
  /\ algoritmo \in Algoritmos
  /\ proceso \in {"en_marcha", "segv", "abort", "salio"}
  /\ pc \in Lugares
  /\ tcb \in [Tcbs -> [uso : Usos, id : Ids, prioridad : Prioridades]]
  /\ exec \in Seq(Punteros) /\ bloq \in Seq(Punteros) /\ ready \in Seq(Punteros)
  /\ deps \in Seq([hilo : Tcbs, dependiente : Punteros])
  /\ mutexReady \in BOOLEAN
  /\ cpu \in Punteros /\ enIO \in Punteros
  /\ creando \in [Creadores -> [tcb : Punteros, roto : BOOLEAN]]

EnMarcha == proceso = "en_marcha"

---------------------------------------------------------------------------
Init ==
  /\ algoritmo \in Algoritmos
  /\ proceso = "en_marcha"
  /\ pc = "inicio"
  /\ \E id \in [Tcbs -> Ids], p \in [Tcbs -> Prioridades] :
       tcb = [t \in Tcbs |->
               [uso       |-> IF t \in Previos THEN "vivo" ELSE "sin_usar",
                id        |-> id[t],
                prioridad |-> p[t]]]
  /\ ready \in SetToSeqs(Previos)
  /\ exec = <<>> /\ bloq = <<>> /\ deps = <<>>
  /\ mutexReady = FALSE
  /\ cpu = NULL /\ enIO = NULL
  /\ creando = [c \in Creadores |-> [tcb |-> NULL, roto |-> FALSE]]

---------------------------------------------------------------------------
(* Lists of TCBs.  A search stops at the first element with the id, or at a *)
(* NULL element, which it dereferences.                                     *)

Parada(lista, id) == SelectInSeq(lista, LAMBDA t : IF t = NULL THEN TRUE ELSE tcb[t].id = id)

Obtener(lista, id) ==
  LET i == Parada(lista, id) IN IF i = 0 THEN NULL ELSE lista[i]

Quita(lista, id) ==
  LET i == Parada(lista, id) IN IF i = 0 THEN lista ELSE RemoveAt(lista, i)

Tropieza(lista, id) ==
  LET i == Parada(lista, id) IN IF i = 0 THEN FALSE ELSE lista[i] = NULL

Colas == {"FIFO", "PRIORIDADES"}   \* the algorithms that use ready

(* buscarHilo, as the list it looks in last: exec, then bloq, then ready *)
DondeBusca(id) ==
  LET donde == <<exec, bloq, IF algoritmo \in Colas THEN ready ELSE <<>>>>
      i == SelectInSeq(donde, LAMBDA l : Parada(l, id) # 0)
  IN IF i = 0 THEN <<>> ELSE donde[i]

---------------------------------------------------------------------------
(* agregarHiloAReady and crear_hilo *)

Carrera == \E c \in Creadores : creando[c].tcb # NULL

EncoladaMut(cola, t, raced) == {<<t>> \o cola}

\* What the queue may be after t is pushed, raced by another thread or not.
Encolada(cola, t, raced) ==
  {Append(cola, t)}
    \cup (IF raced THEN {cola, Append(cola, NULL), Append(Append(cola, t), NULL)} ELSE {})

\* Every push under way is raced from now on.
Marcar == [c \in Creadores |-> [creando[c] EXCEPT !.roto = @ \/ creando[c].tcb # NULL]]

AgregarHilosAReadyMut(ts) ==
  IF algoritmo = "PRIORIDADES" /\ ts # <<>>
  THEN ready' = ready \o ts /\ creando' = Marcar
  ELSE UNCHANGED <<ready, creando>>

\* The scheduler pushes ts in turn.  Only FIFO and PRIORIDADES have the queue:
\* CMN has one per level, that atender_fifo and atender_prioridades never read,
\* and COLAS MULTINIVEL has no case in agregarHiloAReady.
AgregarHilosAReady(ts) ==
  IF algoritmo \in Colas /\ ts # <<>>
  THEN /\ LET colas[i \in 0 .. Len(ts)] ==
                IF i = 0 THEN {ready}
                ELSE UNION {Encolada(cola, ts[i], Carrera) : cola \in colas[i - 1]}
          IN ready' \in colas[Len(ts)]
       /\ creando' = Marcar
  ELSE UNCHANGED <<ready, creando>>

AgregarHiloAReady(t) == AgregarHilosAReady(<<t>>)

Nuevo(t, id, p) == [tcb EXCEPT ![t] = [uso |-> "vivo", id |-> id, prioridad |-> p]]

\* crear_hilo in the scheduler thread; Memoria may refuse, and the TCB is lost.
CrearHilo ==
  \E t \in Tcbs, id \in Ids, p \in Prioridades, ok \in RespuestasMemoria :
    /\ tcb[t].uso = "sin_usar"
    /\ tcb' = Nuevo(t, id, p)
    /\ IF ok THEN AgregarHiloAReady(t) ELSE UNCHANGED <<ready, creando>>

\* crear_hilo in another thread, up to the first step of the push ...
EmpezarAlta(c) ==
  /\ EnMarcha
  /\ creando[c].tcb = NULL
  /\ \E t \in Tcbs, id \in Ids, p \in Prioridades, ok \in RespuestasMemoria :
       /\ tcb[t].uso = "sin_usar"
       /\ tcb' = Nuevo(t, id, p)
       /\ creando' = IF ok
                     THEN [Marcar EXCEPT ![c] = [tcb |-> t, roto |-> Carrera]]
                     ELSE creando
  /\ UNCHANGED <<algoritmo, proceso, pc, listas, ready, mutexReady, cpu, enIO>>

\* ... and to its last one.
TerminarAlta(c) ==
  /\ EnMarcha
  /\ creando[c].tcb # NULL
  /\ IF algoritmo \in Colas
     THEN ready' \in Encolada(ready, creando[c].tcb, creando[c].roto)
     ELSE UNCHANGED ready
  /\ creando' = [Marcar EXCEPT ![c] = [tcb |-> NULL, roto |-> FALSE]]
  /\ UNCHANGED <<algoritmo, proceso, pc, tcb, listas, mutexReady, cpu, enIO>>

---------------------------------------------------------------------------
(* planificador_corto_plazo: one step up to each lock or wait *)

\* No case for CMN: the whole Kernel exits.
AlgoritmoDesconocido ==
  /\ EnMarcha /\ pc = "inicio"
  /\ algoritmo = "CMN"
  /\ proceso' = "salio"
  /\ UNCHANGED <<algoritmo, pc, tcb, listas, ready, mutexReady, cpu, enIO, creando>>

\* atender_cmn asks the queue of the first level if it is empty, and no level has
\* a queue.
AtenderCMN ==
  /\ EnMarcha /\ pc = "inicio"
  /\ algoritmo = "COLAS MULTINIVEL"
  /\ proceso' = "segv"
  /\ UNCHANGED <<algoritmo, pc, tcb, listas, ready, mutexReady, cpu, enIO, creando>>

PedirReadyMut ==
  /\ EnMarcha /\ pc = "inicio"
  /\ algoritmo \in Colas
  /\ pc' = "pide_ready"
  /\ UNCHANGED <<algoritmo, proceso, tcb, listas, ready, mutexReady, cpu, enIO, creando>>

\* With a hilo in lista_exec_hilo the loop comes back here without any effect.
PedirReady ==
  /\ EnMarcha /\ pc = "inicio"
  /\ algoritmo \in Colas
  /\ exec = <<>>
  /\ pc' = "pide_ready"
  /\ UNCHANGED <<algoritmo, proceso, tcb, listas, ready, mutexReady, cpu, enIO, creando>>

\* The mutex is not recursive: the scheduler waits here for itself if it left
\* it taken.
TomarReady ==
  /\ EnMarcha /\ pc = "pide_ready"
  /\ ~mutexReady
  /\ mutexReady' = TRUE
  /\ pc' = "mira_ready"
  /\ UNCHANGED <<algoritmo, proceso, tcb, listas, ready, cpu, enIO, creando>>

\* The branch that logs "Cola de READY vacia" does not unlock.
ReadyVacia ==
  /\ EnMarcha /\ pc = "mira_ready"
  /\ ready = <<>>
  /\ pc' = "inicio"
  /\ UNCHANGED <<algoritmo, proceso, tcb, listas, ready, mutexReady, cpu, enIO, creando>>

\* Mutant: the hilo that loses the comparison is not queued again.
CompararMut(e) ==
  LET actual == Head(e.cola)
  IN IF NULL \in {actual, e.elegido} THEN [e EXCEPT !.elegido = NULL]
     ELSE IF tcb[actual].prioridad < tcb[e.elegido].prioridad
          THEN [e EXCEPT !.cola = Tail(e.cola)]
          ELSE [cola |-> Append(Tail(e.cola), e.elegido), elegido |-> actual]

\* elegir_maxima_prioridad, from what "elegido" happens to hold: NULL in the
\* result says that a pointer that cannot be read was dereferenced.
Comparar(e) ==
  LET actual == Head(e.cola)
  IN IF NULL \in {actual, e.elegido} THEN [e EXCEPT !.elegido = NULL]
     ELSE IF tcb[actual].prioridad < tcb[e.elegido].prioridad
          THEN [e EXCEPT !.cola = Append(Tail(e.cola), actual)]
          ELSE [cola |-> Append(Tail(e.cola), e.elegido), elegido |-> actual]

elegir_maxima_prioridad(basura) ==
  LET e[i \in 0 .. Len(ready) - 1] ==
        IF i = 0 THEN [cola |-> ready, elegido |-> basura] ELSE Comparar(e[i - 1])
  IN e[Len(ready) - 1]

Elegibles ==
  IF algoritmo = "PRIORIDADES" /\ Len(ready) > 1
  THEN {elegir_maxima_prioridad(b) : b \in {x \in Basura : IF x = NULL THEN TRUE
                                                          ELSE tcb[x].uso # "sin_usar"}}
  ELSE {[cola |-> Tail(ready), elegido |-> Head(ready)]}

\* The log line reads the TCB before the test for NULL.
Despachar ==
  /\ EnMarcha /\ pc = "mira_ready"
  /\ ready # <<>> /\ Len(ready) <= MaxCola
  /\ \E e \in Elegibles :
       /\ ready' = e.cola
       /\ IF e.elegido = NULL
          THEN proceso' = "segv" /\ UNCHANGED <<exec, cpu, pc>>
          ELSE /\ exec' = Append(exec, e.elegido)
               /\ cpu' = e.elegido
               /\ pc' = "espera_cpu"
               /\ UNCHANGED proceso
  /\ mutexReady' = FALSE
  /\ creando' = Marcar
  /\ UNCHANGED <<algoritmo, tcb, bloq, deps, enIO>>

---------------------------------------------------------------------------
(* interpretarCPU: the CPU answers with the (PID, TID) it was given and f *)

Contesta(f) == EnMarcha /\ pc = "espera_cpu" /\ f \in Funciones
Id == tcb[cpu].id
Vuelve == pc' = "inicio" /\ cpu' = NULL

\* The handler dereferenced NULL.
Segv ==
  /\ proceso' = "segv"
  /\ UNCHANGED <<algoritmo, pc, tcb, listas, ready, mutexReady, cpu, enIO, creando>>

\* The loop of buscarDependiente: list_remove(i) moves the next dependency to
\* place i, and i++ passes over it.
Revisar(r, d, t) ==
  IF ~r.salta /\ d.hilo = t /\ d.dependiente # NULL
  THEN [r EXCEPT !.listos = Append(@, d.dependiente), !.salta = TRUE]
  ELSE [r EXCEPT !.quedan = Append(@, d), !.salta = FALSE]

DespertarA(t) ==
  LET r[i \in 0 .. Len(deps)] ==
        IF i = 0 THEN [quedan |-> <<>>, listos |-> <<>>, salta |-> FALSE]
        ELSE Revisar(r[i - 1], deps[i], t)
  IN r[Len(deps)]

tieneDependiente(t) ==
  LET i == SelectInSeq(deps, LAMBDA d : d.hilo = t)
  IN IF i = 0 THEN FALSE ELSE deps[i].dependiente # NULL

\* finalizar_hilo(t), with lista_bloq_hilo as the handler leaves it: liberar_tcb
\* and then free, which also overwrites the id that was in the memory.
FinalizarHilo(t, enBloq) ==
  \/ /\ FALSE \in RespuestasMemoria
     /\ bloq' = enBloq
     /\ Vuelve
     /\ UNCHANGED <<proceso, tcb, ready, deps, creando>>
  \/ /\ TRUE \in RespuestasMemoria
     /\ IF tieneDependiente(t)
        THEN /\ deps' = DespertarA(t).quedan
             /\ AgregarHilosAReady(DespertarA(t).listos)
             /\ bloq' = Quita(enBloq, tcb[t].id)
        ELSE bloq' = enBloq /\ UNCHANGED <<deps, ready, creando>>
     /\ proceso' = IF tieneDependiente(t) /\ Tropieza(enBloq, tcb[t].id) THEN "segv"
                   ELSE IF tcb[t].uso = "liberado" THEN "abort" ELSE proceso
     /\ \E id \in Ids : tcb' = [tcb EXCEPT ![t].uso = "liberado", ![t].id = id]
     /\ Vuelve

IOMut ==
  /\ Contesta("IO")
  /\ enIO' = Obtener(exec, Id)
  /\ pc' = "en_io"
  /\ cpu' = NULL
  /\ UNCHANGED <<algoritmo, proceso, tcb, listas, ready, mutexReady, creando>>

IO ==
  /\ Contesta("IO")
  /\ enIO' = Obtener(exec, Id)
  /\ exec' = Quita(exec, Id)
  /\ pc' = "en_io"
  /\ cpu' = NULL
  /\ UNCHANGED <<algoritmo, proceso, tcb, bloq, ready, deps, mutexReady, creando>>

FinIO ==
  /\ EnMarcha /\ pc = "en_io"
  /\ AgregarHiloAReady(enIO)
  /\ enIO' = NULL
  /\ pc' = "inicio"
  /\ UNCHANGED <<algoritmo, proceso, tcb, listas, mutexReady, cpu>>

THREAD_EXITMut ==
  /\ Contesta("THREAD_EXIT")
  /\ FinalizarHilo(Obtener(exec, Id), bloq)
  /\ UNCHANGED <<algoritmo, exec, mutexReady, enIO>>

THREAD_EXIT ==
  /\ Contesta("THREAD_EXIT")
  /\ exec' = Quita(exec, Id)
  /\ FinalizarHilo(Obtener(exec, Id), bloq)
  /\ UNCHANGED <<algoritmo, mutexReady, enIO>>

THREAD_CREATE ==
  /\ Contesta("THREAD_CREATE")
  /\ CrearHilo
  /\ Vuelve
  /\ UNCHANGED <<algoritmo, proceso, listas, mutexReady, enIO>>

\* crearProceso in this thread: hilo 0 is created, or the process is left in
\* NEW, or Memoria refuses and the scheduler waits for sem_nuevoProceso.
PROCESS_CREATE ==
  /\ Contesta("PROCESS_CREATE")
  /\ \/ CrearHilo /\ Vuelve
     \/ Vuelve /\ UNCHANGED <<tcb, ready, creando>>
     \/ pc' = "espera_semaforo" /\ cpu' = NULL /\ UNCHANGED <<tcb, ready, creando>>
  /\ UNCHANGED <<algoritmo, proceso, listas, mutexReady, enIO>>

THREAD_JOINMut ==
  /\ Contesta("THREAD_JOIN") /\ Len(bloq) < MaxCola
  /\ \E id \in Ids :
       /\ deps' = Append(deps, [hilo        |-> Obtener(DondeBusca(id), id),
                                dependiente |-> Obtener(exec, id)])
       /\ exec' = Quita(exec, id)
       /\ bloq' = Append(bloq, Obtener(exec, id))
  /\ Vuelve
  /\ UNCHANGED <<algoritmo, proceso, tcb, ready, mutexReady, enIO, creando>>

\* Looks the argument up in lista_exec_hilo again: NULL unless it is the caller.
THREAD_JOIN ==
  /\ Contesta("THREAD_JOIN") /\ Len(bloq) < MaxCola
  /\ \E id \in Ids :
       IF Tropieza(DondeBusca(id), id) THEN Segv
       ELSE /\ LET hilo        == Obtener(DondeBusca(id), id)
                   dependiente == Obtener(exec, id)
               IN IF hilo = NULL THEN UNCHANGED listas
                  ELSE /\ deps' = Append(deps, [hilo |-> hilo, dependiente |-> dependiente])
                       /\ exec' = Quita(exec, id)
                       /\ bloq' = Append(bloq, dependiente)
            /\ Vuelve
            /\ UNCHANGED <<algoritmo, proceso, tcb, ready, mutexReady, enIO, creando>>

\* The lists the hilo is in keep it.
THREAD_CANCEL ==
  /\ Contesta("THREAD_CANCEL")
  /\ \E id \in Ids :
       LET hilo == Obtener(DondeBusca(id), id)
       IN IF hilo = NULL THEN Segv
          ELSE /\ FinalizarHilo(hilo, bloq)
               /\ UNCHANGED <<algoritmo, exec, mutexReady, enIO>>

\* The first removal is given the TCB as if it were the list: with PID and TID 0
\* it looks empty, otherwise its first word is dereferenced.  The sign of what
\* RecibirBuffer returns is the one of an address.
DUMP_MEMORY ==
  /\ Contesta("DUMP_MEMORY") /\ Len(bloq) < MaxCola
  /\ \/ Segv
     \/ LET hilo == Obtener(exec, Id)
            bloqueados == Append(bloq, hilo)
        IN \/ /\ exec' = Quita(exec, Id)
              /\ FinalizarHilo(hilo, bloqueados)
              /\ UNCHANGED <<algoritmo, mutexReady, enIO>>
           \/ /\ proceso' = IF Tropieza(bloqueados, Id) THEN "segv" ELSE proceso
              /\ bloq' = Quita(bloqueados, Id)
              /\ exec' = Append(exec, hilo)
              /\ Vuelve
              /\ UNCHANGED <<algoritmo, tcb, ready, deps, mutexReady, enIO, creando>>

\* cola_exec is never filled, obtener_PCB_por_PID returns NULL: the MUTEX
\* handlers and finalizarProceso dereference it.
ConPCB ==
  /\ \/ Contesta("MUTEX")
     \/ Contesta("WRITE_MEM")
     \/ Contesta("PROCESS_EXIT") /\ Id = 0
  /\ Segv

\* WRITE_MEM without error, PROCESS_EXIT outside hilo 0, and the default case.
SinEfecto ==
  /\ \/ Contesta("WRITE_MEM")
     \/ Contesta("PROCESS_EXIT") /\ Id # 0
     \/ Contesta("OTRA")
  /\ Vuelve
  /\ UNCHANGED <<algoritmo, proceso, tcb, listas, ready, mutexReady, enIO, creando>>

Planificador ==
  \/ AlgoritmoDesconocido \/ AtenderCMN
  \/ PedirReady \/ TomarReady \/ ReadyVacia \/ Despachar \/ FinIO
Interpretar ==
  \/ IO \/ THREAD_EXIT \/ THREAD_CREATE \/ PROCESS_CREATE \/ THREAD_JOIN
  \/ THREAD_CANCEL \/ DUMP_MEMORY \/ ConPCB \/ SinEfecto
Next ==
  \/ Planificador
  \/ Interpretar
  \/ \E c \in Creadores : EmpezarAlta(c) \/ TerminarAlta(c)

Spec == Init /\ [][Next]_vars

\* The scheduler thread keeps running, the CPU answers, a push under way ends.
Fairness ==
  /\ WF_vars(Planificador) /\ WF_vars(Interpretar)
  /\ \A c \in Creadores : WF_vars(TerminarAlta(c))

FairSpec == Spec /\ Fairness

---------------------------------------------------------------------------
(* Properties *)

\* One hilo at most is in EXEC, and it is the one the CPU works on: no handler
\* and no dispatch leaves a second one behind (atender_fifo, interpretarCPU).
EjecutaUno ==
  /\ Len(exec) <= 1
  /\ cpu # NULL => exec = <<cpu>>

Contiene(lista, t) == \E i \in DOMAIN lista : lista[i] = t

\* A hilo leaves READY for the CPU and for nothing else: whatever the uninitialised
\* elegido holds, the rotation of elegir_maxima_prioridad drops nobody, and neither
\* does a wake-up, a syscall that fails or a push that is raced.
ReadyConserva ==
  [][EnMarcha' => \A t \in Tcbs :
       Contiene(ready, t) => Contiene(ready', t) \/ cpu' = t]_vars

Veces(lista, t) == Cardinality({i \in DOMAIN lista : lista[i] = t})

\* No list, dependency or pending IO holds a TCB that finalizar_hilo freed.
SinColgados ==
  \A t \in Tcbs : tcb[t].uso = "liberado" =>
    /\ ~Contiene(exec, t) /\ ~Contiene(bloq, t) /\ ~Contiene(ready, t)
    /\ enIO # t
    /\ \A i \in DOMAIN deps : t \notin {deps[i].hilo, deps[i].dependiente}

\* A TCB is in one list at most, and once: list_add, queue_push and the removals
\* of the handlers keep EXEC, BLOCKED and READY disjoint.
EnCurso(t) == Cardinality({c \in Creadores : creando[c].tcb = t})
Presencias(t) ==
  Veces(exec, t) + Veces(bloq, t) + Veces(ready, t) + (IF enIO = t THEN 1 ELSE 0)
  + EnCurso(t)
LugarUnico == \A t \in Tcbs : Presencias(t) <= 1

\* No hilo is lost: while Memoria accepts every request, each live TCB is in
\* exactly one list, in IO, or being created (agregarHiloAReady, atender_fifo).
NingunoPerdido == \A t \in Tcbs : tcb[t].uso = "vivo" => Presencias(t) = 1

\* The scheduler implements CicloDeVida: a hilo is where its list says.
EstadoDe(t) ==
  CASE tcb[t].uso = "sin_usar"              -> "nuevo"
    [] \E c \in Creadores : creando[c].tcb = t -> "nuevo"
    [] Contiene(exec, t)                    -> "ejecuta"
    [] Contiene(ready, t)                   -> "listo"
    [] Contiene(bloq, t) \/ enIO = t        -> "espera"
    [] OTHER                                -> "fin"

Ciclo == INSTANCE CicloDeVida WITH Hilos <- Tcbs, estado <- [t \in Tcbs |-> EstadoDe(t)]

\* Every step of the scheduler, of a handler or of a creator moves at most one
\* hilo along the life cycle, and none of them resurrects one (with programs
\* that use neither THREAD_CANCEL nor DUMP_MEMORY).
CumpleCiclo == Ciclo!Spec

\* Every hilo that was ready at the start and never ends runs again and again
\* under FIFO: each IO puts its hilo behind all those that were waiting.
SinInanicion == \A t \in Previos : []<>(cpu = t)

---------------------------------------------------------------------------
(* What a comment of the code promises and the code does not do: a run refutes it. *)

\* A hilo in READY is planned: k_corto_plazo.c:37 puts "al TCB que corresponde
\* en exec" for as long as the loop runs.
ListoSePlanifica == \A t \in Tcbs : Contiene(ready, t) ~> (cpu = t)

=============================================================================
