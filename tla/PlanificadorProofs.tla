------------------------- MODULE PlanificadorProofs -------------------------
(***************************************************************************)
(* Proofs about Planificador, for every algorithm, set of TCBs, set of     *)
(* syscalls and number of creators; those on the place of each hilo leave  *)
(* out the algorithm and the syscalls that SinDanos names.                 *)
(***************************************************************************)
EXTENDS Planificador, SecuenciasProofs

(***************************************************************************)
(* lista_exec_hilo is a sequence of something: what it holds does not      *)
(* matter here.                                                            *)
(***************************************************************************)
EsLista(l) == \E S : l \in Seq(S)

\* The search of the lists finds a position of the list, or none.
LEMMA ParadaEnLista ==
  ASSUME NEW l, EsLista(l), NEW id
  PROVE  Parada(l, id) \in 0 .. Len(l)
<1> DEFINE I == {i \in 1 .. Len(l) : IF l[i] = NULL THEN TRUE ELSE tcb[l[i]].id = id}
<1>1. Len(l) \in Nat
  BY LenProperties DEF EsLista
<1>2. I \in SUBSET Nat /\ I \subseteq 1 .. Len(l)
  BY <1>1
<1>3. Parada(l, id) = IF I # {} THEN Min(I) ELSE 0
  BY DEF Parada, SelectInSeq
<1> HIDE DEF I
<1>4. I # {} => Min(I) \in I
  BY <1>2, MinNat
<1>5. Parada(l, id) = 0 \/ Parada(l, id) \in 1 .. Len(l)
  <2>1. CASE I = {}
    BY <1>3, <2>1
  <2>2. CASE I # {}
    BY <1>2, <1>3, <1>4, <2>2
  <2> QED
    BY <2>1, <2>2
<1> QED
  BY <1>1, <1>5

\* A removal leaves a list, shorter by one at most.
LEMMA QuitaDeLista ==
  ASSUME NEW l, EsLista(l), NEW id
  PROVE  /\ EsLista(Quita(l, id))
         /\ Len(Quita(l, id)) <= Len(l)
<1>1. PICK S : l \in Seq(S)
  BY DEF EsLista
<1>2. Parada(l, id) \in 0 .. Len(l) /\ Len(l) \in Nat
  BY <1>1, ParadaEnLista, LenProperties
<1>3. CASE Parada(l, id) = 0
  BY <1>1, <1>2, <1>3 DEF Quita, EsLista
<1>4. CASE Parada(l, id) # 0
  <2>1. Parada(l, id) \in 1 .. Len(l)
    BY <1>2, <1>4
  <2>2. Quita(l, id) = RemoveAt(l, Parada(l, id))
    BY <1>4 DEF Quita
  <2>3. Quita(l, id) \in Seq(S) /\ Len(Quita(l, id)) = Len(l) - 1
    BY <1>1, <2>1, <2>2, RemoveAtElements
  <2> QED
    BY <1>2, <2>3 DEF EsLista
<1> QED
  BY <1>3, <1>4

LEMMA AgregarALista ==
  ASSUME NEW l, EsLista(l), NEW e
  PROVE  /\ EsLista(Append(l, e))
         /\ Len(Append(l, e)) = Len(l) + 1
         /\ Append(l, e)[Len(l) + 1] = e
         /\ DOMAIN Append(l, e) = 1 .. Len(l) + 1
<1>1. PICK S : l \in Seq(S)
  BY DEF EsLista
<1>2. l \in Seq(S \cup {e})
  BY <1>1, SeqMonotonic
<1> QED
  BY <1>2, AppendProperties DEF EsLista

(***************************************************************************)
(* While the CPU owes an answer the scheduler waits for it and its hilo is *)
(* in lista_exec_hilo, with every algorithm and every syscall.             *)
(***************************************************************************)
CpuConDuenio == cpu # NULL => pc = "espera_cpu" /\ \E i \in DOMAIN exec : exec[i] = cpu
InvCpu == CpuConDuenio /\ EsLista(exec)

Suelta == {"inicio", "en_io", "espera_semaforo"}

\* What the handlers of interpretarCPU have in common: the CPU owes nothing when
\* they are done, or the process is; and only DUMP_MEMORY adds to lista_exec_hilo.
Atendida ==
  /\ EsLista(exec')
  /\ (cpu' = NULL /\ pc' \in Suelta) \/ UNCHANGED <<cpu, pc, exec>>
  /\ Len(exec') <= Len(exec) \/ "DUMP_MEMORY" \in Funciones

LEMMA InterpretarAtiende ==
  ASSUME EsLista(exec), Interpretar
  PROVE  Atendida
<1> USE DEF Atendida, Suelta
<1>0. Len(exec) \in Nat
  BY LenProperties DEF EsLista
<1>1. ASSUME NEW t, NEW l, FinalizarHilo(t, l)
      PROVE  Vuelve
  BY <1>1 DEF FinalizarHilo
<1>2. ASSUME NEW id
      PROVE  /\ EsLista(Quita(exec, id)) /\ Len(Quita(exec, id)) <= Len(exec)
             /\ \A e : EsLista(Append(exec, e))
  BY QuitaDeLista, AgregarALista
<1>3. ASSUME UNCHANGED exec, Vuelve
      PROVE  Atendida
  BY <1>0, <1>3 DEF Vuelve
<1>4. ASSUME NEW id, exec' = Quita(exec, id), Vuelve
      PROVE  Atendida
  BY <1>2, <1>4 DEF Vuelve
<1>5. ASSUME Segv
      PROVE  Atendida
  BY <1>0, <1>5 DEF Segv, listas
<1> HIDE DEF Atendida
<1>6. CASE IO
  BY <1>2, <1>6 DEF IO, Atendida
<1>7. CASE THREAD_EXIT
  BY <1>1, <1>4, <1>7 DEF THREAD_EXIT
<1>8. CASE THREAD_CREATE
  BY <1>3, <1>8 DEF THREAD_CREATE, listas
<1>9. CASE PROCESS_CREATE
  <2>1. CASE Vuelve
    BY <1>3, <1>9, <2>1 DEF PROCESS_CREATE, listas
  <2>2. CASE pc' = "espera_semaforo" /\ cpu' = NULL
    BY <1>0, <1>9, <2>2 DEF PROCESS_CREATE, listas, Atendida
  <2> QED
    BY <1>9, <2>1, <2>2 DEF PROCESS_CREATE
<1>10. CASE THREAD_JOIN
  <2>1. CASE Vuelve
    <3>1. UNCHANGED exec \/ (\E id \in Ids : exec' = Quita(exec, id)) \/ Segv
      BY <1>10, <2>1 DEF THREAD_JOIN, listas
    <3> QED
      BY <1>3, <1>4, <1>5, <2>1, <3>1
  <2> QED
    BY <1>5, <1>10, <2>1 DEF THREAD_JOIN
<1>11. CASE THREAD_CANCEL
  <2>1. CASE UNCHANGED exec /\ \E t : FinalizarHilo(t, bloq)
    BY <1>1, <1>3, <2>1
  <2> QED
    BY <1>5, <1>11, <2>1 DEF THREAD_CANCEL
<1>12. CASE DUMP_MEMORY
  <2>1. "DUMP_MEMORY" \in Funciones
    BY <1>12 DEF DUMP_MEMORY, Contesta
  <2>2. CASE exec' = Quita(exec, Id) /\ \E t, l : FinalizarHilo(t, l)
    BY <1>1, <1>4, <2>2
  <2>3. CASE Vuelve /\ \E e : exec' = Append(exec, e)
    BY <1>2, <2>1, <2>3 DEF Vuelve, Atendida
  <2> QED
    BY <1>5, <1>12, <2>2, <2>3 DEF DUMP_MEMORY
<1>13. CASE ConPCB
  BY <1>5, <1>13 DEF ConPCB
<1>14. CASE SinEfecto
  BY <1>3, <1>14 DEF SinEfecto, listas
<1> QED
  BY <1>6, <1>7, <1>8, <1>9, <1>10, <1>11, <1>12, <1>13, <1>14 DEF Interpretar

\* The steps between two dispatches do not touch what the CPU works on.
LEMMA PlanificadorQuieto ==
  ASSUME Planificador, ~Despachar
  PROVE  UNCHANGED <<exec, cpu>> /\ pc # "espera_cpu"
BY DEF Planificador, AlgoritmoDesconocido, AtenderCMN, PedirReady, TomarReady, ReadyVacia,
       FinIO, listas

LEMMA CreadoresQuietos ==
  ASSUME NEW c \in Creadores, EmpezarAlta(c) \/ TerminarAlta(c)
  PROVE  UNCHANGED <<exec, cpu, pc>>
BY DEF EmpezarAlta, TerminarAlta, listas

\* A dispatch gives the CPU the hilo it adds to lista_exec_hilo, or the process
\* faults.
LEMMA DespacharAgrega ==
  ASSUME Despachar
  PROVE  \/ UNCHANGED <<exec, cpu, pc>>
         \/ exec' = Append(exec, cpu') /\ cpu' # NULL /\ pc' = "espera_cpu"
BY DEF Despachar

LEMMA InvCpuPaso ==
  ASSUME InvCpu, [Next]_vars
  PROVE  InvCpu'
<1> USE DEF InvCpu, CpuConDuenio
<1>1. CASE UNCHANGED <<exec, cpu, pc>>
  BY <1>1 DEF EsLista
<1>2. CASE Interpretar
  <2>1. Atendida
    BY <1>2, InterpretarAtiende
  <2> QED
    BY <1>1, <2>1 DEF Atendida
<1>3. CASE Despachar
  <2>1. CASE exec' = Append(exec, cpu') /\ cpu' # NULL /\ pc' = "espera_cpu"
    <3>1. Len(exec) + 1 \in 1 .. Len(exec) + 1
      BY LenProperties DEF EsLista
    <3> QED
      BY <2>1, <3>1, AgregarALista
  <2> QED
    BY <1>1, <1>3, <2>1, DespacharAgrega
<1>4. CASE Planificador /\ ~Despachar
  <2>1. UNCHANGED <<exec, cpu>> /\ cpu = NULL
    BY <1>4, PlanificadorQuieto
  <2> QED
    BY <2>1 DEF EsLista
<1>5. CASE \E c \in Creadores : EmpezarAlta(c) \/ TerminarAlta(c)
  BY <1>1, <1>5, CreadoresQuietos
<1>6. CASE UNCHANGED vars
  BY <1>1, <1>6 DEF vars, listas
<1> QED
  BY <1>2, <1>3, <1>4, <1>5, <1>6 DEF Next

(***************************************************************************)
(* One hilo at most is in EXEC.  A dispatch happens only from the places   *)
(* where the scheduler has seen lista_exec_hilo empty, so the invariant    *)
(* adds that it is still empty there.                                      *)
(***************************************************************************)
InvUno ==
  /\ InvCpu
  /\ EjecutaUno
  /\ pc \in {"pide_ready", "mira_ready"} => exec = <<>>

LEMMA InvUnoPaso ==
  ASSUME "DUMP_MEMORY" \notin Funciones, InvUno, [Next]_vars
  PROVE  InvUno'
<1>1. InvCpu'
  BY InvCpuPaso DEF InvUno
<1>2. EsLista(exec) /\ Len(exec) \in Nat /\ EsLista(exec') /\ Len(exec') \in Nat
  BY <1>1, LenProperties DEF InvUno, InvCpu, EsLista
<1> USE DEF InvUno, EjecutaUno
<1>3. CASE UNCHANGED <<exec, cpu, pc>>
  BY <1>1, <1>3
<1>4. CASE Interpretar
  <2>1. Atendida
    BY <1>2, <1>4, InterpretarAtiende
  <2>2. CASE cpu' = NULL /\ pc' \in Suelta /\ Len(exec') <= Len(exec)
    BY <1>1, <1>2, <2>2 DEF Suelta
  <2> QED
    BY <1>3, <2>1, <2>2 DEF Atendida
<1>5. CASE Despachar
  <2>1. CASE exec' = Append(exec, cpu') /\ cpu' # NULL /\ pc' = "espera_cpu"
    <3>1. exec = <<>>
      BY <1>5 DEF Despachar
    <3>2. exec' = <<cpu'>>
      BY <2>1, <3>1
    <3> QED
      BY <1>1, <2>1, <3>2
  <2> QED
    BY <1>3, <1>5, <2>1, DespacharAgrega
<1>6. CASE Planificador /\ ~Despachar
  <2>1. UNCHANGED <<exec, cpu>>
    BY <1>6, PlanificadorQuieto
  <2>2. pc' \in {"pide_ready", "mira_ready"} => exec = <<>>
    BY <1>6 DEF Planificador, AlgoritmoDesconocido, AtenderCMN, PedirReady, TomarReady,
                ReadyVacia, FinIO
  <2> QED
    BY <1>1, <2>1, <2>2
<1>7. CASE \E c \in Creadores : EmpezarAlta(c) \/ TerminarAlta(c)
  BY <1>3, <1>7, CreadoresQuietos
<1>8. CASE UNCHANGED vars
  BY <1>3, <1>8 DEF vars, listas
<1> QED
  BY <1>4, <1>5, <1>6, <1>7, <1>8 DEF Next

LEMMA UnoInicio ==
  ASSUME Init
  PROVE  InvUno
<1>1. cpu = NULL /\ exec = <<>> /\ pc = "inicio"
  BY DEF Init
<1>2. EsLista(exec) /\ Len(exec) = 0
  BY <1>1, EmptySeq DEF EsLista
<1> QED
  BY <1>1, <1>2 DEF InvUno, InvCpu, CpuConDuenio, EjecutaUno

\* EjecutaUno for every value of the constants, with programs that do not call
\* DUMP_MEMORY, whose second removal never finds its hilo (main.c:260).
THEOREM EjecutaDeAUno ==
  ASSUME "DUMP_MEMORY" \notin Funciones
  PROVE  Spec => []EjecutaUno
<1>1. Init => InvUno
  BY UnoInicio
<1>2. InvUno /\ [Next]_vars => InvUno'
  BY InvUnoPaso
<1>3. InvUno => EjecutaUno
  BY DEF InvUno
<1> QED
  BY <1>1, <1>2, <1>3, PTL DEF Spec

(***************************************************************************)
(* Types.  The three loops of the scheduler over a queue or a list are     *)
(* recursive functions: each exists and stays in its type.                 *)
(***************************************************************************)
Cola == Seq(Punteros)
Dependencias == [hilo : Tcbs, dependiente : Punteros]

\* What the proofs need of the constants.
LEMMA Supuestos ==
  /\ NULL \notin Tcbs
  /\ Previos \subseteq Tcbs /\ IsFiniteSet(Previos)
  /\ Basura \subseteq Punteros
BY PlanAssumption, Zenon DEF Punteros

SinRepetir(l) == \A i, j \in DOMAIN l : l[i] = l[j] /\ l[i] # NULL => i = j

(***************************************************************************)
(* What the operations on lists do to the TCBs a list contains.            *)
(***************************************************************************)
LEMMA ContieneVacia ==
  \A t : ~ Contiene(<<>>, t)
BY DEF Contiene

LEMMA ContieneUno ==
  ASSUME NEW t
  PROVE  \A u : Contiene(<<t>>, u) <=> u = t
BY DEF Contiene

LEMMA ContieneAgregar ==
  ASSUME NEW l \in Cola, NEW e \in Punteros
  PROVE  /\ Append(l, e) \in Cola
         /\ \A t : Contiene(Append(l, e), t) <=> Contiene(l, t) \/ t = e
         /\ SinRepetir(l) /\ (e = NULL \/ ~ Contiene(l, e)) => SinRepetir(Append(l, e))
<1> DEFINE m == Append(l, e)
<1>1. Len(l) \in Nat /\ DOMAIN l = 1 .. Len(l)
  BY LenProperties DEF Cola
<1>2. /\ m \in Cola /\ DOMAIN m = 1 .. Len(l) + 1
      /\ m[Len(l) + 1] = e /\ \A i \in 1 .. Len(l) : m[i] = l[i]
  BY <1>1, AppendProperties, LenProperties DEF Cola
<1> HIDE DEF m
<1>3. \A t : Contiene(m, t) <=> Contiene(l, t) \/ t = e
  BY <1>1, <1>2 DEF Contiene
<1>4. ASSUME SinRepetir(l), e = NULL \/ ~ Contiene(l, e)
      PROVE  SinRepetir(m)
  <2> SUFFICES ASSUME NEW i \in DOMAIN m, NEW j \in DOMAIN m, m[i] = m[j], m[i] # NULL
               PROVE  i = j
    BY DEF SinRepetir
  <2>1. CASE i \in 1 .. Len(l) /\ j \in 1 .. Len(l)
    BY <1>1, <1>2, <1>4, <2>1 DEF SinRepetir
  <2>2. CASE i = Len(l) + 1 \/ j = Len(l) + 1
    BY <1>1, <1>2, <1>4, <2>2 DEF Contiene
  <2> QED
    BY <1>1, <1>2, <2>1, <2>2
<1> QED
  BY <1>2, <1>3, <1>4 DEF m

LEMMA ContieneResto ==
  ASSUME NEW l \in Cola, l # <<>>
  PROVE  /\ Head(l) \in Punteros /\ Tail(l) \in Cola
         /\ \A t : Contiene(l, t) <=> Contiene(Tail(l), t) \/ t = Head(l)
         /\ SinRepetir(l) =>
              SinRepetir(Tail(l)) /\ (Head(l) # NULL => ~ Contiene(Tail(l), Head(l)))
<1> DEFINE m == Tail(l)
<1>1. Len(l) \in Nat /\ DOMAIN l = 1 .. Len(l) /\ Len(l) > 0
  BY LenProperties, EmptySeq DEF Cola
<1>2. /\ m \in Cola /\ DOMAIN m = 1 .. Len(l) - 1 /\ Head(l) = l[1] /\ Head(l) \in Punteros
      /\ \A i \in 1 .. Len(l) - 1 : m[i] = l[i + 1]
  BY <1>1, HeadTailProperties, LenProperties DEF Cola
<1> HIDE DEF m
<1>3. ASSUME NEW t
      PROVE  Contiene(l, t) <=> Contiene(m, t) \/ t = Head(l)
  <2>1. ASSUME NEW i \in DOMAIN l, i # 1
        PROVE  i - 1 \in DOMAIN m /\ m[i - 1] = l[i]
    BY <1>1, <1>2, <2>1
  <2>2. ASSUME NEW i \in DOMAIN m
        PROVE  i + 1 \in DOMAIN l /\ m[i] = l[i + 1]
    BY <1>1, <1>2
  <2>3. 1 \in DOMAIN l /\ Head(l) = l[1]
    BY <1>1, <1>2
  <2> QED
    BY <2>1, <2>2, <2>3 DEF Contiene
<1>4. ASSUME SinRepetir(l)
      PROVE  SinRepetir(m)
  <2> SUFFICES ASSUME NEW i \in DOMAIN m, NEW j \in DOMAIN m, m[i] = m[j], m[i] # NULL
               PROVE  i = j
    BY DEF SinRepetir
  <2>1. /\ i + 1 \in DOMAIN l /\ m[i] = l[i + 1]
        /\ j + 1 \in DOMAIN l /\ m[j] = l[j + 1]
    BY <1>1, <1>2
  <2>2. i + 1 = j + 1
    BY <1>4, <2>1 DEF SinRepetir
  <2> QED
    BY <1>1, <1>2, <2>2
<1>5. ASSUME SinRepetir(l), Head(l) # NULL, Contiene(m, Head(l))
      PROVE  FALSE
  <2>1. PICK i \in DOMAIN m : m[i] = Head(l)
    BY <1>5 DEF Contiene
  <2>2. 1 \in DOMAIN l /\ i + 1 \in DOMAIN l /\ l[i + 1] = l[1] /\ i + 1 # 1
    BY <1>1, <1>2, <2>1
  <2> QED
    BY <1>2, <1>5, <2>2 DEF SinRepetir
<1> QED
  BY <1>2, <1>3, <1>4, <1>5 DEF m

LEMMA ListasEnTipo ==
  ASSUME NEW l \in Cola, NEW id
  PROVE  Obtener(l, id) \in Punteros /\ Quita(l, id) \in Cola
<1> USE DEF Cola
<1>1. EsLista(l) /\ Len(l) \in Nat /\ NULL \in Punteros
  BY LenProperties DEF EsLista, Punteros
<1>2. Parada(l, id) \in 0 .. Len(l)
  BY <1>1, ParadaEnLista
<1>3. CASE Parada(l, id) = 0
  BY <1>1, <1>3 DEF Obtener, Quita
<1>4. CASE Parada(l, id) # 0
  <2>1. Parada(l, id) \in 1 .. Len(l)
    BY <1>1, <1>2, <1>4
  <2>2. l[Parada(l, id)] \in Punteros
    BY <2>1, ElementOfSeq
  <2>3. RemoveAt(l, Parada(l, id)) \in Cola
    BY <2>1, RemoveAtElements
  <2> QED
    BY <1>4, <2>2, <2>3 DEF Obtener, Quita
<1> QED
  BY <1>3, <1>4

LEMMA EncoladaEnTipo ==
  ASSUME NEW cola \in Cola, NEW t \in Punteros, NEW raced
  PROVE  /\ Encolada(cola, t, raced) \subseteq Cola
         /\ \A u : Contiene(cola, u) =>
              \A q \in Encolada(cola, t, raced) : Contiene(q, u)
<1>1. NULL \in Punteros
  BY DEF Punteros
<1>2. Append(cola, t) \in Cola /\ Append(cola, NULL) \in Cola
      /\ Append(Append(cola, t), NULL) \in Cola
  BY <1>1, ContieneAgregar
<1>3. ASSUME NEW u, Contiene(cola, u), NEW q \in Encolada(cola, t, raced)
      PROVE  Contiene(q, u)
  <2>1. Contiene(Append(cola, t), u) /\ Contiene(Append(cola, NULL), u)
    BY <1>1, <1>3, ContieneAgregar
  <2>2. Contiene(Append(Append(cola, t), NULL), u)
    BY <1>1, <1>2, <2>1, ContieneAgregar
  <2> QED
    BY <1>3, <2>1, <2>2 DEF Encolada
<1> QED
  BY <1>2, <1>3 DEF Encolada

\* What the loop over colas gives: one set of queues for each number of pushes, and
\* all of them hold what READY held.
Conserva(q) == \A t : Contiene(ready, t) => Contiene(q, t)

LEMMA AgregarEnTipo ==
  ASSUME ready \in Cola, NEW ts \in Cola, AgregarHilosAReady(ts)
  PROVE  ready' \in Cola /\ Conserva(ready') /\ (creando' = Marcar \/ creando' = creando)
<1> DEFINE n == Len(ts)
           T == SUBSET {q \in Cola : Conserva(q)}
           paso(i, q) == UNION {Encolada(cola, ts[i], Carrera) : cola \in q}
           def(g) == [i \in 0 .. n |-> IF i = 0 THEN {ready} ELSE paso(i, g[i - 1])]
           colas == CHOOSE g : g = def(g)
<1>1. CASE UNCHANGED <<ready, creando>>
  BY <1>1 DEF Conserva
<1>2. CASE algoritmo \in Colas /\ ts # <<>>
  <2>1. ready' \in colas[n] /\ creando' = Marcar
    BY <1>2 DEF AgregarHilosAReady
  <2>2. n \in Nat /\ \A i \in 1 .. n : ts[i] \in Punteros
    BY LenProperties, ElementOfSeq DEF Cola
  <2>3. \A i \in 1 .. n, q \in T : paso(i, q) \in T
    <3> SUFFICES ASSUME NEW i \in 1 .. n, NEW q \in T, NEW cola \in q,
                        NEW r \in Encolada(cola, ts[i], Carrera)
                 PROVE  r \in Cola /\ Conserva(r)
      OBVIOUS
    <3>1. cola \in Cola /\ Conserva(cola) /\ ts[i] \in Punteros
      BY <2>2
    <3> QED
      BY <3>1, EncoladaEnTipo DEF Conserva
  <2>8. {ready} \in T
    BY DEF Conserva
  <2> HIDE DEF n, paso, T
  <2>4. \E g : g = def(g)
    <3> DEFINE F == [i \in 1 .. n |-> [q \in T |-> paso(i, q)]]
    <3>1. F \in [1 .. n -> [T -> T]]
      BY <2>3
    <3> HIDE DEF F
    <3>2. PICK g \in [0 .. n -> T] : Itera(g, n, {ready}, F)
      BY <2>2, <2>8, <3>1, RecursionExiste
    <3>3. \A i \in 1 .. n : g[i] = paso(i, g[i - 1])
      <4> SUFFICES ASSUME NEW i \in 1 .. n PROVE g[i] = paso(i, g[i - 1])
        OBVIOUS
      <4>1. g[i - 1] \in T /\ g[i] = F[i][g[i - 1]]
        BY <2>2, <3>2 DEF Itera
      <4>2. F[i] = [q \in T |-> paso(i, q)]
        BY DEF F
      <4> QED
        BY <4>1, <4>2
    <3>4. g = def(g)
      BY <2>2, <3>2, <3>3 DEF Itera
    <3> QED
      BY <3>4
  <2>5. colas = def(colas)
    BY <2>4
  <2> HIDE DEF colas
  <2>6. Hereda(colas, n, T)
    <3>1. colas[0] = {ready} /\ \A i \in 1 .. n : colas[i] = paso(i, colas[i - 1])
      <4>1. PICK f : f = def(colas)
        OBVIOUS
      <4>2. f[0] = {ready} /\ \A i \in 1 .. n : f[i] = paso(i, colas[i - 1])
        BY <2>2, <4>1
      <4> QED
        BY <2>5, <4>1, <4>2
    <3> QED
      BY <2>3, <2>8, <3>1 DEF Hereda
  <2>7. colas[n] \in T
    BY <2>2, <2>6, RecursionEnTipo
  <2> QED
    BY <2>1, <2>7 DEF T
<1> QED
  BY <1>1, <1>2 DEF AgregarHilosAReady

\* elegir_maxima_prioridad keeps the length of the queue, so that there is always
\* a next hilo to compare, and loses no hilo: each is in the queue or is elegido.
SinPerder(e) ==
  e.elegido # NULL =>
    \A t : Contiene(ready, t) => Contiene(e.cola, t) \/ e.elegido = t

LEMMA ElegirEnTipo ==
  ASSUME ready \in Cola, Len(ready) > 1, NEW basura \in Punteros
  PROVE  /\ elegir_maxima_prioridad(basura).cola \in Cola
         /\ elegir_maxima_prioridad(basura).elegido \in Punteros
         /\ SinPerder(elegir_maxima_prioridad(basura))
<1> DEFINE n == Len(ready) - 1
           T == {e \in [cola : Cola, elegido : Punteros] :
                   Len(e.cola) = Len(ready) /\ SinPerder(e)}
           b == [cola |-> ready, elegido |-> basura]
           def(g) == [i \in 0 .. n |-> IF i = 0 THEN b ELSE Comparar(g[i - 1])]
           maximos == CHOOSE g : g = def(g)
<1>1. elegir_maxima_prioridad(basura) = maximos[n]
  BY DEF elegir_maxima_prioridad
<1>0. Len(ready) \in Nat
  BY LenProperties DEF Cola
<1>2. n \in Nat
  BY <1>0
<1>8. b \in T
  BY <1>0 DEF SinPerder
<1>3. ASSUME NEW e \in T
      PROVE  Comparar(e) \in T
  <2>1. e.cola \in Cola /\ e.elegido \in Punteros /\ Len(e.cola) = Len(ready)
        /\ SinPerder(e)
    OBVIOUS
  <2>2. e.cola # <<>>
    BY <2>1
  <2>3. /\ Head(e.cola) \in Punteros
        /\ Tail(e.cola) \in Cola
        /\ Len(Tail(e.cola)) = Len(ready) - 1
    BY <2>1, <2>2, HeadTailProperties DEF Cola
  <2>4. ASSUME NEW t \in Punteros
        PROVE  /\ Append(Tail(e.cola), t) \in Cola /\ Len(Append(Tail(e.cola), t)) = Len(ready)
               /\ \A u : Contiene(e.cola, u) =>
                    u = Head(e.cola) \/ Contiene(Append(Tail(e.cola), t), u)
               /\ Contiene(Append(Tail(e.cola), t), t)
    <3>1. Append(Tail(e.cola), t) \in Cola /\ Len(Append(Tail(e.cola), t)) = Len(ready)
      BY <1>0, <2>3, AppendProperties DEF Cola
    <3>2. /\ \A u : Contiene(e.cola, u) <=> Contiene(Tail(e.cola), u) \/ u = Head(e.cola)
          /\ \A u : Contiene(Append(Tail(e.cola), t), u) <=> Contiene(Tail(e.cola), u) \/ u = t
      BY <2>1, <2>2, <2>3, ContieneResto, ContieneAgregar
    <3> QED
      BY <3>1, <3>2
  <2>5. NULL \in Punteros
    BY DEF Punteros
  <2>6. e = [cola |-> e.cola, elegido |-> e.elegido]
    OBVIOUS
  <2>7. Comparar(e) \in {[e EXCEPT !.elegido = NULL],
                         [e EXCEPT !.cola = Append(Tail(e.cola), Head(e.cola))],
                         [cola    |-> Append(Tail(e.cola), e.elegido),
                          elegido |-> Head(e.cola)]}
    BY DEF Comparar
  <2>p. Comparar(e).elegido # NULL => e.elegido # NULL
    BY DEF Comparar
  <2>8. CASE Comparar(e) = [e EXCEPT !.elegido = NULL]
    BY <2>1, <2>5, <2>8 DEF SinPerder
  <2>9. CASE Comparar(e) = [e EXCEPT !.cola = Append(Tail(e.cola), Head(e.cola))]
    <3>1. PICK q : q = Append(Tail(e.cola), Head(e.cola))
      OBVIOUS
    <3>2. q \in Cola /\ Len(q) = Len(ready) /\ Comparar(e) = [e EXCEPT !.cola = q]
      BY <2>3, <2>4, <2>9, <3>1
    <3>3. \A u : Contiene(e.cola, u) => Contiene(q, u)
      BY <2>3, <2>4, <3>1
    <3>4. SinPerder(Comparar(e))
      BY <2>1, <3>2, <3>3 DEF SinPerder
    <3> QED
      BY <2>1, <3>2, <3>4
  <2>10. CASE Comparar(e) = [cola    |-> Append(Tail(e.cola), e.elegido),
                             elegido |-> Head(e.cola)]
    <3>1. SinPerder(Comparar(e))
      BY <2>1, <2>4, <2>10, <2>p DEF SinPerder
    <3> QED
      BY <2>1, <2>3, <2>4, <2>10, <3>1
  <2> QED
    BY <2>7, <2>8, <2>9, <2>10
<1> HIDE DEF n, T, b
<1>4. \E g : g = def(g)
  <2> DEFINE F == [i \in 1 .. n |-> [e \in T |-> Comparar(e)]]
  <2>1. F \in [1 .. n -> [T -> T]]
    BY <1>3
  <2> HIDE DEF F
  <2>2. PICK g \in [0 .. n -> T] : Itera(g, n, b, F)
    BY <1>2, <1>8, <2>1, RecursionExiste
  <2>3. ASSUME NEW i \in 1 .. n
        PROVE  g[i] = Comparar(g[i - 1])
    <3>1. g[i - 1] \in T /\ g[i] = F[i][g[i - 1]]
      BY <1>2, <2>2 DEF Itera
    <3>2. F[i] = [e \in T |-> Comparar(e)]
      BY DEF F
    <3> QED
      BY <3>1, <3>2
  <2> QED
    BY <1>2, <2>2, <2>3 DEF Itera
<1>5. maximos = def(maximos)
  BY <1>4
<1> HIDE DEF maximos
<1>6. maximos[0] = b /\ \A i \in 1 .. n : maximos[i] = Comparar(maximos[i - 1])
  <2>1. PICK f : f = def(maximos)
    OBVIOUS
  <2>2. f[0] = b /\ \A i \in 1 .. n : f[i] = Comparar(maximos[i - 1])
    BY <1>2, <2>1
  <2> QED
    BY <1>5, <2>1, <2>2
<1>7. maximos[n] \in T
  <2>1. Hereda(maximos, n, T)
    BY <1>3, <1>6, <1>8 DEF Hereda
  <2>2. \A k \in 0 .. n : maximos[k] \in T
    BY <1>2, <2>1, RecursionEnTipo
  <2>3. n \in 0 .. n
    BY <1>2
  <2> QED
    BY <2>2, <2>3
<1> QED
  BY <1>1, <1>7 DEF T

\* buscarDependiente parts the dependencies: some stay, the others give a hilo.
LEMMA DespertarEnTipo ==
  ASSUME deps \in Seq(Dependencias), NEW t
  PROVE  DespertarA(t).quedan \in Seq(Dependencias) /\ DespertarA(t).listos \in Cola
<1> DEFINE n == Len(deps)
           T == [quedan : Seq(Dependencias), listos : Cola, salta : BOOLEAN]
           b == [quedan |-> <<>>, listos |-> <<>>, salta |-> FALSE]
           paso(i, r) == Revisar(r, deps[i], t)
           def(g) == [i \in 0 .. n |-> IF i = 0 THEN b ELSE paso(i, g[i - 1])]
           partes == CHOOSE g : g = def(g)
<1>1. DespertarA(t) = partes[n]
  BY DEF DespertarA
<1>2. n \in Nat
  BY LenProperties
<1>8. b \in T
  BY EmptySeq DEF Cola
<1>3. ASSUME NEW i \in 1 .. n, NEW r \in T
      PROVE  paso(i, r) \in T
  <2>1. PICK d \in Dependencias : d = deps[i]
    BY ElementOfSeq
  <2>2. d.dependiente \in Punteros
    BY DEF Dependencias
  <2>3. Append(r.quedan, d) \in Seq(Dependencias) /\ Append(r.listos, d.dependiente) \in Cola
    BY <2>2, AppendProperties DEF Cola
  <2>4. paso(i, r) \in {[r EXCEPT !.listos = Append(@, d.dependiente), !.salta = TRUE],
                        [r EXCEPT !.quedan = Append(@, d), !.salta = FALSE]}
    BY <2>1 DEF Revisar
  <2> QED
    BY <2>3, <2>4
<1> HIDE DEF n, T, b, paso
<1>4. \E g : g = def(g)
  <2> DEFINE F == [i \in 1 .. n |-> [r \in T |-> paso(i, r)]]
  <2>1. F \in [1 .. n -> [T -> T]]
    BY <1>3
  <2> HIDE DEF F
  <2>2. PICK g \in [0 .. n -> T] : Itera(g, n, b, F)
    BY <1>2, <1>8, <2>1, RecursionExiste
  <2>3. ASSUME NEW i \in 1 .. n
        PROVE  g[i] = paso(i, g[i - 1])
    <3>1. g[i - 1] \in T /\ g[i] = F[i][g[i - 1]]
      BY <1>2, <2>2 DEF Itera
    <3>2. F[i] = [r \in T |-> paso(i, r)]
      BY DEF F
    <3> QED
      BY <3>1, <3>2
  <2> QED
    BY <1>2, <2>2, <2>3 DEF Itera
<1>5. partes = def(partes)
  BY <1>4
<1> HIDE DEF partes
<1>6. partes[0] = b /\ \A i \in 1 .. n : partes[i] = paso(i, partes[i - 1])
  <2>1. PICK f : f = def(partes)
    OBVIOUS
  <2>2. f[0] = b /\ \A i \in 1 .. n : f[i] = paso(i, partes[i - 1])
    BY <1>2, <2>1
  <2> QED
    BY <1>5, <2>1, <2>2
<1>7. partes[n] \in T
  <2>1. Hereda(partes, n, T)
    BY <1>3, <1>6, <1>8 DEF Hereda
  <2>2. \A k \in 0 .. n : partes[k] \in T
    BY <1>2, <2>1, RecursionEnTipo
  <2>3. n \in 0 .. n
    BY <1>2
  <2> QED
    BY <2>2, <2>3
<1> QED
  BY <1>1, <1>7 DEF T

Altas == [Creadores -> [tcb : Punteros, roto : BOOLEAN]]
Memoria == [Tcbs -> [uso : Usos, id : Ids, prioridad : Prioridades]]

LEMMA MarcarEnTipo ==
  ASSUME creando \in Altas
  PROVE  Marcar \in Altas
<1>1. ASSUME NEW c \in Creadores
      PROVE  [creando[c] EXCEPT !.roto = @ \/ creando[c].tcb # NULL]
               \in [tcb : Punteros, roto : BOOLEAN]
  <2>1. creando[c] \in [tcb : Punteros, roto : BOOLEAN]
    BY DEF Altas
  <2>2. (creando[c].roto \/ creando[c].tcb # NULL) \in BOOLEAN
    OBVIOUS
  <2> QED
    BY <2>1, <2>2
<1> QED
  BY <1>1 DEF Marcar, Altas

LEMMA NuevoEnTipo ==
  ASSUME tcb \in Memoria, NEW t \in Tcbs, NEW id \in Ids, NEW p \in Prioridades
  PROVE  Nuevo(t, id, p) \in Memoria
BY DEF Nuevo, Memoria, Usos

LEMMA AgregarUnoEnTipo ==
  ASSUME ready \in Cola, creando \in Altas, NEW t \in Punteros, AgregarHiloAReady(t)
  PROVE  ready' \in Cola /\ creando' \in Altas
<1>1. <<t>> \in Cola
  BY DEF Cola
<1> QED
  BY <1>1, AgregarEnTipo, MarcarEnTipo DEF AgregarHiloAReady

LEMMA CrearEnTipo ==
  ASSUME tcb \in Memoria, ready \in Cola, creando \in Altas, CrearHilo
  PROVE  tcb' \in Memoria /\ ready' \in Cola /\ creando' \in Altas
<1>1. PICK t \in Tcbs, id \in Ids, p \in Prioridades, ok \in RespuestasMemoria :
        /\ tcb' = Nuevo(t, id, p)
        /\ IF ok THEN AgregarHiloAReady(t) ELSE UNCHANGED <<ready, creando>>
  BY DEF CrearHilo
<1>2. tcb' \in Memoria
  BY <1>1, NuevoEnTipo
<1>3. t \in Punteros
  BY DEF Punteros
<1>4. CASE AgregarHiloAReady(t)
  BY <1>2, <1>3, <1>4, AgregarUnoEnTipo
<1>5. CASE UNCHANGED <<ready, creando>>
  BY <1>2, <1>5
<1> QED
  BY <1>1, <1>4, <1>5

\* buscarHilo ends in one of the three lists, the first that stops the search.
LEMMA BuscaEnListas ==
  ASSUME exec \in Cola, bloq \in Cola, ready \in Cola, NEW id
  PROVE  /\ DondeBusca(id) \in {exec, bloq, ready, <<>>}
         /\ Parada(exec, id) # 0 => DondeBusca(id) = exec
<1> DEFINE donde == <<exec, bloq, IF algoritmo \in Colas THEN ready ELSE <<>> >>
           I == {i \in 1 .. Len(donde) : Parada(donde[i], id) # 0}
<1>1. DondeBusca(id) = IF (IF I # {} THEN Min(I) ELSE 0) = 0 THEN <<>>
                       ELSE donde[IF I # {} THEN Min(I) ELSE 0]
  BY DEF DondeBusca, SelectInSeq
<1>2. Len(donde) = 3 /\ donde[1] = exec /\ donde[2] = bloq /\ donde[3] \in {ready, <<>>}
  OBVIOUS
<1>3. I \in SUBSET Nat /\ I \subseteq 1 .. 3 /\ (Parada(exec, id) # 0 => 1 \in I)
  BY <1>2
<1> HIDE DEF donde, I
<1>4. I # {} => Min(I) \in 1 .. 3 /\ \A i \in I : Min(I) <= i
  BY <1>3, MinNat
<1>5. 1 \in I => Min(I) = 1
  BY <1>4
<1> QED
  BY <1>1, <1>2, <1>3, <1>4, <1>5

\* What a search finds is in the list it looks in.
LEMMA ObtenerContiene ==
  ASSUME NEW l \in Cola, NEW id, Obtener(l, id) # NULL
  PROVE  Contiene(l, Obtener(l, id))
<1>1. EsLista(l) /\ Len(l) \in Nat /\ DOMAIN l = 1 .. Len(l)
  BY LenProperties DEF EsLista, Cola
<1>2. Parada(l, id) \in 0 .. Len(l)
  BY <1>1, ParadaEnLista
<1> QED
  BY <1>1, <1>2 DEF Obtener, Contiene

\* Where a handler leaves the scheduler: back in its loop, asleep or gone.
EnSuLugar == pc' \in Lugares /\ cpu' \in Punteros
Procesos == {"en_marcha", "segv", "abort", "salio"}

LEMMA FinalizarEnTipo ==
  ASSUME TypeOK, NEW t, NEW enBloq \in Cola, FinalizarHilo(t, enBloq)
  PROVE  /\ bloq' \in Cola /\ ready' \in Cola /\ deps' \in Seq(Dependencias)
         /\ tcb' \in Memoria /\ creando' \in Altas /\ proceso' \in Procesos
         /\ EnSuLugar
<1>1. /\ ready \in Cola /\ deps \in Seq(Dependencias) /\ tcb \in Memoria
      /\ creando \in Altas /\ proceso \in Procesos
  BY DEF TypeOK, Cola, Dependencias, Memoria, Altas, Procesos
<1>2. EnSuLugar
  BY DEF FinalizarHilo, Vuelve, EnSuLugar, Lugares, Punteros
<1>3. CASE bloq' = enBloq /\ UNCHANGED <<proceso, tcb, ready, deps, creando>>
  BY <1>1, <1>2, <1>3
<1>4. CASE ~ (bloq' = enBloq /\ UNCHANGED <<proceso, tcb, ready, deps, creando>>)
  <2>1. PICK id \in Ids : tcb' = [tcb EXCEPT ![t].uso = "liberado", ![t].id = id]
    BY <1>4 DEF FinalizarHilo
  <2>2. tcb' \in Memoria
    <3>1. CASE t \in Tcbs
      BY <1>1, <2>1, <3>1 DEF Memoria, Usos
    <3>2. CASE t \notin Tcbs
      BY <1>1, <2>1, <3>2 DEF Memoria
    <3> QED
      BY <3>1, <3>2
  <2>3. proceso' \in Procesos
    BY <1>1, <1>4 DEF FinalizarHilo, Procesos
  <2>4. bloq' \in Cola
    BY <1>4, ListasEnTipo DEF FinalizarHilo
  <2>5. CASE tieneDependiente(t)
    <3>1. deps' = DespertarA(t).quedan /\ AgregarHilosAReady(DespertarA(t).listos)
      BY <1>4, <2>5 DEF FinalizarHilo
    <3>2. DespertarA(t).quedan \in Seq(Dependencias) /\ DespertarA(t).listos \in Cola
      BY <1>1, DespertarEnTipo
    <3>3. ready' \in Cola /\ creando' \in Altas
      BY <1>1, <3>1, <3>2, AgregarEnTipo, MarcarEnTipo
    <3> QED
      BY <1>2, <2>2, <2>3, <2>4, <3>1, <3>2, <3>3
  <2>6. CASE ~ tieneDependiente(t)
    <3>1. UNCHANGED <<deps, ready, creando>>
      BY <1>4, <2>6 DEF FinalizarHilo
    <3> QED
      BY <1>1, <1>2, <2>2, <2>3, <2>4, <3>1
  <2> QED
    BY <2>5, <2>6
<1> QED
  BY <1>3, <1>4

\* The handlers of interpretarCPU.
LEMMA InterpretarEnTipo ==
  ASSUME TypeOK, Interpretar
  PROVE  TypeOK'
<1>1. /\ algoritmo \in Algoritmos /\ proceso \in Procesos /\ pc \in Lugares
      /\ tcb \in Memoria /\ exec \in Cola /\ bloq \in Cola /\ ready \in Cola
      /\ deps \in Seq(Dependencias) /\ mutexReady \in BOOLEAN
      /\ cpu \in Punteros /\ enIO \in Punteros /\ creando \in Altas
  BY DEF TypeOK, Cola, Dependencias, Memoria, Altas, Procesos
<1>2. SUFFICES
        /\ algoritmo' \in Algoritmos /\ proceso' \in Procesos /\ EnSuLugar
        /\ tcb' \in Memoria /\ exec' \in Cola /\ bloq' \in Cola /\ ready' \in Cola
        /\ deps' \in Seq(Dependencias) /\ mutexReady' \in BOOLEAN
        /\ enIO' \in Punteros /\ creando' \in Altas
  BY DEF TypeOK, Cola, Dependencias, Memoria, Altas, Procesos, EnSuLugar
<1>3. \A l \in Cola : \A id : Obtener(l, id) \in Punteros /\ Quita(l, id) \in Cola
  BY ListasEnTipo
<1>4. \A l \in Cola, t \in Punteros : Append(l, t) \in Cola
  BY AppendProperties DEF Cola
<1>5. Vuelve => EnSuLugar
  BY DEF Vuelve, EnSuLugar, Lugares, Punteros
<1>6. CASE Segv
  BY <1>1, <1>6 DEF Segv, EnSuLugar, listas, Procesos
<1>7. CASE IO
  BY <1>1, <1>3, <1>7 DEF IO, EnSuLugar, Lugares, Punteros
<1>8. CASE THREAD_EXIT
  <2>1. exec' = Quita(exec, Id) /\ FinalizarHilo(Obtener(exec, Id), bloq)
    BY <1>8 DEF THREAD_EXIT
  <2> QED
    BY <1>1, <1>3, <1>8, <2>1, FinalizarEnTipo DEF THREAD_EXIT
<1>9. CASE THREAD_CREATE
  <2>1. CrearHilo /\ Vuelve
    BY <1>9 DEF THREAD_CREATE
  <2> QED
    BY <1>1, <1>5, <1>9, <2>1, CrearEnTipo DEF THREAD_CREATE, listas
<1>10. CASE PROCESS_CREATE
  <2>1. EnSuLugar
    BY <1>5, <1>10 DEF PROCESS_CREATE, EnSuLugar, Lugares, Punteros
  <2>2. tcb' \in Memoria /\ ready' \in Cola /\ creando' \in Altas
    BY <1>1, <1>10, CrearEnTipo DEF PROCESS_CREATE
  <2> QED
    BY <1>1, <1>10, <2>1, <2>2 DEF PROCESS_CREATE, listas
<1>11. CASE THREAD_JOIN
  <2>1. PICK id \in Ids :
          IF Tropieza(DondeBusca(id), id) THEN Segv
          ELSE /\ LET hilo        == Obtener(DondeBusca(id), id)
                      dependiente == Obtener(exec, id)
                  IN IF hilo = NULL THEN UNCHANGED listas
                     ELSE /\ deps' = Append(deps, [hilo |-> hilo, dependiente |-> dependiente])
                          /\ exec' = Quita(exec, id)
                          /\ bloq' = Append(bloq, dependiente)
               /\ Vuelve
               /\ UNCHANGED <<algoritmo, proceso, tcb, ready, mutexReady, enIO, creando>>
    BY <1>11 DEF THREAD_JOIN
  <2>2. DondeBusca(id) \in Cola
    <3>1. <<>> \in Cola
      BY DEF Cola
    <3> QED
      BY <1>1, <3>1, BuscaEnListas
  <2>3. CASE UNCHANGED listas /\ Vuelve
    BY <1>1, <1>5, <1>6, <2>1, <2>3 DEF listas
  <2>4. CASE /\ Obtener(DondeBusca(id), id) # NULL
             /\ deps' = Append(deps, [hilo        |-> Obtener(DondeBusca(id), id),
                                      dependiente |-> Obtener(exec, id)])
             /\ exec' = Quita(exec, id)
             /\ bloq' = Append(bloq, Obtener(exec, id))
             /\ Vuelve
    <3> DEFINE d == [hilo |-> Obtener(DondeBusca(id), id), dependiente |-> Obtener(exec, id)]
    <3>1. Obtener(DondeBusca(id), id) \in Tcbs /\ Obtener(exec, id) \in Punteros
      BY <1>1, <1>3, <2>2, <2>4 DEF Punteros
    <3>2. d \in Dependencias
      BY <3>1 DEF Dependencias
    <3> HIDE DEF d
    <3>3. deps' \in Seq(Dependencias)
      <4>1. deps' = Append(deps, d)
        BY <2>4 DEF d
      <4> QED
        BY <1>1, <3>2, <4>1, AppendProperties
    <3>4. exec' \in Cola /\ bloq' \in Cola /\ EnSuLugar
      BY <1>1, <1>3, <1>4, <1>5, <2>4, <3>1
    <3>5. CASE UNCHANGED <<algoritmo, proceso, tcb, ready, mutexReady, enIO, creando>>
      BY <1>1, <3>3, <3>4, <3>5
    <3> QED
      BY <1>6, <2>1, <3>5
  <2> QED
    BY <1>6, <2>1, <2>3, <2>4
<1>12. CASE THREAD_CANCEL
  <2>1. CASE /\ \E t : FinalizarHilo(t, bloq)
             /\ UNCHANGED <<algoritmo, exec, mutexReady, enIO>>
    BY <1>1, <2>1, FinalizarEnTipo
  <2> QED
    BY <1>6, <1>12, <2>1 DEF THREAD_CANCEL
<1>13. CASE DUMP_MEMORY
  <2>1. Obtener(exec, Id) \in Punteros /\ Append(bloq, Obtener(exec, Id)) \in Cola
    BY <1>1, <1>3, <1>4
  <2>2. CASE /\ exec' = Quita(exec, Id)
             /\ FinalizarHilo(Obtener(exec, Id), Append(bloq, Obtener(exec, Id)))
             /\ UNCHANGED <<algoritmo, mutexReady, enIO>>
    BY <1>1, <1>3, <2>1, <2>2, FinalizarEnTipo
  <2>3. CASE /\ proceso' \in {"segv", proceso}
             /\ bloq' = Quita(Append(bloq, Obtener(exec, Id)), Id)
             /\ exec' = Append(exec, Obtener(exec, Id))
             /\ Vuelve
             /\ UNCHANGED <<algoritmo, tcb, ready, deps, mutexReady, enIO, creando>>
    BY <1>1, <1>3, <1>4, <1>5, <2>1, <2>3 DEF Procesos
  <2> QED
    BY <1>6, <1>13, <2>2, <2>3 DEF DUMP_MEMORY
<1>14. CASE ConPCB
  BY <1>6, <1>14 DEF ConPCB
<1>15. CASE SinEfecto
  BY <1>1, <1>5, <1>15 DEF SinEfecto, listas
<1> QED
  BY <1>7, <1>8, <1>9, <1>10, <1>11, <1>12, <1>13, <1>14, <1>15 DEF Interpretar

LEMMA DespacharEnTipo ==
  ASSUME TypeOK, Despachar
  PROVE  TypeOK'
<1>1. ready \in Cola /\ exec \in Cola /\ creando \in Altas /\ ready # <<>>
  BY DEF TypeOK, Cola, Altas, Despachar
<1>2. PICK e \in Elegibles :
        /\ ready' = e.cola
        /\ IF e.elegido = NULL
           THEN proceso' = "segv" /\ UNCHANGED <<exec, cpu, pc>>
           ELSE /\ exec' = Append(exec, e.elegido)
                /\ cpu' = e.elegido
                /\ pc' = "espera_cpu"
                /\ UNCHANGED proceso
  BY DEF Despachar
<1>3. e.cola \in Cola /\ e.elegido \in Punteros
  <2>1. Head(ready) \in Punteros /\ Tail(ready) \in Cola
    BY <1>1, HeadTailProperties DEF Cola
  <2>2. CASE e = [cola |-> Tail(ready), elegido |-> Head(ready)]
    BY <2>1, <2>2
  <2>3. CASE Len(ready) > 1 /\ \E b \in Basura : e = elegir_maxima_prioridad(b)
    BY <1>1, <2>3, ElegirEnTipo, Supuestos DEF Punteros
  <2> QED
    BY <2>2, <2>3 DEF Elegibles
<1>4. Append(exec, e.elegido) \in Cola
  BY <1>1, <1>3, AppendProperties DEF Cola
<1>5. Marcar \in Altas
  BY <1>1, MarcarEnTipo
<1>6. ready' \in Cola /\ exec' \in Cola /\ creando' \in Altas
  BY <1>1, <1>2, <1>3, <1>4, <1>5 DEF Despachar
<1>7. proceso' \in Procesos /\ pc' \in Lugares /\ cpu' \in Punteros
  BY <1>2, <1>3 DEF TypeOK, Procesos, Lugares, Punteros
<1> QED
  BY <1>6, <1>7 DEF TypeOK, Despachar, Cola, Altas, Procesos

\* The steps that only look: they move the scheduler, take the mutex or exit.
LEMMA MirarPaso ==
  ASSUME AlgoritmoDesconocido \/ AtenderCMN \/ PedirReady \/ TomarReady \/ ReadyVacia
  PROVE  /\ UNCHANGED <<algoritmo, tcb, listas, ready, cpu, enIO, creando>>
         /\ proceso' \in {proceso, "salio", "segv"}
         /\ mutexReady' \in {mutexReady, TRUE}
         /\ pc \in {"inicio", "pide_ready", "mira_ready"}
         /\ \/ pc' = "inicio"
            \/ pc' \in {"pide_ready", "mira_ready"} /\ (pc = "inicio" => algoritmo \in Colas)
BY Zenon DEF AlgoritmoDesconocido, AtenderCMN, PedirReady, TomarReady, ReadyVacia

LEMMA TypePaso ==
  ASSUME TypeOK, [Next]_vars
  PROVE  TypeOK'
<1>1. CASE Interpretar
  BY <1>1, InterpretarEnTipo
<1>2. CASE Despachar
  BY <1>2, DespacharEnTipo
<1>3. CASE FinIO
  <2>1. ready' \in Cola /\ creando' \in Altas
    BY <1>3, AgregarUnoEnTipo DEF FinIO, TypeOK, Cola, Altas
  <2> QED
    BY <1>3, <2>1 DEF FinIO, TypeOK, listas, Lugares, Punteros, Cola, Altas
<1>4. CASE AlgoritmoDesconocido \/ AtenderCMN \/ PedirReady \/ TomarReady \/ ReadyVacia
  BY <1>4, MirarPaso DEF TypeOK, listas, Lugares
<1>5. ASSUME NEW c \in Creadores, EmpezarAlta(c)
      PROVE  TypeOK'
  <2>1. PICK t \in Tcbs, id \in Ids, p \in Prioridades, ok \in RespuestasMemoria :
          /\ tcb' = Nuevo(t, id, p)
          /\ creando' = IF ok
                        THEN [Marcar EXCEPT ![c] = [tcb |-> t, roto |-> Carrera]]
                        ELSE creando
    BY <1>5 DEF EmpezarAlta
  <2>2. tcb' \in Memoria
    BY <2>1, NuevoEnTipo DEF TypeOK, Memoria
  <2>3. Marcar \in Altas /\ creando \in Altas
    BY MarcarEnTipo DEF TypeOK, Altas
  <2>4. [tcb |-> t, roto |-> Carrera] \in [tcb : Punteros, roto : BOOLEAN]
    BY DEF Punteros, Carrera
  <2>5. creando' \in Altas
    BY <2>1, <2>3, <2>4 DEF Altas
  <2> QED
    BY <1>5, <2>2, <2>5 DEF EmpezarAlta, TypeOK, listas, Memoria, Altas
<1>6. ASSUME NEW c \in Creadores, TerminarAlta(c)
      PROVE  TypeOK'
  <2>1. Marcar \in Altas /\ creando \in Altas /\ ready \in Cola /\ creando[c].tcb \in Punteros
    BY MarcarEnTipo DEF TypeOK, Altas, Cola
  <2>2. ready' \in Cola
    BY <1>6, <2>1, EncoladaEnTipo DEF TerminarAlta
  <2>3. creando' \in Altas
    BY <1>6, <2>1 DEF TerminarAlta, Altas, Punteros
  <2> QED
    BY <1>6, <2>2, <2>3 DEF TerminarAlta, TypeOK, listas, Altas, Cola
<1>7. CASE UNCHANGED vars
  BY <1>7 DEF vars, listas, TypeOK
<1> QED
  BY <1>1, <1>2, <1>3, <1>4, <1>5, <1>6, <1>7 DEF Next, Planificador

LEMMA EnTipoInicio ==
  ASSUME Init
  PROVE  TypeOK
<1>1. ready \in Seq(Punteros)
  <2>1. Cardinality(Previos) \in Nat
    BY Supuestos, FS_CardinalityType
  <2>2. ready \in [1 .. Cardinality(Previos) -> Punteros]
    BY Supuestos DEF Init, SetToSeqs, Punteros
  <2> QED
    BY <2>1, <2>2
<1>2. tcb \in [Tcbs -> [uso : Usos, id : Ids, prioridad : Prioridades]]
  BY DEF Init, Usos
<1>3. \A S : <<>> \in Seq(S)
  BY EmptySeq
<1> QED
  BY <1>1, <1>2, <1>3 DEF Init, TypeOK, Lugares, Punteros

\* TypeOK for every value of the constants, races on the queue and uses of freed
\* memory included: a list holds only what malloc returned, or NULL.
THEOREM PlanificadorEnTipo == Spec => []TypeOK
<1>1. Init => TypeOK
  BY EnTipoInicio
<1>2. TypeOK /\ [Next]_vars => TypeOK'
  BY TypePaso
<1> QED
  BY <1>1, <1>2, PTL DEF Spec

(***************************************************************************)
(* READY.  Every push keeps what was queued, the selection keeps whoever   *)
(* it does not give, and nothing else touches the queue.                   *)
(***************************************************************************)
LEMMA UnoConserva ==
  ASSUME ready \in Cola, NEW t \in Punteros, AgregarHiloAReady(t)
  PROVE  Conserva(ready')
<1>1. <<t>> \in Cola
  BY DEF Cola
<1> QED
  BY <1>1, AgregarEnTipo DEF AgregarHiloAReady

LEMMA InterpretarConserva ==
  ASSUME TypeOK, Interpretar
  PROVE  Conserva(ready')
<1>1. ready \in Cola /\ deps \in Seq(Dependencias)
  BY DEF TypeOK, Cola, Dependencias
<1>2. CASE UNCHANGED ready
  BY <1>2 DEF Conserva
<1>3. ASSUME NEW t, NEW l, FinalizarHilo(t, l)
      PROVE  Conserva(ready')
  <2>1. UNCHANGED ready \/ AgregarHilosAReady(DespertarA(t).listos)
    BY <1>3 DEF FinalizarHilo
  <2>2. DespertarA(t).listos \in Cola
    BY <1>1, DespertarEnTipo
  <2> QED
    BY <1>1, <1>2, <2>1, <2>2, AgregarEnTipo
<1>4. CASE CrearHilo
  <2>1. PICK t \in Tcbs : AgregarHiloAReady(t) \/ UNCHANGED ready
    BY <1>4 DEF CrearHilo
  <2> QED
    BY <1>1, <1>2, <2>1, UnoConserva DEF Punteros
<1>5. CASE THREAD_EXIT \/ THREAD_CANCEL
  BY <1>2, <1>3, <1>5 DEF THREAD_EXIT, THREAD_CANCEL, Segv
<1>6. CASE DUMP_MEMORY
  BY <1>2, <1>3, <1>6 DEF DUMP_MEMORY, Segv
<1>7. CASE THREAD_CREATE \/ PROCESS_CREATE
  BY <1>2, <1>4, <1>7 DEF THREAD_CREATE, PROCESS_CREATE
<1>8. CASE IO \/ ConPCB \/ SinEfecto
  BY <1>2, <1>8 DEF IO, ConPCB, SinEfecto, Segv
<1>9. CASE THREAD_JOIN
  BY <1>2, <1>9 DEF THREAD_JOIN, Segv
<1> QED
  BY <1>5, <1>6, <1>7, <1>8, <1>9 DEF Interpretar

LEMMA DespacharConserva ==
  ASSUME TypeOK, Despachar, EnMarcha', NEW t \in Tcbs, Contiene(ready, t)
  PROVE  Contiene(ready', t) \/ cpu' = t
<1>1. ready \in Cola /\ ready # <<>>
  BY DEF TypeOK, Cola, Despachar
<1>2. PICK e \in Elegibles : e.elegido # NULL /\ ready' = e.cola /\ cpu' = e.elegido
  BY DEF Despachar, EnMarcha
<1>3. CASE e = [cola |-> Tail(ready), elegido |-> Head(ready)]
  BY <1>1, <1>2, <1>3, ContieneResto
<1>4. CASE Len(ready) > 1 /\ \E b \in Basura : e = elegir_maxima_prioridad(b)
  <2>1. SinPerder(e)
    BY <1>1, <1>4, ElegirEnTipo, Supuestos
  <2> QED
    BY <1>2, <2>1 DEF SinPerder
<1> QED
  BY <1>3, <1>4 DEF Elegibles

LEMMA ReadyPaso ==
  ASSUME TypeOK, [Next]_vars, EnMarcha', NEW t \in Tcbs, Contiene(ready, t)
  PROVE  Contiene(ready', t) \/ cpu' = t
<1>1. ready \in Cola /\ enIO \in Punteros
  BY DEF TypeOK, Cola
<1>2. CASE Conserva(ready')
  BY <1>2 DEF Conserva
<1>3. CASE UNCHANGED ready
  BY <1>3
<1>4. CASE Planificador
  <2>1. CASE Despachar
    BY <2>1, DespacharConserva
  <2>2. CASE FinIO
    BY <1>1, <1>2, <2>2, UnoConserva DEF FinIO
  <2>3. CASE AlgoritmoDesconocido \/ AtenderCMN \/ PedirReady \/ TomarReady \/ ReadyVacia
    BY <1>3, <2>3, MirarPaso
  <2> QED
    BY <1>4, <2>1, <2>2, <2>3 DEF Planificador
<1>5. CASE Interpretar
  BY <1>2, <1>5, InterpretarConserva
<1>6. ASSUME NEW c \in Creadores, EmpezarAlta(c)
      PROVE  UNCHANGED ready
  BY <1>6 DEF EmpezarAlta
<1>7. ASSUME NEW c \in Creadores, TerminarAlta(c)
      PROVE  Contiene(ready', t)
  <2>1. creando[c].tcb \in Punteros
    BY DEF TypeOK
  <2> QED
    BY <1>1, <1>7, <2>1, EncoladaEnTipo DEF TerminarAlta
<1>8. CASE UNCHANGED vars
  BY <1>3, <1>8 DEF vars
<1> QED
  BY <1>3, <1>4, <1>5, <1>6, <1>7, <1>8 DEF Next

\* ReadyConserva for every value of the constants: with any algorithm, any garbage in
\* elegido, any length of READY, every syscall and every race, whoever was in READY
\* stays there until the CPU is given it.
THEOREM NadieCaeDeReady == Spec => ReadyConserva
<1>1. TypeOK /\ [Next]_vars =>
        [EnMarcha' => \A t \in Tcbs :
           Contiene(ready, t) => Contiene(ready', t) \/ cpu' = t]_vars
  BY ReadyPaso
<1> QED
  BY <1>1, PlanificadorEnTipo, PTL DEF Spec, ReadyConserva

(***************************************************************************)
(* Where a TCB is.  A hilo is in one of five places at most, and each step *)
(* moves at most one hilo, along the life cycle.  The programs call        *)
(* neither THREAD_CANCEL, which frees a hilo that some list keeps, nor     *)
(* DUMP_MEMORY, and the algorithm is not PRIORIDADES, whose elegido is not *)
(* initialised.                                                            *)
(***************************************************************************)
SinDanos ==
  /\ "THREAD_CANCEL" \notin Funciones /\ "DUMP_MEMORY" \notin Funciones
  /\ "PRIORIDADES" \notin Algoritmos

EnAlta(t) == \E c \in Creadores : creando[c].tcb = t
Sitios(t) == {s \in {"exec", "bloq", "ready", "enIO", "creando"} :
                \/ s = "exec"    /\ Contiene(exec, t)
                \/ s = "bloq"    /\ Contiene(bloq, t)
                \/ s = "ready"   /\ Contiene(ready, t)
                \/ s = "enIO"    /\ enIO = t
                \/ s = "creando" /\ EnAlta(t)}

\* A dependency is a hilo that waits for itself, in lista_bloq_hilo for ever, or
\* one on nobody, which leaves its hilo in lista_exec_hilo and the scheduler
\* without anything to plan.
DependenciaBien(d) ==
  /\ tcb[d.hilo].uso = "vivo"
  /\ IF d.dependiente = NULL THEN exec # <<>> /\ cpu = NULL
     ELSE d.dependiente = d.hilo /\ Contiene(bloq, d.hilo)

InvLugar ==
  /\ TypeOK
  /\ InvUno
  /\ pc = "espera_cpu" => cpu # NULL
  /\ enIO # NULL <=> pc = "en_io"
  /\ pc # "inicio" => algoritmo \in Colas
  /\ SinRepetir(bloq) /\ SinRepetir(ready)
  /\ \A c, d \in Creadores : creando[c].tcb = creando[d].tcb /\ creando[c].tcb # NULL => c = d
  /\ \A t \in Tcbs : \A a, b \in Sitios(t) : a = b
  /\ \A t \in Tcbs : Sitios(t) # {} => tcb[t].uso = "vivo"
  /\ \A i \in DOMAIN deps : DependenciaBien(deps[i])

\* A push keeps what was queued and adds its hilo, or loses it in a race.
LEMMA ContieneEncolada ==
  ASSUME NEW l \in Cola, NEW t \in Tcbs, NEW raced, NEW m \in Encolada(l, t, raced)
  PROVE  /\ m \in Cola
         /\ \A u \in Tcbs : u # t => (Contiene(m, u) <=> Contiene(l, u))
         /\ SinRepetir(l) /\ ~ Contiene(l, t) => SinRepetir(m)
         /\ ~ raced => Contiene(m, t)
<1>1. t \in Punteros /\ NULL \in Punteros /\ NULL \notin Tcbs
  BY Supuestos DEF Punteros
<1>2. CASE m = Append(l, t)
  BY <1>1, <1>2, ContieneAgregar
<1>3. CASE raced /\ m = l
  BY <1>3
<1>4. CASE raced /\ m = Append(l, NULL)
  BY <1>1, <1>4, ContieneAgregar
<1>5. CASE raced /\ m = Append(Append(l, t), NULL)
  <2>1. Append(l, t) \in Cola
    BY <1>1, ContieneAgregar
  <2> QED
    BY <1>1, <1>5, <2>1, ContieneAgregar
<1> QED
  BY <1>2, <1>3, <1>4, <1>5 DEF Encolada

\* The push of one hilo by the scheduler.
LEMMA AgregarUno ==
  ASSUME NEW t \in Tcbs, ready \in Cola, AgregarHiloAReady(t)
  PROVE  IF algoritmo \in Colas
         THEN ready' \in Encolada(ready, t, Carrera) /\ creando' = Marcar
         ELSE UNCHANGED <<ready, creando>>
<1> DEFINE paso(i, q) == UNION {Encolada(cola, <<t>>[i], Carrera) : cola \in q}
           def(g) == [i \in 0 .. 1 |-> IF i = 0 THEN {ready} ELSE paso(i, g[i - 1])]
           colas == CHOOSE g : g = def(g)
<1>1. CASE algoritmo \in Colas
  <2>1. Len(<<t>>) = 1 /\ <<t>> # <<>>
    OBVIOUS
  <2>2. ready' \in colas[Len(<<t>>)] /\ creando' = Marcar
    BY <1>1, <2>1 DEF AgregarHiloAReady, AgregarHilosAReady
  <2>3. paso(1, {ready}) = Encolada(ready, t, Carrera)
    OBVIOUS
  <2> HIDE DEF paso
  <2>4. colas = def(colas)
    <3> DEFINE g == [i \in 0 .. 1 |-> IF i = 0 THEN {ready} ELSE paso(1, {ready})]
    <3>1. g[0] = {ready} /\ \A i \in 0 .. 1 : i # 0 => i = 1 /\ i - 1 = 0
      OBVIOUS
    <3>2. g = def(g)
      BY <3>1
    <3> QED
      BY <3>2
  <2> HIDE DEF colas
  <2>5. colas[1] = paso(1, {ready})
    <3>1. PICK f : f = def(colas)
      OBVIOUS
    <3>2. f[0] = {ready} /\ f[1] = paso(1, colas[0])
      BY <3>1
    <3> QED
      BY <2>4, <3>1, <3>2
  <2> QED
    BY <1>1, <2>1, <2>2, <2>3, <2>5
<1>2. CASE algoritmo \notin Colas
  BY <1>2 DEF AgregarHiloAReady, AgregarHilosAReady
<1> QED
  BY <1>1, <1>2

(***************************************************************************)
(* One step moves one hilo.                                                *)
(***************************************************************************)
Queda(t) == Sitios(t)' = Sitios(t) /\ tcb'[t].uso = tcb[t].uso

\* The moves of a hilo; it is lost when Memoria refuses it or a creator runs.
Avanza(h) ==
  /\ \/ /\ Sitios(h) = {} /\ tcb[h].uso = "sin_usar"
        /\ Sitios(h)' \in {{}, {"creando"}, {"ready"}} /\ tcb'[h].uso = "vivo"
     \/ /\ Sitios(h) \in {{"creando"}, {"enIO"}}
        /\ Sitios(h)' \in {{}, {"ready"}} /\ tcb'[h].uso = "vivo"
     \/ /\ Sitios(h) = {"ready"} /\ exec = <<>>
        /\ Sitios(h)' = {"exec"} /\ tcb'[h].uso = "vivo"
     \/ /\ Sitios(h) = {"exec"}
        /\ Sitios(h)' \in {{"bloq"}, {"enIO"}} /\ tcb'[h].uso = "vivo"
     \/ /\ Sitios(h) = {"exec"}
        /\ Sitios(h)' = {} /\ tcb'[h].uso \in {"vivo", "liberado"}
  /\ Sitios(h)' = {} /\ tcb'[h].uso = "vivo" => FALSE \in RespuestasMemoria \/ Creadores # {}

MueveUno ==
  \/ \A t \in Tcbs : Queda(t)
  \/ \E h \in Tcbs : Avanza(h) /\ \A t \in Tcbs \ {h} : Queda(t)

\* What every step has to keep besides: no list repeats a hilo, nor do the pushes
\* under way, and the dependencies stay as they are explained above.
Ordenadas ==
  /\ SinRepetir(bloq) /\ SinRepetir(ready)
  /\ \A c, d \in Creadores : creando[c].tcb = creando[d].tcb /\ creando[c].tcb # NULL => c = d
  /\ \A i \in DOMAIN deps : DependenciaBien(deps[i])

LEMMA SitiosSon ==
  ASSUME NEW t
  PROVE  /\ Sitios(t) \subseteq {"exec", "bloq", "ready", "enIO", "creando"}
         /\ "exec" \in Sitios(t) <=> Contiene(exec, t)
         /\ "bloq" \in Sitios(t) <=> Contiene(bloq, t)
         /\ "ready" \in Sitios(t) <=> Contiene(ready, t)
         /\ "enIO" \in Sitios(t) <=> enIO = t
         /\ "creando" \in Sitios(t) <=> EnAlta(t)
BY DEF Sitios

LEMMA SitiosSeran ==
  ASSUME NEW t
  PROVE  /\ Sitios(t)' \subseteq {"exec", "bloq", "ready", "enIO", "creando"}
         /\ "exec" \in Sitios(t)' <=> Contiene(exec', t)
         /\ "bloq" \in Sitios(t)' <=> Contiene(bloq', t)
         /\ "ready" \in Sitios(t)' <=> Contiene(ready', t)
         /\ "enIO" \in Sitios(t)' <=> enIO' = t
         /\ "creando" \in Sitios(t)' <=> EnAlta(t)'
BY DEF Sitios, Contiene

LEMMA SeQueda ==
  ASSUME NEW t,
         Contiene(exec', t) <=> Contiene(exec, t),
         Contiene(bloq', t) <=> Contiene(bloq, t),
         Contiene(ready', t) <=> Contiene(ready, t),
         enIO' = t <=> enIO = t,
         EnAlta(t)' <=> EnAlta(t),
         tcb'[t].uso = tcb[t].uso
  PROVE  Queda(t)
<1>1. \A s : s \in Sitios(t)' <=> s \in Sitios(t)
  BY SitiosSon, SitiosSeran
<1> QED
  BY <1>1 DEF Queda

LEMMA MarcarConserva ==
  ASSUME creando \in Altas, NEW c \in Creadores
  PROVE  Marcar[c].tcb = creando[c].tcb
<1>1. Marcar[c] = [creando[c] EXCEPT !.roto = @ \/ creando[c].tcb # NULL]
  BY DEF Marcar
<1>2. creando[c] \in [tcb : Punteros, roto : BOOLEAN]
  BY DEF Altas
<1> QED
  BY <1>1, <1>2

LEMMA MarcarNoMueve ==
  ASSUME creando \in Altas, creando' \in {Marcar, creando}
  PROVE  /\ \A c \in Creadores : creando'[c].tcb = creando[c].tcb
         /\ \A t : EnAlta(t)' <=> EnAlta(t)
BY MarcarConserva DEF EnAlta

LEMMA DependenciaSigue ==
  ASSUME \A t \in Tcbs : Contiene(bloq, t) => Contiene(bloq', t),
         \A t \in Tcbs : tcb[t].uso = "vivo" /\ (cpu = NULL \/ Contiene(bloq, t)) =>
                         tcb'[t].uso = "vivo",
         exec # <<>> /\ cpu = NULL => exec' # <<>> /\ cpu' = NULL,
         NEW d \in Dependencias, DependenciaBien(d)
  PROVE  DependenciaBien(d)'
<1>1. d.hilo \in Tcbs
  BY DEF Dependencias
<1>2. tcb'[d.hilo].uso = "vivo"
  <2>1. tcb[d.hilo].uso = "vivo" /\ (cpu = NULL \/ Contiene(bloq, d.hilo))
    BY DEF DependenciaBien
  <2> QED
    BY <1>1, <2>1
<1>3. d.dependiente # NULL => d.dependiente = d.hilo /\ Contiene(bloq', d.hilo)
  BY <1>1 DEF DependenciaBien
<1>4. d.dependiente = NULL => exec' # <<>> /\ cpu' = NULL
  BY DEF DependenciaBien
<1> QED
  BY <1>2, <1>3, <1>4 DEF DependenciaBien, Contiene

LEMMA DepsEnTipo ==
  ASSUME InvLugar
  PROVE  /\ deps \in Seq(Dependencias) /\ DOMAIN deps = 1 .. Len(deps) /\ Len(deps) \in Nat
         /\ \A i \in DOMAIN deps : deps[i] \in Dependencias /\ DependenciaBien(deps[i])
<1>1. deps \in Seq(Dependencias)
  BY DEF InvLugar, TypeOK, Dependencias
<1>2. DOMAIN deps = 1 .. Len(deps) /\ Len(deps) \in Nat
  BY <1>1, LenProperties
<1>3. \A i \in DOMAIN deps : deps[i] \in Dependencias
  BY <1>1, <1>2, ElementOfSeq
<1> QED
  BY <1>1, <1>2, <1>3 DEF InvLugar

LEMMA DepsSiguen ==
  ASSUME InvLugar, deps' = deps,
         \A t \in Tcbs : Contiene(bloq, t) => Contiene(bloq', t),
         \A t \in Tcbs : tcb[t].uso = "vivo" /\ (cpu = NULL \/ Contiene(bloq, t)) =>
                         tcb'[t].uso = "vivo",
         exec # <<>> /\ cpu = NULL => exec' # <<>> /\ cpu' = NULL
  PROVE  (\A i \in DOMAIN deps : DependenciaBien(deps[i]))'
<1>1. \A i \in DOMAIN deps : \E d : d = deps[i] /\ DependenciaBien(d)'
  BY DepsEnTipo, DependenciaSigue
<1> QED
  BY <1>1 DEF DependenciaBien, Contiene

LEMMA DepsCrecen ==
  ASSUME InvLugar, NEW e \in Dependencias, deps' = Append(deps, e), DependenciaBien(e)',
         \A t \in Tcbs : Contiene(bloq, t) => Contiene(bloq', t),
         UNCHANGED tcb, cpu # NULL
  PROVE  (\A i \in DOMAIN deps : DependenciaBien(deps[i]))'
<1>1. \A i \in DOMAIN deps : \E d : d = deps[i] /\ DependenciaBien(d)'
  BY DepsEnTipo, DependenciaSigue
<1>2. /\ DOMAIN deps' = 1 .. Len(deps) + 1 /\ deps'[Len(deps) + 1] = e
      /\ \A i \in 1 .. Len(deps) : deps'[i] = deps[i]
  BY DepsEnTipo, AppendProperties, LenProperties
<1>3. \A i \in DOMAIN deps' : \E d : d = deps'[i] /\ DependenciaBien(d)'
  BY <1>1, <1>2, DepsEnTipo
<1> QED
  BY <1>3 DEF DependenciaBien, Contiene

\* While the CPU owes an answer, the handlers find its hilo first and alone.
LEMMA ElQueCorre ==
  ASSUME InvLugar, EnMarcha, pc = "espera_cpu"
  PROVE  /\ cpu \in Tcbs /\ exec = <<cpu>> /\ Sitios(cpu) = {"exec"}
         /\ tcb[cpu].uso = "vivo"
         /\ \A id : IF tcb[cpu].id = id
                    THEN Obtener(exec, id) = cpu /\ Quita(exec, id) = <<>>
                    ELSE Obtener(exec, id) = NULL /\ Quita(exec, id) = exec
<1>1. cpu \in Tcbs /\ cpu # NULL /\ exec = <<cpu>> /\ exec \in Cola /\ Len(exec) = 1
  BY Supuestos DEF InvLugar, InvUno, EjecutaUno, TypeOK, Cola, Punteros
<1>2. Contiene(exec, cpu)
  BY <1>1, ContieneUno
<1>3. Sitios(cpu) = {"exec"}
  <2>1. "exec" \in Sitios(cpu) /\ \A a, b \in Sitios(cpu) : a = b
    BY <1>1, <1>2, SitiosSon DEF InvLugar
  <2> QED
    BY <2>1
<1>4. tcb[cpu].uso = "vivo"
  BY <1>1, <1>3 DEF InvLugar
<1>5. ASSUME NEW id
      PROVE  IF tcb[cpu].id = id
             THEN Obtener(exec, id) = cpu /\ Quita(exec, id) = <<>>
             ELSE Obtener(exec, id) = NULL /\ Quita(exec, id) = exec
  <2> DEFINE I == {i \in 1 .. Len(exec) : IF exec[i] = NULL THEN TRUE ELSE tcb[exec[i]].id = id}
  <2>1. Parada(exec, id) = IF I # {} THEN Min(I) ELSE 0
    BY DEF Parada, SelectInSeq
  <2>2. I = IF tcb[cpu].id = id THEN {1} ELSE {}
    BY <1>1
  <2> HIDE DEF I
  <2>3. CASE tcb[cpu].id = id
    <3>1. Parada(exec, id) = 1
      BY <2>1, <2>2, <2>3, MinNat
    <3>2. Len(RemoveAt(exec, 1)) = 0 /\ RemoveAt(exec, 1) \in Cola
      <4>1. exec \in Cola /\ 1 \in 1 .. Len(exec) /\ Len(exec) - 1 = 0
        BY <1>1
      <4>2. RemoveAt(exec, 1) \in Cola /\ Len(RemoveAt(exec, 1)) = Len(exec) - 1
        BY <4>1, RemoveAtElements DEF Cola
      <4> QED
        BY <4>1, <4>2
    <3>3. RemoveAt(exec, 1) = <<>>
      BY <3>2, EmptySeq DEF Cola
    <3> QED
      BY <1>1, <2>3, <3>1, <3>3 DEF Obtener, Quita
  <2>4. CASE tcb[cpu].id # id
    BY <2>1, <2>2, <2>4 DEF Obtener, Quita
  <2> QED
    BY <2>3, <2>4
<1> QED
  BY <1>1, <1>3, <1>4, <1>5

Paso == MueveUno /\ Ordenadas'

LEMMA NadaSeMueve ==
  ASSUME InvLugar, UNCHANGED <<tcb, exec, bloq, ready, deps, enIO>>,
         creando' \in {Marcar, creando}, cpu' \in {NULL, cpu}
  PROVE  Paso
<1>1. \A c \in Creadores : creando'[c].tcb = creando[c].tcb
  BY MarcarNoMueve DEF InvLugar, TypeOK, Altas
<1>2. \A t : EnAlta(t)' <=> EnAlta(t)
  BY <1>1 DEF EnAlta
<1>3. \A t \in Tcbs : Queda(t)
  BY <1>2, SeQueda
<1>4. (\A i \in DOMAIN deps : DependenciaBien(deps[i]))'
  BY DepsSiguen
<1>5. Ordenadas'
  BY <1>1, <1>4 DEF Ordenadas, InvLugar, SinRepetir
<1> QED
  BY <1>3, <1>5 DEF Paso, MueveUno

LEMMA DespacharMueve ==
  ASSUME SinDanos, InvLugar, Despachar
  PROVE  Paso
<1>1. exec = <<>> /\ cpu = NULL /\ ready # <<>> /\ ready \in Cola /\ creando \in Altas
  BY DEF Despachar, InvLugar, InvUno, InvCpu, CpuConDuenio, TypeOK, Cola, Altas
<1>2. /\ Head(ready) \in Punteros
      /\ \A t : Contiene(ready, t) <=> Contiene(Tail(ready), t) \/ t = Head(ready)
      /\ SinRepetir(Tail(ready))
      /\ Head(ready) # NULL => ~ Contiene(Tail(ready), Head(ready))
  BY <1>1, ContieneResto DEF InvLugar
<1>3. /\ ready' = Tail(ready) /\ creando' = Marcar
      /\ UNCHANGED <<algoritmo, tcb, bloq, deps, enIO>>
      /\ IF Head(ready) = NULL THEN UNCHANGED <<exec, cpu>>
         ELSE exec' = Append(exec, Head(ready)) /\ cpu' = Head(ready)
  <2>1. algoritmo # "PRIORIDADES"
    BY DEF SinDanos, InvLugar, TypeOK
  <2>2. Elegibles = {[cola |-> Tail(ready), elegido |-> Head(ready)]}
    BY <2>1 DEF Elegibles
  <2> QED
    BY <2>2 DEF Despachar
<1>4. \A c \in Creadores : creando'[c].tcb = creando[c].tcb
  BY <1>1, <1>3, MarcarNoMueve
<1>5. \A t : EnAlta(t)' <=> EnAlta(t)
  BY <1>4 DEF EnAlta
<1>6. (\A i \in DOMAIN deps : DependenciaBien(deps[i]))'
  BY <1>1, <1>3, DepsSiguen
<1>7. Ordenadas'
  BY <1>2, <1>3, <1>4, <1>6 DEF Ordenadas, InvLugar, SinRepetir
<1>8. CASE Head(ready) = NULL
  <2>1. ASSUME NEW t \in Tcbs
        PROVE  Queda(t)
    BY <1>2, <1>3, <1>5, <1>8, <2>1, Supuestos, SeQueda
  <2> QED
    BY <1>7, <2>1 DEF Paso, MueveUno
<1>9. CASE Head(ready) # NULL
  <2>1. PICK h \in Tcbs : h = Head(ready)
    BY <1>2, <1>9 DEF Punteros
  <2>2. exec' = <<h>> /\ \A t : Contiene(exec', t) <=> t = h
    BY <1>1, <1>3, <1>9, <2>1, ContieneUno
  <2>3. ASSUME NEW t \in Tcbs \ {h}
        PROVE  Queda(t)
    BY <1>1, <1>2, <1>3, <1>5, <2>1, <2>2, ContieneVacia, SeQueda
  <2>4. Sitios(h) = {"ready"}
    BY <1>2, <2>1, SitiosSon DEF InvLugar
  <2>5. Sitios(h)' = {"exec"}
    BY <1>2, <1>3, <1>5, <1>9, <2>1, <2>2, <2>4, SitiosSon, SitiosSeran
  <2>6. tcb[h].uso = "vivo"
    BY <2>4 DEF InvLugar
  <2>7. Avanza(h)
    BY <1>1, <1>3, <2>4, <2>5, <2>6 DEF Avanza
  <2> QED
    BY <1>7, <2>3, <2>7 DEF Paso, MueveUno
<1> QED
  BY <1>8, <1>9

LEMMA FinIOMueve ==
  ASSUME SinDanos, InvLugar, FinIO
  PROVE  Paso
<1>1. /\ enIO \in Tcbs /\ algoritmo \in Colas /\ ready \in Cola /\ creando \in Altas
      /\ AgregarHiloAReady(enIO)
      /\ enIO' = NULL /\ UNCHANGED <<tcb, exec, bloq, deps, cpu>>
  BY DEF FinIO, InvLugar, TypeOK, Cola, Altas, Punteros, listas
<1>2. PICK h \in Tcbs : h = enIO
  BY <1>1
<1>3. ready' \in Encolada(ready, h, Carrera) /\ creando' = Marcar
  BY <1>1, <1>2, AgregarUno
<1>4. Sitios(h) = {"enIO"} /\ tcb[h].uso = "vivo"
  BY <1>2, SitiosSon DEF InvLugar
<1>5. ~ Contiene(ready, h) /\ ~ Contiene(exec, h) /\ ~ Contiene(bloq, h) /\ ~ EnAlta(h)
  BY <1>4, SitiosSon
<1>6. /\ \A t \in Tcbs : t # h => (Contiene(ready', t) <=> Contiene(ready, t))
      /\ SinRepetir(ready')
      /\ ~ Carrera => Contiene(ready', h)
  BY <1>1, <1>3, <1>5, ContieneEncolada DEF InvLugar
<1>7. \A c \in Creadores : creando'[c].tcb = creando[c].tcb
  BY <1>1, <1>3, MarcarNoMueve
<1>8. \A t : EnAlta(t)' <=> EnAlta(t)
  BY <1>7 DEF EnAlta
<1>9. (\A i \in DOMAIN deps : DependenciaBien(deps[i]))'
  BY <1>1, DepsSiguen
<1>10. Ordenadas'
  BY <1>1, <1>6, <1>7, <1>9 DEF Ordenadas, InvLugar, SinRepetir
<1>11. ASSUME NEW t \in Tcbs \ {h}
       PROVE  Queda(t)
  <2>1. enIO' # t /\ enIO # t
    BY <1>1, <1>2, Supuestos
  <2> QED
    BY <1>1, <1>6, <1>8, <2>1, SeQueda
<1>12. Sitios(h)' \in {{}, {"ready"}} /\ (~ Carrera => Sitios(h)' # {})
  <2>1. enIO' # h
    BY <1>1, Supuestos
  <2> QED
    BY <1>1, <1>5, <1>6, <1>8, <2>1, SitiosSeran
<1>13. Carrera => Creadores # {}
  BY DEF Carrera
<1>14. Avanza(h)
  BY <1>1, <1>4, <1>12, <1>13 DEF Avanza
<1> QED
  BY <1>10, <1>11, <1>14 DEF Paso, MueveUno

LEMMA IOMueve ==
  ASSUME InvLugar, IO
  PROVE  Paso
<1>1. /\ exec' = Quita(exec, Id) /\ enIO' = Obtener(exec, Id) /\ cpu' = NULL
      /\ UNCHANGED <<tcb, bloq, ready, deps, creando>>
      /\ EnMarcha /\ pc = "espera_cpu"
  BY DEF IO, Contesta
<1>2. /\ cpu \in Tcbs /\ exec = <<cpu>> /\ Sitios(cpu) = {"exec"}
      /\ tcb[cpu].uso = "vivo" /\ exec' = <<>> /\ enIO' = cpu
  BY <1>1, ElQueCorre DEF Id
<1>3. enIO = NULL
  BY <1>1 DEF InvLugar
<1>4. PICK h \in Tcbs : h = cpu
  BY <1>2
<1>5. ASSUME NEW t \in Tcbs \ {h}
      PROVE  Queda(t)
  <2>1. ~ Contiene(exec, t) /\ ~ Contiene(exec', t)
    BY <1>2, <1>4, ContieneUno, ContieneVacia
  <2>2. enIO' # t /\ enIO # t
    BY <1>2, <1>3, <1>4, Supuestos
  <2> QED
    BY <1>1, <2>1, <2>2, SeQueda DEF EnAlta
<1>6. Sitios(h)' = {"enIO"}
  <2>1. ~ Contiene(bloq', h) /\ ~ Contiene(ready', h) /\ ~ EnAlta(h)'
    BY <1>1, <1>2, <1>4, SitiosSon DEF EnAlta
  <2>2. ~ Contiene(exec', h) /\ enIO' = h
    BY <1>2, <1>4, ContieneVacia
  <2> QED
    BY <2>1, <2>2, SitiosSeran
<1>7. Avanza(h)
  BY <1>1, <1>2, <1>4, <1>6 DEF Avanza
<1>8. (\A i \in DOMAIN deps : DependenciaBien(deps[i]))'
  BY <1>1, <1>2, Supuestos, DepsSiguen
<1>9. Ordenadas'
  BY <1>1, <1>8 DEF Ordenadas, InvLugar, SinRepetir
<1> QED
  BY <1>5, <1>7, <1>9 DEF Paso, MueveUno

\* Nobody waits for the hilo that runs: the only one that could is itself.
LEMMA NadieLoEspera ==
  ASSUME InvLugar, EnMarcha, pc = "espera_cpu"
  PROVE  ~ tieneDependiente(cpu)
<1> DEFINE I == {i \in 1 .. Len(deps) : deps[i].hilo = cpu}
<1>1. tieneDependiente(cpu) =
        LET i == IF I # {} THEN Min(I) ELSE 0
        IN IF i = 0 THEN FALSE ELSE deps[i].dependiente # NULL
  BY DEF tieneDependiente, SelectInSeq
<1>2. Len(deps) \in Nat /\ DOMAIN deps = 1 .. Len(deps)
  BY LenProperties DEF InvLugar, TypeOK
<1>3. cpu \in Tcbs /\ Sitios(cpu) = {"exec"}
  BY ElQueCorre
<1>4. I \subseteq Nat /\ \A i \in I : deps[i].hilo = cpu /\ DependenciaBien(deps[i])
  BY <1>2 DEF InvLugar
<1> HIDE DEF I
<1>5. ASSUME NEW i \in I
      PROVE  deps[i].dependiente = NULL
  <2>1. deps[i].dependiente # NULL => Contiene(bloq, cpu)
    BY <1>4 DEF DependenciaBien
  <2> QED
    BY <1>3, <2>1, SitiosSon
<1>6. I # {} => Min(I) \in I
  BY <1>4, MinNat
<1> QED
  BY <1>1, <1>5, <1>6

LEMMA SalirMueve ==
  ASSUME InvLugar, THREAD_EXIT
  PROVE  Paso
<1>1. /\ exec' = Quita(exec, Id) /\ FinalizarHilo(Obtener(exec, Id), bloq)
      /\ UNCHANGED enIO /\ EnMarcha /\ pc = "espera_cpu"
  BY DEF THREAD_EXIT, Contesta
<1>2. /\ cpu \in Tcbs /\ exec = <<cpu>> /\ Sitios(cpu) = {"exec"}
      /\ tcb[cpu].uso = "vivo" /\ exec' = <<>> /\ Obtener(exec, Id) = cpu
      /\ ~ tieneDependiente(cpu)
  BY <1>1, ElQueCorre, NadieLoEspera DEF Id
<1>3. PICK h \in Tcbs : h = cpu
  BY <1>2
<1>4. /\ UNCHANGED <<bloq, ready, deps, creando>> /\ cpu' = NULL
      /\ \/ FALSE \in RespuestasMemoria /\ UNCHANGED tcb
         \/ \E id \in Ids : tcb' = [tcb EXCEPT ![h].uso = "liberado", ![h].id = id]
  BY <1>1, <1>2, <1>3 DEF FinalizarHilo, Vuelve
<1>5. tcb \in Memoria
  BY DEF InvLugar, TypeOK, Memoria
<1>6. /\ \A t \in Tcbs \ {h} : tcb'[t].uso = tcb[t].uso
      /\ tcb'[h].uso \in {"vivo", "liberado"}
      /\ tcb'[h].uso = "vivo" => FALSE \in RespuestasMemoria
  <2>1. CASE FALSE \in RespuestasMemoria /\ UNCHANGED tcb
    BY <1>2, <1>3, <2>1
  <2>2. CASE \E id \in Ids : tcb' = [tcb EXCEPT ![h].uso = "liberado", ![h].id = id]
    BY <1>5, <2>2 DEF Memoria
  <2> QED
    BY <1>4, <2>1, <2>2
<1>7. ~ Contiene(bloq, h) /\ ~ Contiene(ready, h) /\ ~ EnAlta(h) /\ enIO # h
  BY <1>2, <1>3, SitiosSon
<1>8. ASSUME NEW t \in Tcbs \ {h}
      PROVE  Queda(t)
  <2>1. ~ Contiene(exec, t) /\ ~ Contiene(exec', t)
    BY <1>2, <1>3, ContieneUno, ContieneVacia
  <2> QED
    BY <1>1, <1>4, <1>6, <2>1, SeQueda DEF EnAlta
<1>9. Sitios(h)' = {}
  <2>1. ~ Contiene(bloq', h) /\ ~ Contiene(ready', h) /\ ~ EnAlta(h)' /\ enIO' # h
    BY <1>1, <1>4, <1>7 DEF EnAlta
  <2>2. ~ Contiene(exec', h)
    BY <1>2, ContieneVacia
  <2> QED
    BY <2>1, <2>2, SitiosSeran
<1>10. Avanza(h)
  BY <1>2, <1>3, <1>6, <1>9 DEF Avanza
<1>11. (\A i \in DOMAIN deps : DependenciaBien(deps[i]))'
  <2>1. cpu # NULL
    BY <1>2, Supuestos
  <2>2. \A t \in Tcbs : tcb[t].uso = "vivo" /\ (cpu = NULL \/ Contiene(bloq, t)) =>
                          tcb'[t].uso = "vivo"
    BY <1>6, <1>7, <2>1
  <2> QED
    BY <1>4, <2>1, <2>2, DepsSiguen
<1>12. Ordenadas'
  BY <1>4, <1>11 DEF Ordenadas, InvLugar, SinRepetir
<1> QED
  BY <1>8, <1>10, <1>12 DEF Paso, MueveUno

\* A TCB that malloc had not returned is nowhere.
LEMMA SinUsar ==
  ASSUME InvLugar, NEW h \in Tcbs, tcb[h].uso = "sin_usar", NEW id, NEW p,
         tcb' = Nuevo(h, id, p)
  PROVE  /\ Sitios(h) = {} /\ ~ Contiene(exec, h) /\ ~ Contiene(bloq, h)
         /\ ~ Contiene(ready, h) /\ enIO # h /\ ~ EnAlta(h)
         /\ tcb'[h].uso = "vivo"
         /\ \A t \in Tcbs \ {h} : tcb'[t].uso = tcb[t].uso
         /\ \A t \in Tcbs : tcb[t].uso = "vivo" => tcb'[t].uso = "vivo"
<1>1. Sitios(h) = {}
  BY DEF InvLugar
<1>2. tcb \in Memoria
  BY DEF InvLugar, TypeOK, Memoria
<1>3. tcb'[h].uso = "vivo" /\ \A t \in Tcbs \ {h} : tcb'[t].uso = tcb[t].uso
  BY <1>2 DEF Nuevo, Memoria
<1> QED
  BY <1>1, <1>3, SitiosSon

LEMMA CrearMueve ==
  ASSUME InvLugar, algoritmo \in Colas, CrearHilo,
         UNCHANGED <<exec, bloq, deps, enIO>>, cpu' \in {NULL, cpu}
  PROVE  Paso
<1>1. PICK h \in Tcbs, id \in Ids, p \in Prioridades, ok \in RespuestasMemoria :
        /\ tcb[h].uso = "sin_usar"
        /\ tcb' = Nuevo(h, id, p)
        /\ IF ok THEN AgregarHiloAReady(h) ELSE UNCHANGED <<ready, creando>>
  BY DEF CrearHilo
<1>2. /\ Sitios(h) = {} /\ ~ Contiene(exec, h) /\ ~ Contiene(bloq, h)
      /\ ~ Contiene(ready, h) /\ enIO # h /\ ~ EnAlta(h)
      /\ tcb'[h].uso = "vivo"
      /\ \A t \in Tcbs \ {h} : tcb'[t].uso = tcb[t].uso
      /\ \A t \in Tcbs : tcb[t].uso = "vivo" => tcb'[t].uso = "vivo"
  BY <1>1, SinUsar
<1>3. ready \in Cola /\ creando \in Altas /\ RespuestasMemoria \subseteq BOOLEAN
  BY PlanAssumption, Zenon DEF InvLugar, TypeOK, Cola, Altas
<1>4. /\ \A t \in Tcbs : t # h => (Contiene(ready', t) <=> Contiene(ready, t))
      /\ SinRepetir(ready')
      /\ creando' \in {Marcar, creando}
      /\ FALSE \in RespuestasMemoria \/ Creadores # {} \/ Contiene(ready', h)
  <2>1. CASE AgregarHiloAReady(h)
    <3>1. ready' \in Encolada(ready, h, Carrera) /\ creando' = Marcar
      BY <1>3, <2>1, AgregarUno
    <3> QED
      BY <1>2, <1>3, <3>1, ContieneEncolada DEF InvLugar, Carrera
  <2>2. CASE ~ ok /\ UNCHANGED <<ready, creando>>
    BY <1>3, <2>2 DEF InvLugar
  <2> QED
    BY <1>1, <2>1, <2>2
<1>5. \A c \in Creadores : creando'[c].tcb = creando[c].tcb
  BY <1>3, <1>4, MarcarNoMueve
<1>6. \A t : EnAlta(t)' <=> EnAlta(t)
  BY <1>5 DEF EnAlta
<1>7. ASSUME NEW t \in Tcbs \ {h}
      PROVE  Queda(t)
  BY <1>2, <1>4, <1>6, SeQueda
<1>8. Sitios(h)' \in {{}, {"ready"}} /\ (Contiene(ready', h) => Sitios(h)' # {})
  <2>1. ~ Contiene(exec', h) /\ ~ Contiene(bloq', h) /\ enIO' # h /\ ~ EnAlta(h)'
    BY <1>2, <1>6
  <2> QED
    BY <2>1, SitiosSeran
<1>9. Avanza(h)
  BY <1>1, <1>2, <1>4, <1>8 DEF Avanza
<1>10. (\A i \in DOMAIN deps : DependenciaBien(deps[i]))'
  BY <1>2, DepsSiguen
<1>11. Ordenadas'
  BY <1>4, <1>5, <1>10 DEF Ordenadas, InvLugar, SinRepetir
<1> QED
  BY <1>7, <1>9, <1>11 DEF Paso, MueveUno

LEMMA EmpezarMueve ==
  ASSUME InvLugar, NEW c \in Creadores, EmpezarAlta(c)
  PROVE  Paso
<1>1. PICK h \in Tcbs, id \in Ids, p \in Prioridades, ok \in RespuestasMemoria :
        /\ tcb[h].uso = "sin_usar"
        /\ tcb' = Nuevo(h, id, p)
        /\ creando' = IF ok THEN [Marcar EXCEPT ![c] = [tcb |-> h, roto |-> Carrera]]
                      ELSE creando
  BY DEF EmpezarAlta
<1>2. creando[c].tcb = NULL /\ UNCHANGED <<exec, bloq, ready, deps, enIO, cpu>>
  BY DEF EmpezarAlta, listas
<1>3. /\ Sitios(h) = {} /\ ~ Contiene(exec, h) /\ ~ Contiene(bloq, h)
      /\ ~ Contiene(ready, h) /\ enIO # h /\ ~ EnAlta(h)
      /\ tcb'[h].uso = "vivo"
      /\ \A t \in Tcbs \ {h} : tcb'[t].uso = tcb[t].uso
      /\ \A t \in Tcbs : tcb[t].uso = "vivo" => tcb'[t].uso = "vivo"
  BY <1>1, SinUsar
<1>4. creando \in Altas /\ Marcar \in Altas /\ h # NULL
  BY MarcarEnTipo, Supuestos DEF InvLugar, TypeOK, Altas
<1>5. \A d \in Creadores : Marcar[d].tcb = creando[d].tcb
  BY <1>4, MarcarConserva
<1>6. /\ \A d \in Creadores : d # c => creando'[d].tcb = creando[d].tcb
      /\ creando'[c].tcb \in {NULL, h}
  BY <1>1, <1>2, <1>4, <1>5 DEF Altas
<1>7. \A d \in Creadores : creando[d].tcb # h
  BY <1>3 DEF EnAlta
<1>8. \A t \in Tcbs : t # h => (EnAlta(t)' <=> EnAlta(t))
  BY <1>2, <1>6, Supuestos DEF EnAlta
<1>9. ASSUME NEW t \in Tcbs \ {h}
      PROVE  Queda(t)
  BY <1>2, <1>3, <1>8, SeQueda
<1>10. Sitios(h)' \in {{}, {"creando"}}
  BY <1>2, <1>3, SitiosSeran
<1>11. Avanza(h)
  BY <1>1, <1>3, <1>10 DEF Avanza
<1>12. (\A i \in DOMAIN deps : DependenciaBien(deps[i]))'
  BY <1>2, <1>3, DepsSiguen
<1>13. \A d, e \in Creadores : creando'[d].tcb = creando'[e].tcb /\ creando'[d].tcb # NULL => d = e
  BY <1>6, <1>7 DEF InvLugar
<1>14. Ordenadas'
  BY <1>2, <1>12, <1>13 DEF Ordenadas, InvLugar, SinRepetir
<1> QED
  BY <1>9, <1>11, <1>14 DEF Paso, MueveUno

LEMMA TerminarMueve ==
  ASSUME InvLugar, NEW c \in Creadores, TerminarAlta(c)
  PROVE  Paso
<1>1. /\ creando[c].tcb # NULL /\ UNCHANGED <<exec, bloq, deps, enIO, cpu, tcb>>
      /\ creando' = [Marcar EXCEPT ![c] = [tcb |-> NULL, roto |-> FALSE]]
      /\ ready' \in Encolada(ready, creando[c].tcb, creando[c].roto) \/ ready' = ready
  BY DEF TerminarAlta, listas
<1>2. creando \in Altas /\ Marcar \in Altas /\ ready \in Cola
  BY MarcarEnTipo DEF InvLugar, TypeOK, Altas, Cola
<1>3. PICK h \in Tcbs : h = creando[c].tcb
  BY <1>1, <1>2 DEF Altas, Punteros
<1>4. EnAlta(h)
  BY <1>3 DEF EnAlta
<1>5. Sitios(h) = {"creando"} /\ tcb[h].uso = "vivo"
  BY <1>4, SitiosSon DEF InvLugar
<1>6. ~ Contiene(exec, h) /\ ~ Contiene(bloq, h) /\ ~ Contiene(ready, h) /\ enIO # h
  BY <1>5, SitiosSon
<1>7. \A d \in Creadores : Marcar[d].tcb = creando[d].tcb
  BY <1>2, MarcarConserva
<1>8. /\ \A d \in Creadores : d # c => creando'[d].tcb = creando[d].tcb
      /\ creando'[c].tcb = NULL
  BY <1>1, <1>2, <1>7 DEF Altas
<1>9. \A t \in Tcbs : t # h => (EnAlta(t)' <=> EnAlta(t))
  BY <1>3, <1>8, Supuestos DEF EnAlta
<1>10. ~ EnAlta(h)'
  <2>1. \A d \in Creadores : d # c => creando[d].tcb # h
    BY <1>1, <1>3 DEF InvLugar
  <2> QED
    BY <1>8, <2>1, Supuestos DEF EnAlta
<1>11. /\ \A t \in Tcbs : t # h => (Contiene(ready', t) <=> Contiene(ready, t))
       /\ SinRepetir(ready')
  <2>1. CASE ready' = ready
    BY <2>1 DEF InvLugar
  <2>2. CASE ready' \in Encolada(ready, h, creando[c].roto)
    BY <1>2, <1>6, <2>2, ContieneEncolada DEF InvLugar
  <2> QED
    BY <1>1, <1>3, <2>1, <2>2
<1>12. ASSUME NEW t \in Tcbs \ {h}
       PROVE  Queda(t)
  BY <1>1, <1>9, <1>11, SeQueda
<1>13. Sitios(h)' \in {{}, {"ready"}}
  BY <1>1, <1>6, <1>10, SitiosSeran
<1>14. Avanza(h)
  BY <1>1, <1>5, <1>13 DEF Avanza
<1>15. (\A i \in DOMAIN deps : DependenciaBien(deps[i]))'
  BY <1>1, DepsSiguen
<1>16. \A d, e \in Creadores : creando'[d].tcb = creando'[e].tcb /\ creando'[d].tcb # NULL => d = e
  BY <1>8 DEF InvLugar
<1>17. Ordenadas'
  BY <1>1, <1>11, <1>15, <1>16 DEF Ordenadas, InvLugar, SinRepetir
<1> QED
  BY <1>12, <1>14, <1>17 DEF Paso, MueveUno

\* What buscarHilo finds is a live hilo.
LEMMA BuscaVivo ==
  ASSUME InvLugar, NEW id, Obtener(DondeBusca(id), id) # NULL
  PROVE  /\ Obtener(DondeBusca(id), id) \in Tcbs
         /\ tcb[Obtener(DondeBusca(id), id)].uso = "vivo"
<1>1. exec \in Cola /\ bloq \in Cola /\ ready \in Cola /\ <<>> \in Cola
  BY EmptySeq DEF InvLugar, TypeOK, Cola
<1>2. PICK l \in Cola : l = DondeBusca(id) /\ l \in {exec, bloq, ready, <<>>}
  BY <1>1, BuscaEnListas
<1>3. PICK h : h = Obtener(l, id)
  OBVIOUS
<1>4. h \in Tcbs /\ Contiene(l, h)
  BY <1>2, <1>3, ListasEnTipo, ObtenerContiene DEF Punteros
<1>5. Sitios(h) # {}
  BY <1>2, <1>4, ContieneVacia, SitiosSon
<1> QED
  BY <1>2, <1>3, <1>4, <1>5 DEF InvLugar

LEMMA UnirseMueve ==
  ASSUME InvLugar, THREAD_JOIN
  PROVE  Paso
<1>1. EnMarcha /\ pc = "espera_cpu"
  BY DEF THREAD_JOIN, Contesta
<1>2. /\ cpu \in Tcbs /\ cpu # NULL /\ exec = <<cpu>> /\ Sitios(cpu) = {"exec"}
      /\ tcb[cpu].uso = "vivo"
  BY <1>1, ElQueCorre, Supuestos
<1>3. exec \in Cola /\ bloq \in Cola /\ ready \in Cola
  BY DEF InvLugar, TypeOK, Cola
<1>4. CASE UNCHANGED <<tcb, exec, bloq, ready, deps, enIO, creando>> /\ cpu' \in {NULL, cpu}
  BY <1>4, NadaSeMueve
<1>5. ASSUME NEW id \in Ids,
             LET hilo        == Obtener(DondeBusca(id), id)
                 dependiente == Obtener(exec, id)
             IN /\ hilo # NULL
                /\ deps' = Append(deps, [hilo |-> hilo, dependiente |-> dependiente])
                /\ exec' = Quita(exec, id)
                /\ bloq' = Append(bloq, dependiente),
             cpu' = NULL, UNCHANGED <<tcb, ready, enIO, creando>>
      PROVE  Paso
  <2>1. PICK h \in Tcbs : h = cpu
    BY <1>2
  <2>2. PICK e : e = Obtener(exec, id)
    OBVIOUS
  <2>3. PICK b : b = Obtener(DondeBusca(id), id)
    OBVIOUS
  <2>4. b \in Tcbs /\ tcb[b].uso = "vivo"
    BY <1>5, <2>3, BuscaVivo
  <2>5. /\ \/ tcb[cpu].id = id /\ e = h /\ exec' = <<>> /\ b = h
           \/ e = NULL /\ exec' = exec
        /\ deps' = Append(deps, [hilo |-> b, dependiente |-> e])
        /\ bloq' = Append(bloq, e)
    <3>1. CASE tcb[cpu].id = id
      <4>1. e = h /\ exec' = <<>> /\ e # NULL
        BY <1>1, <1>2, <1>5, <2>1, <2>2, <3>1, ElQueCorre
      <4>2. Parada(exec, id) # 0
        BY <2>2, <4>1 DEF Obtener
      <4>3. DondeBusca(id) = exec
        BY <1>3, <4>2, BuscaEnListas
      <4> QED
        BY <1>5, <2>2, <2>3, <3>1, <4>1, <4>3
    <3>2. CASE tcb[cpu].id # id
      BY <1>1, <1>5, <2>2, <2>3, <3>2, ElQueCorre
    <3> QED
      BY <3>1, <3>2
  <2>6. PICK d : d = [hilo |-> b, dependiente |-> e]
    OBVIOUS
  <2>7. d \in Dependencias /\ d.hilo = b /\ d.dependiente = e /\ deps' = Append(deps, d)
    BY <2>1, <2>4, <2>5, <2>6 DEF Dependencias, Punteros
  <2>8. ~ Contiene(bloq, h) /\ ~ Contiene(ready, h) /\ ~ EnAlta(h) /\ enIO # h
    BY <1>2, <2>1, SitiosSon
  <2>9. /\ \A t : Contiene(bloq', t) <=> Contiene(bloq, t) \/ t = e
        /\ SinRepetir(bloq')
    <3>1. e \in Punteros /\ (e = NULL \/ ~ Contiene(bloq, e))
      BY <2>1, <2>5, <2>8 DEF Punteros
    <3> QED
      BY <1>3, <2>5, <3>1, ContieneAgregar DEF InvLugar
  <2>10. DependenciaBien(d)'
    <3>1. CASE e = NULL
      <4>1. exec' # <<>> /\ cpu' = NULL
        <5>1. exec' = exec
          BY <1>2, <2>1, <2>5, <3>1
        <5>2. exec # <<>>
          BY <1>2
        <5> QED
          BY <1>5, <5>1, <5>2
      <4> QED
        BY <1>5, <2>4, <2>7, <3>1, <4>1 DEF DependenciaBien
    <3>2. CASE e = h /\ b = h
      <4>1. Contiene(bloq', h) /\ h # NULL
        BY <2>9, <3>2, Supuestos
      <4> QED
        BY <1>5, <2>4, <2>7, <3>2, <4>1 DEF DependenciaBien, Contiene
    <3> QED
      BY <2>5, <3>1, <3>2
  <2>11. (\A i \in DOMAIN deps : DependenciaBien(deps[i]))'
    BY <1>2, <1>5, <2>7, <2>9, <2>10, DepsCrecen
  <2>12. Ordenadas'
    BY <1>5, <2>9, <2>11 DEF Ordenadas, InvLugar, SinRepetir
  <2>13. CASE e = NULL /\ exec' = exec
    <3>1. ASSUME NEW t \in Tcbs
          PROVE  Queda(t)
      BY <1>5, <2>9, <2>13, Supuestos, SeQueda DEF EnAlta
    <3> QED
      BY <2>12, <3>1 DEF Paso, MueveUno
  <2>14. CASE e = h /\ exec' = <<>>
    <3>1. ASSUME NEW t \in Tcbs \ {h}
          PROVE  Queda(t)
      <4>1. ~ Contiene(exec, t) /\ ~ Contiene(exec', t)
        BY <1>2, <2>1, <2>14, ContieneUno, ContieneVacia
      <4> QED
        BY <1>5, <2>9, <2>14, <4>1, SeQueda DEF EnAlta
    <3>2. Sitios(h)' = {"bloq"}
      <4>1. ~ Contiene(exec', h) /\ Contiene(bloq', h) /\ ~ Contiene(ready', h)
            /\ enIO' # h /\ ~ EnAlta(h)'
        BY <1>5, <2>8, <2>9, <2>14, ContieneVacia DEF EnAlta
      <4> QED
        BY <4>1, SitiosSeran
    <3>3. Avanza(h)
      BY <1>2, <1>5, <2>1, <3>2 DEF Avanza
    <3> QED
      BY <2>12, <3>1, <3>3 DEF Paso, MueveUno
  <2> QED
    BY <2>5, <2>13, <2>14
<1> QED
  BY <1>4, <1>5 DEF THREAD_JOIN, Segv, listas, Vuelve

LEMMA PasoSiempre ==
  ASSUME SinDanos, InvLugar, [Next]_vars
  PROVE  Paso
<1>1. ASSUME UNCHANGED <<tcb, exec, bloq, ready, deps, enIO, creando>>, cpu' \in {NULL, cpu}
      PROVE  Paso
  BY <1>1, NadaSeMueve
<1>2. CASE AlgoritmoDesconocido \/ AtenderCMN \/ PedirReady \/ TomarReady \/ ReadyVacia
  BY <1>1, <1>2, MirarPaso DEF listas
<1>3. CASE Segv \/ SinEfecto \/ UNCHANGED vars
  BY <1>1, <1>3 DEF Segv, SinEfecto, Vuelve, listas, vars
<1>4. CASE ConPCB
  BY <1>3, <1>4 DEF ConPCB
<1>5. CASE Interpretar
  <2>1. algoritmo \in Colas
    <3>1. pc = "espera_cpu"
      BY <1>5 DEF Interpretar, IO, THREAD_EXIT, THREAD_CREATE, PROCESS_CREATE, THREAD_JOIN,
                  THREAD_CANCEL, DUMP_MEMORY, ConPCB, SinEfecto, Contesta
    <3> QED
      BY <3>1 DEF InvLugar
  <2>2. ~ THREAD_CANCEL /\ ~ DUMP_MEMORY
    BY DEF SinDanos, THREAD_CANCEL, DUMP_MEMORY, Contesta
  <2>3. CASE THREAD_CREATE
    BY <2>1, <2>3, CrearMueve DEF THREAD_CREATE, Vuelve, listas
  <2>4. CASE PROCESS_CREATE
    BY <1>1, <2>1, <2>4, CrearMueve DEF PROCESS_CREATE, Vuelve, listas
  <2> QED
    BY <1>3, <1>4, <1>5, <2>2, <2>3, <2>4, IOMueve, SalirMueve, UnirseMueve DEF Interpretar
<1>6. CASE \E c \in Creadores : EmpezarAlta(c) \/ TerminarAlta(c)
  BY <1>6, EmpezarMueve, TerminarMueve
<1>7. CASE Despachar \/ FinIO
  BY <1>7, DespacharMueve, FinIOMueve
<1> QED
  BY <1>2, <1>3, <1>5, <1>6, <1>7 DEF Next, Planificador

\* Where the scheduler is, and what it then has at hand.
LEMMA LugaresPaso ==
  ASSUME InvLugar, [Next]_vars
  PROVE  /\ pc' = "espera_cpu" => cpu' # NULL
         /\ enIO' # NULL <=> pc' = "en_io"
         /\ pc' # "inicio" => algoritmo' \in Colas
<1>1. /\ pc = "espera_cpu" => cpu # NULL
      /\ enIO # NULL <=> pc = "en_io"
      /\ pc # "inicio" => algoritmo \in Colas
      /\ cpu # NULL => pc = "espera_cpu"
  BY DEF InvLugar, InvUno, InvCpu, CpuConDuenio
<1>2. CASE UNCHANGED <<pc, cpu, enIO, algoritmo>>
  BY <1>1, <1>2
<1>3. CASE AlgoritmoDesconocido \/ AtenderCMN \/ PedirReady \/ TomarReady \/ ReadyVacia
  <2>1. UNCHANGED <<algoritmo, cpu, enIO>> /\ pc \in {"inicio", "pide_ready", "mira_ready"}
    BY <1>3, MirarPaso
  <2>2. \/ pc' = "inicio"
        \/ pc' \in {"pide_ready", "mira_ready"} /\ algoritmo \in Colas
    BY <1>1, <1>3, MirarPaso
  <2> QED
    BY <1>1, <2>1, <2>2
<1>4. CASE Despachar
  BY <1>1, <1>2, <1>4 DEF Despachar
<1>5. CASE FinIO
  BY <1>1, <1>5 DEF FinIO
<1>6. CASE Segv
  BY <1>2, <1>6 DEF Segv
<1>7. CASE IO
  <2>1. EnMarcha /\ pc = "espera_cpu" /\ pc' = "en_io" /\ cpu' = NULL
        /\ enIO' = Obtener(exec, Id) /\ algoritmo' = algoritmo
    BY <1>7 DEF IO, Contesta
  <2>2. Obtener(exec, Id) = cpu
    BY <2>1, ElQueCorre DEF Id
  <2> QED
    BY <1>1, <2>1, <2>2
<1>8. ASSUME UNCHANGED <<algoritmo, enIO>>, pc = "espera_cpu", Vuelve
      PROVE  /\ pc' = "espera_cpu" => cpu' # NULL
             /\ enIO' # NULL <=> pc' = "en_io"
             /\ pc' # "inicio" => algoritmo' \in Colas
  BY <1>1, <1>8 DEF Vuelve
<1>9. \A t, l : FinalizarHilo(t, l) => Vuelve
  BY DEF FinalizarHilo
<1>10. CASE THREAD_EXIT \/ THREAD_CREATE \/ SinEfecto
  BY <1>8, <1>9, <1>10 DEF THREAD_EXIT, THREAD_CREATE, SinEfecto, Contesta
<1>11. CASE PROCESS_CREATE
  BY <1>1, <1>8, <1>11 DEF PROCESS_CREATE, Contesta
<1>12. CASE THREAD_JOIN
  BY <1>6, <1>8, <1>12 DEF THREAD_JOIN, Contesta
<1>13. CASE THREAD_CANCEL
  <2>1. Segv \/ (UNCHANGED <<algoritmo, enIO>> /\ \E t : FinalizarHilo(t, bloq))
    BY <1>13 DEF THREAD_CANCEL
  <2> QED
    BY <1>6, <1>8, <1>9, <1>13, <2>1 DEF THREAD_CANCEL, Contesta
<1>14. CASE DUMP_MEMORY
  <2>1. Segv \/ (UNCHANGED <<algoritmo, enIO>> /\ (Vuelve \/ \E t, l : FinalizarHilo(t, l)))
    BY <1>14 DEF DUMP_MEMORY
  <2> QED
    BY <1>6, <1>8, <1>9, <1>14, <2>1 DEF DUMP_MEMORY, Contesta
<1>15. CASE ConPCB
  BY <1>6, <1>15 DEF ConPCB
<1>16. CASE \E c \in Creadores : EmpezarAlta(c) \/ TerminarAlta(c)
  BY <1>2, <1>16 DEF EmpezarAlta, TerminarAlta
<1>17. CASE UNCHANGED vars
  BY <1>2, <1>17 DEF vars
<1> QED
  BY <1>3, <1>4, <1>5, <1>7, <1>10, <1>11, <1>12, <1>13, <1>14, <1>15, <1>16, <1>17
  DEF Next, Planificador, Interpretar

LEMMA InvLugarPaso ==
  ASSUME SinDanos, InvLugar, [Next]_vars
  PROVE  InvLugar'
<1>1. TypeOK'
  BY TypePaso DEF InvLugar
<1>2. InvUno'
  BY InvUnoPaso DEF SinDanos, InvLugar
<1>3. MueveUno /\ Ordenadas'
  BY PasoSiempre DEF Paso
<1>4. ASSUME NEW t \in Tcbs
      PROVE  /\ \A a, b \in Sitios(t)' : a = b
             /\ Sitios(t)' # {} => tcb'[t].uso = "vivo"
  <2>1. CASE Queda(t)
    BY <2>1 DEF Queda, InvLugar
  <2>2. CASE Avanza(t)
    BY <2>2 DEF Avanza
  <2> QED
    BY <1>3, <2>1, <2>2 DEF MueveUno
<1>5. /\ \A t \in Tcbs : \A a, b \in Sitios(t)' : a = b
      /\ \A t \in Tcbs : Sitios(t)' # {} => tcb'[t].uso = "vivo"
  BY <1>4
<1> QED
  BY <1>1, <1>2, <1>3, <1>5, LugaresPaso DEF InvLugar, Ordenadas

\* The queue the scheduler starts with holds every hilo of Previos, each once.
LEMMA AlInicio ==
  ASSUME Init
  PROVE  ready \in Cola /\ SinRepetir(ready) /\ \A t : Contiene(ready, t) <=> t \in Previos
<1> DEFINE n == Cardinality(Previos)
<1>1. n \in Nat /\ IsFiniteSet(Previos) /\ Previos \subseteq Punteros
  BY Supuestos, FS_CardinalityType DEF Punteros
<1>2. /\ ready \in [1 .. n -> Previos]
      /\ \A i, j \in 1 .. n : i # j => ready[i] # ready[j]
  BY DEF Init, SetToSeqs
<1> HIDE DEF n
<1>3. ready \in Cola /\ SinRepetir(ready)
  BY <1>1, <1>2 DEF Cola, SinRepetir
<1>4. ASSUME NEW t \in Previos
      PROVE  \E i \in 1 .. n : ready[i] = t
  <2>1. ready \in Injection(1 .. n, Previos)
    BY <1>2 DEF Injection, IsInjective
  <2>2. IsFiniteSet(1 .. n) /\ Cardinality(1 .. n) = n
    BY <1>1, FS_Interval
  <2>3. ready \in Surjection(1 .. n, Previos)
    BY <1>1, <2>1, <2>2, FS_Injection DEF n
  <2> QED
    BY <2>3 DEF Surjection
<1> QED
  BY <1>2, <1>3, <1>4 DEF Contiene

LEMMA InvLugarInicio ==
  ASSUME Init
  PROVE  InvLugar /\ \A t \in Tcbs : tcb[t].uso = "vivo" => Sitios(t) # {}
<1>1. /\ pc = "inicio" /\ exec = <<>> /\ bloq = <<>> /\ deps = <<>>
      /\ cpu = NULL /\ enIO = NULL
      /\ \A c \in Creadores : creando[c].tcb = NULL
  BY DEF Init
<1>2. \A t \in Tcbs : tcb[t].uso = IF t \in Previos THEN "vivo" ELSE "sin_usar"
  BY DEF Init
<1>3. TypeOK
  BY EnTipoInicio
<1>4. InvUno
  BY UnoInicio
<1>5. \A t : ~ Contiene(exec, t) /\ ~ Contiene(bloq, t)
  BY <1>1, ContieneVacia
<1>6. ASSUME NEW t \in Tcbs
      PROVE  Sitios(t) = IF t \in Previos THEN {"ready"} ELSE {}
  <2>1. ~ EnAlta(t) /\ enIO # t
    BY <1>1, Supuestos DEF EnAlta
  <2>2. "ready" \in Sitios(t) <=> t \in Previos
    BY AlInicio, SitiosSon
  <2> QED
    BY <1>5, <2>1, <2>2, SitiosSon
<1>7. SinRepetir(bloq) /\ DOMAIN bloq = {} /\ DOMAIN deps = {}
  BY <1>1 DEF SinRepetir
<1> QED
  BY <1>1, <1>2, <1>3, <1>4, <1>6, <1>7, AlInicio DEF InvLugar

(***************************************************************************)
(* What follows from one place per hilo.                                   *)
(***************************************************************************)
LEMMA LugarSiempre ==
  ASSUME SinDanos
  PROVE  Spec => []InvLugar
<1>1. Init => InvLugar
  BY InvLugarInicio
<1>2. InvLugar /\ [Next]_vars => InvLugar'
  BY InvLugarPaso
<1> QED
  BY <1>1, <1>2, PTL DEF Spec

\* SinColgados: no list, dependency or pending IO keeps a TCB that
\* finalizar_hilo freed, however many hilos and creators there are.
THEOREM NadaColgado ==
  ASSUME SinDanos
  PROVE  Spec => []SinColgados
<1>1. ASSUME InvLugar
      PROVE  SinColgados
  <2> SUFFICES ASSUME NEW t \in Tcbs, tcb[t].uso = "liberado"
               PROVE  /\ ~Contiene(exec, t) /\ ~Contiene(bloq, t) /\ ~Contiene(ready, t)
                      /\ enIO # t
                      /\ \A i \in DOMAIN deps : t \notin {deps[i].hilo, deps[i].dependiente}
    BY DEF SinColgados
  <2>1. Sitios(t) = {}
    BY <1>1 DEF InvLugar
  <2>2. ASSUME NEW i \in DOMAIN deps
        PROVE  t \notin {deps[i].hilo, deps[i].dependiente}
    <3>1. DependenciaBien(deps[i])
      BY <1>1 DEF InvLugar
    <3> QED
      BY <3>1, Supuestos DEF DependenciaBien
  <2> QED
    BY <2>1, <2>2, SitiosSon
<1> QED
  BY <1>1, LugarSiempre, PTL

LEMMA VecesUno ==
  ASSUME NEW l \in Cola, NEW t \in Tcbs, SinRepetir(l)
  PROVE  Veces(l, t) = IF Contiene(l, t) THEN 1 ELSE 0
<1> DEFINE I == {i \in DOMAIN l : l[i] = t}
<1>1. CASE Contiene(l, t)
  <2>1. PICK i \in DOMAIN l : l[i] = t
    BY <1>1 DEF Contiene
  <2>2. I = {i}
    BY <2>1, Supuestos DEF SinRepetir
  <2> QED
    BY <1>1, <2>2, FS_Singleton DEF Veces
<1>2. CASE ~ Contiene(l, t)
  <2>1. I = {}
    BY <1>2 DEF Contiene
  <2> QED
    BY <1>2, <2>1, FS_EmptySet DEF Veces
<1> QED
  BY <1>1, <1>2

\* The number of places a hilo is in, once none of them repeats it.
LEMMA PresenciasSon ==
  ASSUME InvLugar, NEW t \in Tcbs
  PROVE  Presencias(t) = IF Sitios(t) = {} THEN 0 ELSE 1
<1>1. exec \in Cola /\ bloq \in Cola /\ ready \in Cola
  BY DEF InvLugar, TypeOK, Cola
<1>2. SinRepetir(exec) /\ SinRepetir(bloq) /\ SinRepetir(ready)
  <2>1. Len(exec) \in Nat /\ DOMAIN exec = 1 .. Len(exec) /\ Len(exec) <= 1
    BY <1>1, LenProperties DEF InvLugar, InvUno, EjecutaUno, Cola
  <2>2. SinRepetir(exec)
    BY <2>1 DEF SinRepetir
  <2> QED
    BY <2>2 DEF InvLugar
<1>3. EnCurso(t) = IF EnAlta(t) THEN 1 ELSE 0
  <2> DEFINE C == {c \in Creadores : creando[c].tcb = t}
  <2>1. CASE EnAlta(t)
    <3>1. PICK c \in Creadores : creando[c].tcb = t
      BY <2>1 DEF EnAlta
    <3>2. C = {c}
      BY <3>1, Supuestos DEF InvLugar
    <3> QED
      BY <2>1, <3>2, FS_Singleton DEF EnCurso
  <2>2. CASE ~ EnAlta(t)
    <3>1. C = {}
      BY <2>2 DEF EnAlta
    <3> QED
      BY <2>2, <3>1, FS_EmptySet DEF EnCurso
  <2> QED
    BY <2>1, <2>2
<1>4. /\ Veces(exec, t) = IF "exec" \in Sitios(t) THEN 1 ELSE 0
      /\ Veces(bloq, t) = IF "bloq" \in Sitios(t) THEN 1 ELSE 0
      /\ Veces(ready, t) = IF "ready" \in Sitios(t) THEN 1 ELSE 0
      /\ EnCurso(t) = IF "creando" \in Sitios(t) THEN 1 ELSE 0
      /\ "enIO" \in Sitios(t) <=> enIO = t
  BY <1>1, <1>2, <1>3, VecesUno, SitiosSon
<1>5. \/ Sitios(t) = {}
      \/ \E s \in {"exec", "bloq", "ready", "enIO", "creando"} : Sitios(t) = {s}
  <2>1. /\ Sitios(t) \subseteq {"exec", "bloq", "ready", "enIO", "creando"}
        /\ \A a, b \in Sitios(t) : a = b
    BY SitiosSon DEF InvLugar
  <2> QED
    BY <2>1
<1> QED
  BY <1>4, <1>5 DEF Presencias

\* LugarUnico: EXEC, BLOCKED, READY, the IO and the pushes under way are disjoint
\* and repeat no hilo, races on the queue included.
THEOREM UnLugarCadaUno ==
  ASSUME SinDanos
  PROVE  Spec => []LugarUnico
<1>1. ASSUME InvLugar
      PROVE  LugarUnico
  BY <1>1, PresenciasSon DEF LugarUnico
<1> QED
  BY <1>1, LugarSiempre, PTL

\* NingunoPerdido: when Memoria accepts every request and no other thread pushes
\* on the queue, each live hilo is in exactly one place.
THEOREM NadieSePierde ==
  ASSUME SinDanos, FALSE \notin RespuestasMemoria, Creadores = {}
  PROVE  Spec => []NingunoPerdido
<1> DEFINE Hallado == \A t \in Tcbs : tcb[t].uso = "vivo" => Sitios(t) # {}
<1>1. Init => InvLugar /\ Hallado
  BY InvLugarInicio
<1>2. ASSUME InvLugar, Hallado, [Next]_vars
      PROVE  InvLugar' /\ Hallado'
  <2>1. InvLugar' /\ MueveUno
    BY <1>2, InvLugarPaso, PasoSiempre DEF Paso
  <2>2. ASSUME NEW t \in Tcbs, tcb'[t].uso = "vivo"
        PROVE  Sitios(t)' # {}
    <3>1. CASE Queda(t)
      BY <1>2, <2>2, <3>1 DEF Queda
    <3>2. CASE Avanza(t)
      BY <2>2, <3>2 DEF Avanza
    <3> QED
      BY <2>1, <3>1, <3>2 DEF MueveUno
  <2> QED
    BY <2>1, <2>2
<1>3. ASSUME InvLugar, Hallado
      PROVE  NingunoPerdido
  BY <1>3, PresenciasSon DEF NingunoPerdido
<1> QED
  BY <1>1, <1>2, <1>3, PTL DEF Spec

(***************************************************************************)
(* The scheduler implements CicloDeVida: the state of a hilo follows from  *)
(* its place, and each move of MueveUno is a step of the life cycle.       *)
(***************************************************************************)
SegunSitios(t) ==
  CASE Sitios(t) = {} -> IF tcb[t].uso = "sin_usar" THEN "nuevo" ELSE "fin"
    [] Sitios(t) = {"creando"} -> "nuevo"
    [] Sitios(t) = {"exec"} -> "ejecuta"
    [] Sitios(t) = {"ready"} -> "listo"
    [] Sitios(t) \in {{"bloq"}, {"enIO"}} -> "espera"

UnSitio(t) ==
  \/ Sitios(t) = {}
  \/ tcb[t].uso = "vivo" /\ Sitios(t) \in {{"exec"}, {"bloq"}, {"ready"}, {"enIO"}, {"creando"}}

LEMMA UnoOninguno ==
  ASSUME InvLugar, NEW t \in Tcbs
  PROVE  UnSitio(t)
<1>1. /\ Sitios(t) \subseteq {"exec", "bloq", "ready", "enIO", "creando"}
      /\ \A a, b \in Sitios(t) : a = b
      /\ Sitios(t) # {} => tcb[t].uso = "vivo"
  BY SitiosSon DEF InvLugar
<1> QED
  BY <1>1 DEF UnSitio

LEMMA EstadoSon ==
  ASSUME NEW t \in Tcbs, UnSitio(t)
  PROVE  EstadoDe(t) = SegunSitios(t)
<1>1. EstadoDe(t) =
        CASE tcb[t].uso = "sin_usar" -> "nuevo"
          [] "creando" \in Sitios(t) -> "nuevo"
          [] "exec" \in Sitios(t) -> "ejecuta"
          [] "ready" \in Sitios(t) -> "listo"
          [] "bloq" \in Sitios(t) \/ "enIO" \in Sitios(t) -> "espera"
          [] OTHER -> "fin"
  BY SitiosSon DEF EstadoDe, EnAlta
<1>2. CASE Sitios(t) = {}
  BY <1>1, <1>2 DEF SegunSitios
<1>3. CASE tcb[t].uso = "vivo" /\ Sitios(t) \in {{"exec"}, {"bloq"}, {"ready"}, {"enIO"}, {"creando"}}
  BY <1>1, <1>3 DEF SegunSitios
<1> QED
  BY <1>2, <1>3 DEF UnSitio

LEMMA EstadoSeran ==
  ASSUME NEW t \in Tcbs, UnSitio(t)'
  PROVE  EstadoDe(t)' = SegunSitios(t)'
<1>1. EstadoDe(t)' =
        CASE tcb'[t].uso = "sin_usar" -> "nuevo"
          [] "creando" \in Sitios(t)' -> "nuevo"
          [] "exec" \in Sitios(t)' -> "ejecuta"
          [] "ready" \in Sitios(t)' -> "listo"
          [] "bloq" \in Sitios(t)' \/ "enIO" \in Sitios(t)' -> "espera"
          [] OTHER -> "fin"
  BY SitiosSeran DEF EstadoDe, EnAlta, Contiene
<1>2. CASE Sitios(t)' = {}
  BY <1>1, <1>2 DEF SegunSitios
<1>3. CASE tcb'[t].uso = "vivo"
           /\ Sitios(t)' \in {{"exec"}, {"bloq"}, {"ready"}, {"enIO"}, {"creando"}}
  BY <1>1, <1>3 DEF SegunSitios
<1> QED
  BY <1>2, <1>3 DEF UnSitio

\* One move of a hilo, in terms of its state.
PasaDe(t, de, a) == EstadoDe(t) \in de /\ EstadoDe(t)' = a

LEMMA AvanzaPasa ==
  ASSUME InvLugar, InvLugar', NEW h \in Tcbs, Avanza(h)
  PROVE  \/ EstadoDe(h)' = EstadoDe(h)
         \/ PasaDe(h, {"nuevo", "espera"}, "listo")
         \/ PasaDe(h, {"listo"}, "ejecuta") /\ exec = <<>>
         \/ PasaDe(h, {"ejecuta"}, "espera")
         \/ PasaDe(h, {"ejecuta"}, "fin")
         \/ PasaDe(h, {"nuevo", "espera"}, "fin")
<1>1. EstadoDe(h) = SegunSitios(h) /\ EstadoDe(h)' = SegunSitios(h)'
  <2>1. UnSitio(h) /\ UnSitio(h)'
    <3>1. UnSitio(h)
      BY UnoOninguno
    <3>2. /\ Sitios(h)' \subseteq {"exec", "bloq", "ready", "enIO", "creando"}
          /\ \A a, b \in Sitios(h)' : a = b
          /\ Sitios(h)' # {} => tcb'[h].uso = "vivo"
      BY SitiosSeran DEF InvLugar
    <3> QED
      BY <3>1, <3>2 DEF UnSitio
  <2> QED
    BY <2>1, EstadoSon, EstadoSeran
<1> HIDE DEF InvLugar
<1>2. CASE Sitios(h) = {} /\ tcb[h].uso = "sin_usar"
           /\ Sitios(h)' \in {{}, {"creando"}, {"ready"}} /\ tcb'[h].uso = "vivo"
  BY <1>1, <1>2 DEF SegunSitios, PasaDe
<1>3. CASE Sitios(h) \in {{"creando"}, {"enIO"}}
           /\ Sitios(h)' \in {{}, {"ready"}} /\ tcb'[h].uso = "vivo"
  BY <1>1, <1>3 DEF SegunSitios, PasaDe
<1>4. CASE Sitios(h) = {"ready"} /\ exec = <<>> /\ Sitios(h)' = {"exec"}
  BY <1>1, <1>4 DEF SegunSitios, PasaDe
<1>5. CASE Sitios(h) = {"exec"} /\ Sitios(h)' \in {{"bloq"}, {"enIO"}}
  BY <1>1, <1>5 DEF SegunSitios, PasaDe
<1>6. CASE Sitios(h) = {"exec"} /\ Sitios(h)' = {} /\ tcb'[h].uso \in {"vivo", "liberado"}
  BY <1>1, <1>6 DEF SegunSitios, PasaDe
<1> QED
  BY <1>2, <1>3, <1>4, <1>5, <1>6 DEF Avanza

LEMMA CicloPaso ==
  ASSUME SinDanos, InvLugar, InvLugar', [Next]_vars
  PROVE  [Ciclo!Next]_([t \in Tcbs |-> EstadoDe(t)])
<1> DEFINE estado == [t \in Tcbs |-> EstadoDe(t)]
           despues == [t \in Tcbs |-> EstadoDe(t)']
<1>1. estado' = despues
  OBVIOUS
<1>2. ASSUME NEW t \in Tcbs, Queda(t)
      PROVE  EstadoDe(t)' = EstadoDe(t)
  <2>1. UnSitio(t)
    BY UnoOninguno
  <2>2. UnSitio(t)'
    BY <1>2, <2>1 DEF Queda, UnSitio
  <2>3. SegunSitios(t)' = SegunSitios(t)
    BY <1>2 DEF Queda, SegunSitios
  <2> QED
    BY <2>1, <2>2, <2>3, EstadoSon, EstadoSeran
<1>3. CASE \A t \in Tcbs : Queda(t)
  <2>1. despues = estado
    BY <1>2, <1>3
  <2> QED
    BY <1>1, <2>1
<1>4. ASSUME NEW h \in Tcbs, Avanza(h), \A t \in Tcbs \ {h} : Queda(t)
      PROVE  [Ciclo!Next]_([t \in Tcbs |-> EstadoDe(t)])
  <2>1. despues = [estado EXCEPT ![h] = EstadoDe(h)']
    BY <1>2, <1>4
  <2>2. ASSUME NEW de, NEW a, PasaDe(h, de, a)
        PROVE  Ciclo!Pasa(h, de, a)
    BY <1>1, <2>1, <2>2 DEF PasaDe, Ciclo!Pasa
  <2>3. CASE EstadoDe(h)' = EstadoDe(h)
    BY <1>1, <2>1, <2>3
  <2>4. CASE PasaDe(h, {"listo"}, "ejecuta") /\ exec = <<>>
    <3>1. ASSUME NEW otro \in Tcbs
          PROVE  EstadoDe(otro) # "ejecuta"
      <4>1. "exec" \notin Sitios(otro)
        BY <2>4, ContieneVacia, SitiosSon
      <4>2. UnSitio(otro) /\ EstadoDe(otro) = SegunSitios(otro)
        BY UnoOninguno, EstadoSon
      <4> QED
        BY <4>1, <4>2 DEF UnSitio, SegunSitios
    <3>2. Ciclo!Ejecutar(h)
      BY <2>2, <2>4, <3>1 DEF Ciclo!Ejecutar
    <3> QED
      BY <3>2 DEF Ciclo!Next
  <2>5. CASE PasaDe(h, {"nuevo", "espera"}, "listo")
    BY <2>2, <2>5 DEF Ciclo!Next, Ciclo!Encolar
  <2>6. CASE PasaDe(h, {"ejecuta"}, "espera")
    BY <2>2, <2>6 DEF Ciclo!Next, Ciclo!Bloquear
  <2>7. CASE PasaDe(h, {"ejecuta"}, "fin")
    BY <2>2, <2>7 DEF Ciclo!Next, Ciclo!Terminar
  <2>8. CASE PasaDe(h, {"nuevo", "espera"}, "fin")
    BY <2>2, <2>8 DEF Ciclo!Next, Ciclo!Perder
  <2> QED
    BY <1>4, <2>3, <2>4, <2>5, <2>6, <2>7, <2>8, AvanzaPasa
<1> QED
  BY <1>3, <1>4, PasoSiempre DEF Paso, MueveUno

LEMMA CicloInicio ==
  ASSUME Init
  PROVE  Ciclo!Init
<1>1. ASSUME NEW t \in Tcbs
      PROVE  EstadoDe(t) \in {"nuevo", "listo"}
  <2>1. tcb[t].uso = IF t \in Previos THEN "vivo" ELSE "sin_usar"
    BY DEF Init
  <2>2. InvLugar
    BY InvLugarInicio
  <2>3. t \in Previos => "ready" \in Sitios(t)
    BY AlInicio, SitiosSon
  <2>4. UnSitio(t) /\ EstadoDe(t) = SegunSitios(t)
    BY <2>2, UnoOninguno, EstadoSon
  <2>5. CASE t \in Previos
    BY <2>3, <2>4, <2>5 DEF UnSitio, SegunSitios
  <2>6. CASE t \notin Previos
    BY <2>1, <2>4, <2>6 DEF UnSitio, SegunSitios
  <2> QED
    BY <2>5, <2>6
<1> QED
  BY <1>1 DEF Ciclo!Init

\* CumpleCiclo: every step of the scheduler, of a handler or of a creator is a
\* step of the life cycle of one hilo or moves none.
THEOREM CicloCumplido ==
  ASSUME SinDanos
  PROVE  Spec => CumpleCiclo
<1>1. Init => Ciclo!Init
  BY CicloInicio
<1>2. InvLugar /\ InvLugar' /\ [Next]_vars => [Ciclo!Next]_([t \in Tcbs |-> EstadoDe(t)])
  BY CicloPaso
<1> QED
  BY <1>1, <1>2, LugarSiempre, PTL DEF Spec, CumpleCiclo, Ciclo!Spec

=============================================================================
