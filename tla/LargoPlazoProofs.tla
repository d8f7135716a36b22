-------------------------- MODULE LargoPlazoProofs --------------------------
(***************************************************************************)
(* Proofs about LargoPlazo, for every number of threads, of processes and  *)
(* of hilos, and every answer of Memoria.                                  *)
(***************************************************************************)
EXTENDS LargoPlazo, SecuenciasProofs

Ociosas == {"libre", "crea", "avisa"}

\* The type invariant, and which stages have a PCB in nuevoPCB.
InvTipos ==
  /\ TypeOK
  /\ equipo \subseteq Hilos
  /\ \A h \in Hilos : hilo[h].pcb = NINGUNO <=> hilo[h].pc \in Ociosas

LEMMA InsertAtElements ==
  ASSUME NEW S, NEW s \in Seq(S), NEW k \in 1 .. Len(s) + 1, NEW e \in S
  PROVE  /\ InsertAt(s, k, e) \in Seq(S)
         /\ Len(InsertAt(s, k, e)) = Len(s) + 1
<1> DEFINE a == SubSeq(s, 1, k - 1)
           b == SubSeq(s, k, Len(s))
<1>0. Len(s) \in Nat /\ \A i \in 1 .. Len(s) : s[i] \in S
  BY ElementOfSeq, LenProperties
<1>1. a \in Seq(S) /\ Len(a) = k - 1
  <2>1. \A i \in 1 .. k - 1 : s[i] \in S
    BY <1>0
  <2>2. 1 \in Int /\ k - 1 \in Int
    BY <1>0
  <2> QED
    BY <2>1, <2>2, SubSeqProperties
<1>2. b \in Seq(S) /\ Len(b) = Len(s) - k + 1
  <2>1. \A i \in k .. Len(s) : s[i] \in S
    BY <1>0
  <2>2. k \in Int /\ Len(s) \in Int
    BY <1>0
  <2> QED
    BY <2>1, <2>2, <1>0, SubSeqProperties
<1> HIDE DEF a, b
<1>3. <<e>> \in Seq(S) /\ Len(<<e>>) = 1
  OBVIOUS
<1> DEFINE c == a \o <<e>>
<1>4. c \in Seq(S) /\ Len(c) = k
  BY <1>1, <1>3, ConcatProperties
<1>6. InsertAt(s, k, e) = c \o b
  BY DEF InsertAt, a, b, c
<1> HIDE DEF c
<1>5. c \o b \in Seq(S) /\ Len(c \o b) = Len(s) + 1
  <2>1. c \o b \in Seq(S) /\ Len(c \o b) = Len(c) + Len(b)
    BY <1>2, <1>4, ConcatProperties
  <2> QED
    BY <2>1, <1>0, <1>2, <1>4
<1> QED
  BY <1>5, <1>6

\* crear_tcb changes no counter but that of its process, if there is one.
LEMMA CrearTcbTipos ==
  ASSUME InvTipos, NEW pid \in Pids, crear_tcb(pid)
  PROVE  /\ lista_thread_id' \in Seq(Nat)
         /\ Len(lista_thread_id') = Len(lista_thread_id)
         /\ leidos' \in [Pids -> Seq(Nat)]
<1>1. lista_thread_id \in Seq(Nat) /\ leidos \in [Pids -> Seq(Nat)] /\ pid + 1 \in Nat
  BY LargoAssumption DEF InvTipos, TypeOK, Pids
<1>2. pid + 1 \in DOMAIN lista_thread_id => lista_thread_id[pid + 1] \in Nat
  BY <1>1, ElementOfSeq, LenProperties
<1>3. \A n \in Nat : Append(leidos[pid], n) \in Seq(Nat)
  BY <1>1, AppendProperties
<1>4. leidos' \in [Pids -> Seq(Nat)]
  BY <1>1, <1>2, <1>3 DEF crear_tcb
<1>5. CASE pid + 1 \in DOMAIN lista_thread_id
  <2>1. lista_thread_id' = [lista_thread_id EXCEPT ![pid + 1] = lista_thread_id[pid + 1] + 1]
    BY <1>5 DEF crear_tcb
  <2>2. lista_thread_id[pid + 1] + 1 \in Nat
    BY <1>2, <1>5
  <2> QED
    BY <1>1, <1>4, <1>5, <2>1, <2>2, ExceptEnSeq
<1>6. CASE pid + 1 \notin DOMAIN lista_thread_id
  BY <1>1, <1>4, <1>6 DEF crear_tcb
<1> QED
  BY <1>5, <1>6

\* A thread that changes its place keeps its nuevoPCB.
LEMMA VaTipos ==
  ASSUME InvTipos, NEW h \in Hilos, NEW pc \in Etapas, Va(h, pc),
         pc \in Ociosas <=> hilo[h].pc \in Ociosas
  PROVE  /\ hilo' \in [Hilos -> [pc : Etapas, pcb : Pids \cup {NINGUNO}]]
         /\ \A k \in Hilos : hilo'[k].pcb = NINGUNO <=> hilo'[k].pc \in Ociosas
BY DEF InvTipos, TypeOK, Va

LEMMA TiposPaso ==
  ASSUME InvTipos, [Next]_vars
  PROVE  InvTipos'
<1> USE DEF InvTipos, TypeOK
<1>0. MaxPids \in Nat /\ MaxTcbs \in Nat
  BY LargoAssumption
<1>1. SUFFICES ASSUME NEW h \in equipo,
                      \/ Llamar(h) \/ CrearProceso(h) \/ Avisar(h)
                      \/ \E pid \in Pids : CrearHilo(h, pid) \/ finalizarProceso(h, pid)
               PROVE  InvTipos'
  <2>1. UNCHANGED vars => InvTipos'
    BY DEF vars
  <2> QED
    BY <2>1 DEF Next
<1>2. h \in Hilos /\ hilo[h] \in [pc : Etapas, pcb : Pids \cup {NINGUNO}]
  OBVIOUS
<1>3. CASE Llamar(h)
  <2>1. Va(h, "crea") /\ "crea" \in Etapas
    BY <1>3 DEF Llamar, Etapas
  <2> QED
    BY <1>2, <1>3, <2>1, VaTipos DEF Llamar, Esta, Ociosas
<1>4. CASE crear_pcb(h)
  <2>1. process_id \in Pids /\ process_id + 1 \in 0 .. MaxPids /\ process_id # NINGUNO
    BY <1>0, <1>4 DEF crear_pcb, Pids, NINGUNO
  <2>2. "consulta" \in Etapas \ Ociosas
    BY DEF Etapas, Ociosas
  <2> QED
    BY <1>2, <1>4, <2>1, <2>2 DEF crear_pcb
<1>5. CASE Consultar(h)
  <2>1. \E pc \in {"encola", "encola_y_pide"} : Va(h, pc)
    BY <1>5 DEF Consultar
  <2>2. {"encola", "encola_y_pide"} \subseteq Etapas
    BY DEF Etapas
  <2> QED
    BY <1>2, <1>5, <2>1, <2>2, VaTipos DEF Consultar, Esta, Ociosas
<1>6. CASE Encolar(h)
  <2>1. hilo[h].pcb \in Pids
    BY <1>2, <1>6 DEF Encolar, Esta, Ociosas
  <2>2. cola_new' \in Seq(Pids)
    BY <1>6, <2>1, AppendProperties DEF Encolar
  <2>3. "libre" \in Ociosas /\ "pide" \notin Ociosas /\ {"libre", "pide"} \subseteq Etapas
    BY DEF Etapas, Ociosas
  <2>4. hilo[h].pcb # NINGUNO
    BY <1>2, <1>6 DEF Encolar, Esta, Ociosas
  <2> QED
    BY <1>2, <1>6, <2>2, <2>3, <2>4 DEF Encolar
<1>7. CASE Responder(h)
  <2>1. \E pc \in {"saca", "espera"} : Va(h, pc)
    BY <1>7 DEF Responder
  <2>2. {"saca", "espera"} \subseteq Etapas
    BY DEF Etapas
  <2> QED
    BY <1>2, <1>7, <2>1, <2>2, VaTipos DEF Responder, Esta, Ociosas
<1>8. CASE Sacar(h)
  <2>1. Va(h, "pasa") /\ "pasa" \in Etapas
    BY <1>8 DEF Sacar, Etapas
  <2>2. cola_new' \in Seq(Pids)
    BY <1>8, EmptySeq, HeadTailProperties DEF Sacar
  <2> QED
    BY <1>2, <1>8, <2>1, <2>2, VaTipos DEF Sacar, Esta, Ociosas
<1>9. CASE PasarAReady(h)
  <2>1. Va(h, "crea_hilo") /\ "crea_hilo" \in Etapas
    BY <1>9 DEF PasarAReady, Etapas
  <2>2. hilo[h].pcb \in Pids
    BY <1>2, <1>9 DEF PasarAReady, Esta, Ociosas
  <2>3. cola_ready' \in Seq(Pids)
    BY <1>9, <2>2, AppendProperties DEF PasarAReady
  <2> QED
    BY <1>2, <1>9, <2>1, <2>3, VaTipos DEF PasarAReady, Esta, Ociosas
<1>10. CASE CrearHiloCero(h)
  <2>1. Va(h, "agrega_contador") /\ "agrega_contador" \in Etapas
    BY <1>10 DEF CrearHiloCero, Etapas
  <2>2. hilo[h].pcb \in Pids
    BY <1>2, <1>10 DEF CrearHiloCero, Esta, Ociosas
  <2>3. lista_thread_id' \in Seq(Nat) /\ leidos' \in [Pids -> Seq(Nat)]
    BY <1>10, <2>2, CrearTcbTipos DEF CrearHiloCero
  <2> QED
    BY <1>2, <1>10, <2>1, <2>3, VaTipos DEF CrearHiloCero, Esta, Ociosas
<1>11. CASE AgregarContador(h)
  <2>1. hilo[h].pcb \in Pids
    BY <1>2, <1>11 DEF AgregarContador, Esta, Ociosas
  <2>2. lista_thread_id' \in Seq(Nat)
    <3>1. CASE hilo[h].pcb <= Len(lista_thread_id)
      <4>1. hilo[h].pcb + 1 \in 1 .. Len(lista_thread_id) + 1
        BY <1>0, <2>1, <3>1, LenProperties DEF Pids
      <4> QED
        BY <1>11, <3>1, <4>1, InsertAtElements DEF AgregarContador
    <3> QED
      BY <1>11, <3>1 DEF AgregarContador
  <2>3. "libre" \in Ociosas \cap Etapas
    BY DEF Etapas, Ociosas
  <2> QED
    BY <1>2, <1>11, <2>2, <2>3 DEF AgregarContador
<1>12. CASE Reintentar(h)
  <2>1. "crea" \in Ociosas \cap Etapas
    BY DEF Etapas, Ociosas
  <2> QED
    BY <1>2, <1>12, <2>1 DEF Reintentar
<1>13. CASE Avisar(h)
  <2>1. Va(h, "libre") /\ "libre" \in Etapas
    BY <1>13 DEF Avisar, Etapas
  <2> QED
    BY <1>2, <1>13, <2>1, VaTipos DEF Avisar, Esta, Ociosas
<1>14. ASSUME NEW pid \in Pids, CrearHilo(h, pid)
       PROVE  InvTipos'
  <2>1. lista_thread_id' \in Seq(Nat) /\ leidos' \in [Pids -> Seq(Nat)]
    BY <1>14, CrearTcbTipos DEF CrearHilo
  <2> QED
    BY <1>14, <2>1 DEF CrearHilo
<1>15. ASSUME NEW pid \in Pids, finalizarProceso(h, pid)
       PROVE  InvTipos'
  <2>1. Va(h, "avisa") /\ "avisa" \in Etapas
    BY <1>15 DEF finalizarProceso, Etapas
  <2>2. liberados' \subseteq Pids
    BY <1>15 DEF finalizarProceso
  <2> QED
    BY <1>2, <1>15, <2>1, <2>2, VaTipos DEF finalizarProceso, Esta, Ociosas
<1> QED
  BY <1>1, <1>3, <1>4, <1>5, <1>6, <1>7, <1>8, <1>9, <1>10, <1>11, <1>12, <1>13, <1>14, <1>15
     DEF CrearProceso

LEMMA TiposInicio ==
  ASSUME Init
  PROVE  InvTipos
BY LargoAssumption, EmptySeq DEF Init, InvTipos, TypeOK, Pids, Etapas, Ociosas, NINGUNO

\* TypeOK for every value of the constants: the semaphore never goes below zero,
\* and no thread queues, pops or frees what is not a PCB.
THEOREM Tipos == Spec => []TypeOK
<1>1. InvTipos => TypeOK
  BY DEF InvTipos
<1> QED
  BY <1>1, TiposInicio, TiposPaso, PTL DEF Spec

---------------------------------------------------------------------------
(* A place in NEW for every thread that asked *)

Piden == {"pide", "saca", "espera"}
Pidiendo == {h \in Hilos : hilo[h].pc \in Piden}

\* A thread comes to ask with cola_new one longer, and leaves when it pops or
\* when it goes back to crear_pcb.
LEMMA LugarPaso ==
  ASSUME InvTipos, LugarEnNew, [Next]_vars
  PROVE  LugarEnNew'
<1>1. IsFiniteSet(Hilos) /\ IsFiniteSet(Pidiendo) /\ Cardinality(Pidiendo) \in Nat
  BY LargoAssumption, FS_Subset, FS_CardinalityType DEF Pidiendo
<1>2. cola_new \in Seq(Pids) /\ Len(cola_new) \in Nat /\ Cardinality(Pidiendo) <= Len(cola_new)
  BY LenProperties DEF InvTipos, TypeOK, LugarEnNew, Pidiendo, Piden
<1>3. SUFFICES Cardinality(Pidiendo') <= Len(cola_new')
  BY DEF LugarEnNew, Pidiendo, Piden
<1>4. ASSUME Pidiendo' \subseteq Pidiendo, cola_new' = cola_new
      PROVE  Cardinality(Pidiendo') <= Len(cola_new')
  <2>1. Cardinality(Pidiendo') <= Cardinality(Pidiendo) /\ Cardinality(Pidiendo') \in Nat
    BY <1>1, <1>4, FS_Subset, FS_CardinalityType
  <2> QED
    BY <1>2, <1>1, <1>4, <2>1
<1>5. CASE UNCHANGED vars
  BY <1>4, <1>5 DEF vars, Pidiendo
<1>6. ASSUME NEW h \in equipo,
             \/ Llamar(h) \/ CrearProceso(h) \/ Avisar(h)
             \/ \E pid \in Pids : CrearHilo(h, pid) \/ finalizarProceso(h, pid)
      PROVE  Cardinality(Pidiendo') <= Len(cola_new')
  <2>1. h \in Hilos /\ hilo \in [Hilos -> [pc : Etapas, pcb : Pids \cup {NINGUNO}]]
    BY DEF InvTipos, TypeOK
  <2>2. CASE Llamar(h) \/ crear_pcb(h) \/ Consultar(h) \/ Avisar(h)
    <3>1. cola_new' = cola_new
      BY <2>2 DEF Llamar, crear_pcb, Consultar, Avisar
    <3>2. Pidiendo' \subseteq Pidiendo
      BY <2>1, <2>2 DEF Llamar, crear_pcb, Consultar, Avisar, Va, Esta, Pidiendo, Piden
    <3> QED
      BY <3>1, <3>2, <1>4
  <2>3. CASE Responder(h) \/ PasarAReady(h) \/ CrearHiloCero(h) \/ AgregarContador(h) \/ Reintentar(h)
    <3>1. cola_new' = cola_new
      BY <2>3 DEF Responder, PasarAReady, CrearHiloCero, AgregarContador, Reintentar
    <3>2. Pidiendo' \subseteq Pidiendo
      BY <2>1, <2>3 DEF Responder, PasarAReady, CrearHiloCero, AgregarContador, Reintentar,
                        Va, Esta, Pidiendo, Piden
    <3> QED
      BY <3>1, <3>2, <1>4
  <2>4. ASSUME NEW pid \in Pids, CrearHilo(h, pid) \/ finalizarProceso(h, pid)
        PROVE  Cardinality(Pidiendo') <= Len(cola_new')
    <3>1. cola_new' = cola_new
      BY <2>4 DEF CrearHilo, finalizarProceso
    <3>2. Pidiendo' \subseteq Pidiendo
      BY <2>1, <2>4 DEF CrearHilo, finalizarProceso, Va, Esta, Pidiendo, Piden
    <3> QED
      BY <3>1, <3>2, <1>4
  <2>5. CASE Encolar(h)
    <3>1. h \notin Pidiendo
      BY <2>5 DEF Encolar, Esta, Pidiendo, Piden
    <3>2. Pidiendo' \subseteq Pidiendo \cup {h}
      BY <2>1, <2>5 DEF Encolar, Pidiendo
    <3>3. /\ IsFiniteSet(Pidiendo \cup {h})
          /\ Cardinality(Pidiendo \cup {h}) = Cardinality(Pidiendo) + 1
      BY <1>1, <3>1, FS_AddElement
    <3>4. Cardinality(Pidiendo') <= Cardinality(Pidiendo) + 1 /\ Cardinality(Pidiendo') \in Nat
      BY <3>2, <3>3, FS_Subset, FS_CardinalityType
    <3>5. hilo[h].pcb \in Pids
      BY <2>1, <2>5 DEF Encolar, Esta, Ociosas, InvTipos, TypeOK
    <3>6. Len(cola_new') = Len(cola_new) + 1
      BY <1>2, <2>5, <3>5, AppendProperties DEF Encolar
    <3> QED
      BY <1>1, <1>2, <3>4, <3>6
  <2>6. CASE Sacar(h)
    <3>1. h \in Pidiendo
      BY <2>1, <2>6 DEF Sacar, Esta, Pidiendo, Piden
    <3>2. Pidiendo' = Pidiendo \ {h}
      BY <2>1, <2>6 DEF Sacar, Va, Pidiendo, Piden
    <3>3. Cardinality(Pidiendo') = Cardinality(Pidiendo) - 1
      BY <1>1, <3>1, <3>2, FS_RemoveElement
    <3>4. cola_new # <<>>
      BY <1>1, <1>2, <3>1, FS_EmptySet, EmptySeq
    <3>5. Len(cola_new') = Len(cola_new) - 1
      BY <1>2, <2>6, <3>4, HeadTailProperties DEF Sacar
    <3> QED
      BY <1>1, <1>2, <3>3, <3>5
  <2> QED
    BY <1>6, <2>2, <2>3, <2>4, <2>5, <2>6 DEF CrearProceso
<1> QED
  BY <1>5, <1>6 DEF Next

\* queue_pop never meets an empty cola_new, however many threads are inside
\* crearProceso: each one that asked Memoria added a PCB, and each pop takes one.
THEOREM SacarEncuentra == Spec => []LugarEnNew
<1>1. Init => LugarEnNew
  <2> SUFFICES ASSUME Init PROVE LugarEnNew
    OBVIOUS
  <2>1. {h \in Hilos : hilo[h].pc \in {"pide", "saca", "espera"}} = {}
    BY DEF Init
  <2>2. Len(cola_new) = 0
    BY EmptySeq DEF Init
  <2> QED
    BY <2>1, <2>2, FS_EmptySet DEF LugarEnNew
<1>2. InvTipos /\ LugarEnNew /\ [Next]_vars => InvTipos' /\ LugarEnNew'
  BY TiposPaso, LugarPaso
<1> QED
  BY <1>1, <1>2, TiposInicio, PTL DEF Spec

---------------------------------------------------------------------------
(* A single thread in crearProceso *)

Sueltas == {"consulta", "encola", "encola_y_pide", "pasa"}
Atiende == {"encola_y_pide", "pasa", "crea_hilo", "agrega_contador"}
SinContador == {"crea_hilo", "agrega_contador"}

\* READY and NEW hold the PIDs in order, with the last one in the hands of the
\* thread before it is queued and while it moves from NEW to READY.  Whoever is
\* between asking Memoria and popping has NEW to itself.
InvDe(h) ==
  /\ hilo[h].pc \in Sueltas => Len(cola_ready) + Len(cola_new) = process_id - 1
  /\ hilo[h].pc \notin Sueltas => Len(cola_ready) + Len(cola_new) = process_id
  /\ \A i \in 1 .. Len(cola_ready) : cola_ready[i] = i - 1
  /\ \A i \in 1 .. Len(cola_new) : cola_new[i] = Len(cola_ready) + i - 1
  /\ hilo[h].pc \notin Ociosas => hilo[h].pcb = process_id - 1
  /\ hilo[h].pc \in Atiende => cola_new = <<>>
  /\ hilo[h].pc \in Piden => Len(cola_new) = 1
  /\ hilo[h].pc \in SinContador => Len(lista_thread_id) = Len(cola_ready) - 1
  /\ hilo[h].pc \notin SinContador => Len(lista_thread_id) = Len(cola_ready)

InvSolo == \A h : equipo = {h} => InvDe(h)

\* What a step that only moves the thread needs.
LEMMA MudaSolo ==
  ASSUME InvTipos, NEW h \in Hilos, InvDe(h), NEW pc \in Etapas, Va(h, pc),
         UNCHANGED <<process_id, cola_new, cola_ready>>,
         Len(lista_thread_id') = Len(lista_thread_id),
         pc \in Sueltas <=> hilo[h].pc \in Sueltas,
         pc \in Ociosas <=> hilo[h].pc \in Ociosas,
         pc \in Atiende => cola_new = <<>>,
         pc \in Piden => Len(cola_new) = 1,
         pc \in SinContador <=> hilo[h].pc \in SinContador
  PROVE  InvDe(h)'
<1>1. hilo'[h].pc = pc /\ hilo'[h].pcb = hilo[h].pcb
  BY DEF Va, InvTipos, TypeOK
<1> QED
  BY <1>1 DEF InvDe

LEMMA SoloPaso ==
  ASSUME InvTipos, NEW h, equipo = {h}, InvDe(h), [Next]_vars
  PROVE  InvDe(h)'
<1> USE DEF Etapas, Ociosas, Sueltas, Atiende, SinContador, Piden
<1>0. h \in Hilos /\ hilo \in [Hilos -> [pc : Etapas, pcb : Pids \cup {NINGUNO}]]
  BY DEF InvTipos, TypeOK
<1>1. /\ cola_new \in Seq(Pids) /\ Len(cola_new) \in Nat
      /\ cola_ready \in Seq(Pids) /\ Len(cola_ready) \in Nat
      /\ lista_thread_id \in Seq(Nat) /\ Len(lista_thread_id) \in Nat
      /\ process_id \in Nat
      /\ Pids \subseteq Nat
  BY LargoAssumption, LenProperties DEF InvTipos, TypeOK, Pids
<1>2. CASE UNCHANGED vars
  BY <1>2 DEF vars, InvDe
<1>3. CASE Llamar(h) \/ Avisar(h)
  <2>1. CASE Llamar(h)
    <3>1. Va(h, "crea") /\ hilo[h].pc = "libre"
      BY <2>1 DEF Llamar, Esta
    <3> QED
      BY <1>0, <2>1, <3>1, MudaSolo DEF Llamar
  <2>2. CASE Avisar(h)
    <3>1. Va(h, "libre") /\ hilo[h].pc = "avisa"
      BY <2>2 DEF Avisar, Esta
    <3> QED
      BY <1>0, <2>2, <3>1, MudaSolo DEF Avisar
  <2> QED
    BY <1>3, <2>1, <2>2
<1>4. CASE crear_pcb(h)
  <2>1. hilo[h].pc = "crea" /\ hilo'[h].pc = "consulta" /\ hilo'[h].pcb = process_id
    BY <1>0, <1>4 DEF crear_pcb, Esta
  <2>2. UNCHANGED <<cola_new, cola_ready, lista_thread_id>> /\ process_id' = process_id + 1
    BY <1>4 DEF crear_pcb
  <2> QED
    BY <1>1, <2>1, <2>2 DEF InvDe
<1>5. CASE Consultar(h)
  <2>1. hilo[h].pc = "consulta"
    BY <1>5 DEF Consultar, Esta
  <2>2. CASE cola_new = <<>>
    <3>1. Va(h, "encola_y_pide")
      BY <1>5, <2>2 DEF Consultar
    <3> QED
      BY <1>0, <1>5, <2>1, <2>2, <3>1, MudaSolo DEF Consultar
  <2>3. CASE cola_new # <<>>
    <3>1. Va(h, "encola")
      BY <1>5, <2>3 DEF Consultar
    <3> QED
      BY <1>0, <1>5, <2>1, <2>3, <3>1, MudaSolo DEF Consultar
  <2> QED
    BY <2>2, <2>3
<1>6. CASE Encolar(h)
  <2>1. hilo[h].pc \in {"encola", "encola_y_pide"} /\ hilo[h].pcb = process_id - 1
    BY <1>6 DEF Encolar, Esta, InvDe
  <2>2. hilo[h].pcb \in Pids
    BY <1>0, <2>1 DEF InvTipos
  <2>3. /\ Len(cola_new') = Len(cola_new) + 1
        /\ \A i \in 1 .. Len(cola_new) : cola_new'[i] = cola_new[i]
        /\ cola_new'[Len(cola_new) + 1] = process_id - 1
    BY <1>1, <1>6, <2>1, <2>2, AppendProperties DEF Encolar
  <2>4. UNCHANGED <<process_id, cola_ready, lista_thread_id>>
    BY <1>6 DEF Encolar
  <2>5. Len(cola_ready) + Len(cola_new) = process_id - 1
    BY <2>1 DEF InvDe
  <2>6. \A i \in 1 .. Len(cola_new') : cola_new'[i] = Len(cola_ready) + i - 1
    <3>1. \A i \in 1 .. Len(cola_new) : cola_new[i] = Len(cola_ready) + i - 1
      BY DEF InvDe
    <3>2. ASSUME NEW i \in 1 .. Len(cola_new')
          PROVE  cola_new'[i] = Len(cola_ready) + i - 1
      <4>1. CASE i \in 1 .. Len(cola_new)
        BY <2>3, <3>1, <4>1
      <4>2. CASE i = Len(cola_new) + 1
        <5>1. cola_new'[i] = process_id - 1
          BY <2>3, <4>2
        <5>2. process_id - 1 = Len(cola_ready) + (Len(cola_new) + 1) - 1
          BY <1>1, <2>5
        <5> QED
          BY <4>2, <5>1, <5>2
      <4> QED
        BY <1>1, <2>3, <4>1, <4>2
    <3> QED
      BY <3>2
  <2>7. Len(lista_thread_id) = Len(cola_ready)
    BY <1>1, <2>1 DEF InvDe
  <2>8. CASE hilo[h].pc = "encola"
    <3>1. hilo'[h].pc = "libre"
      BY <1>0, <1>6, <2>8 DEF Encolar, Esta
    <3> QED
      BY <1>1, <2>3, <2>4, <2>5, <2>6, <2>7, <3>1 DEF InvDe
  <2>9. CASE hilo[h].pc = "encola_y_pide"
    <3>1. hilo'[h].pc = "pide" /\ hilo'[h].pcb = hilo[h].pcb
      BY <1>0, <1>6, <2>9 DEF Encolar, Esta
    <3>2. Len(cola_new) = 0
      BY <2>9, EmptySeq DEF InvDe
    <3> QED
      BY <1>1, <2>1, <2>3, <2>4, <2>5, <2>6, <2>7, <3>1, <3>2 DEF InvDe
  <2> QED
    BY <2>1, <2>8, <2>9
<1>7. CASE Responder(h)
  <2>1. hilo[h].pc = "pide"
    BY <1>7 DEF Responder, Esta
  <2>2. \E pc \in {"saca", "espera"} : Va(h, pc)
    BY <1>7 DEF Responder
  <2>3. Len(cola_new) = 1
    BY <2>1 DEF InvDe
  <2> QED
    BY <1>0, <1>7, <2>1, <2>2, <2>3, MudaSolo DEF Responder
<1>8. CASE Sacar(h)
  <2>1. hilo[h].pc = "saca" /\ hilo'[h].pc = "pasa" /\ hilo'[h].pcb = hilo[h].pcb
    BY <1>0, <1>8 DEF Sacar, Esta, Va
  <2>2. Len(cola_new) = 1
    BY <2>1 DEF InvDe
  <2>9. cola_new # <<>>
    BY <2>2, EmptySeq
  <2>3. cola_new' \in Seq(Pids) /\ Len(cola_new') = 0
    BY <1>1, <1>8, <2>2, <2>9, HeadTailProperties DEF Sacar
  <2>4. cola_new' = <<>>
    BY <2>3, EmptySeq
  <2>5. UNCHANGED <<process_id, cola_ready, lista_thread_id>>
    BY <1>8 DEF Sacar
  <2> QED
    BY <1>1, <2>1, <2>2, <2>3, <2>4, <2>5 DEF InvDe
<1>9. CASE PasarAReady(h)
  <2>1. hilo[h].pc = "pasa" /\ hilo'[h].pc = "crea_hilo" /\ hilo'[h].pcb = hilo[h].pcb
    BY <1>0, <1>9 DEF PasarAReady, Esta, Va
  <2>2. hilo[h].pcb = process_id - 1 /\ hilo[h].pcb \in Pids
    BY <1>0, <2>1 DEF InvDe, InvTipos
  <2>3. /\ Len(cola_ready') = Len(cola_ready) + 1
        /\ \A i \in 1 .. Len(cola_ready) : cola_ready'[i] = cola_ready[i]
        /\ cola_ready'[Len(cola_ready) + 1] = process_id - 1
    BY <1>1, <1>9, <2>2, AppendProperties DEF PasarAReady
  <2>4. UNCHANGED <<process_id, cola_new, lista_thread_id>>
    BY <1>9 DEF PasarAReady
  <2>5. cola_new = <<>> /\ Len(cola_new) = 0
    BY <2>1, EmptySeq DEF InvDe
  <2>6. Len(cola_ready) = process_id - 1
    BY <1>1, <2>1, <2>5 DEF InvDe
  <2>7. \A i \in 1 .. Len(cola_ready') : cola_ready'[i] = i - 1
    <3>1. \A i \in 1 .. Len(cola_ready) : cola_ready[i] = i - 1
      BY DEF InvDe
    <3>2. ASSUME NEW i \in 1 .. Len(cola_ready')
          PROVE  cola_ready'[i] = i - 1
      <4>1. CASE i \in 1 .. Len(cola_ready)
        BY <2>3, <3>1, <4>1
      <4>2. CASE i = Len(cola_ready) + 1
        BY <2>3, <2>6, <4>2
      <4> QED
        BY <1>1, <2>3, <4>1, <4>2
    <3> QED
      BY <3>2
  <2> QED
    BY <1>1, <2>1, <2>2, <2>3, <2>4, <2>5, <2>6, <2>7 DEF InvDe
<1>10. CASE CrearHiloCero(h)
  <2>1. hilo[h].pc = "crea_hilo" /\ Va(h, "agrega_contador")
    BY <1>10 DEF CrearHiloCero, Esta
  <2>2. hilo[h].pcb \in Pids /\ cola_new = <<>>
    BY <1>0, <2>1 DEF InvTipos, InvDe
  <2>3. Len(lista_thread_id') = Len(lista_thread_id)
    BY <1>10, <2>2, CrearTcbTipos DEF CrearHiloCero
  <2> QED
    BY <1>0, <1>10, <2>1, <2>2, <2>3, MudaSolo DEF CrearHiloCero
<1>11. CASE AgregarContador(h)
  <2>1. hilo[h].pc = "agrega_contador" /\ hilo'[h].pc = "libre"
    BY <1>0, <1>11 DEF AgregarContador, Esta
  <2>2. hilo[h].pcb = process_id - 1 /\ cola_new = <<>> /\ Len(cola_new) = 0
    BY <2>1, EmptySeq DEF InvDe
  <2>3. Len(cola_ready) = process_id /\ Len(lista_thread_id) = process_id - 1
    BY <1>1, <2>1, <2>2 DEF InvDe
  <2>4. hilo[h].pcb <= Len(lista_thread_id) /\ hilo[h].pcb + 1 \in 1 .. Len(lista_thread_id) + 1
    BY <1>1, <2>2, <2>3
  <2>5. Len(lista_thread_id') = Len(lista_thread_id) + 1
    BY <1>1, <1>11, <2>4, InsertAtElements DEF AgregarContador
  <2>6. UNCHANGED <<process_id, cola_new, cola_ready>>
    BY <1>11 DEF AgregarContador
  <2> QED
    BY <1>1, <2>1, <2>2, <2>3, <2>5, <2>6 DEF InvDe
<1>12. CASE Reintentar(h)
  <2>1. hilo[h].pc = "espera" /\ hilo'[h].pc = "crea"
    BY <1>0, <1>12 DEF Reintentar, Esta
  <2> QED
    BY <1>1, <1>12, <2>1 DEF InvDe, Reintentar
<1>13. ASSUME NEW pid \in Pids, CrearHilo(h, pid)
       PROVE  InvDe(h)'
  <2>1. Len(lista_thread_id') = Len(lista_thread_id)
    BY <1>13, CrearTcbTipos DEF CrearHilo
  <2> QED
    BY <1>13, <2>1 DEF CrearHilo, InvDe
<1>14. ASSUME NEW pid \in Pids, finalizarProceso(h, pid)
       PROVE  InvDe(h)'
  <2>1. hilo[h].pc = "libre" /\ Va(h, "avisa")
    BY <1>14 DEF finalizarProceso, Esta
  <2> QED
    BY <1>0, <1>14, <2>1, MudaSolo DEF finalizarProceso
<1> QED
  BY <1>2, <1>3, <1>4, <1>5, <1>6, <1>7, <1>8, <1>9, <1>10, <1>11, <1>12, <1>13, <1>14
     DEF Next, CrearProceso

LEMMA EsInvSolo == Spec => [](InvTipos /\ InvSolo)
<1>1. Init => InvSolo
  <2> SUFFICES ASSUME Init, NEW h, equipo = {h} PROVE InvDe(h)
    BY DEF InvSolo
  <2>1. hilo[h].pc = "libre"
    BY LargoAssumption DEF Init
  <2>2. Len(cola_new) = 0 /\ Len(cola_ready) = 0 /\ Len(lista_thread_id) = 0 /\ process_id = 0
    BY EmptySeq DEF Init
  <2> QED
    BY <2>1, <2>2 DEF InvDe, Ociosas, Sueltas, Atiende, SinContador, Piden
<1>2. InvTipos /\ InvSolo /\ [Next]_vars => InvSolo'
  <2> SUFFICES ASSUME InvTipos, InvSolo, [Next]_vars, NEW h, equipo' = {h} PROVE InvDe(h)'
    BY DEF InvSolo
  <2>1. equipo' = equipo
    BY DEF Next, vars, Llamar, CrearProceso, crear_pcb, Consultar, Encolar, Responder, Sacar,
           PasarAReady, CrearHiloCero, AgregarContador, Reintentar, Avisar, CrearHilo,
           finalizarProceso
  <2> QED
    BY <2>1, SoloPaso DEF InvSolo
<1>3. InvTipos /\ InvSolo /\ [Next]_vars => InvTipos'
  BY TiposPaso
<1> QED
  BY <1>1, <1>2, <1>3, TiposInicio, PTL DEF Spec

\* The thread of a team of one.
LEMMA UnoSolo ==
  ASSUME InvTipos, Solo
  PROVE  \E h \in Hilos : equipo = {h}
<1>1. IsFiniteSet(equipo)
  BY LargoAssumption, FS_Subset DEF InvTipos
<1>2. PICK h : equipo = {h}
  BY <1>1, FS_Singleton DEF Solo
<1> QED
  BY <1>2 DEF InvTipos

\* NEW is served in order while one thread calls crearProceso, however many
\* processes wait and whatever Memoria answers.
THEOREM NewFIFO == Spec => []NewEsFIFO
<1>1. InvTipos /\ InvSolo => NewEsFIFO
  <2> DEFINE orden == cola_ready \o cola_new
  <2>0. SUFFICES ASSUME InvTipos, InvSolo, Solo,
                        NEW i \in DOMAIN orden, NEW j \in DOMAIN orden, i < j
                 PROVE  orden[i] < orden[j]
    BY DEF NewEsFIFO
  <2>1. PICK h \in Hilos : equipo = {h} /\ InvDe(h)
    BY <2>0, UnoSolo DEF InvSolo
  <2>2. /\ cola_new \in Seq(Pids) /\ Len(cola_new) \in Nat
        /\ cola_ready \in Seq(Pids) /\ Len(cola_ready) \in Nat
    BY <2>0, LenProperties DEF InvTipos, TypeOK
  <2>3. /\ DOMAIN orden = 1 .. Len(cola_ready) + Len(cola_new)
        /\ \A k \in 1 .. Len(cola_ready) + Len(cola_new) :
             orden[k] = IF k <= Len(cola_ready) THEN cola_ready[k]
                        ELSE cola_new[k - Len(cola_ready)]
    BY <2>2, ConcatProperties, LenProperties
  <2> HIDE DEF orden
  <2>4. ASSUME NEW k \in DOMAIN orden
        PROVE  orden[k] = k - 1
    <3>1. /\ \A n \in 1 .. Len(cola_ready) : cola_ready[n] = n - 1
          /\ \A n \in 1 .. Len(cola_new) : cola_new[n] = Len(cola_ready) + n - 1
      BY <2>1 DEF InvDe
    <3>2. CASE k \in 1 .. Len(cola_ready)
      BY <2>2, <2>3, <3>1, <3>2
    <3>3. CASE k - Len(cola_ready) \in 1 .. Len(cola_new)
      <4>1. cola_new[k - Len(cola_ready)] = k - 1
        BY <2>2, <2>3, <3>1, <3>3
      <4> QED
        BY <2>2, <2>3, <3>3, <4>1
    <3> QED
      BY <2>2, <2>3, <3>2, <3>3
  <2> QED
    BY <2>0, <2>2, <2>3, <2>4
<1> QED
  BY <1>1, EsInvSolo, PTL

\* A process that crearProceso is done with has its counter of TIDs, at the
\* position that crear_tcb reads.
THEOREM SuContador == Spec => []ContadorPropio
<1>1. InvTipos /\ InvSolo => ContadorPropio
  <2>0. SUFFICES ASSUME InvTipos, InvSolo, Solo, NEW p \in Pids, Contains(cola_ready, p),
                        \A h \in equipo : hilo[h].pcb # p
                 PROVE  p + 1 \in DOMAIN lista_thread_id
    BY DEF ContadorPropio
  <2>1. PICK h \in Hilos : equipo = {h} /\ InvDe(h)
    BY <2>0, UnoSolo DEF InvSolo
  <2>2. /\ cola_ready \in Seq(Pids) /\ Len(cola_ready) \in Nat
        /\ DOMAIN cola_ready = 1 .. Len(cola_ready)
        /\ Len(lista_thread_id) \in Nat
        /\ DOMAIN lista_thread_id = 1 .. Len(lista_thread_id)
        /\ process_id \in Nat
    BY <2>0, LargoAssumption, LenProperties DEF InvTipos, TypeOK
  <2>3. PICK i \in 1 .. Len(cola_ready) : cola_ready[i] = p
    BY <2>0, <2>2 DEF Contains
  <2>4. p = i - 1
    BY <2>1, <2>3 DEF InvDe
  <2>5. CASE hilo[h].pc \in SinContador
    <3>1. cola_new = <<>> /\ hilo[h].pcb = process_id - 1
      BY <2>1, <2>5 DEF InvDe, SinContador, Ociosas, Atiende
    <3>2. /\ Len(cola_ready) + Len(cola_new) = process_id
          /\ Len(lista_thread_id) = Len(cola_ready) - 1
      BY <2>1, <2>5 DEF InvDe, SinContador, Sueltas
    <3>3. Len(cola_new) = 0
      BY <3>1, EmptySeq
    <3>4. p # process_id - 1
      BY <2>0, <2>1, <3>1
    <3> QED
      BY <2>2, <2>3, <2>4, <3>2, <3>3, <3>4
  <2>6. CASE hilo[h].pc \notin SinContador
    <3>1. Len(lista_thread_id) = Len(cola_ready)
      BY <2>1, <2>6 DEF InvDe
    <3> QED
      BY <2>2, <2>3, <2>4, <3>1
  <2> QED
    BY <2>5, <2>6
<1> QED
  BY <1>1, EsInvSolo, PTL

\* No PCB is lost between the queues nor in two of them: when the thread is not
\* half way through crearProceso, each is once in NEW or once in READY.
THEOREM EnUnaCola == Spec => []NewOReady
<1>1. InvTipos /\ InvSolo => NewOReady
  <2>0. SUFFICES ASSUME InvTipos, InvSolo, Solo,
                        \A h \in equipo : hilo[h].pc \in {"libre", "espera", "avisa"},
                        NEW p \in 0 .. process_id - 1
                 PROVE  Veces(cola_new, p) + Veces(cola_ready, p) = 1
    BY DEF NewOReady
  <2>1. PICK h \in Hilos : equipo = {h} /\ InvDe(h)
    BY <2>0, UnoSolo DEF InvSolo
  <2>2. /\ Len(cola_ready) \in Nat /\ DOMAIN cola_ready = 1 .. Len(cola_ready)
        /\ Len(cola_new) \in Nat /\ DOMAIN cola_new = 1 .. Len(cola_new)
        /\ process_id \in Nat
    BY <2>0, LargoAssumption, LenProperties DEF InvTipos, TypeOK
  <2>3. Len(cola_ready) + Len(cola_new) = process_id
    BY <2>0, <2>1, <2>2 DEF InvDe, Sueltas
  <2>4. Cardinality({}) = 0 /\ \A n : Cardinality({n}) = 1
    BY FS_EmptySet, FS_Singleton
  <2>5. /\ \A i \in 1 .. Len(cola_ready) : cola_ready[i] = i - 1
        /\ \A i \in 1 .. Len(cola_new) : cola_new[i] = Len(cola_ready) + i - 1
    BY <2>1 DEF InvDe
  <2>6. CASE p < Len(cola_ready)
    <3>1. p + 1 \in 1 .. Len(cola_ready) /\ cola_ready[p + 1] = p
      BY <2>2, <2>5, <2>6
    <3>2. \A i \in 1 .. Len(cola_ready) : cola_ready[i] = p => i = p + 1
      BY <2>2, <2>5
    <3>3. {i \in DOMAIN cola_ready : cola_ready[i] = p} = {p + 1}
      BY <2>2, <3>1, <3>2
    <3>4. \A i \in 1 .. Len(cola_new) : cola_new[i] # p
      BY <2>2, <2>5, <2>6
    <3>5. {i \in DOMAIN cola_new : cola_new[i] = p} = {}
      BY <2>2, <3>4
    <3>6. Veces(cola_ready, p) = 1 /\ Veces(cola_new, p) = 0
      BY <2>4, <3>3, <3>5 DEF Veces
    <3> QED
      BY <3>6
  <2>7. CASE p >= Len(cola_ready)
    <3> DEFINE k == p - Len(cola_ready) + 1
    <3>1. k \in 1 .. Len(cola_new) /\ cola_new[k] = p
      BY <2>2, <2>3, <2>5, <2>7
    <3>2. ASSUME NEW i \in 1 .. Len(cola_new), cola_new[i] = p
          PROVE  i = k
      <4>1. p = Len(cola_ready) + i - 1
        BY <2>5, <3>2
      <4> QED
        BY <2>2, <4>1
    <3>3. {i \in DOMAIN cola_new : cola_new[i] = p} = {k}
      BY <2>2, <3>1, <3>2
    <3>4. \A i \in 1 .. Len(cola_ready) : cola_ready[i] # p
      BY <2>2, <2>5, <2>7
    <3>5. {i \in DOMAIN cola_ready : cola_ready[i] = p} = {}
      BY <2>2, <3>4
    <3>6. Veces(cola_ready, p) = 0 /\ Veces(cola_new, p) = 1
      BY <2>4, <3>3, <3>5 DEF Veces
    <3> QED
      BY <3>6
  <2> QED
    BY <2>2, <2>6, <2>7
<1> QED
  BY <1>1, EsInvSolo, PTL

=============================================================================
