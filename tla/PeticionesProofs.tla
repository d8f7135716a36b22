--------------------------- MODULE PeticionesProofs ---------------------------
(***************************************************************************)
(* Proofs about Peticiones, for every set of processes, of TIDs and of     *)
(* partitions, and every number of hilos and bursts.                       *)
(***************************************************************************)
EXTENDS Peticiones, SecuenciasProofs

EnMemo == [pid : Pids, tid : Tids, reg : Registros, estado : {"sano", "vacio", "libre"}]
EnCola == [op : Consultas, tcb : 1 .. MaxHilos, reg : Registros]
Peticion == [op : Operaciones \cup {"ninguna"}, pid : Pids \cup {Nada},
             tid : Tids \cup {Nada}, paso : Pasos, obj : Indices, bloque : Bloques \cup {Nada}]

\* The operands and the steps of each operation; the thread that dispatches is
\* the only one that ends anything.
Forma(k) ==
  \/ peticion[k] = Libre
  \/ /\ peticion[k].op = "CREAR_PROCESO" /\ Pid(k) \in Pids
     /\ peticion[k].paso \in {"buscar", "marcar", "guardar", "fin"}
     /\ peticion[k].paso = "marcar" => peticion[k].bloque \in Bloques
  \/ /\ peticion[k].op = "CREAR_HILO" /\ Pid(k) \in Pids /\ Tid(k) \in Tids
     /\ peticion[k].paso \in {"get", "guardar"}
  \/ /\ k = Principal
     /\ peticion[k].op = "FINALIZAR_PROCESO" /\ Pid(k) \in Pids
     /\ peticion[k].paso \in {"get", "soltar", "destruir", "quitar"}
  \/ /\ k = Principal
     /\ peticion[k].op = "FINALIZAR_HILO" /\ Pid(k) \in Pids /\ Tid(k) \in Tids
     /\ peticion[k].paso \in {"get", "liberar", "quitar"}
     /\ peticion[k].paso = "liberar" => peticion[k].obj \in 1 .. Len(memo)

\* The hilos asked for and not made yet have room.
Pide(k) == IF peticion[k].op = "CREAR_HILO" THEN 1 ELSE 0

TiposMemoria ==
  /\ libres \subseteq Bloques /\ procesos \subseteq Pids /\ vaciado \subseteq Pids
  /\ base \in [Pids -> Bloques \cup {Nada}]
  /\ memo \in Seq(EnMemo)
  /\ hilos \in [Pids -> [Tids -> 0 .. Len(memo)]]
  /\ peticion \in [Hilos -> Peticion]
  /\ nuevos \subseteq Pids /\ tcbs \subseteq 1 .. Len(memo)
  /\ \A k \in Hilos : Forma(k)
  /\ Len(memo) + Pide(Principal) + Pide(Largo) <= MaxHilos
  /\ \A p \in procesos : base[p] \in Bloques
  /\ \A k \in Hilos : En(k, "CREAR_PROCESO", "guardar") \/ En(k, "FINALIZAR_PROCESO", "soltar")
                      => base[Pid(k)] \in Bloques

TiposCpu ==
  /\ memoria \in {"viva", "colgada", "indefinida"}
  /\ carrera \in BOOLEAN /\ tarde \in BOOLEAN /\ respuestas \in BOOLEAN /\ desfase \in BOOLEAN
  /\ cola \in Seq(EnCola)
  /\ \A i \in DOMAIN cola : cola[i].tcb <= Len(memo)
  /\ cpu \in [tcb : 0 .. Len(memo), espera : Consultas \cup {"ociosa", "corre"}]
  /\ cpu.espera # "ociosa" => cpu.tcb # 0
  /\ servidor \in [op : Consultas \cup {"ninguna"}, obj : 0 .. Len(memo), reg : Registros]
  /\ servidor.op # "ninguna" => servidor.obj # 0
  /\ rafagas \in Registros
  /\ guardado \in [1 .. MaxHilos -> Registros]

CpuMueve == (\E n \in DOMAIN memo : Despachar(n)) \/ Preguntar \/ RecibirBuffer \/ Devolver

InvTipos == TiposMemoria /\ TiposCpu

---------------------------------------------------------------------------
(* The hilos that exist are found *)

\* Nobody else knows the process that k is creating.
Ajeno(k) ==
  /\ Pid(k) \notin nuevos
  /\ \A m \in DOMAIN memo : memo[m].pid # Pid(k)
  /\ \A j \in Hilos \ {k} : Pid(j) # Pid(k)

PidsNuevos ==
  /\ \A p \in nuevos : /\ p \notin procesos
                       /\ \A m \in DOMAIN memo : memo[m].pid # p
                       /\ \A k \in Hilos : Pid(k) # p
  /\ \A k \in Hilos : /\ peticion[k].op = "CREAR_PROCESO" => Ajeno(k)
                      /\ k = Largo /\ peticion[k].op # "ninguna" => Ajeno(k)

\* The processes of the requests under way are, or are not yet, in the dictionary.
PidsPedidos ==
  \A k \in Hilos :
    /\ peticion[k].op = "CREAR_PROCESO" /\ peticion[k].paso # "fin" => Pid(k) \notin procesos
    /\ En(k, "CREAR_HILO", "guardar") => Pid(k) \in procesos
    /\ peticion[k].op = "FINALIZAR_PROCESO" /\ peticion[k].paso # "get" => Pid(k) \in procesos

\* Who is being ended has no TCB any more.
SinTcb ==
  \A k \in Hilos :
    /\ peticion[k].op = "FINALIZAR_PROCESO" =>
         /\ \E m \in DOMAIN memo : memo[m].pid = Pid(k)
         /\ \A n \in tcbs : memo[n].pid # Pid(k)
    /\ peticion[k].op = "FINALIZAR_HILO" =>
         \E m \in DOMAIN memo \ tcbs : memo[m].pid = Pid(k) /\ memo[m].tid = Tid(k)

Presentes ==
  \A n \in tcbs : /\ memo[n].pid \in procesos
                  /\ Repetido(n) \/ hilos[memo[n].pid][memo[n].tid] = n

InvPedidos == PidsNuevos /\ PidsPedidos /\ SinTcb /\ Presentes

(* Partitions *)

InvBloques ==
  /\ BloqueConDuenio
  /\ ~carrera => \A k \in Hilos : En(k, "CREAR_PROCESO", "marcar") => peticion[k].bloque \in libres

(* Nothing freed is used *)

\* Entries of the dictionaries lead to t_hilo of that process and TID, with contents.
Entradas ==
  \A p \in Pids, t \in Tids :
    hilos[p][t] # 0 =>
      /\ memo[hilos[p][t]].pid = p /\ memo[hilos[p][t]].tid = t
      /\ memo[hilos[p][t]].estado # "libre"
      /\ \/ p \in vaciado
         \/ memo[hilos[p][t]].estado = "sano"
         \/ En(Principal, "FINALIZAR_HILO", "quitar") /\ Pid(Principal) = p /\ Tid(Principal) = t

Vaciados ==
  /\ \A p \in vaciado : \E m \in DOMAIN memo : memo[m].pid = p
  /\ \A p \in vaciado \cap procesos : En(Principal, "FINALIZAR_PROCESO", "quitar") /\ Pid(Principal) = p
  /\ peticion[Principal].op = "FINALIZAR_HILO" /\ peticion[Principal].paso # "get" =>
       /\ peticion[Principal].obj = hilos[Pid(Principal)][Tid(Principal)]
       /\ peticion[Principal].obj # 0

\* What the CPU is running, what it asked and what is being served is of hilos whose
\* end nobody asked for.
ATiempo ==
  ~tarde =>
    /\ cpu.espera # "ociosa" => cpu.tcb \in tcbs
    /\ \A i \in DOMAIN cola : cola[i].tcb \in tcbs
    /\ servidor.op # "ninguna" =>
         /\ memo[servidor.obj].estado = "sano"
         /\ \E n \in tcbs : memo[n].pid = memo[servidor.obj].pid /\ memo[n].tid = memo[servidor.obj].tid
    /\ \A n \in tcbs : hilos[memo[n].pid][memo[n].tid] # 0
    /\ peticion[Principal].op = "FINALIZAR_HILO" =>
         /\ Pid(Principal) \in procesos
         /\ \A n \in tcbs : memo[n].pid # Pid(Principal) \/ memo[n].tid # Tid(Principal)

InvVida == Entradas /\ Vaciados /\ ATiempo /\ SinColgar

(* The registers *)

Encontrado(n) ==
  ~Repetido(n) /\ memo[n].pid \in procesos /\ hilos[memo[n].pid][memo[n].tid] = n

\* No ACTUALIZAR_CONTEXTO of n after the first i requests, and before position j.
Intactos(n, i, j) ==
  \A l \in DOMAIN cola : i < l /\ l < j /\ cola[l].tcb = n => cola[l].op # "ACTUALIZAR"

\* The registers that Memoria will have for n once it has ended the request it is
\* serving.
Ahora(n) ==
  IF servidor.op = "ACTUALIZAR" /\ servidor.obj = n THEN servidor.reg ELSE memo[n].reg

\* They will be r when it reads the request at position j: those of the last
\* ACTUALIZAR_CONTEXTO of n before.
Registro(n, r, j) ==
  /\ Intactos(n, 0, j) => r = Ahora(n)
  /\ \A i \in DOMAIN cola :
       i < j /\ cola[i].tcb = n /\ cola[i].op = "ACTUALIZAR" /\ Intactos(n, i, j) => r = cola[i].reg

Guardados(n) ==
  /\ \A j \in DOMAIN cola :
       cola[j].tcb = n /\ cola[j].op # "ACTUALIZAR" => Registro(n, cola[j].reg, j)
  /\ Registro(n, guardado[n], Len(cola) + 1)

InvContexto ==
  /\ \A n \in 1 .. MaxHilos : n > Len(memo) => guardado[n] = 0
  /\ \A n \in DOMAIN memo : Encontrado(n) => Guardados(n)
  /\ ContextoFiel

---------------------------------------------------------------------------
LEMMA DosHilos == Principal \in Hilos /\ Largo \in Hilos /\ Principal # Largo
BY PeticionesAssumption DEF Hilos

LEMMA EsTypeOK == InvTipos => TypeOK
<1> SUFFICES ASSUME InvTipos
             PROVE  TypeOK
  OBVIOUS
<1> USE DEF InvTipos, TiposMemoria, TiposCpu
<1>1. memo \in Seq(EnMemo) /\ cola \in Seq(EnCola) /\ peticion \in [Hilos -> Peticion]
  OBVIOUS
<1>2. servidor.obj \in 0 .. Len(memo) /\ cpu.espera \in Consultas \cup {"ociosa", "corre"}
  OBVIOUS
<1> QED
  BY <1>1, <1>2 DEF TypeOK, EnMemo, EnCola, Peticion

---------------------------------------------------------------------------
(* What the parts of an action do to peticion and to memo *)

LEMMA LibreTipo == Libre \in Peticion /\ Libre.op = "ninguna" /\ Libre.pid = Nada
                   /\ Libre.paso = "fin"
BY PeticionesAssumption DEF Libre, Peticion, Pasos, Indices

LEMMA PedirCambia ==
  ASSUME peticion \in [Hilos -> Peticion], NEW k \in Hilos, NEW op \in Operaciones,
         NEW p \in Pids, NEW t \in Tids \cup {Nada}, NEW paso \in Pasos,
         Pedir(k, op, p, t, paso)
  PROVE  /\ peticion' \in [Hilos -> Peticion]
         /\ \A j \in Hilos : j # k => peticion'[j] = peticion[j]
         /\ peticion'[k].op = op /\ peticion'[k].pid = p /\ peticion'[k].tid = t
         /\ peticion'[k].paso = paso
<1> DEFINE n == [Libre EXCEPT !.op = op, !.pid = p, !.tid = t, !.paso = paso]
<1>1. n.op = op /\ n.pid = p /\ n.tid = t /\ n.paso = paso
  BY DEF Libre
<1>2. n \in Peticion
  BY LibreTipo DEF Peticion
<1>3. peticion' = [peticion EXCEPT ![k] = n]
  BY DEF Pedir
<1> HIDE DEF n
<1>4. peticion'[k] = n /\ peticion' \in [Hilos -> Peticion]
      /\ \A j \in Hilos : j # k => peticion'[j] = peticion[j]
  BY <1>2, <1>3
<1> QED
  BY <1>1, <1>4

LEMMA ContestaCambia ==
  ASSUME peticion \in [Hilos -> Peticion], NEW k \in Hilos, Contesta(k)
  PROVE  /\ peticion' \in [Hilos -> Peticion]
         /\ \A j \in Hilos : j # k => peticion'[j] = peticion[j]
         /\ peticion'[k] = Libre
BY LibreTipo DEF Contesta

LEMMA SigueCambia ==
  ASSUME peticion \in [Hilos -> Peticion], NEW k \in Hilos, NEW paso \in Pasos, Sigue(k, paso)
  PROVE  /\ peticion' \in [Hilos -> Peticion]
         /\ \A j \in Hilos : j # k => peticion'[j] = peticion[j]
         /\ peticion'[k].op = peticion[k].op /\ peticion'[k].pid = peticion[k].pid
         /\ peticion'[k].tid = peticion[k].tid /\ peticion'[k].obj = peticion[k].obj
         /\ peticion'[k].bloque = peticion[k].bloque
         /\ peticion'[k].paso = paso
<1> DEFINE n == [peticion[k] EXCEPT !.paso = paso]
<1>1. peticion[k] \in Peticion
  OBVIOUS
<1>2. n \in Peticion /\ n.op = peticion[k].op /\ n.pid = peticion[k].pid
      /\ n.tid = peticion[k].tid /\ n.obj = peticion[k].obj
      /\ n.bloque = peticion[k].bloque /\ n.paso = paso
  BY <1>1 DEF Peticion
<1>3. peticion' = [peticion EXCEPT ![k] = n]
  BY DEF Sigue
<1> HIDE DEF n
<1>4. peticion'[k] = n /\ peticion' \in [Hilos -> Peticion]
      /\ \A j \in Hilos : j # k => peticion'[j] = peticion[j]
  BY <1>2, <1>3
<1> QED
  BY <1>2, <1>4

\* Changing the contents of some t_hilo.
LEMMA MemoIgual ==
  ASSUME memo \in Seq(EnMemo), memo' \in [1 .. Len(memo) -> EnMemo]
  PROVE  memo' \in Seq(EnMemo) /\ Len(memo') = Len(memo) /\ DOMAIN memo' = DOMAIN memo
BY LenProperties, IsASeq

---------------------------------------------------------------------------
(* Types *)

\* A step of one thread, k, of those that the Kernel's requests are.
LEMMA TiposPaso ==
  ASSUME TiposMemoria, NEW k \in Hilos,
         libres' \subseteq Bloques, procesos' \subseteq Pids, vaciado' \subseteq Pids,
         base' \in [Pids -> Bloques \cup {Nada}],
         \A p \in Pids : base[p] \in Bloques => base'[p] \in Bloques,
         \A p \in procesos' : p \in procesos \/ base'[p] \in Bloques,
         memo' \in Seq(EnMemo), Len(memo') >= Len(memo),
         hilos' \in [Pids -> [Tids -> 0 .. Len(memo')]],
         peticion' \in [Hilos -> Peticion],
         \A j \in Hilos : j # k => peticion'[j] = peticion[j],
         nuevos' \subseteq Pids, tcbs' \subseteq 1 .. Len(memo'),
         Forma(k)',
         En(k, "CREAR_PROCESO", "guardar")' \/ En(k, "FINALIZAR_PROCESO", "soltar")'
           => base'[peticion'[k].pid] \in Bloques,
         Len(memo') + Pide(Principal)' + Pide(Largo)' <= MaxHilos
  PROVE  TiposMemoria'
<1>1. \A j \in Hilos : Forma(j)'
  <2> SUFFICES ASSUME NEW j \in Hilos, j # k
               PROVE  Forma(j)'
    OBVIOUS
  <2>1. Forma(j) /\ peticion'[j] = peticion[j]
    BY DEF TiposMemoria
  <2>2. Len(memo) \in Nat /\ Len(memo') \in Nat
    BY LenProperties DEF TiposMemoria
  <2> QED
    BY <2>1, <2>2 DEF Forma, Pid, Tid
<1>2. \A p \in procesos' : base'[p] \in Bloques
  BY DEF TiposMemoria
<1>3. \A j \in Hilos : En(j, "CREAR_PROCESO", "guardar")' \/ En(j, "FINALIZAR_PROCESO", "soltar")'
                       => base'[peticion'[j].pid] \in Bloques
  <2> SUFFICES ASSUME NEW j \in Hilos, j # k,
                      En(j, "CREAR_PROCESO", "guardar")' \/ En(j, "FINALIZAR_PROCESO", "soltar")'
               PROVE  base'[peticion'[j].pid] \in Bloques
    OBVIOUS
  <2>1. peticion'[j] = peticion[j]
    OBVIOUS
  <2>2. En(j, "CREAR_PROCESO", "guardar") \/ En(j, "FINALIZAR_PROCESO", "soltar")
    BY <2>1 DEF En
  <2>3. peticion[j].pid \in Pids /\ base[peticion[j].pid] \in Bloques
    BY <2>2, LibreTipo DEF TiposMemoria, Forma, Pid, En
  <2> QED
    BY <2>1, <2>3
<1> QED
  BY <1>1, <1>2, <1>3 DEF TiposMemoria, Pid

\* The same when the thread asks for something: Memoria has not changed.
LEMMA TiposPide ==
  ASSUME TiposMemoria, UNCHANGED <<libres, procesos, base, vaciado, memo, hilos>>,
         NEW k \in Hilos, peticion' \in [Hilos -> Peticion],
         \A j \in Hilos : j # k => peticion'[j] = peticion[j],
         nuevos' \subseteq Pids, tcbs' \subseteq 1 .. Len(memo),
         Forma(k)', peticion'[k].paso \in {"buscar", "get"},
         Len(memo) + Pide(Principal)' + Pide(Largo)' <= MaxHilos
  PROVE  TiposMemoria'
<1>1. Len(memo) \in Nat
  BY LenProperties DEF TiposMemoria
<1>2. ~ (En(k, "CREAR_PROCESO", "guardar")' \/ En(k, "FINALIZAR_PROCESO", "soltar")')
  BY DEF En
<1>3. /\ libres' \subseteq Bloques /\ procesos' \subseteq Pids /\ vaciado' \subseteq Pids
      /\ base' \in [Pids -> Bloques \cup {Nada}] /\ memo' \in Seq(EnMemo)
      /\ hilos' \in [Pids -> [Tids -> 0 .. Len(memo')]]
  BY DEF TiposMemoria
<1>4. Len(memo') >= Len(memo) /\ Len(memo') + Pide(Principal)' + Pide(Largo)' <= MaxHilos
      /\ tcbs' \subseteq 1 .. Len(memo')
  BY <1>1
<1> QED
  BY <1>2, <1>3, <1>4, TiposPaso

LEMMA PideTipo ==
  ASSUME NEW k \in Hilos
  PROVE  Pide(k) \in {0, 1} /\ Pide(k)' \in {0, 1}
BY DEF Pide

\* There is room for one more hilo.
LEMMA CabeOtro ==
  ASSUME TiposMemoria, Cabe, NEW k \in Hilos, peticion[k].op # "CREAR_HILO"
  PROVE  \A j \in Hilos : j # k => Len(memo) + Pide(j) + 1 <= MaxHilos
<1> DEFINE S == {j \in Hilos : peticion[j].op = "CREAR_HILO"}
<1> SUFFICES ASSUME NEW j \in Hilos, j # k
             PROVE  Len(memo) + Pide(j) + 1 <= MaxHilos
  OBVIOUS
<1>1. Len(memo) \in Nat /\ MaxHilos \in Nat
  BY LenProperties, PeticionesAssumption DEF TiposMemoria
<1>2. Len(memo) + Cardinality(S) < MaxHilos
  BY DEF Cabe
<1>3. CASE peticion[j].op = "CREAR_HILO"
  <2>1. S = {j}
    BY <1>3, DosHilos DEF Hilos
  <2>2. Cardinality(S) = 1
    BY <2>1, FS_Singleton
  <2> QED
    BY <1>1, <1>2, <1>3, <2>2 DEF Pide
<1>4. CASE peticion[j].op # "CREAR_HILO"
  <2>1. S = {}
    BY <1>4, DosHilos DEF Hilos
  <2>2. Cardinality(S) = 0
    BY <2>1, FS_EmptySet
  <2> QED
    BY <1>1, <1>2, <1>4, <2>2 DEF Pide
<1> QED
  BY <1>3, <1>4

LEMMA Operandos ==
  ASSUME TiposMemoria, NEW k \in Hilos
  PROVE  /\ peticion[k] \in Peticion
         /\ peticion[k].op # "ninguna" => Pid(k) \in Pids
         /\ peticion[k].op = "ninguna" => peticion[k] = Libre
         /\ peticion[k].op \in {"CREAR_HILO", "FINALIZAR_HILO"} => Tid(k) \in Tids
         /\ peticion[k].op \in {"FINALIZAR_PROCESO", "FINALIZAR_HILO"} => k = Principal
         /\ En(k, "FINALIZAR_HILO", "liberar") => peticion[k].obj \in 1 .. Len(memo)
         /\ En(k, "CREAR_PROCESO", "marcar") => peticion[k].bloque \in Bloques
<1>1. Forma(k) /\ peticion[k] \in Peticion
  BY DEF TiposMemoria
<1> QED
  BY <1>1, LibreTipo DEF Forma, En

LEMMA MemoTipos ==
  ASSUME TiposMemoria
  PROVE  /\ Len(memo) \in Nat /\ DOMAIN memo = 1 .. Len(memo)
         /\ \A n \in 1 .. Len(memo) : /\ memo[n] \in EnMemo
                                      /\ memo[n].pid \in Pids /\ memo[n].tid \in Tids
         /\ memo \in [1 .. Len(memo) -> EnMemo]
<1>1. memo \in Seq(EnMemo)
  BY DEF TiposMemoria
<1>2. Len(memo) \in Nat /\ memo \in [1 .. Len(memo) -> EnMemo]
  BY <1>1, LenProperties
<1> QED
  BY <1>2 DEF EnMemo

LEMMA TiposPedir ==
  ASSUME InvTipos, PedirAlgo
  PROVE  TiposMemoria'
<1> USE DEF InvTipos
<1>a. /\ UNCHANGED <<libres, procesos, base, vaciado, memo, hilos>>
      /\ peticion \in [Hilos -> Peticion] /\ nuevos \subseteq Pids
      /\ tcbs \subseteq 1 .. Len(memo)
      /\ Len(memo) + Pide(Principal) + Pide(Largo) <= MaxHilos
      /\ libres \subseteq Bloques /\ procesos \subseteq Pids /\ vaciado \subseteq Pids
      /\ base \in [Pids -> Bloques \cup {Nada}] /\ memo \in Seq(EnMemo)
      /\ hilos \in [Pids -> [Tids -> 0 .. Len(memo)]]
  BY DEF PedirAlgo, mem, TiposMemoria
<1>b. /\ Len(memo) \in Nat
      /\ \A n \in DOMAIN memo : n \in 1 .. Len(memo) /\ memo[n].pid \in Pids /\ memo[n].tid \in Tids
  BY MemoTipos, <1>a
<1>1. ASSUME NEW k \in Hilos, PedirProceso(k)
      PROVE  TiposMemoria'
  <2>1. PICK p \in nuevos : Pedir(k, "CREAR_PROCESO", p, Nada, "buscar") /\ nuevos' = nuevos \ {p}
    BY <1>1 DEF PedirProceso
  <2>2. /\ peticion' \in [Hilos -> Peticion]
        /\ \A j \in Hilos : j # k => peticion'[j] = peticion[j]
        /\ peticion'[k].op = "CREAR_PROCESO" /\ peticion'[k].pid \in Pids
        /\ peticion'[k].paso = "buscar"
    BY <2>1, <1>a, PedirCambia DEF Operaciones, Pasos
  <2>3. Forma(k)'
    BY <2>2 DEF Forma, Pid
  <2>4. Pide(k)' = 0 /\ \A j \in Hilos : j # k => Pide(j)' = Pide(j)
    BY <2>2 DEF Pide
  <2>5. Len(memo') + Pide(Principal)' + Pide(Largo)' <= MaxHilos
    BY <2>4, <1>a, <1>b, PeticionesAssumption, PideTipo, DosHilos DEF Hilos
  <2> QED
    BY <2>1, <2>2, <2>3, <2>5, <1>1, <1>a, TiposPide, DosHilos DEF PedirProceso
<1>2. ASSUME NEW k \in Hilos, PedirHiloCero(k)
      PROVE  TiposMemoria'
  <2>1. PICK t \in Tids : Pedir(k, "CREAR_HILO", Pid(k), t, "get")
    BY <1>2 DEF PedirHiloCero, Pid
  <2>2. Pid(k) \in Pids
    BY <1>2, Operandos DEF PedirHiloCero
  <2>3. /\ peticion' \in [Hilos -> Peticion]
        /\ \A j \in Hilos : j # k => peticion'[j] = peticion[j]
        /\ peticion'[k].op = "CREAR_HILO" /\ peticion'[k].pid = Pid(k) /\ peticion'[k].tid = t
        /\ peticion'[k].paso = "get"
    BY <2>1, <2>2, <1>a, PedirCambia DEF Operaciones, Pasos
  <2>4. Forma(k)'
    BY <2>2, <2>3 DEF Forma, Pid, Tid
  <2>5. \A j \in Hilos : j # k => Len(memo) + Pide(j) + 1 <= MaxHilos
    BY <1>2, CabeOtro DEF PedirHiloCero
  <2>6. Len(memo') + Pide(Principal)' + Pide(Largo)' <= MaxHilos
    <3>1. Pide(k)' = 1 /\ \A j \in Hilos : j # k => Pide(j)' = Pide(j)
      BY <2>3 DEF Pide
    <3> QED
      BY <2>5, <3>1, <1>a, <1>b, DosHilos, PeticionesAssumption, PideTipo DEF Hilos
  <2> QED
    BY <2>3, <2>4, <2>6, <1>2, <1>a, TiposPide, DosHilos DEF PedirHiloCero
<1>3. ASSUME NEW n \in DOMAIN memo, PedirHilo(n)
      PROVE  TiposMemoria'
  <2>1. PICK t \in Tids : Pedir(Principal, "CREAR_HILO", memo[n].pid, t, "get")
    BY <1>3 DEF PedirHilo
  <2>3. /\ peticion' \in [Hilos -> Peticion]
        /\ \A j \in Hilos : j # Principal => peticion'[j] = peticion[j]
        /\ peticion'[Principal].op = "CREAR_HILO" /\ peticion'[Principal].pid = memo[n].pid
        /\ peticion'[Principal].tid = t /\ peticion'[Principal].paso = "get"
    BY <2>1, <1>a, <1>b, PedirCambia, DosHilos DEF Operaciones, Pasos
  <2>4. Forma(Principal)'
    BY <1>b, <2>3 DEF Forma, Pid, Tid
  <2>5. \A j \in Hilos : j # Principal => Len(memo) + Pide(j) + 1 <= MaxHilos
    BY <1>3, CabeOtro, LibreTipo, DosHilos DEF PedirHilo, Ociosa
  <2>6. Len(memo') + Pide(Principal)' + Pide(Largo)' <= MaxHilos
    BY <2>3, <2>5, <1>a, <1>b, DosHilos, PeticionesAssumption DEF Pide
  <2> QED
    BY <2>3, <2>4, <2>6, <1>3, <1>a, TiposPide, DosHilos DEF PedirHilo
<1>4. ASSUME NEW n \in DOMAIN memo, PedirFinHilo(n)
      PROVE  TiposMemoria'
  <2>3. /\ peticion' \in [Hilos -> Peticion]
        /\ \A j \in Hilos : j # Principal => peticion'[j] = peticion[j]
        /\ peticion'[Principal].op = "FINALIZAR_HILO" /\ peticion'[Principal].pid = memo[n].pid
        /\ peticion'[Principal].tid = memo[n].tid /\ peticion'[Principal].paso = "get"
    BY <1>4, <1>a, <1>b, PedirCambia, DosHilos DEF Operaciones, Pasos, PedirFinHilo
  <2>4. Forma(Principal)'
    BY <1>b, <2>3 DEF Forma, Pid, Tid
  <2>5. Pide(Principal)' <= Pide(Principal) /\ Pide(Largo)' = Pide(Largo)
    BY <2>3, DosHilos DEF Pide
  <2>6. Len(memo') + Pide(Principal)' + Pide(Largo)' <= MaxHilos
    BY <2>5, <1>a, <1>b, PeticionesAssumption, PideTipo, DosHilos
  <2> QED
    BY <2>3, <2>4, <2>6, <1>4, <1>a, TiposPide, DosHilos DEF PedirFinHilo
<1>5. ASSUME NEW n \in DOMAIN memo, PedirFinProceso(n)
      PROVE  TiposMemoria'
  <2>3. /\ peticion' \in [Hilos -> Peticion]
        /\ \A j \in Hilos : j # Principal => peticion'[j] = peticion[j]
        /\ peticion'[Principal].op = "FINALIZAR_PROCESO" /\ peticion'[Principal].pid = memo[n].pid
        /\ peticion'[Principal].paso = "get"
    BY <1>5, <1>a, <1>b, PedirCambia, DosHilos DEF Operaciones, Pasos, PedirFinProceso
  <2>4. Forma(Principal)'
    BY <1>b, <2>3 DEF Forma, Pid, Tid
  <2>5. Pide(Principal)' <= Pide(Principal) /\ Pide(Largo)' = Pide(Largo)
    BY <2>3, DosHilos DEF Pide
  <2>6. Len(memo') + Pide(Principal)' + Pide(Largo)' <= MaxHilos
    BY <2>5, <1>a, <1>b, PeticionesAssumption, PideTipo, DosHilos
  <2>7. tcbs' \subseteq 1 .. Len(memo')
    BY <1>5, <1>a DEF PedirFinProceso
  <2> QED
    BY <2>3, <2>4, <2>6, <2>7, <1>5, <1>a, TiposPide, DosHilos DEF PedirFinProceso
<1>6. tcbs \subseteq DOMAIN memo
  BY MemoTipos, <1>a
<1> QED
  BY <1>1, <1>2, <1>3, <1>4, <1>5, <1>6 DEF PedirAlgo

\* What is done to the contents of one t_hilo.
LEMMA MemoEstado ==
  ASSUME TiposMemoria, NEW i, NEW e \in {"sano", "vacio", "libre"},
         memo' = [memo EXCEPT ![i].estado = e]
  PROVE  /\ memo' \in Seq(EnMemo) /\ Len(memo') = Len(memo)
         /\ \A m \in 1 .. Len(memo) :
              /\ memo'[m].pid = memo[m].pid /\ memo'[m].tid = memo[m].tid
              /\ memo'[m].reg = memo[m].reg
              /\ memo'[m].estado = IF m = i THEN e ELSE memo[m].estado
<1>1. memo \in [1 .. Len(memo) -> EnMemo]
  BY MemoTipos
<1>2. memo' \in [1 .. Len(memo) -> EnMemo]
      /\ \A m \in 1 .. Len(memo) :
              /\ memo'[m].pid = memo[m].pid /\ memo'[m].tid = memo[m].tid
              /\ memo'[m].reg = memo[m].reg
              /\ memo'[m].estado = IF m = i THEN e ELSE memo[m].estado
  BY <1>1 DEF EnMemo
<1> QED
  BY <1>2, MemoIgual DEF TiposMemoria

LEMMA MemoReg ==
  ASSUME TiposMemoria, NEW i, NEW r \in Registros,
         memo' = [memo EXCEPT ![i].reg = r]
  PROVE  /\ memo' \in Seq(EnMemo) /\ Len(memo') = Len(memo)
         /\ \A m \in 1 .. Len(memo) :
              /\ memo'[m].pid = memo[m].pid /\ memo'[m].tid = memo[m].tid
              /\ memo'[m].estado = memo[m].estado
              /\ memo'[m].reg = IF m = i THEN r ELSE memo[m].reg
<1>1. memo \in [1 .. Len(memo) -> EnMemo]
  BY MemoTipos
<1>2. memo' \in [1 .. Len(memo) -> EnMemo]
      /\ \A m \in 1 .. Len(memo) :
              /\ memo'[m].pid = memo[m].pid /\ memo'[m].tid = memo[m].tid
              /\ memo'[m].estado = memo[m].estado
              /\ memo'[m].reg = IF m = i THEN r ELSE memo[m].reg
  BY <1>1 DEF EnMemo
<1> QED
  BY <1>2, MemoIgual DEF TiposMemoria

LEMMA MemoVacio ==
  ASSUME TiposMemoria, NEW S,
         memo' = [n \in DOMAIN memo |->
                    IF n \in S THEN [memo[n] EXCEPT !.estado = "vacio"] ELSE memo[n]]
  PROVE  /\ memo' \in Seq(EnMemo) /\ Len(memo') = Len(memo)
         /\ \A m \in 1 .. Len(memo) :
              /\ memo'[m].pid = memo[m].pid /\ memo'[m].tid = memo[m].tid
              /\ memo'[m].reg = memo[m].reg
              /\ memo'[m].estado = IF m \in S THEN "vacio" ELSE memo[m].estado
<1>1. memo \in [1 .. Len(memo) -> EnMemo] /\ DOMAIN memo = 1 .. Len(memo)
  BY MemoTipos
<1>2. memo' \in [1 .. Len(memo) -> EnMemo]
      /\ \A m \in 1 .. Len(memo) :
              /\ memo'[m].pid = memo[m].pid /\ memo'[m].tid = memo[m].tid
              /\ memo'[m].reg = memo[m].reg
              /\ memo'[m].estado = IF m \in S THEN "vacio" ELSE memo[m].estado
  BY <1>1 DEF EnMemo
<1> QED
  BY <1>2, MemoIgual DEF TiposMemoria

\* What crear_hilo leaves.
LEMMA MemoNuevo ==
  ASSUME TiposMemoria, NEW k \in Hilos, GuardarHilo(k)
  PROVE  /\ memo' \in Seq(EnMemo) /\ Len(memo') = Len(memo) + 1
         /\ \A m \in 1 .. Len(memo) : memo'[m] = memo[m]
         /\ memo'[Len(memo) + 1].pid = Pid(k) /\ memo'[Len(memo) + 1].tid = Tid(k)
         /\ memo'[Len(memo) + 1].reg = 0 /\ memo'[Len(memo) + 1].estado = "sano"
         /\ \A p \in Pids, t \in Tids :
              hilos'[p][t] = IF p = Pid(k) /\ t = Tid(k) THEN Len(memo) + 1 ELSE hilos[p][t]
         /\ hilos' \in [Pids -> [Tids -> 0 .. Len(memo')]]
<1> DEFINE r == [pid |-> Pid(k), tid |-> Tid(k), reg |-> 0, estado |-> "sano"]
<1>1. Pid(k) \in Pids /\ Tid(k) \in Tids
  BY Operandos DEF GuardarHilo, En
<1>2. r \in EnMemo /\ r.pid = Pid(k) /\ r.tid = Tid(k) /\ r.reg = 0 /\ r.estado = "sano"
  BY <1>1, PeticionesAssumption DEF EnMemo, Registros
<1>3. memo' = Append(memo, r) /\ hilos' = [hilos EXCEPT ![Pid(k)][Tid(k)] = Len(memo) + 1]
  BY DEF GuardarHilo
<1> HIDE DEF r
<1>4. memo \in Seq(EnMemo) /\ hilos \in [Pids -> [Tids -> 0 .. Len(memo)]] /\ Len(memo) \in Nat
  BY LenProperties DEF TiposMemoria
<1>5. /\ memo' \in Seq(EnMemo) /\ Len(memo') = Len(memo) + 1
      /\ \A m \in 1 .. Len(memo) : memo'[m] = memo[m]
      /\ memo'[Len(memo) + 1] = r
  BY <1>2, <1>3, <1>4, AppendProperties
<1>6. \A p \in Pids, t \in Tids :
        hilos'[p][t] = IF p = Pid(k) /\ t = Tid(k) THEN Len(memo) + 1 ELSE hilos[p][t]
  BY <1>1, <1>3, <1>4
<1>7. hilos' \in [Pids -> [Tids -> 0 .. Len(memo')]]
  BY <1>1, <1>3, <1>4, <1>5
<1> QED
  BY <1>2, <1>5, <1>6, <1>7

\* A step of a request other than the one that makes a hilo.
LEMMA TiposAvanza ==
  ASSUME TiposMemoria, NEW k \in Hilos,
         libres' \subseteq Bloques, procesos' \subseteq Pids, vaciado' \subseteq Pids,
         base' \in [Pids -> Bloques \cup {Nada}],
         \A p \in Pids : base[p] \in Bloques => base'[p] \in Bloques,
         \A p \in procesos' : p \in procesos \/ base'[p] \in Bloques,
         memo' \in Seq(EnMemo), Len(memo') = Len(memo),
         hilos' \in [Pids -> [Tids -> 0 .. Len(memo)]],
         peticion' \in [Hilos -> Peticion],
         \A j \in Hilos : j # k => peticion'[j] = peticion[j],
         UNCHANGED <<nuevos, tcbs>>,
         peticion'[k] = Libre \/ (Forma(k)' /\ peticion'[k].op = peticion[k].op),
         En(k, "CREAR_PROCESO", "guardar")' \/ En(k, "FINALIZAR_PROCESO", "soltar")'
           => base'[peticion'[k].pid] \in Bloques
  PROVE  TiposMemoria'
<1>1. Len(memo) \in Nat /\ nuevos' \subseteq Pids /\ tcbs' \subseteq 1 .. Len(memo')
      /\ Len(memo) + Pide(Principal) + Pide(Largo) <= MaxHilos
  BY LenProperties DEF TiposMemoria
<1>2. Pide(k)' \in {0, Pide(k)} /\ \A j \in Hilos : j # k => Pide(j)' = Pide(j)
  BY LibreTipo DEF Pide
<1>3. Len(memo') + Pide(Principal)' + Pide(Largo)' <= MaxHilos
  BY <1>1, <1>2, DosHilos, PideTipo, PeticionesAssumption DEF Hilos
<1>4. Forma(k)'
  BY DEF Forma
<1>5. Len(memo') >= Len(memo) /\ hilos' \in [Pids -> [Tids -> 0 .. Len(memo')]]
  BY <1>1
<1> QED
  BY <1>1, <1>3, <1>4, <1>5, TiposPaso

\* Nor does anybody else change what Memoria and the Kernel hold, but registers.
LEMMA TiposIguales ==
  ASSUME TiposMemoria, UNCHANGED <<libres, procesos, base, vaciado, hilos, peticion, nuevos, tcbs>>,
         memo' \in Seq(EnMemo), Len(memo') = Len(memo)
  PROVE  TiposMemoria'
<1>1. \A k \in Hilos : Forma(k)'
  BY DEF TiposMemoria, Forma, Pid, Tid
<1>2. Len(memo') + Pide(Principal)' + Pide(Largo)' <= MaxHilos
  BY DEF TiposMemoria, Pide
<1>3. \A k \in Hilos : En(k, "CREAR_PROCESO", "guardar")' \/ En(k, "FINALIZAR_PROCESO", "soltar")'
                      => base'[Pid(k)'] \in Bloques
  BY DEF TiposMemoria, En, Pid
<1> QED
  BY <1>1, <1>2, <1>3 DEF TiposMemoria

\* asignar_memoria found a partition; finalizar_hilo, the hilo.
LEMMA BuscarCambia ==
  ASSUME TiposMemoria, NEW k \in Hilos, NEW b \in Bloques,
         peticion' = [peticion EXCEPT ![k].paso = "marcar", ![k].bloque = b]
  PROVE  /\ peticion' \in [Hilos -> Peticion]
         /\ \A j \in Hilos : j # k => peticion'[j] = peticion[j]
         /\ peticion'[k].op = peticion[k].op /\ peticion'[k].pid = peticion[k].pid
         /\ peticion'[k].tid = peticion[k].tid
         /\ peticion'[k].paso = "marcar" /\ peticion'[k].bloque = b
<1> DEFINE q == [peticion[k] EXCEPT !.paso = "marcar", !.bloque = b]
<1>1. peticion \in [Hilos -> Peticion] /\ peticion[k] \in Peticion
  BY DEF TiposMemoria
<1>2. /\ q \in Peticion /\ q.op = peticion[k].op /\ q.pid = peticion[k].pid
      /\ q.tid = peticion[k].tid /\ q.paso = "marcar" /\ q.bloque = b
  BY <1>1 DEF Peticion, Pasos
<1>3. peticion' = [peticion EXCEPT ![k] = q]
  BY <1>1
<1> HIDE DEF q
<1>4. peticion'[k] = q /\ peticion' \in [Hilos -> Peticion]
      /\ \A j \in Hilos : j # k => peticion'[j] = peticion[j]
  BY <1>1, <1>2, <1>3
<1> QED
  BY <1>2, <1>4

LEMMA TomarCambia ==
  ASSUME TiposMemoria, NEW k \in Hilos, TomarHilo(k)
  PROVE  /\ hilos[Pid(k)][Tid(k)] \in 0 .. Len(memo)
         /\ peticion' \in [Hilos -> Peticion]
         /\ \A j \in Hilos : j # k => peticion'[j] = peticion[j]
         /\ \/ peticion'[k] = Libre
            \/ /\ peticion'[k].op = peticion[k].op /\ peticion'[k].pid = peticion[k].pid
               /\ peticion'[k].tid = peticion[k].tid /\ peticion'[k].paso = "liberar"
               /\ peticion'[k].obj = hilos[Pid(k)][Tid(k)] /\ peticion'[k].obj # 0
<1> DEFINE n == hilos[Pid(k)][Tid(k)]
           q == IF n = 0 THEN Libre ELSE [peticion[k] EXCEPT !.paso = "liberar", !.obj = n]
<1>1. /\ peticion \in [Hilos -> Peticion] /\ Pid(k) \in Pids /\ Tid(k) \in Tids
      /\ hilos \in [Pids -> [Tids -> 0 .. Len(memo)]]
      /\ Len(memo) + Pide(Principal) + Pide(Largo) <= MaxHilos
      /\ Len(memo) \in Nat
  BY Operandos, LenProperties DEF TiposMemoria, TomarHilo, En
<1>a. n \in 0 .. Len(memo)
  BY <1>1
<1>b. Pide(Principal) \in {0, 1} /\ Pide(Largo) \in {0, 1}
  BY DosHilos, PideTipo
<1>2. n \in 0 .. Len(memo) /\ Len(memo) <= MaxHilos
  BY <1>1, <1>a, <1>b, PeticionesAssumption
<1>3. n \in Indices
  BY <1>1, <1>2, PeticionesAssumption DEF Indices
<1>4. peticion' = [peticion EXCEPT ![k] = q]
  BY <1>1 DEF TomarHilo
<1>5. n # 0 => /\ q \in Peticion
               /\ q.op = peticion[k].op /\ q.pid = peticion[k].pid
               /\ q.tid = peticion[k].tid /\ q.paso = "liberar" /\ q.obj = n
  <2>1. peticion[k] \in Peticion
    BY <1>1
  <2> QED
    BY <2>1, <1>3 DEF Peticion, Pasos
<1>6. n = 0 => q = Libre /\ q \in Peticion
  BY LibreTipo
<1> HIDE DEF q
<1>7. /\ peticion' \in [Hilos -> Peticion] /\ peticion'[k] = q
      /\ \A j \in Hilos : j # k => peticion'[j] = peticion[j]
  BY <1>1, <1>4, <1>5, <1>6
<1> QED
  BY <1>2, <1>5, <1>6, <1>7

\* The dictionaries, the partitions and the rest, at the start of a step.
LEMMA Partes ==
  ASSUME TiposMemoria
  PROVE  /\ libres \subseteq Bloques /\ procesos \subseteq Pids /\ vaciado \subseteq Pids
         /\ base \in [Pids -> Bloques \cup {Nada}]
         /\ memo \in Seq(EnMemo) /\ Len(memo) \in Nat
         /\ hilos \in [Pids -> [Tids -> 0 .. Len(memo)]]
         /\ peticion \in [Hilos -> Peticion]
         /\ \A p \in procesos : base[p] \in Bloques
BY LenProperties DEF TiposMemoria

LEMMA TiposCrearProceso ==
  ASSUME TiposMemoria, NEW k \in Hilos, UNCHANGED nuevos,
         Buscar(k) \/ Marcar(k) \/ GuardarProceso(k)
  PROVE  TiposMemoria'
<1>1. CASE Buscar(k)
  <2>1. UNCHANGED <<libres, procesos, base, vaciado, memo, hilos, tcbs>>
    BY <1>1 DEF Buscar, mem
  <2>2. CASE Contesta(k)
    <3>1. /\ peticion' \in [Hilos -> Peticion] /\ peticion'[k] = Libre
          /\ \A j \in Hilos : j # k => peticion'[j] = peticion[j]
      BY <2>2, Partes, ContestaCambia
    <3>2. ~ (En(k, "CREAR_PROCESO", "guardar")' \/ En(k, "FINALIZAR_PROCESO", "soltar")')
      BY <3>1, LibreTipo DEF En
    <3> QED
      BY <2>1, <3>1, <3>2, Partes, TiposAvanza
  <2>3. CASE \E b \in libres :
               peticion' = [peticion EXCEPT ![k].paso = "marcar", ![k].bloque = b]
    <3>1. PICK b \in libres :
               peticion' = [peticion EXCEPT ![k].paso = "marcar", ![k].bloque = b]
      BY <2>3
    <3>2. b \in Bloques /\ Pid(k) \in Pids /\ peticion[k].op = "CREAR_PROCESO"
      BY <1>1, Partes, Operandos DEF Buscar, En
    <3>3. /\ peticion' \in [Hilos -> Peticion]
          /\ \A j \in Hilos : j # k => peticion'[j] = peticion[j]
          /\ peticion'[k].op = peticion[k].op /\ peticion'[k].pid = peticion[k].pid
          /\ peticion'[k].paso = "marcar" /\ peticion'[k].bloque = b
      BY <3>1, <3>2, BuscarCambia
    <3>4. Forma(k)'
      BY <3>2, <3>3 DEF Forma, Pid
    <3>5. ~ (En(k, "CREAR_PROCESO", "guardar")' \/ En(k, "FINALIZAR_PROCESO", "soltar")')
      BY <3>3 DEF En
    <3> QED
      BY <2>1, <3>3, <3>4, <3>5, Partes, TiposAvanza
  <2> QED
    BY <1>1, <2>2, <2>3 DEF Buscar
<1>2. CASE Marcar(k)
  <2>1. /\ peticion[k].op = "CREAR_PROCESO" /\ Pid(k) \in Pids /\ peticion[k].bloque \in Bloques
    BY <1>2, Operandos DEF Marcar, En
  <2>2. /\ peticion' \in [Hilos -> Peticion]
        /\ \A j \in Hilos : j # k => peticion'[j] = peticion[j]
        /\ peticion'[k].op = "CREAR_PROCESO" /\ peticion'[k].pid = Pid(k)
        /\ peticion'[k].paso = "guardar"
    BY <1>2, <2>1, Partes, SigueCambia DEF Marcar, Pasos, Pid
  <2>3. Forma(k)'
    BY <2>1, <2>2 DEF Forma, Pid
  <2>4. /\ base' \in [Pids -> Bloques \cup {Nada}] /\ base'[Pid(k)] \in Bloques
        /\ \A p \in Pids : base[p] \in Bloques => base'[p] \in Bloques
    BY <1>2, <2>1, Partes DEF Marcar
  <2>5. libres' \subseteq Bloques
    BY <1>2, Partes DEF Marcar
  <2>6. UNCHANGED <<procesos, vaciado, memo, hilos, tcbs>>
    BY <1>2 DEF Marcar
  <2> QED
    BY <2>1, <2>2, <2>3, <2>4, <2>5, <2>6, Partes, TiposAvanza
<1>3. CASE GuardarProceso(k)
  <2>1. /\ peticion[k].op = "CREAR_PROCESO" /\ Pid(k) \in Pids
    BY <1>3, Operandos DEF GuardarProceso, En
  <2>2. /\ peticion' \in [Hilos -> Peticion]
        /\ \A j \in Hilos : j # k => peticion'[j] = peticion[j]
        /\ peticion'[k].op = "CREAR_PROCESO" /\ peticion'[k].pid = Pid(k)
        /\ peticion'[k].paso = "fin"
    BY <1>3, <2>1, Partes, SigueCambia DEF GuardarProceso, Pasos, Pid
  <2>3. Forma(k)' /\ ~ (En(k, "CREAR_PROCESO", "guardar")' \/ En(k, "FINALIZAR_PROCESO", "soltar")')
    BY <2>1, <2>2 DEF Forma, Pid, En
  <2>4. base[Pid(k)] \in Bloques
    BY <1>3 DEF GuardarProceso, TiposMemoria
  <2>5. procesos' \subseteq Pids /\ \A p \in procesos' : p \in procesos \/ base[p] \in Bloques
    BY <1>3, <2>1, <2>4, Partes DEF GuardarProceso
  <2>6. UNCHANGED <<libres, base, vaciado, memo, hilos, tcbs>>
    BY <1>3 DEF GuardarProceso
  <2> QED
    BY <2>1, <2>2, <2>3, <2>5, <2>6, Partes, TiposAvanza
<1> QED
  BY <1>1, <1>2, <1>3

LEMMA TiposCrearHilo ==
  ASSUME TiposMemoria, NEW k \in Hilos, UNCHANGED nuevos,
         BuscarProceso(k) \/ GuardarHilo(k)
  PROVE  TiposMemoria'
<1>a. peticion[k].op = "CREAR_HILO" /\ Pid(k) \in Pids /\ Tid(k) \in Tids
  BY Operandos DEF BuscarProceso, GuardarHilo, En
<1>1. CASE BuscarProceso(k)
  <2>1. UNCHANGED <<libres, procesos, base, vaciado, memo, hilos, tcbs>>
    BY <1>1 DEF BuscarProceso, mem
  <2>2. /\ peticion' \in [Hilos -> Peticion]
        /\ \A j \in Hilos : j # k => peticion'[j] = peticion[j]
        /\ \/ peticion'[k] = Libre
           \/ /\ peticion'[k].op = "CREAR_HILO" /\ peticion'[k].pid = Pid(k)
              /\ peticion'[k].tid = Tid(k) /\ peticion'[k].paso = "guardar"
    BY <1>1, <1>a, Partes, SigueCambia, ContestaCambia DEF BuscarProceso, Pasos, Pid, Tid
  <2>3. peticion'[k] = Libre \/ (Forma(k)' /\ peticion'[k].op = peticion[k].op)
    BY <1>a, <2>2 DEF Forma, Pid, Tid
  <2>4. ~ (En(k, "CREAR_PROCESO", "guardar")' \/ En(k, "FINALIZAR_PROCESO", "soltar")')
    BY <2>2, LibreTipo DEF En
  <2> QED
    BY <2>1, <2>2, <2>3, <2>4, Partes, TiposAvanza
<1>2. CASE GuardarHilo(k)
  <2>1. /\ peticion' \in [Hilos -> Peticion] /\ peticion'[k] = Libre
        /\ \A j \in Hilos : j # k => peticion'[j] = peticion[j]
    BY <1>2, Partes, ContestaCambia DEF GuardarHilo
  <2>2. Forma(k)' /\ ~ (En(k, "CREAR_PROCESO", "guardar")' \/ En(k, "FINALIZAR_PROCESO", "soltar")')
    BY <2>1, LibreTipo DEF Forma, En
  <2>3. /\ memo' \in Seq(EnMemo) /\ Len(memo') = Len(memo) + 1
        /\ hilos' \in [Pids -> [Tids -> 0 .. Len(memo')]]
    BY <1>2, MemoNuevo
  <2>4. Pide(k) = 1 /\ Pide(k)' = 0 /\ \A j \in Hilos : j # k => Pide(j)' = Pide(j)
    BY <1>a, <2>1, LibreTipo DEF Pide
  <2>5. Len(memo) + Pide(Principal) + Pide(Largo) <= MaxHilos
    BY DEF TiposMemoria
  <2>6. Len(memo') + Pide(Principal)' + Pide(Largo)' <= MaxHilos
    BY <2>3, <2>4, <2>5, Partes, DosHilos, PideTipo, PeticionesAssumption DEF Hilos
  <2>7. tcbs' \subseteq 1 .. Len(memo') /\ nuevos' \subseteq Pids
    <3>1. tcbs' = tcbs \cup {Len(memo) + 1} /\ tcbs \subseteq 1 .. Len(memo) /\ nuevos \subseteq Pids
      BY <1>2 DEF GuardarHilo, TiposMemoria
    <3>2. 1 .. Len(memo) \subseteq 1 .. Len(memo') /\ Len(memo) + 1 \in 1 .. Len(memo')
      BY <2>3, Partes
    <3> QED
      BY <3>1, <3>2
  <2>8. UNCHANGED <<libres, procesos, base, vaciado>> /\ Len(memo') >= Len(memo)
    BY <1>2, <2>3, Partes DEF GuardarHilo
  <2> QED
    BY <2>1, <2>2, <2>3, <2>6, <2>7, <2>8, Partes, TiposPaso
<1> QED
  BY <1>1, <1>2

LEMMA TiposFinProceso ==
  ASSUME TiposMemoria, NEW k \in Hilos, UNCHANGED nuevos,
         TomarProceso(k) \/ Soltar(k) \/ Destruir(k) \/ QuitarProceso(k)
  PROVE  TiposMemoria'
<1>a. peticion[k].op = "FINALIZAR_PROCESO" /\ Pid(k) \in Pids /\ k = Principal
  BY Operandos DEF TomarProceso, Soltar, Destruir, QuitarProceso, En
<1>b. \A paso \in {"soltar", "destruir", "quitar"} :
        Sigue(k, paso) => /\ peticion' \in [Hilos -> Peticion]
                          /\ \A j \in Hilos : j # k => peticion'[j] = peticion[j]
                          /\ peticion'[k].op = "FINALIZAR_PROCESO" /\ peticion'[k].pid = Pid(k)
                          /\ peticion'[k].paso = paso
                          /\ Forma(k)'
  <2> SUFFICES ASSUME NEW paso \in {"soltar", "destruir", "quitar"}, Sigue(k, paso)
               PROVE  /\ peticion' \in [Hilos -> Peticion]
                      /\ \A j \in Hilos : j # k => peticion'[j] = peticion[j]
                      /\ peticion'[k].op = "FINALIZAR_PROCESO" /\ peticion'[k].pid = Pid(k)
                      /\ peticion'[k].paso = paso
                      /\ Forma(k)'
    OBVIOUS
  <2>1. /\ peticion' \in [Hilos -> Peticion]
        /\ \A j \in Hilos : j # k => peticion'[j] = peticion[j]
        /\ peticion'[k].op = "FINALIZAR_PROCESO" /\ peticion'[k].pid = Pid(k)
        /\ peticion'[k].paso = paso
    BY <1>a, Partes, SigueCambia DEF Pasos, Pid
  <2> QED
    BY <1>a, <2>1 DEF Forma, Pid
<1>c. Contesta(k) => /\ peticion' \in [Hilos -> Peticion] /\ peticion'[k] = Libre
                     /\ \A j \in Hilos : j # k => peticion'[j] = peticion[j]
                     /\ ~ En(k, "CREAR_PROCESO", "guardar")'
                     /\ ~ En(k, "FINALIZAR_PROCESO", "soltar")'
  BY Partes, ContestaCambia, LibreTipo DEF En
<1>1. CASE TomarProceso(k)
  <2>1. UNCHANGED <<libres, procesos, base, vaciado, memo, hilos, tcbs>>
    BY <1>1 DEF TomarProceso, mem
  <2>2. CASE Pid(k) \in procesos
    <3>1. Sigue(k, "soltar") /\ base[Pid(k)] \in Bloques
      BY <1>1, <2>2, Partes DEF TomarProceso
    <3> QED
      BY <1>a, <1>b, <2>1, <3>1, Partes, TiposAvanza
  <2>3. CASE Pid(k) \notin procesos
    <3>1. Contesta(k)
      BY <1>1, <2>3 DEF TomarProceso
    <3> QED
      BY <1>c, <2>1, <3>1, Partes, TiposAvanza
  <2> QED
    BY <2>2, <2>3
<1>2. CASE Soltar(k)
  <2>1. base[Pid(k)] \in Bloques
    BY <1>2 DEF Soltar, TiposMemoria
  <2>2. libres' \subseteq Bloques /\ Sigue(k, "destruir")
        /\ UNCHANGED <<procesos, base, vaciado, memo, hilos, tcbs>>
    BY <1>2, <2>1, Partes DEF Soltar
  <2>3. ~ En(k, "CREAR_PROCESO", "guardar")' /\ ~ En(k, "FINALIZAR_PROCESO", "soltar")'
    BY <1>b, <2>2 DEF En
  <2> QED
    BY <1>a, <1>b, <2>2, <2>3, Partes, TiposAvanza
<1>3. CASE Destruir(k)
  <2>1. PICK S : memo' = [n \in DOMAIN memo |->
                    IF n \in S THEN [memo[n] EXCEPT !.estado = "vacio"] ELSE memo[n]]
    BY <1>3 DEF Destruir
  <2>2. memo' \in Seq(EnMemo) /\ Len(memo') = Len(memo)
    BY <2>1, MemoVacio
  <2>3. vaciado' \subseteq Pids /\ Sigue(k, "quitar")
        /\ UNCHANGED <<libres, procesos, base, hilos, tcbs>>
    BY <1>3, <1>a, Partes DEF Destruir
  <2>4. ~ En(k, "CREAR_PROCESO", "guardar")' /\ ~ En(k, "FINALIZAR_PROCESO", "soltar")'
    BY <1>b, <2>3 DEF En
  <2> QED
    BY <1>a, <1>b, <2>2, <2>3, <2>4, Partes, TiposAvanza
<1>4. CASE QuitarProceso(k)
  <2>1. procesos' \subseteq procesos /\ Contesta(k)
        /\ UNCHANGED <<libres, base, vaciado, memo, hilos, tcbs>>
    BY <1>4 DEF QuitarProceso
  <2> QED
    BY <1>c, <2>1, Partes, TiposAvanza
<1> QED
  BY <1>1, <1>2, <1>3, <1>4

LEMMA TiposFinHilo ==
  ASSUME TiposMemoria, NEW k \in Hilos, UNCHANGED nuevos,
         TomarHilo(k) \/ LiberarHilo(k) \/ QuitarHilo(k)
  PROVE  TiposMemoria'
<1>a. peticion[k].op = "FINALIZAR_HILO" /\ Pid(k) \in Pids /\ Tid(k) \in Tids /\ k = Principal
  BY Operandos DEF TomarHilo, LiberarHilo, QuitarHilo, En
<1>1. CASE TomarHilo(k)
  <2>1. UNCHANGED <<libres, procesos, base, vaciado, memo, hilos, tcbs>>
    BY <1>1 DEF TomarHilo, mem
  <2>2. /\ hilos[Pid(k)][Tid(k)] \in 0 .. Len(memo)
        /\ peticion' \in [Hilos -> Peticion]
        /\ \A j \in Hilos : j # k => peticion'[j] = peticion[j]
        /\ \/ peticion'[k] = Libre
           \/ /\ peticion'[k].op = "FINALIZAR_HILO" /\ peticion'[k].pid = Pid(k)
              /\ peticion'[k].tid = Tid(k) /\ peticion'[k].paso = "liberar"
              /\ peticion'[k].obj = hilos[Pid(k)][Tid(k)] /\ peticion'[k].obj # 0
    BY <1>1, <1>a, TomarCambia DEF Pid, Tid
  <2>3. peticion'[k] = Libre \/ (Forma(k)' /\ peticion'[k].op = peticion[k].op)
    BY <1>a, <2>1, <2>2, Partes DEF Forma, Pid, Tid
  <2>4. ~ (En(k, "CREAR_PROCESO", "guardar")' \/ En(k, "FINALIZAR_PROCESO", "soltar")')
    BY <2>2, LibreTipo DEF En
  <2> QED
    BY <2>1, <2>2, <2>3, <2>4, Partes, TiposAvanza
<1>2. CASE LiberarHilo(k)
  <2>1. memo' = [memo EXCEPT ![peticion[k].obj].estado = "vacio"]
        /\ Sigue(k, "quitar") /\ UNCHANGED <<libres, procesos, base, vaciado, hilos, tcbs>>
    BY <1>2 DEF LiberarHilo
  <2>2. memo' \in Seq(EnMemo) /\ Len(memo') = Len(memo)
    BY <2>1, MemoEstado
  <2>3. /\ peticion' \in [Hilos -> Peticion]
        /\ \A j \in Hilos : j # k => peticion'[j] = peticion[j]
        /\ peticion'[k].op = "FINALIZAR_HILO" /\ peticion'[k].pid = Pid(k)
        /\ peticion'[k].tid = Tid(k) /\ peticion'[k].paso = "quitar"
    BY <1>a, <2>1, Partes, SigueCambia DEF Pasos, Pid, Tid
  <2>4. Forma(k)' /\ ~ (En(k, "CREAR_PROCESO", "guardar")' \/ En(k, "FINALIZAR_PROCESO", "soltar")')
    BY <1>a, <2>3 DEF Forma, Pid, Tid, En
  <2> QED
    BY <1>a, <2>1, <2>2, <2>3, <2>4, Partes, TiposAvanza
<1>3. CASE QuitarHilo(k)
  <2>1. memo' = [memo EXCEPT ![hilos[Pid(k)][Tid(k)]].estado = "libre"]
        /\ hilos' = [hilos EXCEPT ![Pid(k)][Tid(k)] = 0]
        /\ Contesta(k) /\ UNCHANGED <<libres, procesos, base, vaciado, tcbs>>
    BY <1>3 DEF QuitarHilo
  <2>2. memo' \in Seq(EnMemo) /\ Len(memo') = Len(memo)
    BY <2>1, MemoEstado
  <2>3. hilos' \in [Pids -> [Tids -> 0 .. Len(memo)]]
    BY <1>a, <2>1, Partes
  <2>4. /\ peticion' \in [Hilos -> Peticion] /\ peticion'[k] = Libre
        /\ \A j \in Hilos : j # k => peticion'[j] = peticion[j]
        /\ ~ (En(k, "CREAR_PROCESO", "guardar")' \/ En(k, "FINALIZAR_PROCESO", "soltar")')
    BY <2>1, Partes, ContestaCambia, LibreTipo DEF En
  <2> QED
    BY <2>1, <2>2, <2>3, <2>4, Partes, TiposAvanza
<1> QED
  BY <1>1, <1>2, <1>3

LEMMA TiposManejar ==
  ASSUME TiposMemoria, NEW k \in Hilos, UNCHANGED nuevos, manejar_peticion(k)
  PROVE  TiposMemoria'
BY TiposCrearProceso, TiposCrearHilo, TiposFinProceso, TiposFinHilo DEF manejar_peticion

\* The number of hilos made never goes down; what each is, never changes.
LEMMA MismosHilos ==
  ASSUME TiposMemoria, NEW k \in Hilos, manejar_peticion(k)
  PROVE  /\ Len(memo') \in Nat /\ Len(memo') >= Len(memo)
         /\ \A m \in 1 .. Len(memo) : memo'[m].pid = memo[m].pid /\ memo'[m].tid = memo[m].tid
<1>1. CASE GuardarHilo(k)
  BY <1>1, MemoNuevo, Partes
<1>2. CASE Destruir(k)
  <2>1. PICK S : memo' = [n \in DOMAIN memo |->
                    IF n \in S THEN [memo[n] EXCEPT !.estado = "vacio"] ELSE memo[n]]
    BY <1>2 DEF Destruir
  <2> QED
    BY <2>1, MemoVacio, Partes
<1>3. CASE LiberarHilo(k)
  <2>1. PICK i : memo' = [memo EXCEPT ![i].estado = "vacio"]
    BY <1>3 DEF LiberarHilo
  <2> QED
    BY <2>1, MemoEstado, Partes
<1>4. CASE QuitarHilo(k)
  <2>1. PICK i : memo' = [memo EXCEPT ![i].estado = "libre"]
    BY <1>4 DEF QuitarHilo
  <2> QED
    BY <2>1, MemoEstado, Partes
<1>5. CASE UNCHANGED memo
  BY <1>5, Partes
<1> QED
  BY <1>1, <1>2, <1>3, <1>4, <1>5
  DEF manejar_peticion, Buscar, Marcar, GuardarProceso, BuscarProceso, TomarProceso, Soltar,
      QuitarProceso, TomarHilo, mem

\* The CPU and what it sent point to hilos that exist.
LEMMA TiposCpuIgual ==
  ASSUME InvTipos, UNCHANGED <<servidor, cpu, cola, rafagas, guardado, red>>,
         memoria' \in {"viva", "colgada", "indefinida"},
         carrera' \in BOOLEAN, tarde' \in BOOLEAN,
         Len(memo') \in Nat, Len(memo') >= Len(memo)
  PROVE  TiposCpu'
<1>1. Len(memo) \in Nat
  BY Partes DEF InvTipos
<1>2. /\ \A i \in DOMAIN cola : cola[i].tcb <= Len(memo')
      /\ cpu \in [tcb : 0 .. Len(memo'), espera : Consultas \cup {"ociosa", "corre"}]
      /\ servidor \in [op : Consultas \cup {"ninguna"}, obj : 0 .. Len(memo'), reg : Registros]
  <2>1. \A i \in DOMAIN cola : cola[i] \in EnCola /\ cola[i].tcb \in Nat /\ cola[i].tcb <= Len(memo)
    <3>1. cola \in Seq(EnCola) /\ \A i \in DOMAIN cola : cola[i].tcb <= Len(memo)
      BY DEF InvTipos, TiposCpu
    <3>2. \A i \in DOMAIN cola : cola[i] \in EnCola
      BY <3>1
    <3> QED
      BY <3>1, <3>2 DEF EnCola
  <2>2. \A i \in DOMAIN cola : cola[i].tcb <= Len(memo')
    BY <1>1, <2>1
  <2>3. 0 .. Len(memo) \subseteq 0 .. Len(memo')
    BY <1>1
  <2> QED
    BY <2>2, <2>3 DEF InvTipos, TiposCpu
<1> QED
  BY <1>2 DEF InvTipos, TiposCpu, red

---------------------------------------------------------------------------
(* The CPU and the thread that serves it *)

LEMMA CpuPartes ==
  ASSUME InvTipos
  PROVE  /\ TiposMemoria /\ Len(memo) \in 0 .. MaxHilos
         /\ cola \in Seq(EnCola) /\ Len(cola) \in Nat /\ DOMAIN cola = 1 .. Len(cola)
         /\ \A i \in 1 .. Len(cola) : /\ cola[i] \in EnCola /\ cola[i].op \in Consultas
                                      /\ cola[i].tcb \in 1 .. Len(memo)
                                      /\ cola[i].reg \in Registros
         /\ cpu \in [tcb : 0 .. Len(memo), espera : Consultas \cup {"ociosa", "corre"}]
         /\ cpu.espera # "ociosa" => cpu.tcb \in 1 .. Len(memo)
         /\ servidor \in [op : Consultas \cup {"ninguna"}, obj : 0 .. Len(memo),
                          reg : Registros]
         /\ servidor.op # "ninguna" => servidor.obj \in 1 .. Len(memo)
         /\ rafagas \in Registros /\ guardado \in [1 .. MaxHilos -> Registros]
<1>1. TiposMemoria /\ TiposCpu
  BY DEF InvTipos
<1>2. Len(memo) \in Nat /\ Len(memo) + Pide(Principal) + Pide(Largo) <= MaxHilos
  BY <1>1, Partes DEF TiposMemoria
<1>3. Len(memo) \in 0 .. MaxHilos
  BY <1>2, PideTipo, DosHilos, PeticionesAssumption
<1>4. cola \in Seq(EnCola) /\ Len(cola) \in Nat /\ DOMAIN cola = 1 .. Len(cola)
      /\ \A i \in 1 .. Len(cola) : cola[i] \in EnCola
  BY <1>1, LenProperties DEF TiposCpu
<1>5. \A i \in 1 .. Len(cola) : cola[i].tcb \in 1 .. MaxHilos /\ cola[i].tcb <= Len(memo)
  BY <1>1, <1>4 DEF TiposCpu, EnCola
<1>6. \A i \in 1 .. Len(cola) : cola[i].tcb \in 1 .. Len(memo)
  BY <1>2, <1>5
<1>7. \A i \in 1 .. Len(cola) : cola[i].op \in Consultas /\ cola[i].reg \in Registros
  BY <1>4 DEF EnCola
<1>8. (cpu.espera # "ociosa" => cpu.tcb \in 1 .. Len(memo))
      /\ (servidor.op # "ninguna" => servidor.obj \in 1 .. Len(memo))
  BY <1>1, <1>2 DEF TiposCpu
<1> QED
  BY <1>1, <1>3, <1>4, <1>6, <1>7, <1>8 DEF TiposCpu

LEMMA ConsultaCambia ==
  ASSUME InvTipos, NEW op \in Consultas, NEW n \in 1 .. Len(memo), NEW r \in Registros,
         Consulta(op, n, r)
  PROVE  /\ cola' \in Seq(EnCola) /\ Len(cola') = Len(cola) + 1
         /\ DOMAIN cola' = 1 .. Len(cola) + 1
         /\ \A i \in 1 .. Len(cola) : cola'[i] = cola[i]
         /\ cola'[Len(cola) + 1].op = op /\ cola'[Len(cola) + 1].tcb = n
         /\ cola'[Len(cola) + 1].reg = r
         /\ \A i \in DOMAIN cola' : cola'[i].tcb <= Len(memo)
<1> DEFINE c == [op |-> op, tcb |-> n, reg |-> r]
<1>1. n \in 1 .. MaxHilos
  BY CpuPartes, PeticionesAssumption
<1>2. c \in EnCola /\ c.op = op /\ c.tcb = n /\ c.reg = r
  BY <1>1 DEF EnCola
<1>3. cola' = Append(cola, c)
  BY DEF Consulta
<1> HIDE DEF c
<1>4. /\ cola' \in Seq(EnCola) /\ Len(cola') = Len(cola) + 1
      /\ \A i \in 1 .. Len(cola) : cola'[i] = cola[i]
      /\ cola'[Len(cola) + 1] = c
  BY <1>2, <1>3, CpuPartes, AppendProperties
<1>5. DOMAIN cola' = 1 .. Len(cola) + 1
  BY <1>4, LenProperties
<1>6. \A i \in 1 .. Len(cola) : cola'[i].tcb <= Len(memo)
  BY <1>4, CpuPartes
<1>7. \A i \in DOMAIN cola' : cola'[i].tcb <= Len(memo)
  BY <1>2, <1>4, <1>5, <1>6, CpuPartes
<1> QED
  BY <1>2, <1>4, <1>5, <1>7

LEMMA SirveCambia ==
  ASSUME InvTipos, cola # <<>>, cola' = Tail(cola)
  PROVE  /\ cola' \in Seq(EnCola) /\ Len(cola) >= 1 /\ Len(cola') = Len(cola) - 1
         /\ DOMAIN cola' = 1 .. Len(cola) - 1
         /\ \A i \in 1 .. Len(cola) - 1 : cola'[i] = cola[i + 1]
         /\ Head(cola) = cola[1]
<1>1. cola \in Seq(EnCola) /\ Len(cola) \in Nat
  BY CpuPartes
<1>2. /\ cola' \in Seq(EnCola) /\ Len(cola') = Len(cola) - 1
      /\ \A i \in 1 .. Len(cola') : cola'[i] = cola[i + 1]
  BY <1>1, HeadTailProperties
<1>3. Len(cola') \in Nat /\ DOMAIN cola' = 1 .. Len(cola')
  BY <1>2, LenProperties
<1> QED
  BY <1>1, <1>2, <1>3

\* What each step of the CPU sends and leaves.
LEMMA CpuCambia ==
  ASSUME InvTipos, CpuMueve
  PROVE  /\ cpu' \in [tcb : 0 .. Len(memo), espera : Consultas \cup {"ociosa", "corre"}]
         /\ cpu'.espera # "ociosa" => cpu'.tcb # 0
         /\ rafagas' \in Registros /\ guardado' \in [1 .. MaxHilos -> Registros]
         /\ tarde' \in BOOLEAN /\ respuestas' \in BOOLEAN /\ desfase' \in BOOLEAN
         /\ UNCHANGED cola \/ \E op \in Consultas, n \in 1 .. Len(memo), r \in Registros : Consulta(op, n, r)
<1> DEFINE Cpus == [tcb : 0 .. Len(memo), espera : Consultas \cup {"ociosa", "corre"}]
<1>a. /\ tarde \in BOOLEAN /\ respuestas \in BOOLEAN /\ desfase \in BOOLEAN
      /\ cpu \in Cpus
  BY DEF InvTipos, TiposCpu
<1>b. Len(memo) \in 0 .. MaxHilos /\ DOMAIN memo = 1 .. Len(memo)
      /\ rafagas \in Registros /\ guardado \in [1 .. MaxHilos -> Registros]
      /\ \A n \in 1 .. Len(memo) : guardado[n] \in Registros
  BY CpuPartes, MemoTipos, PeticionesAssumption DEF InvTipos
<1>1. ASSUME NEW n \in DOMAIN memo, Despachar(n)
      PROVE  /\ cpu' \in Cpus /\ cpu'.tcb # 0
             /\ rafagas' \in Registros /\ tarde' \in BOOLEAN
             /\ UNCHANGED <<guardado, respuestas, desfase>> /\ Consulta("CONTEXTO", n, guardado[n])
  <2>1. rafagas' \in Registros
    BY <1>1, <1>b, PeticionesAssumption DEF Despachar, Registros
  <2>2. cpu' \in Cpus /\ cpu'.tcb # 0
    BY <1>1, <1>b DEF Despachar, Consultas
  <2> QED
    BY <1>1, <2>1, <2>2 DEF Despachar, red
<1>2. ASSUME Preguntar
      PROVE  /\ cpu' \in Cpus /\ cpu'.tcb # 0 /\ cpu.tcb \in 1 .. Len(memo)
             /\ UNCHANGED <<guardado, rafagas, respuestas, desfase, tarde>>
             /\ \E op \in Consultas : Consulta(op, cpu.tcb, guardado[cpu.tcb])
  <2>1. cpu.tcb \in 1 .. Len(memo)
    BY <1>2, CpuPartes DEF Preguntar
  <2>2. PICK op \in {"INSTRUCCION", "PASADA", "MEMORIA"} :
          cpu' = [cpu EXCEPT !.espera = op] /\ Consulta(op, cpu.tcb, guardado[cpu.tcb])
    BY <1>2 DEF Preguntar
  <2>3. op \in Consultas
    BY DEF Consultas
  <2>4. cpu' \in Cpus /\ cpu'.tcb = cpu.tcb
    BY <1>a, <2>2, <2>3
  <2>5. UNCHANGED <<guardado, rafagas, respuestas, desfase, tarde>>
    BY <1>2 DEF Preguntar, red
  <2> QED
    BY <2>1, <2>2, <2>3, <2>4, <2>5
<1>3. ASSUME RecibirBuffer
      PROVE  /\ cpu' \in Cpus /\ cpu'.tcb # 0 /\ respuestas' \in BOOLEAN
             /\ UNCHANGED <<guardado, rafagas, desfase, tarde, cola>>
  <2>1. cpu.tcb \in 1 .. Len(memo)
    BY <1>3, CpuPartes DEF RecibirBuffer, Consultas
  <2>2. cpu' \in Cpus /\ cpu'.tcb = cpu.tcb
    BY <1>3, <1>a DEF RecibirBuffer
  <2>3. respuestas' \in BOOLEAN
    BY <1>3 DEF RecibirBuffer
  <2> QED
    BY <1>3, <2>1, <2>2, <2>3 DEF RecibirBuffer
<1>4. ASSUME Devolver
      PROVE  /\ cpu' \in Cpus /\ cpu'.espera = "ociosa" /\ cpu.tcb \in 1 .. Len(memo)
             /\ guardado' \in [1 .. MaxHilos -> Registros]
             /\ UNCHANGED <<rafagas, respuestas, desfase, tarde>>
             /\ Consulta("ACTUALIZAR", cpu.tcb, rafagas)
  <2>1. cpu.tcb \in 1 .. Len(memo)
    BY <1>4, CpuPartes DEF Devolver
  <2>2. guardado' \in [1 .. MaxHilos -> Registros]
    BY <1>4, <1>b DEF Devolver
  <2> QED
    BY <1>4, <1>b, <2>1, <2>2 DEF Devolver, red
<1>5. "CONTEXTO" \in Consultas /\ "ACTUALIZAR" \in Consultas
  BY DEF Consultas
<1> HIDE DEF Cpus
<1>6. /\ cpu' \in Cpus
      /\ cpu'.espera # "ociosa" => cpu'.tcb # 0
      /\ rafagas' \in Registros /\ guardado' \in [1 .. MaxHilos -> Registros]
      /\ tarde' \in BOOLEAN /\ respuestas' \in BOOLEAN /\ desfase' \in BOOLEAN
  BY <1>1, <1>2, <1>3, <1>4, <1>a, <1>b DEF CpuMueve
<1>7. UNCHANGED cola \/ \E op \in Consultas, n \in 1 .. Len(memo), r \in Registros : Consulta(op, n, r)
  BY <1>1, <1>2, <1>3, <1>4, <1>5, <1>b DEF CpuMueve
<1> QED
  BY <1>6, <1>7 DEF Cpus

LEMMA TiposCpuMueve ==
  ASSUME InvTipos, UNCHANGED <<memoria, mem, servidor, kern>>, carrera' \in BOOLEAN,
         CpuMueve
  PROVE  TiposCpu'
<1>1. cola' \in Seq(EnCola) /\ \A i \in DOMAIN cola' : cola'[i].tcb <= Len(memo)
  <2>1. CASE UNCHANGED cola
    BY <2>1, CpuPartes
  <2>2. ASSUME NEW op \in Consultas, NEW n \in 1 .. Len(memo), NEW r \in Registros,
               Consulta(op, n, r)
        PROVE  cola' \in Seq(EnCola) /\ \A i \in DOMAIN cola' : cola'[i].tcb <= Len(memo)
    BY <2>2, ConsultaCambia
  <2> QED
    BY <2>1, <2>2, CpuCambia
<1>2. UNCHANGED memo
  BY DEF mem
<1>3. TiposCpu
  BY DEF InvTipos
<1> QED
  BY <1>1, <1>2, <1>3, CpuCambia DEF TiposCpu

\* What hilo_instrucciones_cpu does with the first request.
LEMMA RecibirCambia ==
  ASSUME InvTipos, Recibir, NEW c, c = cola[1], NEW p, p = memo[c.tcb].pid,
         NEW n, n = hilos[p][memo[c.tcb].tid]
  PROVE  /\ c \in EnCola /\ c.op \in Consultas /\ c.tcb \in 1 .. Len(memo) /\ c.reg \in Registros
         /\ p \in Pids /\ memo[c.tcb].tid \in Tids /\ n \in 0 .. Len(memo)
         /\ servidor.op = "ninguna" /\ 1 \in 1 .. Len(cola)
         /\ UNCHANGED <<libres, procesos, base, vaciado, memo, hilos>>
         /\ \/ /\ \/ p \in vaciado \cap procesos
                  \/ c.op \in {"INSTRUCCION", "PASADA"} /\ (p \notin procesos \/ n = 0)
               /\ c.op # "MEMORIA"
               /\ memoria' = "colgada" /\ UNCHANGED <<servidor, cola>>
            \/ /\ \/ c.op = "MEMORIA"
                  \/ (p \notin procesos \/ n = 0) /\ p \notin vaciado \cap procesos
               /\ servidor' = [op |-> "ninguna", obj |-> 0, reg |-> 0] /\ cola' = Tail(cola)
               /\ UNCHANGED memoria
            \/ /\ c.op # "MEMORIA" /\ p \in procesos /\ p \notin vaciado /\ n # 0
               /\ servidor' = [op |-> c.op, obj |-> n, reg |-> c.reg] /\ cola' = Tail(cola)
               /\ UNCHANGED memoria
<1>1. cola # <<>> /\ cola \in Seq(EnCola) /\ Len(cola) \in Nat
  BY CpuPartes DEF Recibir
<1>2. Len(cola) >= 1 /\ Head(cola) = c
  BY <1>1
<1>3. c \in EnCola /\ c.op \in Consultas /\ c.tcb \in 1 .. Len(memo) /\ c.reg \in Registros
  BY <1>1, <1>2, CpuPartes
<1>4. p \in Pids /\ memo[c.tcb].tid \in Tids
  BY <1>3, MemoTipos DEF InvTipos
<1>5. n \in 0 .. Len(memo)
  BY <1>4, Partes DEF InvTipos
<1>6. /\ servidor.op = "ninguna"
      /\ UNCHANGED <<libres, procesos, base, vaciado, memo, hilos>>
  BY DEF Recibir, mem
<1>8. 1 \in 1 .. Len(cola)
  BY <1>1, <1>2
<1>7. \/ /\ \/ p \in vaciado \cap procesos
            \/ c.op \in {"INSTRUCCION", "PASADA"} /\ (p \notin procesos \/ n = 0)
         /\ c.op # "MEMORIA"
         /\ memoria' = "colgada" /\ UNCHANGED <<servidor, cola>>
      \/ /\ \/ c.op = "MEMORIA"
            \/ (p \notin procesos \/ n = 0) /\ p \notin vaciado \cap procesos
         /\ servidor' = [op |-> "ninguna", obj |-> 0, reg |-> 0] /\ cola' = Tail(cola)
         /\ UNCHANGED memoria
      \/ /\ c.op # "MEMORIA" /\ p \in procesos /\ p \notin vaciado /\ n # 0
         /\ servidor' = [op |-> c.op, obj |-> n, reg |-> c.reg] /\ cola' = Tail(cola)
         /\ UNCHANGED memoria
  BY <1>2 DEF Recibir, Servir
<1> QED
  BY <1>3, <1>4, <1>5, <1>6, <1>7, <1>8, Zenon

\* The bytes of the answers.
LEMMA RedTipos ==
  ASSUME InvTipos, hilo_instrucciones_cpu
  PROVE  respuestas' \in BOOLEAN /\ desfase' \in BOOLEAN
<1>1. respuestas \in BOOLEAN /\ desfase \in BOOLEAN
  BY DEF InvTipos, TiposCpu
<1>2. ASSUME NEW op, Responder(op)
      PROVE  respuestas' \in BOOLEAN /\ desfase' \in BOOLEAN
  BY <1>1, <1>2 DEF Responder
<1>3. CASE UNCHANGED red
  BY <1>1, <1>3 DEF red
<1>4. CASE Recibir
  <2>1. UNCHANGED red \/ Responder(Head(cola).op)
    BY <1>4 DEF Recibir
  <2> QED
    BY <1>2, <1>3, <2>1
<1> QED
  BY <1>2, <1>3, <1>4 DEF hilo_instrucciones_cpu, DarContexto, Actualizar, DarInstruccion, UsarLiberado

LEMMA TiposRecibir ==
  ASSUME InvTipos, Recibir, UNCHANGED <<kern, cpu, rafagas, guardado, tarde>>, carrera' \in BOOLEAN
  PROVE  TiposMemoria' /\ TiposCpu'
<1> DEFINE c == cola[1]
           p == memo[c.tcb].pid
           n == hilos[p][memo[c.tcb].tid]
<1>1. /\ c.op \in Consultas /\ c.tcb \in 1 .. Len(memo) /\ c.reg \in Registros
      /\ n \in 0 .. Len(memo) /\ 1 \in 1 .. Len(cola)
      /\ UNCHANGED <<libres, procesos, base, vaciado, memo, hilos>>
      /\ \/ memoria' = "colgada" /\ UNCHANGED <<servidor, cola>>
         \/ /\ servidor' = [op |-> "ninguna", obj |-> 0, reg |-> 0] /\ cola' = Tail(cola)
            /\ UNCHANGED memoria
         \/ /\ c.op # "MEMORIA" /\ n # 0
            /\ servidor' = [op |-> c.op, obj |-> n, reg |-> c.reg] /\ cola' = Tail(cola)
            /\ UNCHANGED memoria
  BY RecibirCambia
<1>2. TiposMemoria'
  <2>1. UNCHANGED <<libres, procesos, base, vaciado, memo, hilos, peticion, nuevos, tcbs>>
    BY <1>1 DEF kern
  <2> QED
    BY <2>1, Partes, TiposIguales DEF InvTipos
<1> HIDE DEF n, p, c
<1>3. /\ tarde' \in BOOLEAN /\ memoria' \in {"viva", "colgada", "indefinida"}
      /\ respuestas' \in BOOLEAN /\ desfase' \in BOOLEAN
  BY <1>1, RedTipos DEF InvTipos, TiposCpu, hilo_instrucciones_cpu
<1>4. cola' \in Seq(EnCola) /\ \A i \in DOMAIN cola' : cola'[i].tcb <= Len(memo)
  <2>1. CASE UNCHANGED cola
    BY <2>1, CpuPartes
  <2>2. CASE cola' = Tail(cola)
    <3>1. /\ cola' \in Seq(EnCola) /\ DOMAIN cola' = 1 .. Len(cola) - 1
          /\ \A i \in 1 .. Len(cola) - 1 : cola'[i] = cola[i + 1]
      BY <2>2, SirveCambia DEF Recibir
    <3>2. ASSUME NEW i \in 1 .. Len(cola) - 1
          PROVE  cola'[i].tcb <= Len(memo)
      <4>1. i + 1 \in 1 .. Len(cola) /\ cola'[i] = cola[i + 1]
        BY <3>1, CpuPartes
      <4>2. cola[i + 1].tcb \in 1 .. Len(memo)
        BY <4>1, CpuPartes
      <4> QED
        BY <4>1, <4>2
    <3> QED
      BY <3>1, <3>2
  <2> QED
    BY <1>1, <2>1, <2>2
<1>5. servidor' \in [op : Consultas \cup {"ninguna"}, obj : 0 .. Len(memo), reg : Registros]
      /\ (servidor'.op # "ninguna" => servidor'.obj # 0)
  <2>1. 0 \in Registros /\ 0 \in 0 .. Len(memo)
    BY CpuPartes, PeticionesAssumption DEF Registros
  <2>2. CASE servidor' = [op |-> "ninguna", obj |-> 0, reg |-> 0]
    BY <2>1, <2>2
  <2>3. CASE n # 0 /\ servidor' = [op |-> c.op, obj |-> n, reg |-> c.reg]
    BY <1>1, <2>3
  <2>4. CASE UNCHANGED servidor
    BY <2>4, CpuPartes DEF InvTipos, TiposCpu
  <2> QED
    BY <1>1, <2>2, <2>3, <2>4
<1>6. TiposCpu /\ UNCHANGED <<cpu, memo, rafagas, guardado>>
  BY <1>1 DEF InvTipos
<1> QED
  BY <1>2, <1>3, <1>4, <1>5, <1>6 DEF TiposCpu

\* An answer to the CPU.
LEMMA TiposResponder ==
  ASSUME InvTipos, servidor' = [op |-> "ninguna", obj |-> 0, reg |-> 0], Len(memo') = Len(memo),
         respuestas' \in BOOLEAN, desfase' \in BOOLEAN,
         UNCHANGED <<memoria, cola, cpu, rafagas, guardado, tarde>>, carrera' \in BOOLEAN
  PROVE  TiposCpu'
<1>1. servidor' \in [op : Consultas \cup {"ninguna"}, obj : 0 .. Len(memo), reg : Registros]
      /\ servidor'.op = "ninguna"
  BY CpuPartes, PeticionesAssumption DEF Registros
<1> QED
  BY <1>1 DEF InvTipos, TiposCpu

LEMMA TiposServidor ==
  ASSUME InvTipos, hilo_instrucciones_cpu, UNCHANGED <<kern, cpu, rafagas, guardado, tarde>>,
         carrera' \in BOOLEAN
  PROVE  TiposMemoria' /\ TiposCpu'
<1>1. CASE Recibir
  BY <1>1, TiposRecibir
<1>b. ASSUME UNCHANGED mem
      PROVE  TiposMemoria'
  <2>1. UNCHANGED <<libres, procesos, base, vaciado, memo, hilos, peticion, nuevos, tcbs>>
    BY <1>b DEF kern, mem
  <2> QED
    BY <2>1, Partes, TiposIguales DEF InvTipos
<1>c. respuestas' \in BOOLEAN /\ desfase' \in BOOLEAN
  BY RedTipos
<1>d. ASSUME memoria' = "colgada", UNCHANGED <<mem, servidor, cola, red>>
      PROVE  TiposMemoria' /\ TiposCpu'
  <2>1. UNCHANGED memo /\ tarde' \in BOOLEAN
    BY <1>d DEF mem, InvTipos, TiposCpu
  <2>2. TiposCpu'
    BY <1>d, <2>1, CpuPartes, TiposCpuIgual
  <2> QED
    BY <1>b, <1>d, <2>2
<1>2. CASE DarContexto
  <2>1. UNCHANGED <<memoria, mem>> /\ Terminar
    BY <1>2 DEF DarContexto
  <2>2. TiposCpu'
    BY <2>1, <1>c, TiposResponder DEF Terminar, mem
  <2> QED
    BY <2>1, <1>b, <2>2
<1>3. CASE Actualizar
  <2>1. /\ servidor.op = "ACTUALIZAR" /\ servidor.reg \in Registros
        /\ memo' = [memo EXCEPT ![servidor.obj].reg = servidor.reg]
        /\ UNCHANGED <<libres, procesos, base, vaciado, hilos, memoria>> /\ Terminar
    BY <1>3, CpuPartes DEF Actualizar
  <2>2. memo' \in Seq(EnMemo) /\ Len(memo') = Len(memo)
    BY <2>1, MemoReg DEF InvTipos
  <2>3. TiposCpu'
    BY <2>1, <2>2, <1>c, TiposResponder DEF Terminar
  <2>4. TiposMemoria'
    <3>1. UNCHANGED <<libres, procesos, base, vaciado, hilos, peticion, nuevos, tcbs>>
      BY <2>1 DEF kern
    <3> QED
      BY <3>1, <2>2, TiposIguales DEF InvTipos
  <2> QED
    BY <2>3, <2>4
<1>4. CASE DarInstruccion
  <2>1. CASE Terminar /\ UNCHANGED memoria
    <3>1. UNCHANGED mem
      BY <1>4 DEF DarInstruccion
    <3>2. TiposCpu'
      BY <2>1, <3>1, <1>c, TiposResponder DEF Terminar, mem
    <3> QED
      BY <1>b, <3>1, <3>2
  <2> QED
    BY <1>4, <1>d, <2>1 DEF DarInstruccion
<1>5. CASE UsarLiberado
  BY <1>5, <1>d DEF UsarLiberado
<1> QED
  BY <1>1, <1>2, <1>3, <1>4, <1>5 DEF hilo_instrucciones_cpu

LEMMA TiposInicial == Init => InvTipos
<1> SUFFICES ASSUME Init
             PROVE  InvTipos
  OBVIOUS
<1>1. memo = <<>> /\ cola = <<>> /\ Len(memo) = 0 /\ memo \in Seq(EnMemo) /\ cola \in Seq(EnCola)
      /\ DOMAIN cola = {}
  BY EmptySeq DEF Init
<1>2. \A k \in Hilos : peticion[k] = Libre
  BY DEF Init
<1>3. peticion \in [Hilos -> Peticion]
  BY LibreTipo DEF Init
<1>4. \A k \in Hilos : Pide(k) = 0 /\ Forma(k) /\ ~En(k, "CREAR_PROCESO", "guardar")
                      /\ ~En(k, "FINALIZAR_PROCESO", "soltar")
  BY <1>2, LibreTipo DEF Pide, Forma, En
<1>5. Len(memo) + Pide(Principal) + Pide(Largo) <= MaxHilos
  BY <1>1, <1>4, DosHilos, PeticionesAssumption
<1>6. TiposMemoria
  <2>1. hilos \in [Pids -> [Tids -> 0 .. Len(memo)]] /\ tcbs \subseteq 1 .. Len(memo)
    BY <1>1 DEF Init
  <2> QED
    BY <1>1, <1>3, <1>4, <1>5, <2>1 DEF Init, TiposMemoria
<1>7. 0 \in Registros /\ 0 \in 0 .. Len(memo)
  BY <1>1, PeticionesAssumption DEF Registros
<1>8. servidor \in [op : Consultas \cup {"ninguna"}, obj : 0 .. Len(memo), reg : Registros]
      /\ servidor.op = "ninguna"
  BY <1>7 DEF Init
<1>9. cpu \in [tcb : 0 .. Len(memo), espera : Consultas \cup {"ociosa", "corre"}]
      /\ cpu.espera = "ociosa"
  BY <1>7 DEF Init
<1>11. TiposCpu
  BY <1>1, <1>7, <1>8, <1>9 DEF Init, TiposCpu
<1> QED
  BY <1>6, <1>11 DEF InvTipos

\* The five kinds of step.
LEMMA Casos ==
  ASSUME Next
  PROVE  /\ memoria = "viva" /\ carrera' = (carrera \/ EnCarrera)
         /\ \/ PedirAlgo /\ UNCHANGED <<memoria, mem, servidor, red, proc>>
            \/ \E k \in Hilos : /\ manejar_peticion(k)
                                /\ UNCHANGED <<servidor, red, nuevos, proc, tarde>>
            \/ CpuMueve /\ UNCHANGED <<memoria, mem, servidor, kern>>
            \/ hilo_instrucciones_cpu /\ UNCHANGED <<kern, cpu, rafagas, guardado, tarde>>
            \/ memoria' = "indefinida" /\ UNCHANGED <<mem, servidor, red, kern, proc, tarde>>
BY DEF Next, PedirAlgo, Chocar, CpuMueve

LEMMA TiposSiguiente ==
  ASSUME InvTipos, [Next]_vars
  PROVE  InvTipos'
<1>1. CASE Next
  <2>1. carrera' \in BOOLEAN
    BY <1>1, Casos DEF EnCarrera
  <2>2. CASE PedirAlgo /\ UNCHANGED <<memoria, mem, servidor, red, proc>>
    <3>1. UNCHANGED <<memoria, memo, servidor, red, cpu, cola, rafagas, guardado>>
      BY <2>2 DEF mem, proc
    <3>2. tarde' \in BOOLEAN /\ memoria \in {"viva", "colgada", "indefinida"}
      BY <2>2 DEF PedirAlgo, PedirProceso, PedirHiloCero, PedirHilo, PedirFinHilo,
                  PedirFinProceso, InvTipos, TiposCpu, EnCamino
    <3>3. TiposCpu'
      BY <2>1, <3>1, <3>2, CpuPartes, TiposCpuIgual
    <3> QED
      BY <2>2, <3>3, TiposPedir DEF InvTipos
  <2>3. ASSUME NEW k \in Hilos, manejar_peticion(k), UNCHANGED <<servidor, red, nuevos, proc, tarde>>
        PROVE  InvTipos'
    <3>1. UNCHANGED <<servidor, red, cpu, cola, rafagas, guardado, nuevos, tarde>>
      BY <2>3 DEF proc
    <3>2. tarde' \in BOOLEAN /\ memoria' \in {"viva", "colgada", "indefinida"}
      BY <2>3 DEF manejar_peticion, Buscar, Marcar, GuardarProceso, BuscarProceso, GuardarHilo,
                  TomarProceso, Soltar, Destruir, QuitarProceso, TomarHilo, LiberarHilo,
                  QuitarHilo, Requiere, InvTipos, TiposCpu
    <3>3. TiposMemoria' /\ Len(memo') \in Nat /\ Len(memo') >= Len(memo)
      BY <2>3, <3>1, TiposManejar, MismosHilos DEF InvTipos
    <3>4. TiposCpu'
      BY <2>1, <3>1, <3>2, <3>3, TiposCpuIgual
    <3> QED
      BY <3>3, <3>4 DEF InvTipos
  <2>a. ASSUME UNCHANGED <<mem, kern>>
        PROVE  TiposMemoria'
    <3>1. UNCHANGED <<libres, procesos, base, vaciado, memo, hilos, peticion, nuevos, tcbs>>
      BY <2>a DEF kern, mem
    <3> QED
      BY <3>1, Partes, TiposIguales DEF InvTipos
  <2>4. CASE CpuMueve /\ UNCHANGED <<memoria, mem, servidor, kern>>
    BY <2>1, <2>4, <2>a, TiposCpuMueve DEF InvTipos, CpuMueve
  <2>7. CASE hilo_instrucciones_cpu /\ UNCHANGED <<kern, cpu, rafagas, guardado, tarde>>
    BY <2>1, <2>7, TiposServidor DEF InvTipos
  <2>8. CASE memoria' = "indefinida" /\ UNCHANGED <<mem, servidor, red, kern, proc, tarde>>
    <3>1. UNCHANGED <<memo, servidor, red, cpu, cola, rafagas, guardado>> /\ tarde' \in BOOLEAN
      BY <2>8 DEF mem, proc, InvTipos, TiposCpu
    <3>2. TiposCpu'
      BY <2>1, <2>8, <3>1, CpuPartes, TiposCpuIgual
    <3> QED
      BY <2>8, <2>a, <3>2 DEF InvTipos
  <2> QED
    BY <1>1, <2>2, <2>3, <2>4, <2>7, <2>8, Casos
<1>2. CASE UNCHANGED vars
  <2>1. /\ UNCHANGED <<libres, procesos, base, vaciado, memo, hilos, peticion, nuevos, tcbs>>
        /\ UNCHANGED <<memoria, servidor, red, cpu, cola, rafagas, guardado, carrera, tarde>>
    BY <1>2 DEF vars, mem, kern, proc
  <2>2. TiposMemoria'
    BY <2>1, Partes, TiposIguales DEF InvTipos
  <2>3. TiposCpu'
    BY <2>1 DEF InvTipos, TiposCpu, red
  <2> QED
    BY <2>2, <2>3 DEF InvTipos
<1> QED
  BY <1>1, <1>2

\* What Memoria, the Kernel and the CPU hold has its type at every step: the
\* dictionaries lead to t_hilo that exist and what is given back is a partition.
THEOREM Tipos == Spec => []TypeOK
<1>1. Init => InvTipos
  BY TiposInicial
<1>2. InvTipos /\ [Next]_vars => InvTipos'
  BY TiposSiguiente
<1> QED
  BY <1>1, <1>2, EsTypeOK, PTL DEF Spec

---------------------------------------------------------------------------
(* Requests and hilos: InvPedidos *)

\* What every step does to the t_hilo there were.
Conserva ==
  /\ Len(memo) \in Nat /\ DOMAIN memo = 1 .. Len(memo)
  /\ Len(memo') \in Nat /\ DOMAIN memo' = 1 .. Len(memo') /\ Len(memo') >= Len(memo)
  /\ \A m \in 1 .. Len(memo) : memo'[m].pid = memo[m].pid /\ memo'[m].tid = memo[m].tid

LEMMA DominioMemo ==
  ASSUME TiposMemoria'
  PROVE  Len(memo') \in Nat /\ DOMAIN memo' = 1 .. Len(memo')
<1>1. memo' \in Seq(EnMemo)
  BY DEF TiposMemoria
<1> QED
  BY <1>1, LenProperties

LEMMA RepetidoSigue ==
  ASSUME Conserva, NEW n \in 1 .. Len(memo), Repetido(n)
  PROVE  Repetido(n)'
<1>1. PICK m \in DOMAIN memo \ {n} : memo[m].pid = memo[n].pid /\ memo[m].tid = memo[n].tid
  BY DEF Repetido
<1>2. m \in DOMAIN memo' \ {n}
  BY <1>1 DEF Conserva
<1>3. memo'[m].pid = memo'[n].pid /\ memo'[m].tid = memo'[n].tid
  BY <1>1 DEF Conserva
<1> QED
  BY <1>2, <1>3 DEF Repetido

\* A step of a request that leaves the processes as they are, and no hilo of a TCB
\* without its entry.
LEMMA PedidosQuietos ==
  ASSUME TiposMemoria, InvPedidos, Conserva, Len(memo') = Len(memo), NEW k \in Hilos,
         UNCHANGED <<nuevos, procesos, tcbs>>,
         \A n \in tcbs : Repetido(n) \/ hilos'[memo[n].pid][memo[n].tid] = n,
         \A j \in Hilos : j # k => peticion'[j] = peticion[j],
         \/ peticion'[k] = Libre
         \/ /\ peticion'[k].op = peticion[k].op /\ peticion'[k].pid = peticion[k].pid
            /\ peticion'[k].tid = peticion[k].tid
            /\ En(k, "CREAR_HILO", "guardar")' => Pid(k) \in procesos
            /\ peticion[k].op = "CREAR_PROCESO" /\ peticion[k].paso = "fin"
                 => peticion'[k].paso = "fin"
            /\ peticion[k].op = "FINALIZAR_PROCESO" /\ peticion'[k].paso # "get"
                 => Pid(k) \in procesos
  PROVE  InvPedidos'
<1>a. /\ \A p \in nuevos : p \in Pids
      /\ \A n \in tcbs : n \in 1 .. Len(memo)
      /\ DOMAIN memo' = DOMAIN memo /\ DOMAIN memo = 1 .. Len(memo)
  BY DEF TiposMemoria, Conserva
<1>b. \A j \in Hilos : \/ peticion'[j] = Libre
                       \/ /\ peticion'[j].op = peticion[j].op
                          /\ peticion'[j].pid = peticion[j].pid
                          /\ peticion'[j].tid = peticion[j].tid
                          /\ peticion[j].op = "CREAR_PROCESO" /\ peticion[j].paso = "fin"
                               => peticion'[j].paso = "fin"
  OBVIOUS
<1>1. PidsNuevos'
  <2>1. \A p \in nuevos : /\ p \notin procesos
                          /\ \A m \in 1 .. Len(memo) : memo'[m].pid # p
                          /\ \A j \in Hilos : peticion'[j].pid # p
    BY <1>a, <1>b, LibreTipo, PeticionesAssumption DEF InvPedidos, PidsNuevos, Pid, Conserva
  <2>2. ASSUME NEW j \in Hilos,
               peticion'[j].op = "CREAR_PROCESO" \/ (j = Largo /\ peticion'[j].op # "ninguna")
        PROVE  Ajeno(j)'
    <3>1. Ajeno(j) /\ peticion'[j].pid = peticion[j].pid /\ peticion[j].op # "ninguna"
      BY <1>b, <2>2, LibreTipo DEF InvPedidos, PidsNuevos
    <3>2. \A i \in Hilos : peticion'[i].pid = peticion[i].pid \/ peticion'[i].pid = Nada
      BY <1>b, LibreTipo
    <3>3. peticion[j].pid # Nada
      BY <3>1, Operandos, PeticionesAssumption DEF Pid
    <3>4. \A i \in Hilos \ {j} : peticion'[i].pid # peticion'[j].pid
      BY <3>1, <3>2, <3>3 DEF Ajeno, Pid
    <3>5. peticion'[j].pid \notin nuevos' /\ \A m \in DOMAIN memo' : memo'[m].pid # peticion'[j].pid
      BY <3>1, <1>a DEF Ajeno, Pid, Conserva
    <3> QED
      BY <3>4, <3>5 DEF Ajeno, Pid
  <2> QED
    BY <1>a, <2>1, <2>2 DEF PidsNuevos, Pid
<1>2. PidsPedidos'
  <2> SUFFICES ASSUME NEW j \in Hilos
               PROVE  /\ peticion'[j].op = "CREAR_PROCESO" /\ peticion'[j].paso # "fin"
                           => peticion'[j].pid \notin procesos
                      /\ En(j, "CREAR_HILO", "guardar")' => peticion'[j].pid \in procesos
                      /\ peticion'[j].op = "FINALIZAR_PROCESO" /\ peticion'[j].paso # "get"
                           => peticion'[j].pid \in procesos
    BY DEF PidsPedidos, Pid
  <2>1. /\ peticion[j].op = "CREAR_PROCESO" /\ peticion[j].paso # "fin"
                           => peticion[j].pid \notin procesos
        /\ En(j, "CREAR_HILO", "guardar") => peticion[j].pid \in procesos
        /\ peticion[j].op = "FINALIZAR_PROCESO" /\ peticion[j].paso # "get"
                           => peticion[j].pid \in procesos
    BY DEF InvPedidos, PidsPedidos, Pid
  <2>2. CASE j = k
    BY <2>1, <2>2, LibreTipo DEF En, Pid
  <2>3. CASE j # k
    BY <2>1, <2>3 DEF En
  <2> QED
    BY <2>2, <2>3
<1>3. SinTcb'
  <2> SUFFICES ASSUME NEW j \in Hilos, peticion'[j] # Libre
               PROVE  /\ peticion'[j].op = "FINALIZAR_PROCESO" =>
                           /\ \E m \in DOMAIN memo' : memo'[m].pid = peticion'[j].pid
                           /\ \A n \in tcbs : memo'[n].pid # peticion'[j].pid
                      /\ peticion'[j].op = "FINALIZAR_HILO" =>
                           \E m \in DOMAIN memo' \ tcbs :
                             memo'[m].pid = peticion'[j].pid /\ memo'[m].tid = peticion'[j].tid
    BY LibreTipo DEF SinTcb, Pid, Tid
  <2>1. /\ peticion'[j].op = peticion[j].op /\ peticion'[j].pid = peticion[j].pid
        /\ peticion'[j].tid = peticion[j].tid
    OBVIOUS
  <2>2. /\ peticion[j].op = "FINALIZAR_PROCESO" =>
                           /\ \E m \in DOMAIN memo : memo[m].pid = peticion[j].pid
                           /\ \A n \in tcbs : memo[n].pid # peticion[j].pid
        /\ peticion[j].op = "FINALIZAR_HILO" =>
                           \E m \in DOMAIN memo \ tcbs :
                             memo[m].pid = peticion[j].pid /\ memo[m].tid = peticion[j].tid
    BY DEF InvPedidos, SinTcb, Pid, Tid
  <2> QED
    BY <1>a, <2>1, <2>2 DEF Conserva
<1>4. Presentes'
  <2> SUFFICES ASSUME NEW n \in tcbs
               PROVE  /\ memo'[n].pid \in procesos
                      /\ Repetido(n)' \/ hilos'[memo'[n].pid][memo'[n].tid] = n
    BY DEF Presentes
  <2>1. /\ memo[n].pid \in procesos
        /\ Repetido(n) \/ hilos'[memo[n].pid][memo[n].tid] = n
    BY DEF InvPedidos, Presentes
  <2> QED
    BY <1>a, <2>1, RepetidoSigue DEF Conserva
<1> QED
  BY <1>1, <1>2, <1>3, <1>4 DEF InvPedidos

\* The Kernel asks for something.
LEMMA PedidosPide ==
  ASSUME TiposMemoria, InvPedidos, UNCHANGED <<procesos, memo, hilos>>, NEW k \in Hilos,
         nuevos' \subseteq nuevos, tcbs' \subseteq tcbs,
         \A j \in Hilos : j # k => peticion'[j] = peticion[j],
         peticion'[k].pid \notin nuevos',
         \A j \in Hilos \ {k} : Ajeno(j) => Pid(j) # peticion'[k].pid,
         peticion'[k].op = "CREAR_PROCESO" \/ (k = Largo /\ peticion'[k].op # "ninguna") => Ajeno(k)',
         peticion'[k].op = "CREAR_PROCESO" => peticion'[k].pid \notin procesos,
         peticion'[k].op = "CREAR_HILO" => peticion'[k].paso = "get",
         peticion'[k].op = "FINALIZAR_PROCESO" =>
           /\ \E m \in DOMAIN memo : memo[m].pid = peticion'[k].pid
           /\ peticion'[k].paso = "get"
           /\ \A n \in tcbs' : memo[n].pid # peticion'[k].pid,
         peticion'[k].op = "FINALIZAR_HILO" =>
           \E m \in DOMAIN memo \ tcbs' :
             memo[m].pid = peticion'[k].pid /\ memo[m].tid = peticion'[k].tid
  PROVE  InvPedidos'
<1>1. PidsNuevos'
  <2>1. \A p \in nuevos' : /\ p \notin procesos
                           /\ \A m \in DOMAIN memo : memo[m].pid # p
                           /\ \A j \in Hilos : peticion'[j].pid # p
    BY DEF InvPedidos, PidsNuevos, Pid
  <2>2. ASSUME NEW j \in Hilos,
               peticion'[j].op = "CREAR_PROCESO" \/ (j = Largo /\ peticion'[j].op # "ninguna")
        PROVE  Ajeno(j)'
    <3>1. CASE j = k
      BY <2>2, <3>1
    <3>2. CASE j # k
      <4>1. Ajeno(j) /\ peticion'[j] = peticion[j]
        BY <2>2, <3>2 DEF InvPedidos, PidsNuevos
      <4>2. \A i \in Hilos \ {j} : peticion'[i].pid # peticion[j].pid
        <5> SUFFICES ASSUME NEW i \in Hilos \ {j}
                     PROVE  peticion'[i].pid # peticion[j].pid
          OBVIOUS
        <5>1. CASE i = k
          BY <3>2, <4>1, <5>1 DEF Pid
        <5>2. CASE i # k
          BY <4>1, <5>2 DEF Ajeno, Pid
        <5> QED
          BY <5>1, <5>2
      <4> QED
        BY <4>1, <4>2 DEF Ajeno, Pid
    <3> QED
      BY <3>1, <3>2
  <2> QED
    BY <2>1, <2>2 DEF PidsNuevos, Pid
<1>2. PidsPedidos'
  BY DEF InvPedidos, PidsPedidos, Pid, En
<1>3. SinTcb'
  <2> SUFFICES ASSUME NEW j \in Hilos
               PROVE  /\ peticion'[j].op = "FINALIZAR_PROCESO" =>
                           /\ \E m \in DOMAIN memo : memo[m].pid = peticion'[j].pid
                           /\ \A n \in tcbs' : memo[n].pid # peticion'[j].pid
                      /\ peticion'[j].op = "FINALIZAR_HILO" =>
                           \E m \in DOMAIN memo \ tcbs' :
                             memo[m].pid = peticion'[j].pid /\ memo[m].tid = peticion'[j].tid
    BY DEF SinTcb, Pid, Tid
  <2>1. CASE j = k
    BY <2>1
  <2>2. CASE j # k
    BY <2>2 DEF InvPedidos, SinTcb, Pid, Tid
  <2> QED
    BY <2>1, <2>2
<1>4. Presentes'
  BY DEF InvPedidos, Presentes, Repetido
<1> QED
  BY <1>1, <1>2, <1>3, <1>4 DEF InvPedidos

LEMMA PedidosPedir ==
  ASSUME InvTipos, InvPedidos, PedirAlgo
  PROVE  InvPedidos'
<1>a. /\ TiposMemoria /\ UNCHANGED <<procesos, memo, hilos>>
      /\ peticion \in [Hilos -> Peticion] /\ nuevos \subseteq Pids
      /\ tcbs \subseteq 1 .. Len(memo) /\ DOMAIN memo = 1 .. Len(memo)
      /\ \A n \in DOMAIN memo : memo[n].pid \in Pids /\ memo[n].tid \in Tids
  BY MemoTipos DEF PedirAlgo, mem, InvTipos, TiposMemoria
<1>b. \A p \in nuevos : /\ p \notin procesos
                        /\ \A m \in DOMAIN memo : memo[m].pid # p
                        /\ \A k \in Hilos : Pid(k) # p
  BY DEF InvPedidos, PidsNuevos
<1>c. tcbs \subseteq DOMAIN memo /\ \A n \in DOMAIN memo : memo[n].pid \notin nuevos
  BY <1>a, <1>b
<1>d. \A j \in Hilos, n \in DOMAIN memo : Ajeno(j) => Pid(j) # memo[n].pid
  BY <1>c DEF Ajeno
<1>1. ASSUME NEW k \in Hilos, PedirProceso(k)
      PROVE  InvPedidos'
  <2>1. PICK p \in nuevos : Pedir(k, "CREAR_PROCESO", p, Nada, "buscar") /\ nuevos' = nuevos \ {p}
    BY <1>1 DEF PedirProceso
  <2>2. /\ \A j \in Hilos : j # k => peticion'[j] = peticion[j]
        /\ peticion'[k].op = "CREAR_PROCESO" /\ peticion'[k].pid = p
    BY <2>1, <1>a, PedirCambia DEF Operaciones, Pasos
  <2>3. \A j \in Hilos \ {k} : Pid(j) # p /\ Pid(j)' = Pid(j)
    <3> SUFFICES ASSUME NEW j \in Hilos \ {k}
                 PROVE  Pid(j) # p /\ Pid(j)' = Pid(j)
      OBVIOUS
    <3>1. peticion'[j] = peticion[j]
      BY <2>2
    <3>2. Pid(j) # p
      BY <1>b, <2>1
    <3> QED
      BY <3>1, <3>2 DEF Pid
  <2>4. Ajeno(k)'
    BY <1>a, <1>b, <2>1, <2>2, <2>3 DEF Ajeno, Pid
  <2>5. tcbs' = tcbs
    BY <1>1 DEF PedirProceso
  <2> QED
    BY <1>a, <1>b, <2>1, <2>2, <2>3, <2>4, <2>5, PedidosPide
<1>2. ASSUME NEW k \in Hilos, PedirHiloCero(k)
      PROVE  InvPedidos'
  <2>1. PICK t \in Tids : Pedir(k, "CREAR_HILO", Pid(k), t, "get")
    BY <1>2 DEF PedirHiloCero, Pid
  <2>2. Pid(k) \in Pids /\ Ajeno(k)
    BY <1>2, <1>a, Operandos DEF PedirHiloCero, InvPedidos, PidsNuevos
  <2>3. /\ \A j \in Hilos : j # k => peticion'[j] = peticion[j]
        /\ peticion'[k].op = "CREAR_HILO" /\ peticion'[k].pid = Pid(k)
        /\ peticion'[k].paso = "get"
    BY <2>1, <2>2, <1>a, PedirCambia DEF Operaciones, Pasos
  <2>4. tcbs' = tcbs /\ nuevos' = nuevos
    BY <1>2 DEF PedirHiloCero
  <2>5. Ajeno(k)'
    BY <1>a, <2>2, <2>3, <2>4 DEF Ajeno, Pid
  <2>6. \A j \in Hilos \ {k} : Pid(j) # Pid(k)
    BY <2>2 DEF Ajeno
  <2>7. Pid(k) \notin nuevos
    BY <2>2 DEF Ajeno
  <2> QED
    BY <1>a, <2>3, <2>4, <2>5, <2>6, <2>7, PedidosPide
<1>3. ASSUME NEW n \in DOMAIN memo, PedirHilo(n)
      PROVE  InvPedidos'
  <2>1. PICK t \in Tids : Pedir(Principal, "CREAR_HILO", memo[n].pid, t, "get")
    BY <1>3 DEF PedirHilo
  <2>2. /\ \A j \in Hilos : j # Principal => peticion'[j] = peticion[j]
        /\ peticion'[Principal].op = "CREAR_HILO" /\ peticion'[Principal].pid = memo[n].pid
        /\ peticion'[Principal].paso = "get"
    BY <2>1, <1>a, PedirCambia, DosHilos DEF Operaciones, Pasos
  <2>3. tcbs' = tcbs /\ nuevos' = nuevos
    BY <1>3 DEF PedirHilo
  <2> QED
    BY <1>a, <1>c, <1>d, <2>2, <2>3, DosHilos, PedidosPide
<1>4. ASSUME NEW n \in DOMAIN memo, PedirFinHilo(n)
      PROVE  InvPedidos'
  <2>2. /\ \A j \in Hilos : j # Principal => peticion'[j] = peticion[j]
        /\ peticion'[Principal].op = "FINALIZAR_HILO" /\ peticion'[Principal].pid = memo[n].pid
        /\ peticion'[Principal].tid = memo[n].tid
    BY <1>4, <1>a, PedirCambia, DosHilos DEF Operaciones, Pasos, PedirFinHilo
  <2>3. tcbs' = tcbs \ {n} /\ nuevos' = nuevos
    BY <1>4 DEF PedirFinHilo
  <2>4. n \in DOMAIN memo \ tcbs'
    BY <1>c, <2>3
  <2> QED
    BY <1>a, <1>c, <1>d, <2>2, <2>3, <2>4, DosHilos, PedidosPide
<1>5. ASSUME NEW n \in DOMAIN memo, PedirFinProceso(n)
      PROVE  InvPedidos'
  <2>2. /\ \A j \in Hilos : j # Principal => peticion'[j] = peticion[j]
        /\ peticion'[Principal].op = "FINALIZAR_PROCESO" /\ peticion'[Principal].pid = memo[n].pid
        /\ peticion'[Principal].paso = "get"
    BY <1>5, <1>a, PedirCambia, DosHilos DEF Operaciones, Pasos, PedirFinProceso
  <2>3. /\ tcbs' = tcbs \ {m \in DOMAIN memo : memo[m].pid = memo[n].pid} /\ nuevos' = nuevos
    BY <1>5 DEF PedirFinProceso
  <2>4. \A m \in tcbs' : memo[m].pid # memo[n].pid
    BY <1>c, <2>3
  <2> QED
    BY <1>a, <1>c, <1>d, <2>2, <2>3, <2>4, DosHilos, PedidosPide
<1> QED
  BY <1>1, <1>2, <1>3, <1>4, <1>5, <1>c DEF PedirAlgo

LEMMA PedidosGuardarProceso ==
  ASSUME InvTipos, InvPedidos, NEW k \in Hilos, GuardarProceso(k), UNCHANGED nuevos
  PROVE  InvPedidos'
<1>1. /\ UNCHANGED <<nuevos, memo, hilos, tcbs>> /\ procesos' = procesos \cup {Pid(k)}
      /\ peticion[k].op = "CREAR_PROCESO" /\ peticion[k].paso = "guardar" /\ Sigue(k, "fin")
  BY DEF GuardarProceso, En
<1>2. /\ \A j \in Hilos : j # k => peticion'[j] = peticion[j]
      /\ \A j \in Hilos : /\ peticion'[j].op = peticion[j].op /\ peticion'[j].pid = peticion[j].pid
                          /\ peticion'[j].tid = peticion[j].tid
      /\ peticion'[k].paso = "fin"
  BY <1>1, Partes, SigueCambia DEF InvTipos, Pasos
<1>3. Ajeno(k)
  BY <1>1 DEF InvPedidos, PidsNuevos
<1>4. PidsNuevos'
  <2>1. \A p \in nuevos : p \notin procesos'
    BY <1>1 DEF InvPedidos, PidsNuevos
  <2> QED
    BY <1>1, <1>2, <2>1 DEF InvPedidos, PidsNuevos, Ajeno, Pid
<1>5. PidsPedidos'
  <2>1. \A j \in Hilos : j # k => peticion[j].pid # Pid(k)
    BY <1>3 DEF Ajeno, Pid
  <2> QED
    BY <1>1, <1>2, <2>1 DEF InvPedidos, PidsPedidos, Pid, En
<1>6. SinTcb' /\ Presentes'
  BY <1>1, <1>2 DEF InvPedidos, SinTcb, Presentes, Repetido, Pid, Tid
<1> QED
  BY <1>4, <1>5, <1>6 DEF InvPedidos

LEMMA PedidosQuitarProceso ==
  ASSUME InvTipos, InvPedidos, NEW k \in Hilos, QuitarProceso(k), UNCHANGED nuevos
  PROVE  InvPedidos'
<1>1. /\ UNCHANGED <<nuevos, memo, hilos, tcbs>> /\ procesos' = procesos \ {Pid(k)}
      /\ peticion[k].op = "FINALIZAR_PROCESO" /\ Contesta(k) /\ Pid(k) \in Pids
  BY Operandos DEF QuitarProceso, En, InvTipos
<1>2. /\ \A j \in Hilos : j # k => peticion'[j] = peticion[j]
      /\ peticion'[k] = Libre
  BY <1>1, Partes, ContestaCambia DEF InvTipos
<1>3. k = Principal /\ Hilos = {Principal, Largo}
  BY <1>1, Operandos DEF InvTipos, Hilos
<1>4. peticion[Largo].op # "ninguna" => Ajeno(Largo) /\ Pid(Largo) # Pid(k)
  BY <1>3, DosHilos DEF InvPedidos, PidsNuevos, Ajeno
<1>5. PidsNuevos'
  <2>1. \A p \in nuevos : \A j \in Hilos : peticion'[j].pid # p
    BY <1>2, LibreTipo, PeticionesAssumption DEF InvPedidos, PidsNuevos, Pid, InvTipos, TiposMemoria
  <2>2. peticion[Largo].op # "ninguna" => Ajeno(Largo)'
    <3>1. peticion[Largo].op # "ninguna" => Pid(Largo) # Nada
      BY Operandos, DosHilos, PeticionesAssumption DEF InvTipos
    <3> QED
      BY <1>1, <1>2, <1>3, <1>4, <3>1, LibreTipo, DosHilos DEF Ajeno, Pid
  <2>3. \A p \in nuevos : /\ p \notin procesos' /\ \A m \in DOMAIN memo : memo[m].pid # p
    BY <1>1 DEF InvPedidos, PidsNuevos
  <2>4. \A j \in Hilos : \/ peticion'[j].op = "ninguna"
                         \/ j = Largo /\ peticion'[j] = peticion[j]
    <3>1. peticion'[Principal].op = "ninguna" /\ peticion'[Largo] = peticion[Largo]
      BY <1>2, <1>3, LibreTipo, DosHilos
    <3> QED
      BY <1>3, <3>1
  <2> QED
    BY <1>1, <2>1, <2>2, <2>3, <2>4 DEF PidsNuevos, Pid
<1>6. PidsPedidos'
  <2>1. \A j \in Hilos : \/ peticion'[j].op = "ninguna"
                         \/ /\ j = Largo /\ peticion'[j] = peticion[j]
                            /\ peticion[j].pid # Pid(k)
    BY <1>2, <1>3, <1>4, LibreTipo DEF Pid
  <2>2. peticion[Largo].op \notin {"FINALIZAR_PROCESO", "FINALIZAR_HILO"}
    BY Operandos, DosHilos DEF InvTipos
  <2> QED
    BY <1>1, <2>1, <2>2 DEF InvPedidos, PidsPedidos, Pid, En
<1>7. SinTcb'
  <2>1. peticion[Largo].op \notin {"FINALIZAR_PROCESO", "FINALIZAR_HILO"}
    BY Operandos, DosHilos DEF InvTipos
  <2>2. \A j \in Hilos : peticion'[j].op \notin {"FINALIZAR_PROCESO", "FINALIZAR_HILO"}
    BY <1>2, <1>3, <2>1, LibreTipo
  <2> QED
    BY <2>2 DEF SinTcb
<1>8. Presentes'
  <2>1. \A n \in tcbs : memo[n].pid # Pid(k)
    BY <1>1 DEF InvPedidos, SinTcb
  <2> QED
    BY <1>1, <2>1 DEF InvPedidos, Presentes, Repetido
<1> QED
  BY <1>5, <1>6, <1>7, <1>8 DEF InvPedidos

LEMMA PedidosGuardarHilo ==
  ASSUME InvTipos, TiposMemoria', InvPedidos, Conserva, NEW k \in Hilos, GuardarHilo(k),
         UNCHANGED nuevos
  PROVE  InvPedidos'
<1> DEFINE n == Len(memo) + 1
<1>1. /\ UNCHANGED <<nuevos, procesos>> /\ tcbs' = tcbs \cup {n} /\ Contesta(k)
      /\ En(k, "CREAR_HILO", "guardar") /\ Pid(k) \in Pids /\ Tid(k) \in Tids
  BY Operandos DEF GuardarHilo, En, InvTipos
<1>2. /\ \A j \in Hilos : j # k => peticion'[j] = peticion[j]
      /\ peticion'[k] = Libre
  BY <1>1, Partes, ContestaCambia DEF InvTipos
<1>3. /\ Len(memo) \in Nat /\ DOMAIN memo = 1 .. Len(memo) /\ DOMAIN memo' = 1 .. n
      /\ \A m \in 1 .. Len(memo) : memo'[m] = memo[m]
      /\ memo'[n].pid = Pid(k) /\ memo'[n].tid = Tid(k)
      /\ \A p \in Pids, t \in Tids :
              hilos'[p][t] = IF p = Pid(k) /\ t = Tid(k) THEN n ELSE hilos[p][t]
  BY MemoNuevo DEF Conserva, InvTipos
<1>4. Pid(k) \in procesos /\ Pid(k) \notin nuevos
  BY <1>1 DEF InvPedidos, PidsPedidos, PidsNuevos
<1>5. \A j \in Hilos : j # k /\ peticion[j].op # "ninguna" /\ Ajeno(j) => Ajeno(j)'
  <2> SUFFICES ASSUME NEW j \in Hilos, j # k, peticion[j].op # "ninguna", Ajeno(j),
                      peticion'[j] = peticion[j]
               PROVE  Ajeno(j)'
    BY <1>2
  <2>1. Pid(j) # Pid(k) /\ Pid(j) \notin nuevos
    BY DEF Ajeno
  <2>2. \A m \in DOMAIN memo' : memo'[m].pid # Pid(j)
    <3> SUFFICES ASSUME NEW m \in 1 .. n
                 PROVE  memo'[m].pid # Pid(j)
      BY <1>3
    <3>1. CASE m = n
      BY <1>3, <2>1, <3>1
    <3>2. CASE m # n
      <4>1. m \in 1 .. Len(memo)
        BY <1>3, <3>2
      <4> QED
        BY <1>3, <4>1 DEF Ajeno
    <3> QED
      BY <3>1, <3>2
  <2>3. \A i \in Hilos \ {j} : peticion'[i].pid # Pid(j)
    <3>1. Pid(j) # Nada
      BY Operandos, PeticionesAssumption DEF InvTipos
    <3>2. peticion'[k].pid # Pid(j)
      BY <1>2, <3>1, LibreTipo
    <3>3. \A i \in Hilos \ {j} : i # k => peticion'[i].pid # Pid(j)
      BY <1>2 DEF Ajeno, Pid
    <3> QED
      BY <3>2, <3>3
  <2> QED
    BY <1>1, <2>1, <2>2, <2>3 DEF Ajeno, Pid
<1>6. PidsNuevos'
  <2>1. ASSUME NEW p \in nuevos
        PROVE  /\ p \notin procesos
               /\ \A m \in DOMAIN memo' : memo'[m].pid # p
               /\ \A j \in Hilos : peticion'[j].pid # p
    <3>1. p # Pid(k) /\ p # Nada /\ p \notin procesos
      BY <1>4, <2>1, PeticionesAssumption DEF InvPedidos, PidsNuevos, InvTipos, TiposMemoria
    <3>2. \A m \in 1 .. Len(memo) : memo'[m].pid # p
      BY <1>3, <2>1 DEF InvPedidos, PidsNuevos
    <3>3. \A m \in 1 .. n : m = n \/ m \in 1 .. Len(memo)
      BY <1>3
    <3>4. \A j \in Hilos : peticion'[j].pid # p
      BY <1>2, <2>1, <3>1, LibreTipo DEF InvPedidos, PidsNuevos, Pid
    <3> QED
      BY <1>3, <3>1, <3>2, <3>3, <3>4
  <2>2. ASSUME NEW j \in Hilos,
               peticion'[j].op = "CREAR_PROCESO" \/ (j = Largo /\ peticion'[j].op # "ninguna")
        PROVE  Ajeno(j)'
    <3>1. j # k /\ peticion'[j] = peticion[j] /\ peticion[j].op # "ninguna"
      BY <1>2, <2>2, LibreTipo
    <3>2. Ajeno(j)
      BY <2>2, <3>1 DEF InvPedidos, PidsNuevos
    <3> QED
      BY <1>5, <3>1, <3>2
  <2> QED
    BY <1>1, <2>1, <2>2 DEF PidsNuevos, Pid
<1>7. PidsPedidos'
  <2>1. \A j \in Hilos : peticion'[j] = peticion[j] \/ peticion'[j].op = "ninguna"
    BY <1>2, LibreTipo
  <2> QED
    BY <1>1, <2>1 DEF InvPedidos, PidsPedidos, Pid, En
<1>8. SinTcb'
  <2> SUFFICES ASSUME NEW j \in Hilos, peticion'[j].op \in {"FINALIZAR_PROCESO", "FINALIZAR_HILO"}
               PROVE  /\ peticion'[j].op = "FINALIZAR_PROCESO" =>
                           /\ \E m \in DOMAIN memo' : memo'[m].pid = peticion'[j].pid
                           /\ \A i \in tcbs' : memo'[i].pid # peticion'[j].pid
                      /\ peticion'[j].op = "FINALIZAR_HILO" =>
                           \E m \in DOMAIN memo' \ tcbs' :
                             memo'[m].pid = peticion'[j].pid /\ memo'[m].tid = peticion'[j].tid
    BY DEF SinTcb, Pid, Tid
  <2>1. j # k /\ peticion'[j] = peticion[j]
    BY <1>2, LibreTipo
  <2>2. j = Principal /\ k = Largo
    BY <2>1, Operandos DEF InvTipos, Hilos
  <2>3. peticion[j].pid # Pid(k)
    BY <1>1, <2>1, <2>2 DEF InvPedidos, PidsNuevos, Ajeno, Pid, En
  <2>4. tcbs \subseteq 1 .. Len(memo) /\ n \notin 1 .. Len(memo)
    BY <1>3 DEF InvTipos, TiposMemoria
  <2>5. CASE peticion[j].op = "FINALIZAR_PROCESO"
    <3>1. /\ \E m \in 1 .. Len(memo) : memo[m].pid = peticion[j].pid
          /\ \A i \in tcbs : memo[i].pid # peticion[j].pid
      BY <1>3, <2>5 DEF InvPedidos, SinTcb, Pid
    <3>2. \E m \in DOMAIN memo' : memo'[m].pid = peticion[j].pid
      BY <1>3, <3>1
    <3>3. \A i \in tcbs' : memo'[i].pid # peticion[j].pid
      BY <1>1, <1>3, <2>3, <2>4, <3>1
    <3> QED
      BY <2>1, <2>5, <3>2, <3>3
  <2>6. CASE peticion[j].op = "FINALIZAR_HILO"
    <3>1. PICK m \in 1 .. Len(memo) : /\ m \notin tcbs
                                      /\ memo[m].pid = peticion[j].pid
                                      /\ memo[m].tid = peticion[j].tid
      BY <1>3, <2>6 DEF InvPedidos, SinTcb, Pid, Tid
    <3>2. m \in DOMAIN memo' \ tcbs' /\ memo'[m] = memo[m]
      BY <1>1, <1>3, <2>4, <3>1
    <3> QED
      BY <2>1, <2>6, <3>1, <3>2
  <2> QED
    BY <2>1, <2>5, <2>6
<1>9. Presentes'
  <2> SUFFICES ASSUME NEW i \in tcbs'
               PROVE  /\ memo'[i].pid \in procesos
                      /\ Repetido(i)' \/ hilos'[memo'[i].pid][memo'[i].tid] = i
    BY <1>1 DEF Presentes
  <2>1. CASE i = n
    BY <1>1, <1>3, <1>4, <2>1
  <2>2. CASE i # n
    <3>1. i \in tcbs /\ i \in 1 .. Len(memo) /\ memo'[i] = memo[i]
          /\ memo[i].pid \in Pids /\ memo[i].tid \in Tids
      BY <1>1, <1>3, <2>2, MemoTipos DEF InvTipos, TiposMemoria
    <3>2. memo[i].pid \in procesos /\ (Repetido(i) \/ hilos[memo[i].pid][memo[i].tid] = i)
      BY <3>1 DEF InvPedidos, Presentes
    <3>3. CASE memo[i].pid = Pid(k) /\ memo[i].tid = Tid(k)
      <4>1. n \in DOMAIN memo' \ {i} /\ memo'[n].pid = memo'[i].pid /\ memo'[n].tid = memo'[i].tid
        BY <1>3, <2>2, <3>1, <3>3
      <4>2. Repetido(i)'
        BY <4>1 DEF Repetido
      <4> QED
        BY <3>1, <3>2, <4>2
    <3>4. CASE ~ (memo[i].pid = Pid(k) /\ memo[i].tid = Tid(k))
      <4>1. hilos'[memo[i].pid][memo[i].tid] = hilos[memo[i].pid][memo[i].tid]
        BY <1>3, <3>1, <3>4
      <4> QED
        BY <3>1, <3>2, <4>1, RepetidoSigue
    <3> QED
      BY <3>3, <3>4
  <2> QED
    BY <2>1, <2>2
<1> QED
  BY <1>6, <1>7, <1>8, <1>9 DEF InvPedidos


\* The steps that neither create nor end.
LEMMA PedidosResto ==
  ASSUME InvTipos, TiposMemoria', InvPedidos, Conserva, NEW k \in Hilos, UNCHANGED nuevos,
         \/ Buscar(k) \/ Marcar(k) \/ BuscarProceso(k) \/ TomarProceso(k) \/ Soltar(k)
         \/ Destruir(k) \/ TomarHilo(k) \/ LiberarHilo(k)
  PROVE  InvPedidos'
<1>1. UNCHANGED <<nuevos, procesos, tcbs, hilos>>
  BY DEF Buscar, Marcar, BuscarProceso, TomarProceso, Soltar, Destruir, TomarHilo, LiberarHilo, mem
<1>2. Len(memo') = Len(memo)
  <2>1. CASE Destruir(k)
    <3>1. PICK S : memo' = [n \in DOMAIN memo |->
                    IF n \in S THEN [memo[n] EXCEPT !.estado = "vacio"] ELSE memo[n]]
      BY <2>1 DEF Destruir
    <3> QED
      BY <3>1, MemoVacio DEF InvTipos
  <2>2. CASE LiberarHilo(k)
    <3>1. memo' = [memo EXCEPT ![peticion[k].obj].estado = "vacio"]
      BY <2>2 DEF LiberarHilo
    <3> QED
      BY <3>1, MemoEstado DEF InvTipos
  <2> QED
    BY <2>1, <2>2 DEF Buscar, Marcar, BuscarProceso, TomarProceso, Soltar, TomarHilo, mem
<1>3. \A n \in tcbs : Repetido(n) \/ hilos'[memo[n].pid][memo[n].tid] = n
  BY <1>1 DEF InvPedidos, Presentes
<1>a. TiposMemoria /\ peticion \in [Hilos -> Peticion]
  BY DEF InvTipos, TiposMemoria
<1>b. /\ \A j \in Hilos : j # k => peticion'[j] = peticion[j]
      /\ \/ peticion'[k] = Libre
         \/ /\ peticion'[k].op = peticion[k].op /\ peticion'[k].pid = peticion[k].pid
            /\ peticion'[k].tid = peticion[k].tid
            /\ peticion'[k].paso = "guardar" /\ peticion[k].op = "CREAR_HILO" => Pid(k) \in procesos
            /\ peticion[k].op = "CREAR_PROCESO" => peticion[k].paso # "fin"
            /\ peticion[k].op = "FINALIZAR_PROCESO" => Pid(k) \in procesos
  <2>1. CASE Buscar(k)
    <3>1. \/ Contesta(k)
          \/ \E b \in Bloques : peticion' = [peticion EXCEPT ![k].paso = "marcar", ![k].bloque = b]
      BY <2>1, <1>a, Partes DEF Buscar
    <3>2. peticion[k].op = "CREAR_PROCESO" /\ peticion[k].paso = "buscar"
      BY <2>1 DEF Buscar, En
    <3> QED
      BY <1>a, <3>1, <3>2, ContestaCambia, BuscarCambia
  <2>2. CASE Marcar(k)
    <3>1. Sigue(k, "guardar") /\ peticion[k].op = "CREAR_PROCESO" /\ peticion[k].paso = "marcar"
      BY <2>2 DEF Marcar, En
    <3> QED
      BY <1>a, <3>1, SigueCambia DEF Pasos
  <2>3. CASE BuscarProceso(k)
    <3>1. peticion[k].op = "CREAR_HILO" /\ (Contesta(k) \/ (Sigue(k, "guardar") /\ Pid(k) \in procesos))
      BY <2>3 DEF BuscarProceso, En
    <3> QED
      BY <1>a, <3>1, ContestaCambia, SigueCambia DEF Pasos
  <2>4. CASE TomarProceso(k) \/ Soltar(k) \/ Destruir(k)
    <3>1. /\ peticion[k].op = "FINALIZAR_PROCESO"
          /\ Contesta(k) \/ (Pid(k) \in procesos /\ \E paso \in Pasos : Sigue(k, paso))
      BY <2>4 DEF TomarProceso, Soltar, Destruir, En, Pasos, InvPedidos, PidsPedidos
    <3> QED
      BY <1>a, <3>1, ContestaCambia, SigueCambia
  <2>5. CASE TomarHilo(k)
    <3>1. peticion[k].op = "FINALIZAR_HILO"
      BY <2>5 DEF TomarHilo, En
    <3> QED
      BY <1>a, <2>5, <3>1, TomarCambia DEF Pid, Tid
  <2>6. CASE LiberarHilo(k)
    <3>1. peticion[k].op = "FINALIZAR_HILO" /\ Sigue(k, "quitar")
      BY <2>6 DEF LiberarHilo, En
    <3> QED
      BY <1>a, <3>1, SigueCambia DEF Pasos
  <2> QED
    BY <2>1, <2>2, <2>3, <2>4, <2>5, <2>6
<1> QED
  BY <1>1, <1>2, <1>3, <1>a, <1>b, PedidosQuietos DEF En

LEMMA PedidosQuitarHilo ==
  ASSUME InvTipos, InvPedidos, Conserva, NEW k \in Hilos, UNCHANGED nuevos, QuitarHilo(k)
  PROVE  InvPedidos'
<1>1. /\ TiposMemoria /\ UNCHANGED <<nuevos, procesos, tcbs>> /\ Contesta(k)
      /\ peticion[k].op = "FINALIZAR_HILO" /\ Pid(k) \in Pids /\ Tid(k) \in Tids
      /\ hilos' = [hilos EXCEPT ![Pid(k)][Tid(k)] = 0]
      /\ memo' = [memo EXCEPT ![hilos[Pid(k)][Tid(k)]].estado = "libre"]
  BY Operandos DEF QuitarHilo, En, InvTipos
<1>2. /\ Len(memo') = Len(memo)
      /\ \A j \in Hilos : j # k => peticion'[j] = peticion[j]
      /\ peticion'[k] = Libre
  BY <1>1, Partes, ContestaCambia, MemoEstado
<1>3. ASSUME NEW n \in tcbs
      PROVE  Repetido(n) \/ hilos'[memo[n].pid][memo[n].tid] = n
  <2>1. n \in 1 .. Len(memo) /\ memo[n].pid \in Pids /\ memo[n].tid \in Tids
    BY <1>1, MemoTipos DEF TiposMemoria
  <2>2. CASE memo[n].pid = Pid(k) /\ memo[n].tid = Tid(k)
    <3>1. PICK m \in DOMAIN memo \ tcbs : memo[m].pid = Pid(k) /\ memo[m].tid = Tid(k)
      BY <1>1 DEF InvPedidos, SinTcb
    <3> QED
      BY <2>2, <3>1 DEF Repetido
  <2>3. CASE ~ (memo[n].pid = Pid(k) /\ memo[n].tid = Tid(k))
    <3>1. hilos'[memo[n].pid][memo[n].tid] = hilos[memo[n].pid][memo[n].tid]
      BY <1>1, <2>1, <2>3, Partes
    <3> QED
      BY <3>1 DEF InvPedidos, Presentes
  <2> QED
    BY <2>2, <2>3
<1> QED
  BY <1>1, <1>2, <1>3, PedidosQuietos

\* No step of Memoria or of the CPU makes hilos but crear_hilo's.
LEMMA SiempreConserva ==
  ASSUME InvTipos, TiposMemoria', [Next]_vars
  PROVE  Conserva
<1>a. TiposMemoria /\ Len(memo) \in Nat /\ DOMAIN memo = 1 .. Len(memo)
  BY MemoTipos DEF InvTipos
<1>1. ASSUME UNCHANGED memo
      PROVE  Conserva
  BY <1>a, <1>1 DEF Conserva
<1>2. ASSUME NEW k \in Hilos, manejar_peticion(k)
      PROVE  Conserva
  BY <1>a, <1>2, MismosHilos, DominioMemo DEF Conserva
<1>3. ASSUME hilo_instrucciones_cpu
      PROVE  Conserva
  <2>1. CASE Actualizar
    <3>1. memo' = [memo EXCEPT ![servidor.obj].reg = servidor.reg] /\ servidor.reg \in Registros
      BY <2>1, CpuPartes DEF Actualizar
    <3> QED
      BY <1>a, <3>1, MemoReg, DominioMemo DEF Conserva
  <2> QED
    BY <1>1, <1>3, <2>1
    DEF hilo_instrucciones_cpu, Recibir, DarContexto, DarInstruccion, UsarLiberado, mem
<1>4. CASE UNCHANGED vars
  BY <1>1, <1>4 DEF vars, mem
<1>5. CASE Next
  BY <1>1, <1>2, <1>3, <1>5, Casos DEF mem
<1> QED
  BY <1>4, <1>5

LEMMA PedidosIguales ==
  ASSUME InvTipos, InvPedidos, Conserva, Len(memo') = Len(memo),
         UNCHANGED <<nuevos, procesos, tcbs, hilos, peticion>>
  PROVE  InvPedidos'
<1>1. \A n \in tcbs : Repetido(n) \/ hilos'[memo[n].pid][memo[n].tid] = n
  BY DEF InvPedidos, Presentes
<1>2. /\ En(Principal, "CREAR_HILO", "guardar")' => Pid(Principal) \in procesos
      /\ peticion[Principal].op = "FINALIZAR_PROCESO" /\ peticion'[Principal].paso # "get"
           => Pid(Principal) \in procesos
  BY DosHilos DEF InvPedidos, PidsPedidos, En, Pid
<1> QED
  BY <1>1, <1>2, DosHilos, PedidosQuietos DEF InvTipos

LEMMA PedidosSiguiente ==
  ASSUME InvTipos, InvTipos', InvPedidos, [Next]_vars
  PROVE  InvPedidos'
<1>a. Conserva /\ TiposMemoria /\ TiposMemoria'
  BY SiempreConserva DEF InvTipos
<1>1. CASE PedirAlgo
  BY <1>1, PedidosPedir
<1>2. ASSUME NEW k \in Hilos, manejar_peticion(k), UNCHANGED nuevos
      PROVE  InvPedidos'
  BY <1>a, <1>2, PedidosGuardarProceso, PedidosQuitarProceso, PedidosGuardarHilo, PedidosResto,
     PedidosQuitarHilo DEF manejar_peticion
<1>3. ASSUME UNCHANGED <<mem, kern>>
      PROVE  InvPedidos'
  <2>1. UNCHANGED <<nuevos, procesos, tcbs, hilos, peticion, memo>>
    BY <1>3 DEF mem, kern
  <2> QED
    BY <1>a, <2>1, PedidosIguales
<1>4. CASE hilo_instrucciones_cpu /\ UNCHANGED kern
  <2>1. CASE Actualizar
    <3>1. /\ memo' = [memo EXCEPT ![servidor.obj].reg = servidor.reg] /\ servidor.reg \in Registros
          /\ UNCHANGED <<nuevos, procesos, tcbs, hilos, peticion>>
      BY <1>4, <2>1, CpuPartes DEF Actualizar, kern
    <3>2. Len(memo') = Len(memo)
      BY <1>a, <3>1, MemoReg
    <3> QED
      BY <1>a, <3>1, <3>2, PedidosIguales
  <2> QED
    BY <1>3, <1>4, <2>1
    DEF hilo_instrucciones_cpu, Recibir, DarContexto, DarInstruccion, UsarLiberado
<1>5. CASE UNCHANGED vars
  BY <1>3, <1>5 DEF vars
<1>6. CASE Next
  BY <1>1, <1>2, <1>3, <1>4, <1>6, Casos
<1> QED
  BY <1>5, <1>6

LEMMA PedidosInicial == Init => InvPedidos
<1> SUFFICES ASSUME Init
             PROVE  InvPedidos
  OBVIOUS
<1>1. /\ memo = <<>> /\ DOMAIN memo = {} /\ tcbs = {} /\ procesos = {}
      /\ nuevos = Pids /\ \A k \in Hilos : peticion[k] = Libre
  BY EmptySeq DEF Init
<1>2. \A k \in Hilos : peticion[k].op = "ninguna" /\ Pid(k) = Nada
  BY <1>1, LibreTipo DEF Pid
<1> QED
  BY <1>1, <1>2, PeticionesAssumption
  DEF InvPedidos, PidsNuevos, PidsPedidos, SinTcb, Presentes, En

\* A hilo whose creation was answered with true is found under its TID until the
\* Kernel asks for its end, whatever the threads of Memoria do meanwhile.
THEOREM HilosPresentes == Spec => []HiloPresente
<1>1. Init => InvTipos /\ InvPedidos
  BY TiposInicial, PedidosInicial
<1>2. InvTipos /\ InvPedidos /\ [Next]_vars => (InvTipos /\ InvPedidos)'
  BY TiposSiguiente, PedidosSiguiente
<1>3. InvPedidos => HiloPresente
  BY DEF InvPedidos, Presentes, HiloPresente
<1> QED
  BY <1>1, <1>2, <1>3, PTL DEF Spec

---------------------------------------------------------------------------
(* Partitions and their holders: InvBloques *)

\* The release of the partition is done and the process is still in the dictionary.
Devuelta(k) == peticion[k].op = "FINALIZAR_PROCESO" /\ peticion[k].paso \in {"destruir", "quitar"}

LEMMA TenedoresDef ==
  ASSUME NEW p
  PROVE  p \in Tenedores <=> \/ p \in procesos /\ \A k \in Hilos : Devuelta(k) => Pid(k) # p
                             \/ \E k \in Hilos : En(k, "CREAR_PROCESO", "guardar") /\ Pid(k) = p
BY DEF Tenedores, Devuelta

LEMMA TenedoresDefP ==
  ASSUME NEW p
  PROVE  p \in Tenedores' <=> \/ p \in procesos' /\ \A k \in Hilos : Devuelta(k)' => Pid(k)' # p
                              \/ \E k \in Hilos : En(k, "CREAR_PROCESO", "guardar")' /\ Pid(k)' = p
BY DEF Tenedores, Devuelta

LEMMA TenedoresIgual ==
  ASSUME UNCHANGED procesos, NEW k \in Hilos,
         \A j \in Hilos : j # k => peticion'[j] = peticion[j],
         Devuelta(k)' <=> Devuelta(k),
         En(k, "CREAR_PROCESO", "guardar")' <=> En(k, "CREAR_PROCESO", "guardar"),
         Devuelta(k) \/ En(k, "CREAR_PROCESO", "guardar") => peticion'[k].pid = peticion[k].pid
  PROVE  Tenedores' = Tenedores
<1>1. \A j \in Hilos : /\ Devuelta(j)' <=> Devuelta(j)
                       /\ En(j, "CREAR_PROCESO", "guardar")' <=> En(j, "CREAR_PROCESO", "guardar")
                       /\ Devuelta(j) \/ En(j, "CREAR_PROCESO", "guardar") => Pid(j)' = Pid(j)
  BY DEF Devuelta, En, Pid
<1>2. \A p : p \in Tenedores' <=> p \in Tenedores
  <2> TAKE p
  <2> QED
    BY <1>1, TenedoresDef, TenedoresDefP
<1> QED
  BY <1>2

\* One thread is about to change the list of partitions and the other to use it.
LEMMA CarreraParticiones ==
  ASSUME NEW j \in Hilos, NEW k \in Hilos, j # k,
         peticion[j].paso \in {"marcar", "soltar"},
         peticion[k].paso \in {"buscar", "marcar", "soltar"}
  PROVE  EnCarrera
<1>1. Escribe(j) = {<<"lista_particiones">>}
  BY DEF Escribe, En
<1>2. <<"lista_particiones">> \in Usa(k)
  <2>1. CASE peticion[k].paso \in {"marcar", "soltar"}
    <3>1. Escribe(k) = {<<"lista_particiones">>}
      BY <2>1 DEF Escribe, En
    <3> QED
      BY <3>1 DEF Usa
  <2>2. CASE peticion[k].paso = "buscar"
    BY <2>2 DEF Usa, En
  <2> QED
    BY <2>1, <2>2
<1>3. (j = Principal /\ k = Largo) \/ (j = Largo /\ k = Principal)
  BY DEF Hilos
<1> QED
  BY <1>1, <1>2, <1>3 DEF EnCarrera

\* A step that leaves the partitions and their holders as they are.
LEMMA BloquesQuietos ==
  ASSUME InvBloques, NEW k \in Hilos, carrera' = (carrera \/ EnCarrera),
         \A j \in Hilos : j # k => peticion'[j] = peticion[j],
         UNCHANGED <<libres, base>>, Tenedores' = Tenedores,
         ~carrera' /\ En(k, "CREAR_PROCESO", "marcar")' => peticion'[k].bloque \in libres
  PROVE  InvBloques'
<1>1. BloqueConDuenio'
  BY DEF InvBloques, BloqueConDuenio
<1>2. ~carrera' => \A j \in Hilos : En(j, "CREAR_PROCESO", "marcar")' => peticion'[j].bloque \in libres
  <2> SUFFICES ASSUME ~carrera', NEW j \in Hilos, En(j, "CREAR_PROCESO", "marcar")', j # k
               PROVE  peticion'[j].bloque \in libres
    OBVIOUS
  <2>1. ~carrera /\ En(j, "CREAR_PROCESO", "marcar") /\ peticion'[j] = peticion[j]
    BY DEF En
  <2> QED
    BY <2>1 DEF InvBloques
<1> QED
  BY <1>1, <1>2 DEF InvBloques

\* A step of a request that is not between the mark and the dictionary, nor at the
\* release.
LEMMA BloquesResto ==
  ASSUME InvTipos, InvBloques, NEW k \in Hilos, carrera' = (carrera \/ EnCarrera),
         \A j \in Hilos : j # k => peticion'[j] = peticion[j],
         UNCHANGED <<libres, base, procesos>>,
         ~Devuelta(k) /\ ~Devuelta(k)', ~En(k, "CREAR_PROCESO", "guardar"),
         ~En(k, "CREAR_PROCESO", "guardar")',
         En(k, "CREAR_PROCESO", "marcar")' => peticion'[k].bloque \in libres
  PROVE  InvBloques'
<1>1. Tenedores' = Tenedores
  BY TenedoresIgual
<1> QED
  BY <1>1, BloquesQuietos

LEMMA BloquesPedir ==
  ASSUME InvTipos, InvBloques, carrera' = (carrera \/ EnCarrera), PedirAlgo
  PROVE  InvBloques'
<1>a. UNCHANGED <<libres, base, procesos>> /\ peticion \in [Hilos -> Peticion]
      /\ tcbs \subseteq DOMAIN memo
      /\ \A n \in DOMAIN memo : memo[n].pid \in Pids /\ memo[n].tid \in Tids
  BY MemoTipos DEF PedirAlgo, mem, InvTipos, TiposMemoria
<1>1. PICK k \in Hilos, op \in Operaciones, p \in Pids, t \in Tids \cup {Nada},
           paso \in {"buscar", "get"} :
        /\ Pedir(k, op, p, t, paso)
        /\ peticion[k] = Libre \/ (peticion[k].op = "CREAR_PROCESO" /\ peticion[k].paso = "fin")
  <2>1. ASSUME NEW k \in Hilos, PedirProceso(k)
        PROVE  /\ peticion[k] = Libre
               /\ \E p \in Pids : Pedir(k, "CREAR_PROCESO", p, Nada, "buscar")
    BY <2>1 DEF PedirProceso, Ociosa, InvTipos, TiposMemoria
  <2>2. ASSUME NEW k \in Hilos, PedirHiloCero(k)
        PROVE  /\ peticion[k].op = "CREAR_PROCESO" /\ peticion[k].paso = "fin"
               /\ \E p \in Pids, t \in Tids : Pedir(k, "CREAR_HILO", p, t, "get")
    <3>1. Pid(k) \in Pids
      BY <2>2, Operandos DEF InvTipos, PedirHiloCero
    <3> QED
      BY <2>2, <3>1 DEF PedirHiloCero, Pid
  <2>3. ASSUME NEW n \in DOMAIN memo, PedirHilo(n) \/ PedirFinHilo(n) \/ PedirFinProceso(n)
        PROVE  /\ peticion[Principal] = Libre
               /\ \E op \in Operaciones, p \in Pids, t \in Tids \cup {Nada} :
                    Pedir(Principal, op, p, t, "get")
    BY <1>a, <2>3 DEF PedirHilo, PedirFinHilo, PedirFinProceso, Ociosa, Operaciones
  <2>4. Nada \in Tids \cup {Nada} /\ Tids \subseteq Tids \cup {Nada}
        /\ "CREAR_PROCESO" \in Operaciones /\ "CREAR_HILO" \in Operaciones
    BY DEF Operaciones
  <2> QED
    BY <1>a, <2>1, <2>2, <2>3, <2>4, DosHilos DEF PedirAlgo
<1>2. /\ \A j \in Hilos : j # k => peticion'[j] = peticion[j]
      /\ peticion'[k].paso \in {"buscar", "get"}
  BY <1>a, <1>1, PedirCambia DEF Pasos
<1>3. /\ ~Devuelta(k) /\ ~Devuelta(k)' /\ ~En(k, "CREAR_PROCESO", "guardar")
      /\ ~En(k, "CREAR_PROCESO", "guardar")' /\ ~En(k, "CREAR_PROCESO", "marcar")'
  BY <1>1, <1>2, LibreTipo DEF Devuelta, En
<1> QED
  BY <1>a, <1>2, <1>3, BloquesResto

LEMMA BloquesManejarQuietos ==
  ASSUME InvTipos, InvBloques, NEW k \in Hilos, carrera' = (carrera \/ EnCarrera),
         \/ Buscar(k) \/ BuscarProceso(k) \/ GuardarHilo(k) \/ TomarProceso(k) \/ Destruir(k)
         \/ TomarHilo(k) \/ LiberarHilo(k) \/ QuitarHilo(k)
  PROVE  InvBloques'
<1>a. TiposMemoria /\ peticion \in [Hilos -> Peticion] /\ UNCHANGED <<libres, base, procesos>>
  BY DEF InvTipos, TiposMemoria, Buscar, BuscarProceso, GuardarHilo, TomarProceso, Destruir,
         TomarHilo, LiberarHilo, QuitarHilo, mem
<1>1. CASE Buscar(k)
  <2>1. peticion[k].op = "CREAR_PROCESO" /\ peticion[k].paso = "buscar"
    BY <1>1 DEF Buscar, En
  <2>2. /\ \A j \in Hilos : j # k => peticion'[j] = peticion[j]
        /\ \/ peticion'[k] = Libre
           \/ /\ peticion'[k].op = "CREAR_PROCESO" /\ peticion'[k].paso = "marcar"
              /\ peticion'[k].bloque \in libres
    <3>1. CASE Contesta(k)
      BY <1>a, <3>1, ContestaCambia
    <3>2. CASE \E b \in libres :
                 peticion' = [peticion EXCEPT ![k].paso = "marcar", ![k].bloque = b]
      <4>1. PICK b \in libres :
                 peticion' = [peticion EXCEPT ![k].paso = "marcar", ![k].bloque = b]
        BY <3>2
      <4>2. b \in Bloques /\ b \in libres
        BY <1>a, Partes
      <4> QED
        BY <1>a, <2>1, <4>1, <4>2, BuscarCambia
    <3> QED
      BY <1>1, <3>1, <3>2 DEF Buscar
  <2>3. /\ ~Devuelta(k) /\ ~Devuelta(k)' /\ ~En(k, "CREAR_PROCESO", "guardar")
        /\ ~En(k, "CREAR_PROCESO", "guardar")'
        /\ En(k, "CREAR_PROCESO", "marcar")' => peticion'[k].bloque \in libres
    BY <2>1, <2>2, LibreTipo DEF Devuelta, En
  <2> QED
    BY <1>a, <2>2, <2>3, BloquesResto
<1>2. CASE BuscarProceso(k) \/ GuardarHilo(k) \/ QuitarHilo(k)
  <2>1. /\ peticion[k].op \in {"CREAR_HILO", "FINALIZAR_HILO"}
        /\ Contesta(k) \/ Sigue(k, "guardar")
    BY <1>2 DEF BuscarProceso, GuardarHilo, QuitarHilo, En
  <2>2. /\ \A j \in Hilos : j # k => peticion'[j] = peticion[j]
        /\ peticion'[k] = Libre \/ peticion'[k].op = peticion[k].op
    BY <1>a, <2>1, ContestaCambia, SigueCambia DEF Pasos
  <2>3. /\ ~Devuelta(k) /\ ~Devuelta(k)' /\ ~En(k, "CREAR_PROCESO", "guardar")
        /\ ~En(k, "CREAR_PROCESO", "guardar")' /\ ~En(k, "CREAR_PROCESO", "marcar")'
    BY <2>1, <2>2, LibreTipo DEF Devuelta, En
  <2> QED
    BY <1>a, <2>2, <2>3, BloquesResto
<1>3. CASE TomarHilo(k) \/ LiberarHilo(k)
  <2>1. peticion[k].op = "FINALIZAR_HILO"
    BY <1>3 DEF TomarHilo, LiberarHilo, En
  <2>2. /\ \A j \in Hilos : j # k => peticion'[j] = peticion[j]
        /\ peticion'[k] = Libre \/ peticion'[k].op = peticion[k].op
    <3>1. CASE TomarHilo(k)
      BY <1>a, <3>1, TomarCambia
    <3>2. CASE LiberarHilo(k)
      BY <1>a, <3>2, SigueCambia DEF LiberarHilo, Pasos
    <3> QED
      BY <1>3, <3>1, <3>2
  <2>3. /\ ~Devuelta(k) /\ ~Devuelta(k)' /\ ~En(k, "CREAR_PROCESO", "guardar")
        /\ ~En(k, "CREAR_PROCESO", "guardar")' /\ ~En(k, "CREAR_PROCESO", "marcar")'
    BY <2>1, <2>2, LibreTipo DEF Devuelta, En
  <2> QED
    BY <1>a, <2>2, <2>3, BloquesResto
<1>4. CASE TomarProceso(k)
  <2>1. /\ peticion[k].op = "FINALIZAR_PROCESO" /\ peticion[k].paso = "get"
        /\ Contesta(k) \/ Sigue(k, "soltar")
    BY <1>4 DEF TomarProceso, En
  <2>2. /\ \A j \in Hilos : j # k => peticion'[j] = peticion[j]
        /\ \/ peticion'[k] = Libre
           \/ peticion'[k].op = peticion[k].op /\ peticion'[k].paso = "soltar"
    BY <1>a, <2>1, ContestaCambia, SigueCambia DEF Pasos
  <2>3. /\ ~Devuelta(k) /\ ~Devuelta(k)' /\ ~En(k, "CREAR_PROCESO", "guardar")
        /\ ~En(k, "CREAR_PROCESO", "guardar")' /\ ~En(k, "CREAR_PROCESO", "marcar")'
    BY <2>1, <2>2, LibreTipo DEF Devuelta, En
  <2> QED
    BY <1>a, <2>2, <2>3, BloquesResto
<1>5. CASE Destruir(k)
  <2>1. /\ peticion[k].op = "FINALIZAR_PROCESO" /\ peticion[k].paso = "destruir"
        /\ Sigue(k, "quitar")
    BY <1>5 DEF Destruir, En
  <2>2. /\ \A j \in Hilos : j # k => peticion'[j] = peticion[j]
        /\ peticion'[k].op = peticion[k].op /\ peticion'[k].pid = peticion[k].pid
        /\ peticion'[k].paso = "quitar"
    BY <1>a, <2>1, SigueCambia DEF Pasos
  <2>3. /\ Devuelta(k) /\ Devuelta(k)' /\ ~En(k, "CREAR_PROCESO", "guardar")
        /\ ~En(k, "CREAR_PROCESO", "guardar")' /\ ~En(k, "CREAR_PROCESO", "marcar")'
    BY <2>1, <2>2 DEF Devuelta, En
  <2>4. Tenedores' = Tenedores
    BY <1>a, <2>2, <2>3, TenedoresIgual
  <2> QED
    BY <1>a, <2>2, <2>3, <2>4, BloquesQuietos
<1> QED
  BY <1>1, <1>2, <1>3, <1>4, <1>5

LEMMA BloquesMarcar ==
  ASSUME InvTipos, InvPedidos, InvBloques, NEW k \in Hilos, carrera' = (carrera \/ EnCarrera),
         Marcar(k)
  PROVE  InvBloques'
<1> DEFINE b == peticion[k].bloque
           p == Pid(k)
<1>1. /\ En(k, "CREAR_PROCESO", "marcar") /\ p \in Pids /\ b \in Bloques
      /\ libres' = libres \ {b} /\ base' = [base EXCEPT ![p] = b] /\ base \in [Pids -> Bloques \cup {Nada}]
      /\ UNCHANGED procesos /\ Sigue(k, "guardar") /\ TiposMemoria
      /\ procesos \subseteq Pids
  BY Operandos, Partes DEF Marcar, En, InvTipos
<1>2. /\ \A j \in Hilos : j # k => peticion'[j] = peticion[j]
      /\ peticion'[k].op = "CREAR_PROCESO" /\ peticion'[k].pid = p
      /\ peticion'[k].paso = "guardar"
  BY <1>1, Partes, SigueCambia DEF Pasos, Pid, En
<1>3. p \notin procesos /\ \A j \in Hilos \ {k} : Pid(j) # p
  BY <1>1 DEF InvPedidos, PidsNuevos, PidsPedidos, Ajeno, En
<1>4. base'[p] = b /\ \A q \in Pids : q # p => base'[q] = base[q]
  BY <1>1
<1>5. p \notin Tenedores /\ Tenedores \subseteq Pids
  <2>1. p \notin Tenedores
    BY <1>1, <1>3, TenedoresDef DEF En
  <2>2. \A j \in Hilos : En(j, "CREAR_PROCESO", "guardar") => Pid(j) \in Pids
    BY <1>1, Operandos DEF En
  <2> QED
    BY <1>1, <2>1, <2>2, TenedoresDef
<1>6. \A q : q \in Tenedores' <=> q \in Tenedores \/ q = p
  <2> TAKE q
  <2>1. /\ ~Devuelta(k) /\ ~Devuelta(k)' /\ En(k, "CREAR_PROCESO", "guardar")' /\ Pid(k)' = p
        /\ ~En(k, "CREAR_PROCESO", "guardar")
    BY <1>1, <1>2 DEF Devuelta, En, Pid
  <2>2. \A j \in Hilos \ {k} : /\ Devuelta(j)' <=> Devuelta(j)
                               /\ En(j, "CREAR_PROCESO", "guardar")' <=> En(j, "CREAR_PROCESO", "guardar")
                               /\ Pid(j)' = Pid(j)
    BY <1>2 DEF Devuelta, En, Pid
  <2> QED
    BY <1>1, <2>1, <2>2, TenedoresDef, TenedoresDefP
<1>7. ASSUME ~carrera'
      PROVE  /\ b \in libres
             /\ \A j \in Hilos : j # k => ~En(j, "CREAR_PROCESO", "marcar")
  <2>1. ~carrera /\ ~EnCarrera
    BY <1>7
  <2>2. b \in libres
    BY <1>1, <2>1 DEF InvBloques
  <2>3. \A j \in Hilos : j # k => ~En(j, "CREAR_PROCESO", "marcar")
    BY <1>1, <2>1, CarreraParticiones DEF En
  <2> QED
    BY <2>2, <2>3
<1> HIDE DEF b, p
<1>8. BloqueConDuenio'
  <2> SUFFICES ASSUME ~carrera'
               PROVE  /\ \A q \in Tenedores' : base'[q] \in Bloques \ libres'
                      /\ \A q, r \in Tenedores' : base'[q] = base'[r] => q = r
                      /\ \A c \in Bloques \ libres' : \E q \in Tenedores' : base'[q] = c
    BY DEF BloqueConDuenio
  <2>1. /\ \A q \in Tenedores : base[q] \in Bloques \ libres
        /\ \A q, r \in Tenedores : base[q] = base[r] => q = r
        /\ \A c \in Bloques \ libres : \E q \in Tenedores : base[q] = c
    BY DEF InvBloques, BloqueConDuenio
  <2>2. \A q \in Tenedores : base'[q] = base[q] /\ base'[q] # b
    BY <1>4, <1>5, <1>7, <2>1
  <2>3. \A q \in Tenedores' : base'[q] \in Bloques \ libres'
    BY <1>1, <1>4, <1>6, <2>1, <2>2
  <2>4. \A q, r \in Tenedores' : base'[q] = base'[r] => q = r
    BY <1>4, <1>6, <2>1, <2>2
  <2>5. \A c \in Bloques \ libres' : \E q \in Tenedores' : base'[q] = c
    BY <1>1, <1>4, <1>6, <2>1, <2>2
  <2> QED
    BY <2>3, <2>4, <2>5
<1>9. ~carrera' => \A j \in Hilos : En(j, "CREAR_PROCESO", "marcar")' => peticion'[j].bloque \in libres'
  <2> SUFFICES ASSUME ~carrera', NEW j \in Hilos, En(j, "CREAR_PROCESO", "marcar")'
               PROVE  FALSE
    OBVIOUS
  <2>1. j # k /\ peticion'[j] = peticion[j]
    BY <1>2 DEF En
  <2> QED
    BY <1>7, <2>1 DEF En
<1> QED
  BY <1>8, <1>9 DEF InvBloques

LEMMA BloquesGuardarProceso ==
  ASSUME InvTipos, InvPedidos, InvBloques, NEW k \in Hilos, carrera' = (carrera \/ EnCarrera),
         GuardarProceso(k)
  PROVE  InvBloques'
<1>1. /\ En(k, "CREAR_PROCESO", "guardar") /\ UNCHANGED <<libres, base>>
      /\ procesos' = procesos \cup {Pid(k)} /\ Sigue(k, "fin") /\ TiposMemoria
  BY DEF GuardarProceso, InvTipos
<1>2. /\ \A j \in Hilos : j # k => peticion'[j] = peticion[j]
      /\ peticion'[k].op = "CREAR_PROCESO" /\ peticion'[k].pid = Pid(k)
      /\ peticion'[k].paso = "fin"
  BY <1>1, Partes, SigueCambia DEF Pasos, Pid, En
<1>3. \A j \in Hilos \ {k} : Pid(j) # Pid(k)
  BY <1>1 DEF InvPedidos, PidsNuevos, Ajeno, En
<1>4. \A q : q \in Tenedores' <=> q \in Tenedores
  <2> TAKE q
  <2>1. /\ ~Devuelta(k) /\ ~Devuelta(k)' /\ ~En(k, "CREAR_PROCESO", "guardar")'
    BY <1>1, <1>2 DEF Devuelta, En
  <2>2. \A j \in Hilos \ {k} : /\ Devuelta(j)' <=> Devuelta(j)
                               /\ En(j, "CREAR_PROCESO", "guardar")' <=> En(j, "CREAR_PROCESO", "guardar")
                               /\ Pid(j)' = Pid(j)
    BY <1>2 DEF Devuelta, En, Pid
  <2> QED
    BY <1>1, <1>3, <2>1, <2>2, TenedoresDef, TenedoresDefP
<1>5. Tenedores' = Tenedores /\ ~En(k, "CREAR_PROCESO", "marcar")'
  BY <1>2, <1>4 DEF En
<1> QED
  BY <1>1, <1>2, <1>5, BloquesQuietos

LEMMA BloquesQuitarProceso ==
  ASSUME InvTipos, InvPedidos, InvBloques, NEW k \in Hilos, carrera' = (carrera \/ EnCarrera),
         QuitarProceso(k)
  PROVE  InvBloques'
<1>1. /\ En(k, "FINALIZAR_PROCESO", "quitar") /\ UNCHANGED <<libres, base>>
      /\ procesos' = procesos \ {Pid(k)} /\ Contesta(k) /\ TiposMemoria
  BY DEF QuitarProceso, InvTipos
<1>2. /\ \A j \in Hilos : j # k => peticion'[j] = peticion[j]
      /\ peticion'[k] = Libre
  BY <1>1, Partes, ContestaCambia
<1>3. \A j \in Hilos : /\ Devuelta(j) => j = k
                       /\ En(j, "CREAR_PROCESO", "guardar") => Pid(j) # Pid(k)
  <2>1. k = Principal
    BY <1>1, Operandos DEF En
  <2>2. \A j \in Hilos : Devuelta(j) => j = Principal
    BY <1>1, Operandos DEF Devuelta
  <2>3. \A j \in Hilos : En(j, "CREAR_PROCESO", "guardar") => j # k /\ Ajeno(j)
    BY <1>1 DEF InvPedidos, PidsNuevos, En
  <2> QED
    BY <2>1, <2>2, <2>3 DEF Ajeno
<1>4. \A q : q \in Tenedores' <=> q \in Tenedores
  <2> TAKE q
  <2>1. /\ Devuelta(k) /\ ~Devuelta(k)' /\ ~En(k, "CREAR_PROCESO", "guardar")'
        /\ ~En(k, "CREAR_PROCESO", "guardar")
    BY <1>1, <1>2, LibreTipo DEF Devuelta, En
  <2>2. \A j \in Hilos \ {k} : /\ Devuelta(j)' <=> Devuelta(j)
                               /\ En(j, "CREAR_PROCESO", "guardar")' <=> En(j, "CREAR_PROCESO", "guardar")
                               /\ Pid(j)' = Pid(j)
    BY <1>2 DEF Devuelta, En, Pid
  <2> QED
    BY <1>1, <1>3, <2>1, <2>2, TenedoresDef, TenedoresDefP
<1>5. Tenedores' = Tenedores /\ ~En(k, "CREAR_PROCESO", "marcar")'
  BY <1>2, <1>4, LibreTipo DEF En
<1> QED
  BY <1>1, <1>2, <1>5, BloquesQuietos

LEMMA BloquesSoltar ==
  ASSUME InvTipos, InvPedidos, InvBloques, NEW k \in Hilos, carrera' = (carrera \/ EnCarrera),
         Soltar(k)
  PROVE  InvBloques'
<1> DEFINE p == Pid(k)
<1>1. /\ En(k, "FINALIZAR_PROCESO", "soltar") /\ UNCHANGED <<procesos, base>>
      /\ libres' = libres \cup {base[p]} /\ Sigue(k, "destruir") /\ TiposMemoria
  BY DEF Soltar, InvTipos
<1>2. /\ \A j \in Hilos : j # k => peticion'[j] = peticion[j]
      /\ peticion'[k].op = "FINALIZAR_PROCESO" /\ peticion'[k].pid = p
      /\ peticion'[k].paso = "destruir"
  BY <1>1, Partes, SigueCambia DEF Pasos, Pid, En
<1>3. p \in procesos /\ \A j \in Hilos : /\ Devuelta(j) => j = k
                                         /\ En(j, "CREAR_PROCESO", "guardar") => Pid(j) # p
  <2>1. k = Principal /\ p \in procesos
    BY <1>1, Operandos DEF En, InvPedidos, PidsPedidos
  <2>2. \A j \in Hilos : Devuelta(j) => j = Principal
    BY <1>1, Operandos DEF Devuelta
  <2>3. \A j \in Hilos : En(j, "CREAR_PROCESO", "guardar") => j # k /\ Ajeno(j)
    BY <1>1 DEF InvPedidos, PidsNuevos, En
  <2> QED
    BY <2>1, <2>2, <2>3 DEF Ajeno
<1>4. p \in Tenedores /\ \A q : q \in Tenedores' <=> q \in Tenedores /\ q # p
  <2>1. /\ ~Devuelta(k) /\ Devuelta(k)' /\ ~En(k, "CREAR_PROCESO", "guardar")'
        /\ ~En(k, "CREAR_PROCESO", "guardar") /\ Pid(k)' = p
    BY <1>1, <1>2 DEF Devuelta, En, Pid
  <2>2. \A j \in Hilos \ {k} : /\ Devuelta(j)' <=> Devuelta(j)
                               /\ En(j, "CREAR_PROCESO", "guardar")' <=> En(j, "CREAR_PROCESO", "guardar")
                               /\ Pid(j)' = Pid(j)
    BY <1>2 DEF Devuelta, En, Pid
  <2>3. p \in Tenedores
    BY <1>3, <2>1, TenedoresDef
  <2>4. ASSUME NEW q
        PROVE  q \in Tenedores' <=> q \in Tenedores /\ q # p
    BY <1>1, <1>3, <2>1, <2>2, TenedoresDef, TenedoresDefP
  <2> QED
    BY <2>3, <2>4
<1> HIDE DEF p
<1>5. BloqueConDuenio'
  <2> SUFFICES ASSUME ~carrera'
               PROVE  /\ \A q \in Tenedores' : base[q] \in Bloques \ libres'
                      /\ \A q, r \in Tenedores' : base[q] = base[r] => q = r
                      /\ \A c \in Bloques \ libres' : \E q \in Tenedores' : base[q] = c
    BY <1>1 DEF BloqueConDuenio
  <2>1. /\ \A q \in Tenedores : base[q] \in Bloques \ libres
        /\ \A q, r \in Tenedores : base[q] = base[r] => q = r
        /\ \A c \in Bloques \ libres : \E q \in Tenedores : base[q] = c
    BY DEF InvBloques, BloqueConDuenio
  <2> QED
    BY <1>1, <1>4, <2>1
<1>6. ~carrera' => \A j \in Hilos : En(j, "CREAR_PROCESO", "marcar")' => peticion'[j].bloque \in libres'
  <2> SUFFICES ASSUME ~carrera', NEW j \in Hilos, En(j, "CREAR_PROCESO", "marcar")'
               PROVE  FALSE
    OBVIOUS
  <2>1. j # k /\ En(j, "CREAR_PROCESO", "marcar")
    BY <1>2 DEF En
  <2>2. EnCarrera
    BY <1>1, <2>1, CarreraParticiones DEF En
  <2> QED
    BY <2>2
<1> QED
  BY <1>5, <1>6 DEF InvBloques

LEMMA BloquesSiguiente ==
  ASSUME InvTipos, InvPedidos, InvBloques, [Next]_vars
  PROVE  InvBloques'
<1>a. ASSUME UNCHANGED <<libres, base, procesos, peticion>>,
             carrera' = (carrera \/ EnCarrera)
      PROVE  InvBloques'
  <2>1. Tenedores' = Tenedores
    BY <1>a DEF Tenedores, Pid, En
  <2>2. ~carrera' /\ En(Principal, "CREAR_PROCESO", "marcar")' => peticion'[Principal].bloque \in libres
    BY <1>a, DosHilos DEF InvBloques, En
  <2> QED
    BY <1>a, <2>1, <2>2, DosHilos, BloquesQuietos
<1>1. CASE Next
  <2>1. carrera' = (carrera \/ EnCarrera)
    BY <1>1, Casos
  <2>2. CASE PedirAlgo
    BY <2>1, <2>2, BloquesPedir
  <2>3. ASSUME NEW k \in Hilos, manejar_peticion(k)
        PROVE  InvBloques'
    BY <2>1, <2>3, BloquesManejarQuietos, BloquesMarcar, BloquesGuardarProceso, BloquesSoltar,
       BloquesQuitarProceso DEF manejar_peticion
  <2>4. CASE UNCHANGED <<mem, kern>>
    BY <1>a, <2>1, <2>4 DEF mem, kern
  <2>5. CASE hilo_instrucciones_cpu /\ UNCHANGED kern
    <3>1. UNCHANGED <<libres, base, procesos, peticion>>
      BY <2>5 DEF hilo_instrucciones_cpu, Recibir, DarContexto, Actualizar, DarInstruccion,
                  UsarLiberado, mem, kern
    <3> QED
      BY <1>a, <2>1, <3>1
  <2> QED
    BY <1>1, <2>2, <2>3, <2>4, <2>5, Casos
<1>2. CASE UNCHANGED vars
  <2>1. UNCHANGED <<libres, base, procesos, peticion, carrera>>
    BY <1>2 DEF vars, mem, kern
  <2> QED
    BY <2>1 DEF InvBloques, BloqueConDuenio, Tenedores, Pid, En
<1> QED
  BY <1>1, <1>2

LEMMA BloquesInicial == Init => InvBloques
<1> SUFFICES ASSUME Init
             PROVE  InvBloques
  OBVIOUS
<1>1. \A k \in Hilos : ~En(k, "CREAR_PROCESO", "guardar") /\ ~En(k, "CREAR_PROCESO", "marcar")
  BY LibreTipo DEF Init, En
<1>2. Tenedores = {}
  BY <1>1 DEF Init, Tenedores
<1> QED
  BY <1>1, <1>2 DEF Init, InvBloques, BloqueConDuenio

\* While no two requests have collided, each occupied partition has one holder and
\* each holder its partition, in the middle of the requests too.
THEOREM BloquesConDuenio == Spec => []BloqueConDuenio
<1>1. Init => InvTipos /\ InvPedidos /\ InvBloques
  BY TiposInicial, PedidosInicial, BloquesInicial
<1>2. InvTipos /\ InvPedidos /\ InvBloques /\ [Next]_vars => (InvTipos /\ InvPedidos /\ InvBloques)'
  BY TiposSiguiente, PedidosSiguiente, BloquesSiguiente
<1>3. InvBloques => BloqueConDuenio
  BY DEF InvBloques
<1> QED
  BY <1>1, <1>2, <1>3, PTL DEF Spec

---------------------------------------------------------------------------
(* Nothing freed is used: InvVida *)

LEMMA EntradasIgual ==
  ASSUME TiposMemoria, Entradas, Conserva, UNCHANGED hilos, vaciado \subseteq vaciado',
         \A m \in 1 .. Len(memo) : memo'[m].estado = memo[m].estado,
         En(Principal, "FINALIZAR_HILO", "quitar") =>
           /\ En(Principal, "FINALIZAR_HILO", "quitar")'
           /\ peticion'[Principal].pid = peticion[Principal].pid
           /\ peticion'[Principal].tid = peticion[Principal].tid
  PROVE  Entradas'
<1> SUFFICES ASSUME NEW p \in Pids, NEW t \in Tids, hilos[p][t] # 0
             PROVE  /\ memo'[hilos[p][t]].pid = p /\ memo'[hilos[p][t]].tid = t
                    /\ memo'[hilos[p][t]].estado # "libre"
                    /\ \/ p \in vaciado'
                       \/ memo'[hilos[p][t]].estado = "sano"
                       \/ /\ En(Principal, "FINALIZAR_HILO", "quitar")'
                          /\ peticion'[Principal].pid = p /\ peticion'[Principal].tid = t
  BY DEF Entradas, Pid, Tid
<1>1. hilos[p][t] \in 1 .. Len(memo)
  <2>1. hilos[p][t] \in 0 .. Len(memo)
    BY Partes
  <2> QED
    BY <2>1, Partes
<1>2. /\ memo[hilos[p][t]].pid = p /\ memo[hilos[p][t]].tid = t
      /\ memo[hilos[p][t]].estado # "libre"
      /\ \/ p \in vaciado
         \/ memo[hilos[p][t]].estado = "sano"
         \/ /\ En(Principal, "FINALIZAR_HILO", "quitar")
            /\ peticion[Principal].pid = p /\ peticion[Principal].tid = t
  BY DEF Entradas, Pid, Tid
<1> QED
  BY <1>1, <1>2 DEF Conserva

LEMMA VaciadosIgual ==
  ASSUME Vaciados, Conserva, UNCHANGED vaciado, procesos' \subseteq procesos,
         \/ /\ peticion'[Principal] = peticion[Principal]
            /\ peticion[Principal].op = "FINALIZAR_HILO" =>
                 hilos'[Pid(Principal)][Tid(Principal)] = hilos[Pid(Principal)][Tid(Principal)]
         \/ /\ ~En(Principal, "FINALIZAR_PROCESO", "quitar")
            /\ ~ (peticion'[Principal].op = "FINALIZAR_HILO" /\ peticion'[Principal].paso # "get")
  PROVE  Vaciados'
<1>1. \A p \in vaciado : \E m \in DOMAIN memo' : memo'[m].pid = p
  <2> SUFFICES ASSUME NEW p \in vaciado
               PROVE  \E m \in DOMAIN memo' : memo'[m].pid = p
    OBVIOUS
  <2>1. PICK m \in DOMAIN memo : memo[m].pid = p
    BY DEF Vaciados
  <2>2. m \in DOMAIN memo' /\ memo'[m].pid = p
    BY <2>1 DEF Conserva
  <2> QED
    BY <2>2
<1>2. \A p \in vaciado \cap procesos' :
        En(Principal, "FINALIZAR_PROCESO", "quitar")' /\ peticion'[Principal].pid = p
  BY DEF Vaciados, En, Pid
<1>3. peticion'[Principal].op = "FINALIZAR_HILO" /\ peticion'[Principal].paso # "get" =>
        /\ peticion'[Principal].obj = hilos'[peticion'[Principal].pid][peticion'[Principal].tid]
        /\ peticion'[Principal].obj # 0
  BY DEF Vaciados, En, Pid, Tid
<1> QED
  BY <1>1, <1>2, <1>3 DEF Vaciados, Pid, Tid

\* The hilos with a TCB, and what the CPU and the thread that serves it are at, stay;
\* the thread that dispatches does not start to end a hilo.
LEMMA ATiempoIgual ==
  ASSUME InvTipos, ATiempo, Conserva, UNCHANGED <<cpu, cola, servidor, tarde>>,
         ~tarde => /\ tcbs' = tcbs
                   /\ servidor.op # "ninguna" => memo'[servidor.obj].estado = memo[servidor.obj].estado
                   /\ \A n \in tcbs : hilos'[memo[n].pid][memo[n].tid] # 0,
         peticion'[Principal].op = "FINALIZAR_HILO" =>
           /\ procesos \subseteq procesos'
           /\ peticion'[Principal].op = peticion[Principal].op
           /\ peticion'[Principal].pid = peticion[Principal].pid
           /\ peticion'[Principal].tid = peticion[Principal].tid
  PROVE  ATiempo'
<1> SUFFICES ASSUME ~tarde
             PROVE  /\ cpu.espera # "ociosa" => cpu.tcb \in tcbs
                    /\ \A i \in DOMAIN cola : cola[i].tcb \in tcbs
                    /\ servidor.op # "ninguna" =>
                         /\ memo'[servidor.obj].estado = "sano"
                         /\ \E n \in tcbs : /\ memo'[n].pid = memo'[servidor.obj].pid
                                            /\ memo'[n].tid = memo'[servidor.obj].tid
                    /\ \A n \in tcbs : hilos'[memo'[n].pid][memo'[n].tid] # 0
                    /\ peticion'[Principal].op = "FINALIZAR_HILO" =>
                         /\ peticion'[Principal].pid \in procesos'
                         /\ \A n \in tcbs : \/ memo'[n].pid # peticion'[Principal].pid
                                            \/ memo'[n].tid # peticion'[Principal].tid
  BY DEF ATiempo, Pid, Tid
<1>1. \A n \in tcbs : /\ n \in 1 .. Len(memo)
                      /\ memo'[n].pid = memo[n].pid /\ memo'[n].tid = memo[n].tid
  BY DEF InvTipos, TiposMemoria, Conserva
<1>2. servidor.op # "ninguna" => /\ memo'[servidor.obj].pid = memo[servidor.obj].pid
                                 /\ memo'[servidor.obj].tid = memo[servidor.obj].tid
  BY CpuPartes DEF Conserva
<1> QED
  BY <1>1, <1>2 DEF ATiempo, Pid, Tid

\* In time, what is served is a hilo with a TCB and with contents.
LEMMA ServidorVive ==
  ASSUME InvTipos, ATiempo, ~tarde, servidor.op # "ninguna"
  PROVE  /\ servidor.obj \in 1 .. Len(memo) /\ memo[servidor.obj].estado = "sano"
         /\ \E n \in tcbs : /\ memo[n].pid = memo[servidor.obj].pid
                            /\ memo[n].tid = memo[servidor.obj].tid
BY CpuPartes DEF ATiempo

\* A process in the dictionary whose contents are freed is being taken out.
LEMMA SinVaciar ==
  ASSUME Vaciados, NEW p \in procesos,
         ~En(Principal, "FINALIZAR_PROCESO", "quitar") \/ Pid(Principal) # p
  PROVE  p \notin vaciado
BY DEF Vaciados

\* A step of a request that changes neither memo nor the dictionaries, and that is
\* not at the points where the others look.
LEMMA VidaQuieta ==
  ASSUME InvTipos, InvVida, Conserva, NEW k \in Hilos, UNCHANGED <<memo, hilos, vaciado, procesos, tcbs>>,
         UNCHANGED <<cpu, servidor, cola, tarde, memoria>>,
         \A j \in Hilos : j # k => peticion'[j] = peticion[j],
         ~En(k, "FINALIZAR_PROCESO", "quitar"), ~En(k, "FINALIZAR_HILO", "quitar"),
         ~ (peticion'[k].op = "FINALIZAR_HILO" /\ peticion'[k].paso # "get"),
         k = Principal /\ peticion'[k].op = "FINALIZAR_HILO" =>
           /\ peticion'[k].op = peticion[k].op /\ peticion'[k].pid = peticion[k].pid
           /\ peticion'[k].tid = peticion[k].tid
  PROVE  InvVida'
<1>a. k = Principal \/ peticion'[Principal] = peticion[Principal]
  BY DosHilos
<1>b. \A m \in 1 .. Len(memo) : memo'[m].estado = memo[m].estado
  OBVIOUS
<1>1. Entradas'
  BY <1>a, <1>b, EntradasIgual DEF InvVida, InvTipos, En
<1>2. Vaciados'
  BY <1>a, VaciadosIgual DEF InvVida
<1>4. ATiempo'
  <2>1. ~tarde => \A n \in tcbs : hilos'[memo[n].pid][memo[n].tid] # 0
    BY DEF InvVida, ATiempo
  <2> QED
    BY <1>a, <2>1, ATiempoIgual DEF InvVida
<1> QED
  BY <1>1, <1>2, <1>4 DEF InvVida, SinColgar

\* The Kernel asks for the end of a hilo or of a process: what is under way counts.
LEMMA VidaPedirFin ==
  ASSUME InvTipos, InvPedidos, InvVida, Conserva, UNCHANGED <<memo, hilos, vaciado, procesos>>,
         UNCHANGED <<cpu, servidor, cola, memoria>>, memoria = "viva", Ociosa(Principal),
         NEW n \in DOMAIN memo, NEW S, tcbs' \subseteq tcbs, tcbs \ S \subseteq tcbs',
         \A m, l \in DOMAIN memo :
           m \in S /\ memo[l].pid = memo[m].pid /\ memo[l].tid = memo[m].tid => l \in S,
         ~tarde' => ~tarde /\ ~EnCamino(S) /\ n \in tcbs,
         \/ Pedir(Principal, "FINALIZAR_PROCESO", memo[n].pid, Nada, "get")
         \/ /\ Pedir(Principal, "FINALIZAR_HILO", memo[n].pid, memo[n].tid, "get")
            /\ ~tarde' => \A m \in tcbs' : memo[m].pid # memo[n].pid \/ memo[m].tid # memo[n].tid
  PROVE  InvVida'
<1>a. /\ peticion[Principal] = Libre /\ cpu.espera = "ociosa"
      /\ peticion \in [Hilos -> Peticion] /\ memo[n].pid \in Pids /\ memo[n].tid \in Tids
      /\ DOMAIN memo = 1 .. Len(memo) /\ tcbs \subseteq DOMAIN memo
  BY MemoTipos DEF Ociosa, InvTipos, TiposMemoria
<1>b. /\ peticion'[Principal].pid = memo[n].pid /\ peticion'[Principal].paso = "get"
      /\ peticion'[Principal].op = "FINALIZAR_HILO" =>
           /\ peticion'[Principal].tid = memo[n].tid
           /\ ~tarde' => \A m \in tcbs' : memo[m].pid # memo[n].pid \/ memo[m].tid # memo[n].tid
  BY <1>a, PedirCambia, DosHilos DEF Operaciones, Pasos
<1>c. \A m \in 1 .. Len(memo) : memo'[m].estado = memo[m].estado
  OBVIOUS
<1>1. Entradas'
  BY <1>a, <1>c, LibreTipo, EntradasIgual DEF InvVida, InvTipos, En
<1>2. Vaciados'
  BY <1>a, <1>b, LibreTipo, VaciadosIgual DEF InvVida, En
<1>4. ATiempo'
  <2> SUFFICES ASSUME ~tarde'
               PROVE  ATiempo'
    BY DEF ATiempo
  <2>1. ~tarde /\ ~EnCamino(S) /\ n \in tcbs
    OBVIOUS
  <2>2. \A i \in DOMAIN cola : cola[i].tcb \in tcbs'
    BY <2>1 DEF EnCamino, InvVida, ATiempo
  <2>3. servidor.op # "ninguna" =>
          /\ memo[servidor.obj].estado = "sano"
          /\ \E m \in tcbs' : /\ memo[m].pid = memo[servidor.obj].pid
                              /\ memo[m].tid = memo[servidor.obj].tid
    <3> SUFFICES ASSUME servidor.op # "ninguna"
                 PROVE  \E m \in tcbs' : /\ memo[m].pid = memo[servidor.obj].pid
                                         /\ memo[m].tid = memo[servidor.obj].tid
      BY <2>1 DEF InvVida, ATiempo
    <3>1. servidor.obj \in DOMAIN memo /\ servidor.obj \notin S
      BY <1>a, <2>1, CpuPartes DEF EnCamino
    <3>2. PICK m \in tcbs : memo[m].pid = memo[servidor.obj].pid /\ memo[m].tid = memo[servidor.obj].tid
      BY <2>1, ServidorVive DEF InvVida
    <3>3. m \notin S
      BY <1>a, <3>1, <3>2
    <3> QED
      BY <3>2, <3>3
  <2>4. memo[n].pid \in procesos
    BY <2>1 DEF InvPedidos, Presentes
  <2>5. \A m \in tcbs' : hilos[memo[m].pid][memo[m].tid] # 0
    BY <2>1 DEF InvVida, ATiempo
  <2> QED
    BY <1>a, <1>b, <2>2, <2>3, <2>4, <2>5 DEF ATiempo, Pid, Tid
<1> QED
  BY <1>1, <1>2, <1>4 DEF InvVida, SinColgar

\* The Kernel asks for a process or a hilo: nothing that InvVida looks at changes
\* but what the thread that dispatches is at.
LEMMA VidaPedirCrear ==
  ASSUME InvTipos, InvVida, Conserva, NEW k \in Hilos, UNCHANGED <<memo, hilos, vaciado, procesos, tcbs>>,
         UNCHANGED <<cpu, servidor, cola, tarde, memoria>>,
         \A j \in Hilos : j # k => peticion'[j] = peticion[j],
         peticion[k].op \in {"ninguna", "CREAR_PROCESO"},
         peticion'[k].op \in {"CREAR_PROCESO", "CREAR_HILO"}
  PROVE  InvVida'
<1>a. k = Principal \/ peticion'[Principal] = peticion[Principal]
  BY DosHilos
<1>b. \A m \in 1 .. Len(memo) : memo'[m].estado = memo[m].estado
  OBVIOUS
<1>1. Entradas'
  BY <1>a, <1>b, EntradasIgual DEF InvVida, InvTipos, En
<1>2. Vaciados'
  BY <1>a, VaciadosIgual DEF InvVida, En
<1>4. ATiempo'
  <2>1. ~tarde => \A n \in tcbs : hilos'[memo[n].pid][memo[n].tid] # 0
    BY DEF InvVida, ATiempo
  <2> QED
    BY <1>a, <2>1, ATiempoIgual DEF InvVida
<1> QED
  BY <1>1, <1>2, <1>4 DEF InvVida, SinColgar

LEMMA VidaPedir ==
  ASSUME InvTipos, InvPedidos, InvVida, Conserva, memoria = "viva", PedirAlgo,
         UNCHANGED <<memoria, mem, servidor, red, proc>>
  PROVE  InvVida'
<1>a. /\ UNCHANGED <<memo, hilos, vaciado, procesos>> /\ UNCHANGED <<cpu, servidor, cola, memoria>>
      /\ peticion \in [Hilos -> Peticion] /\ nuevos \subseteq Pids /\ TiposMemoria
      /\ tcbs \subseteq DOMAIN memo
      /\ \A n \in DOMAIN memo : memo[n].pid \in Pids /\ memo[n].tid \in Tids
  BY MemoTipos DEF mem, proc, InvTipos, TiposMemoria
<1>1. ASSUME NEW k \in Hilos, PedirProceso(k)
      PROVE  InvVida'
  <2>1. PICK p \in nuevos : Pedir(k, "CREAR_PROCESO", p, Nada, "buscar")
    BY <1>1 DEF PedirProceso
  <2>2. /\ \A j \in Hilos : j # k => peticion'[j] = peticion[j]
        /\ peticion'[k].op = "CREAR_PROCESO"
    BY <1>a, <2>1, PedirCambia DEF Operaciones, Pasos
  <2>3. UNCHANGED <<tcbs, tarde>> /\ peticion[k].op = "ninguna"
    BY <1>1, LibreTipo DEF PedirProceso, Ociosa
  <2> QED
    BY <1>a, <2>2, <2>3, VidaPedirCrear
<1>2. ASSUME NEW k \in Hilos, PedirHiloCero(k)
      PROVE  InvVida'
  <2>1. PICK t \in Tids : Pedir(k, "CREAR_HILO", Pid(k), t, "get")
    BY <1>2 DEF PedirHiloCero, Pid
  <2>2. /\ UNCHANGED <<tcbs, tarde>> /\ peticion[k].op = "CREAR_PROCESO" /\ Pid(k) \in Pids
    BY <1>2, <1>a, Operandos DEF PedirHiloCero
  <2>3. /\ \A j \in Hilos : j # k => peticion'[j] = peticion[j]
        /\ peticion'[k].op = "CREAR_HILO"
    BY <1>a, <2>1, <2>2, PedirCambia DEF Operaciones, Pasos
  <2> QED
    BY <1>a, <2>2, <2>3, VidaPedirCrear
<1>3. ASSUME NEW n \in DOMAIN memo, PedirHilo(n)
      PROVE  InvVida'
  <2>1. PICK t \in Tids : Pedir(Principal, "CREAR_HILO", memo[n].pid, t, "get")
    BY <1>3 DEF PedirHilo
  <2>2. /\ \A j \in Hilos : j # Principal => peticion'[j] = peticion[j]
        /\ peticion'[Principal].op = "CREAR_HILO"
    BY <1>a, <2>1, PedirCambia, DosHilos DEF Operaciones, Pasos
  <2>3. UNCHANGED <<tcbs, tarde>> /\ peticion[Principal].op = "ninguna"
    BY <1>3, LibreTipo DEF PedirHilo, Ociosa
  <2> QED
    BY <1>a, <2>2, <2>3, DosHilos, VidaPedirCrear
<1>4. ASSUME NEW n \in DOMAIN memo, PedirFinHilo(n), tarde \/ n \in tcbs
      PROVE  InvVida'
  <2> DEFINE S == Gemelos(n)
  <2>2. /\ Ociosa(Principal) /\ tcbs' = tcbs \ {n}
        /\ tarde' = (tarde \/ EnCamino(S) \/ \E m \in S \ {n} : m \in tcbs)
        /\ Pedir(Principal, "FINALIZAR_HILO", memo[n].pid, memo[n].tid, "get")
    BY <1>4 DEF PedirFinHilo
  <2>3. /\ n \in S
        /\ \A m \in DOMAIN memo : memo[m].pid = memo[n].pid /\ memo[m].tid = memo[n].tid => m \in S
        /\ \A m, l \in DOMAIN memo :
             m \in S /\ memo[l].pid = memo[m].pid /\ memo[l].tid = memo[m].tid => l \in S
    BY DEF Gemelos
  <2>4. tarde \in BOOLEAN
    BY DEF InvTipos, TiposCpu
  <2> HIDE DEF S
  <2>5. tcbs' \subseteq tcbs /\ tcbs \ S \subseteq tcbs'
    BY <2>2, <2>3
  <2>6. ~tarde' => ~tarde /\ ~EnCamino(S) /\ n \in tcbs
    BY <1>4, <2>2
  <2>7. ~tarde' => \A m \in tcbs' : memo[m].pid # memo[n].pid \/ memo[m].tid # memo[n].tid
    BY <1>a, <2>2, <2>3
  <2> QED
    BY <1>a, <2>2, <2>3, <2>5, <2>6, <2>7, VidaPedirFin
<1>5. ASSUME NEW n \in DOMAIN memo, PedirFinProceso(n), tarde \/ n \in tcbs
      PROVE  InvVida'
  <2> DEFINE S == {m \in DOMAIN memo : memo[m].pid = memo[n].pid}
  <2>2. /\ Ociosa(Principal) /\ tarde' = (tarde \/ EnCamino(S)) /\ tcbs' = tcbs \ S
        /\ Pedir(Principal, "FINALIZAR_PROCESO", memo[n].pid, Nada, "get")
    BY <1>5 DEF PedirFinProceso
  <2>3. \A m, l \in DOMAIN memo :
          m \in S /\ memo[l].pid = memo[m].pid /\ memo[l].tid = memo[m].tid => l \in S
    OBVIOUS
  <2> HIDE DEF S
  <2>5. tcbs' \subseteq tcbs /\ tcbs \ S \subseteq tcbs'
    BY <2>2
  <2>6. ~tarde' => ~tarde /\ ~EnCamino(S) /\ n \in tcbs
    BY <1>5, <2>2
  <2> QED
    BY <1>a, <2>2, <2>3, <2>5, <2>6, VidaPedirFin
<1>6. \A n : n \in (IF tarde THEN DOMAIN memo ELSE tcbs) => n \in DOMAIN memo /\ (tarde \/ n \in tcbs)
  BY <1>a
<1> QED
  BY <1>1, <1>2, <1>3, <1>4, <1>5, <1>6 DEF PedirAlgo

LEMMA VidaResto ==
  ASSUME InvTipos, InvVida, Conserva, NEW k \in Hilos, UNCHANGED <<servidor, red, nuevos, proc, tarde>>,
         \/ Buscar(k) \/ Marcar(k) \/ BuscarProceso(k) \/ TomarProceso(k) \/ Soltar(k)
  PROVE  InvVida'
<1>1. /\ UNCHANGED <<memo, hilos, vaciado, procesos, tcbs>>
      /\ UNCHANGED <<cpu, servidor, cola, tarde, memoria>>
      /\ TiposMemoria /\ peticion \in [Hilos -> Peticion]
  BY DEF Buscar, Marcar, BuscarProceso, TomarProceso, Soltar, mem, proc, InvTipos, TiposMemoria
<1>2. CASE Buscar(k)
  <2>1. peticion[k].op = "CREAR_PROCESO"
    BY <1>2 DEF Buscar, En
  <2>2. \/ Contesta(k)
        \/ \E b \in Bloques : peticion' = [peticion EXCEPT ![k].paso = "marcar", ![k].bloque = b]
    BY <1>1, <1>2, Partes DEF Buscar
  <2>3. /\ \A j \in Hilos : j # k => peticion'[j] = peticion[j]
        /\ peticion'[k].op \in {"ninguna", "CREAR_PROCESO"}
    BY <1>1, <2>1, <2>2, LibreTipo, ContestaCambia, BuscarCambia
  <2> QED
    BY <1>1, <2>1, <2>3, LibreTipo, VidaQuieta DEF En
<1>3. CASE Marcar(k) \/ BuscarProceso(k)
  <2>1. /\ peticion[k].op \in {"CREAR_PROCESO", "CREAR_HILO"}
        /\ Contesta(k) \/ Sigue(k, "guardar")
    BY <1>3 DEF Marcar, BuscarProceso, En
  <2>2. /\ \A j \in Hilos : j # k => peticion'[j] = peticion[j]
        /\ peticion'[k].op \in {"ninguna", "CREAR_PROCESO", "CREAR_HILO"}
    BY <1>1, <2>1, LibreTipo, ContestaCambia, SigueCambia DEF Pasos
  <2> QED
    BY <1>1, <2>1, <2>2, LibreTipo, VidaQuieta DEF En
<1>4. CASE TomarProceso(k) \/ Soltar(k)
  <2>1. /\ peticion[k].op = "FINALIZAR_PROCESO" /\ peticion[k].paso \in {"get", "soltar"}
        /\ Contesta(k) \/ Sigue(k, "soltar") \/ Sigue(k, "destruir")
    BY <1>4 DEF TomarProceso, Soltar, En
  <2>2. /\ \A j \in Hilos : j # k => peticion'[j] = peticion[j]
        /\ \/ peticion'[k].op = "ninguna"
           \/ /\ peticion'[k].op = "FINALIZAR_PROCESO" /\ peticion'[k].pid = peticion[k].pid
              /\ peticion'[k].tid = peticion[k].tid
    BY <1>1, <2>1, LibreTipo, ContestaCambia, SigueCambia DEF Pasos
  <2> QED
    BY <1>1, <2>1, <2>2, LibreTipo, VidaQuieta DEF En
<1> QED
  BY <1>2, <1>3, <1>4

LEMMA VidaGuardarProceso ==
  ASSUME InvTipos, InvPedidos, InvVida, Conserva, NEW k \in Hilos,
         UNCHANGED <<servidor, red, nuevos, proc, tarde>>, GuardarProceso(k)
  PROVE  InvVida'
<1>1. /\ UNCHANGED <<memo, hilos, vaciado, tcbs>> /\ UNCHANGED <<cpu, servidor, cola, tarde, memoria>>
      /\ procesos' = procesos \cup {Pid(k)} /\ TiposMemoria /\ Sigue(k, "fin")
      /\ peticion[k].op = "CREAR_PROCESO" /\ peticion \in [Hilos -> Peticion]
  BY DEF GuardarProceso, proc, InvTipos, TiposMemoria, En
<1>2. /\ \A j \in Hilos : j # k => peticion'[j] = peticion[j]
      /\ peticion'[k].op = "CREAR_PROCESO"
  BY <1>1, SigueCambia DEF Pasos
<1>3. Pid(k) \notin vaciado
  BY <1>1 DEF InvPedidos, PidsNuevos, Ajeno, InvVida, Vaciados
<1>a. k = Principal \/ peticion'[Principal] = peticion[Principal]
  BY <1>2, DosHilos
<1>b. \A m \in 1 .. Len(memo) : memo'[m].estado = memo[m].estado
  BY <1>1
<1>4. Entradas'
  BY <1>a, <1>b, <1>1, EntradasIgual DEF InvVida, En
<1>5. Vaciados'
  <2>1. vaciado \cap procesos' = vaciado \cap procesos
    BY <1>1, <1>3
  <2> QED
    BY <1>a, <1>1, <1>2, <2>1 DEF InvVida, Vaciados, En, Pid, Tid
<1>7. ATiempo'
  <2>1. ~tarde => \A n \in tcbs : hilos'[memo[n].pid][memo[n].tid] # 0
    BY <1>1 DEF InvVida, ATiempo
  <2>2. procesos \subseteq procesos'
    BY <1>1
  <2>3. peticion'[Principal].op = "FINALIZAR_HILO" => peticion'[Principal] = peticion[Principal]
    BY <1>a, <1>2
  <2> QED
    BY <1>1, <2>1, <2>2, <2>3, ATiempoIgual DEF InvVida
<1> QED
  BY <1>1, <1>4, <1>5, <1>7 DEF InvVida, SinColgar

LEMMA VidaQuitarProceso ==
  ASSUME InvTipos, InvPedidos, InvVida, Conserva, NEW k \in Hilos,
         UNCHANGED <<servidor, red, nuevos, proc, tarde>>, QuitarProceso(k)
  PROVE  InvVida'
<1>1. /\ UNCHANGED <<memo, hilos, vaciado, tcbs>> /\ UNCHANGED <<cpu, servidor, cola, tarde, memoria>>
      /\ procesos' = procesos \ {Pid(k)} /\ TiposMemoria /\ Contesta(k)
      /\ peticion[k].op = "FINALIZAR_PROCESO" /\ peticion \in [Hilos -> Peticion]
  BY DEF QuitarProceso, proc, InvTipos, TiposMemoria, En
<1>2. k = Principal /\ peticion'[k] = Libre
  BY <1>1, Operandos, ContestaCambia
<1>b. \A m \in 1 .. Len(memo) : memo'[m].estado = memo[m].estado
  BY <1>1
<1>4. Entradas'
  BY <1>b, <1>1, <1>2, EntradasIgual DEF InvVida, En
<1>5. Vaciados'
  <2>1. vaciado \cap procesos' = {}
    BY <1>1, <1>2 DEF InvVida, Vaciados
  <2> QED
    BY <1>1, <1>2, <2>1, LibreTipo DEF InvVida, Vaciados
<1>7. ATiempo'
  <2>1. ~tarde => \A n \in tcbs : hilos'[memo[n].pid][memo[n].tid] # 0
    BY <1>1 DEF InvVida, ATiempo
  <2> QED
    BY <1>1, <1>2, <2>1, LibreTipo, ATiempoIgual DEF InvVida
<1> QED
  BY <1>1, <1>4, <1>5, <1>7 DEF InvVida, SinColgar

LEMMA VidaTomarHilo ==
  ASSUME InvTipos, InvPedidos, InvVida, Conserva, NEW k \in Hilos, memoria = "viva",
         UNCHANGED <<servidor, red, nuevos, proc, tarde>>, TomarHilo(k)
  PROVE  InvVida'
<1>1. /\ UNCHANGED <<memo, hilos, vaciado, procesos, tcbs>> /\ UNCHANGED <<cpu, servidor, cola, tarde>>
      /\ TiposMemoria /\ peticion[k].op = "FINALIZAR_HILO" /\ peticion[k].paso = "get"
  BY DEF TomarHilo, mem, proc, InvTipos, En
<1>2. /\ k = Principal
      /\ \/ peticion'[k] = Libre
         \/ /\ peticion'[k].op = peticion[k].op /\ peticion'[k].pid = peticion[k].pid
            /\ peticion'[k].tid = peticion[k].tid /\ peticion'[k].paso = "liberar"
            /\ peticion'[k].obj = hilos[Pid(k)][Tid(k)] /\ peticion'[k].obj # 0
  BY <1>1, Operandos, TomarCambia
<1>3. memoria' # "viva" => tarde
  <2> SUFFICES ASSUME ~tarde
               PROVE  memoria' = "viva"
    OBVIOUS
  <2>1. Pid(k) \in procesos
    BY <1>1, <1>2 DEF InvVida, ATiempo
  <2>2. Pid(k) \notin vaciado
    BY <1>1, <1>2, <2>1, SinVaciar DEF InvVida, En
  <2> QED
    BY <2>1, <2>2 DEF TomarHilo, Requiere, SinProceso
<1>b. \A m \in 1 .. Len(memo) : memo'[m].estado = memo[m].estado
  BY <1>1
<1>4. Entradas'
  BY <1>b, <1>1, <1>2, EntradasIgual DEF InvVida, En
<1>5. Vaciados'
  BY <1>1, <1>2, LibreTipo DEF InvVida, Vaciados, En, Pid, Tid
<1>7. ATiempo'
  <2>1. ~tarde => \A n \in tcbs : hilos'[memo[n].pid][memo[n].tid] # 0
    BY <1>1 DEF InvVida, ATiempo
  <2> QED
    BY <1>1, <1>2, <2>1, LibreTipo, ATiempoIgual DEF InvVida
<1> QED
  BY <1>1, <1>3, <1>4, <1>5, <1>7 DEF InvVida, SinColgar

\* The t_hilo that finalizar_hilo is freeing.
LEMMA ObjDe ==
  ASSUME InvTipos, InvPedidos, InvVida, NEW k \in Hilos,
         peticion[k].op = "FINALIZAR_HILO", peticion[k].paso # "get"
  PROVE  /\ k = Principal /\ Pid(k) \in Pids /\ Tid(k) \in Tids
         /\ ~tarde => Pid(k) \in procesos /\ Pid(k) \notin vaciado
         /\ peticion[k].obj = hilos[Pid(k)][Tid(k)] /\ peticion[k].obj \in 1 .. Len(memo)
         /\ memo[peticion[k].obj].pid = Pid(k) /\ memo[peticion[k].obj].tid = Tid(k)
         /\ ~tarde /\ peticion[k].paso # "quitar" => memo[peticion[k].obj].estado = "sano"
<1>1. k = Principal /\ Pid(k) \in Pids /\ Tid(k) \in Tids /\ TiposMemoria
  BY Operandos DEF InvTipos
<1>2. peticion[k].obj = hilos[Pid(k)][Tid(k)] /\ peticion[k].obj # 0
  BY <1>1 DEF InvVida, Vaciados
<1>3. hilos[Pid(k)][Tid(k)] \in 0 .. Len(memo) /\ Len(memo) \in Nat
  BY <1>1, Partes
<1>4. peticion[k].obj \in 1 .. Len(memo)
  BY <1>2, <1>3
<1>5. ~tarde => Pid(k) \in procesos
  BY <1>1 DEF InvVida, ATiempo
<1>6. ~tarde => Pid(k) \notin vaciado
  BY <1>1, <1>5, SinVaciar DEF InvVida, En
<1>7. /\ memo[peticion[k].obj].pid = Pid(k) /\ memo[peticion[k].obj].tid = Tid(k)
      /\ ~tarde /\ peticion[k].paso # "quitar" => memo[peticion[k].obj].estado = "sano"
  BY <1>1, <1>2, <1>6 DEF InvVida, Entradas, En
<1> QED
  BY <1>1, <1>2, <1>4, <1>5, <1>6, <1>7

LEMMA VidaLiberarHilo ==
  ASSUME InvTipos, InvPedidos, InvVida, Conserva, NEW k \in Hilos, memoria = "viva",
         UNCHANGED <<servidor, red, nuevos, proc, tarde>>, LiberarHilo(k)
  PROVE  InvVida'
<1> DEFINE n == peticion[k].obj
<1>1. /\ UNCHANGED <<hilos, vaciado, procesos, tcbs>> /\ UNCHANGED <<cpu, servidor, cola, tarde>>
      /\ TiposMemoria /\ peticion[k].op = "FINALIZAR_HILO" /\ peticion[k].paso = "liberar"
      /\ memo' = [memo EXCEPT ![n].estado = "vacio"] /\ Sigue(k, "quitar")
      /\ peticion \in [Hilos -> Peticion]
  BY DEF LiberarHilo, proc, InvTipos, TiposMemoria, En
<1>2. /\ k = Principal /\ Pid(k) \in Pids /\ Tid(k) \in Tids
      /\ n = hilos[Pid(k)][Tid(k)] /\ n \in 1 .. Len(memo)
      /\ memo[n].pid = Pid(k) /\ memo[n].tid = Tid(k) /\ (~tarde => memo[n].estado = "sano")
  BY <1>1, ObjDe
<1>3. memoria' # "viva" => tarde
  BY <1>2 DEF LiberarHilo, Requiere
<1>4. /\ peticion'[k].op = "FINALIZAR_HILO" /\ peticion'[k].pid = Pid(k) /\ peticion'[k].tid = Tid(k)
      /\ peticion'[k].paso = "quitar" /\ peticion'[k].obj = n
  BY <1>1, SigueCambia DEF Pasos, Pid, Tid
<1>5. \A m \in 1 .. Len(memo) :
        /\ memo'[m].pid = memo[m].pid /\ memo'[m].tid = memo[m].tid
        /\ memo'[m].estado = IF m = n THEN "vacio" ELSE memo[m].estado
  BY <1>1, MemoEstado
<1> HIDE DEF n
<1>6. Entradas'
  <2> SUFFICES ASSUME NEW p \in Pids, NEW t \in Tids, hilos[p][t] # 0
               PROVE  /\ memo'[hilos[p][t]].pid = p /\ memo'[hilos[p][t]].tid = t
                      /\ memo'[hilos[p][t]].estado # "libre"
                      /\ \/ p \in vaciado
                         \/ memo'[hilos[p][t]].estado = "sano"
                         \/ /\ En(Principal, "FINALIZAR_HILO", "quitar")'
                            /\ peticion'[Principal].pid = p /\ peticion'[Principal].tid = t
    BY <1>1 DEF Entradas, Pid, Tid
  <2>1. hilos[p][t] \in 1 .. Len(memo)
    <3>1. hilos[p][t] \in 0 .. Len(memo) /\ Len(memo) \in Nat
      BY <1>1, Partes
    <3> QED
      BY <3>1
  <2>2. /\ memo[hilos[p][t]].pid = p /\ memo[hilos[p][t]].tid = t
        /\ memo[hilos[p][t]].estado # "libre"
        /\ p \in vaciado \/ memo[hilos[p][t]].estado = "sano"
    BY <1>1, <1>2 DEF InvVida, Entradas, En
  <2>3. CASE hilos[p][t] = n
    <3>1. p = Pid(k) /\ t = Tid(k)
      BY <1>2, <2>2, <2>3
    <3> QED
      BY <1>2, <1>4, <1>5, <2>1, <2>3, <3>1 DEF En
  <2>4. CASE hilos[p][t] # n
    BY <1>5, <2>1, <2>2, <2>4
  <2> QED
    BY <2>3, <2>4
<1>7. Vaciados'
  <2>1. \A p \in vaciado : \E m \in DOMAIN memo' : memo'[m].pid = p
    <3> SUFFICES ASSUME NEW p \in vaciado
                 PROVE  \E m \in DOMAIN memo' : memo'[m].pid = p
      OBVIOUS
    <3>1. PICK m \in DOMAIN memo : memo[m].pid = p
      BY DEF InvVida, Vaciados
    <3>2. m \in DOMAIN memo' /\ memo'[m].pid = p
      BY <3>1 DEF Conserva
    <3> QED
      BY <3>2
  <2>2. vaciado \cap procesos = {}
    BY <1>1, <1>2 DEF InvVida, Vaciados, En
  <2>3. n # 0
    BY <1>2
  <2> QED
    BY <1>1, <1>2, <1>4, <2>1, <2>2, <2>3 DEF Vaciados, Pid, Tid
<1>9. ATiempo'
  <2>1. ~tarde => /\ servidor.op # "ninguna" => memo'[servidor.obj].estado = memo[servidor.obj].estado
                  /\ \A m \in tcbs : hilos'[memo[m].pid][memo[m].tid] # 0
    <3> SUFFICES ASSUME ~tarde
                 PROVE  servidor.op # "ninguna" => memo'[servidor.obj].estado = memo[servidor.obj].estado
      BY <1>1 DEF InvVida, ATiempo
    <3>1. servidor.op # "ninguna" => servidor.obj \in 1 .. Len(memo) /\ servidor.obj # n
      BY <1>1, <1>2, ServidorVive DEF InvVida, ATiempo
    <3> QED
      BY <1>5, <3>1
  <2>2. UNCHANGED <<cpu, cola, servidor, tarde, tcbs, procesos>> /\ ATiempo
    BY <1>1 DEF InvVida
  <2> QED
    BY <1>1, <1>2, <1>4, <2>1, <2>2, ATiempoIgual DEF Pid, Tid
<1> QED
  BY <1>1, <1>3, <1>6, <1>7, <1>9 DEF InvVida, SinColgar

\* What is emptied was a process with hilos.
LEMMA VaciadoSigue ==
  ASSUME Vaciados, Conserva
  PROVE  \A p \in vaciado : \E m \in DOMAIN memo' : memo'[m].pid = p
<1> SUFFICES ASSUME NEW p \in vaciado
             PROVE  \E m \in DOMAIN memo' : memo'[m].pid = p
  OBVIOUS
<1>1. PICK m \in DOMAIN memo : memo[m].pid = p
  BY DEF Vaciados
<1>2. m \in DOMAIN memo' /\ memo'[m].pid = p
  BY <1>1 DEF Conserva
<1> QED
  BY <1>2

\* An entry of a dictionary is a t_hilo.
LEMMA Entrada ==
  ASSUME TiposMemoria, Entradas, NEW p \in Pids, NEW t \in Tids, hilos[p][t] # 0
  PROVE  /\ hilos[p][t] \in 1 .. Len(memo)
         /\ memo[hilos[p][t]].pid = p /\ memo[hilos[p][t]].tid = t
         /\ memo[hilos[p][t]].estado # "libre"
         /\ \/ p \in vaciado
            \/ memo[hilos[p][t]].estado = "sano"
            \/ En(Principal, "FINALIZAR_HILO", "quitar") /\ Pid(Principal) = p /\ Tid(Principal) = t
<1>1. hilos[p][t] \in 0 .. Len(memo) /\ Len(memo) \in Nat
  BY Partes
<1>2. hilos[p][t] \in 1 .. Len(memo)
  BY <1>1
<1> QED
  BY <1>2 DEF Entradas

LEMMA VidaQuitarHilo ==
  ASSUME InvTipos, InvPedidos, InvVida, Conserva, NEW k \in Hilos, memoria = "viva",
         UNCHANGED <<servidor, red, nuevos, proc, tarde>>, QuitarHilo(k)
  PROVE  InvVida'
<1> DEFINE n == peticion[k].obj
<1>1. /\ UNCHANGED <<vaciado, procesos, tcbs>> /\ UNCHANGED <<cpu, servidor, cola, tarde>>
      /\ TiposMemoria /\ peticion[k].op = "FINALIZAR_HILO" /\ peticion[k].paso = "quitar"
      /\ memo' = [memo EXCEPT ![hilos[Pid(k)][Tid(k)]].estado = "libre"]
      /\ hilos' = [hilos EXCEPT ![Pid(k)][Tid(k)] = 0]
      /\ Contesta(k) /\ peticion \in [Hilos -> Peticion]
  BY DEF QuitarHilo, proc, InvTipos, TiposMemoria, En
<1>2. /\ k = Principal /\ Pid(k) \in Pids /\ Tid(k) \in Tids
      /\ n = hilos[Pid(k)][Tid(k)] /\ n \in 1 .. Len(memo)
      /\ memo[n].pid = Pid(k) /\ memo[n].tid = Tid(k)
      /\ ~tarde => Pid(k) \in procesos /\ Pid(k) \notin vaciado
  BY <1>1, ObjDe
<1>3. memoria' # "viva" => tarde
  BY <1>2 DEF QuitarHilo, Requiere, SinProceso
<1>4. peticion'[k] = Libre /\ Libre.op = "ninguna"
  BY <1>1, ContestaCambia, LibreTipo
<1> HIDE DEF n
<1>a. memo' = [memo EXCEPT ![n].estado = "libre"]
  BY <1>1, <1>2
<1>5. \A m \in 1 .. Len(memo) :
        /\ memo'[m].pid = memo[m].pid /\ memo'[m].tid = memo[m].tid
        /\ memo'[m].estado = IF m = n THEN "libre" ELSE memo[m].estado
  <2>1. TiposMemoria /\ "libre" \in {"sano", "vacio", "libre"}
    BY <1>1
  <2> QED
    BY <1>a, <2>1, MemoEstado
<1>6. \A p \in Pids, t \in Tids : p # Pid(k) \/ t # Tid(k) => hilos'[p][t] = hilos[p][t]
  BY <1>1, <1>2, Partes
<1>7. hilos'[Pid(k)][Tid(k)] = 0
  BY <1>1, <1>2, Partes
<1>8. Entradas'
  <2> SUFFICES ASSUME NEW p \in Pids, NEW t \in Tids, hilos'[p][t] # 0
               PROVE  /\ memo'[hilos'[p][t]].pid = p /\ memo'[hilos'[p][t]].tid = t
                      /\ memo'[hilos'[p][t]].estado # "libre"
                      /\ p \in vaciado \/ memo'[hilos'[p][t]].estado = "sano"
    BY <1>1 DEF Entradas
  <2>1. p # Pid(k) \/ t # Tid(k)
    BY <1>7
  <2>2. hilos'[p][t] = hilos[p][t]
    BY <1>6, <2>1
  <2>3. /\ hilos[p][t] \in 1 .. Len(memo)
        /\ memo[hilos[p][t]].pid = p /\ memo[hilos[p][t]].tid = t
        /\ memo[hilos[p][t]].estado # "libre"
        /\ p \in vaciado \/ memo[hilos[p][t]].estado = "sano"
    BY <1>1, <1>2, <2>1, <2>2, Entrada DEF InvVida
  <2>4. hilos[p][t] # n
    BY <1>2, <2>1, <2>3
  <2> QED
    BY <1>5, <2>2, <2>3, <2>4
<1>9. Vaciados'
  <2>1. vaciado \cap procesos = {}
    BY <1>1, <1>2 DEF InvVida, Vaciados, En
  <2>2. \A p \in vaciado : \E m \in DOMAIN memo' : memo'[m].pid = p
    BY VaciadoSigue DEF InvVida
  <2> QED
    BY <1>1, <1>2, <1>4, <2>1, <2>2 DEF Vaciados
<1>11. ATiempo'
  <2>1. ~tarde => /\ servidor.op # "ninguna" => memo'[servidor.obj].estado = memo[servidor.obj].estado
                  /\ \A m \in tcbs : hilos'[memo[m].pid][memo[m].tid] # 0
    <3> SUFFICES ASSUME ~tarde
                 PROVE  /\ servidor.op # "ninguna" => memo'[servidor.obj].estado = memo[servidor.obj].estado
                        /\ \A m \in tcbs : hilos'[memo[m].pid][memo[m].tid] # 0
      OBVIOUS
    <3>1. servidor.op # "ninguna" => servidor.obj \in 1 .. Len(memo) /\ servidor.obj # n
      BY <1>1, <1>2, ServidorVive DEF InvVida, ATiempo
    <3>2. ASSUME NEW m \in tcbs
          PROVE  hilos'[memo[m].pid][memo[m].tid] # 0
      <4>1. memo[m].pid # Pid(k) \/ memo[m].tid # Tid(k)
        BY <1>1, <1>2 DEF InvVida, ATiempo
      <4>2. m \in 1 .. Len(memo) /\ memo[m].pid \in Pids /\ memo[m].tid \in Tids
        BY <1>1, MemoTipos DEF TiposMemoria
      <4>3. hilos[memo[m].pid][memo[m].tid] # 0
        BY DEF InvVida, ATiempo
      <4> QED
        BY <1>6, <4>1, <4>2, <4>3
    <3> QED
      BY <1>5, <3>1, <3>2
  <2>2. UNCHANGED <<cpu, cola, servidor, tarde, tcbs, procesos>> /\ ATiempo
    BY <1>1 DEF InvVida
  <2> QED
    BY <1>2, <1>4, <2>1, <2>2, ATiempoIgual
<1> QED
  BY <1>1, <1>3, <1>8, <1>9, <1>11 DEF InvVida, SinColgar

LEMMA VidaGuardarHilo ==
  ASSUME InvTipos, InvPedidos, InvVida, Conserva, NEW k \in Hilos, memoria = "viva",
         UNCHANGED <<servidor, red, nuevos, proc, tarde>>, GuardarHilo(k)
  PROVE  InvVida'
<1>1. /\ UNCHANGED <<vaciado, procesos>> /\ UNCHANGED <<cpu, servidor, cola, tarde>>
      /\ TiposMemoria /\ peticion[k].op = "CREAR_HILO" /\ peticion[k].paso = "guardar"
      /\ Contesta(k) /\ peticion \in [Hilos -> Peticion] /\ tcbs \subseteq tcbs'
  BY DEF GuardarHilo, proc, InvTipos, TiposMemoria, En
<1>2. /\ \A m \in 1 .. Len(memo) : memo'[m] = memo[m]
      /\ memo'[Len(memo) + 1].pid = Pid(k) /\ memo'[Len(memo) + 1].tid = Tid(k)
      /\ memo'[Len(memo) + 1].estado = "sano"
      /\ \A p \in Pids, t \in Tids :
           hilos'[p][t] = IF p = Pid(k) /\ t = Tid(k) THEN Len(memo) + 1 ELSE hilos[p][t]
  BY <1>1, MemoNuevo
<1>3. /\ peticion'[k] = Libre /\ Libre.op = "ninguna"
      /\ \A j \in Hilos : j # k => peticion'[j] = peticion[j]
  BY <1>1, ContestaCambia, LibreTipo
<1>4. Pid(k) \in procesos /\ Pid(k) \in Pids /\ Tid(k) \in Tids
  BY <1>1, Operandos DEF InvPedidos, PidsPedidos, En
<1>5. k = Largo => /\ Pid(Principal) # Pid(k)
                   /\ \A m \in DOMAIN memo : memo[m].pid # Pid(k)
  BY <1>1, DosHilos DEF InvPedidos, PidsNuevos, Ajeno
<1>6. Pid(k) \notin vaciado
  BY <1>1, <1>4, <1>5, DosHilos, SinVaciar DEF InvVida, En, Hilos
<1>7. memoria' = "viva"
  BY <1>6 DEF GuardarHilo, Requiere
<1>8. k = Principal \/ (k = Largo /\ peticion'[Principal] = peticion[Principal])
  BY <1>3, DosHilos DEF Hilos
<1>9. Entradas'
  <2> SUFFICES ASSUME NEW p \in Pids, NEW t \in Tids, hilos'[p][t] # 0
               PROVE  /\ memo'[hilos'[p][t]].pid = p /\ memo'[hilos'[p][t]].tid = t
                      /\ memo'[hilos'[p][t]].estado # "libre"
                      /\ \/ p \in vaciado
                         \/ memo'[hilos'[p][t]].estado = "sano"
                         \/ /\ En(Principal, "FINALIZAR_HILO", "quitar")'
                            /\ peticion'[Principal].pid = p /\ peticion'[Principal].tid = t
    BY <1>1 DEF Entradas, Pid, Tid
  <2>1. CASE p = Pid(k) /\ t = Tid(k)
    BY <1>2, <2>1
  <2>2. CASE ~ (p = Pid(k) /\ t = Tid(k))
    <3>1. hilos'[p][t] = hilos[p][t]
      BY <1>2, <2>2
    <3>2. /\ hilos[p][t] \in 1 .. Len(memo)
          /\ memo[hilos[p][t]].pid = p /\ memo[hilos[p][t]].tid = t
          /\ memo[hilos[p][t]].estado # "libre"
          /\ \/ p \in vaciado
             \/ memo[hilos[p][t]].estado = "sano"
             \/ /\ En(Principal, "FINALIZAR_HILO", "quitar")
                /\ peticion[Principal].pid = p /\ peticion[Principal].tid = t
      BY <1>1, <3>1, Entrada DEF InvVida, Pid, Tid
    <3>3. memo'[hilos[p][t]] = memo[hilos[p][t]]
      BY <1>2, <3>2
    <3>4. En(Principal, "FINALIZAR_HILO", "quitar") => peticion'[Principal] = peticion[Principal]
      BY <1>1, <1>8 DEF En
    <3> QED
      BY <3>1, <3>2, <3>3, <3>4 DEF En
  <2> QED
    BY <2>1, <2>2
<1>10. Vaciados'
  <2>1. CASE k = Principal
    <3>1. ~En(Principal, "FINALIZAR_PROCESO", "quitar") /\ peticion'[Principal].op # "FINALIZAR_HILO"
      BY <1>1, <1>3, <2>1 DEF En
    <3> QED
      BY <1>1, <3>1, VaciadosIgual DEF InvVida
  <2>2. CASE k = Largo /\ peticion'[Principal] = peticion[Principal]
    <3>1. peticion[Principal].op = "FINALIZAR_HILO" =>
            hilos'[Pid(Principal)][Tid(Principal)] = hilos[Pid(Principal)][Tid(Principal)]
      BY <1>1, <1>2, <1>5, <2>2, DosHilos, Operandos
    <3> QED
      BY <1>1, <2>2, <3>1, VaciadosIgual DEF InvVida
  <2> QED
    BY <1>8, <2>1, <2>2
<1>12. ATiempo'
  <2> SUFFICES ASSUME ~tarde
               PROVE  /\ cpu.espera # "ociosa" => cpu.tcb \in tcbs'
                      /\ \A i \in DOMAIN cola : cola[i].tcb \in tcbs'
                      /\ servidor.op # "ninguna" =>
                           /\ memo'[servidor.obj].estado = "sano"
                           /\ \E n \in tcbs' : /\ memo'[n].pid = memo'[servidor.obj].pid
                                               /\ memo'[n].tid = memo'[servidor.obj].tid
                      /\ \A n \in tcbs' : hilos'[memo'[n].pid][memo'[n].tid] # 0
                      /\ peticion'[Principal].op = "FINALIZAR_HILO" =>
                           /\ peticion'[Principal].pid \in procesos
                           /\ \A n \in tcbs' : \/ memo'[n].pid # peticion'[Principal].pid
                                               \/ memo'[n].tid # peticion'[Principal].tid
    BY <1>1 DEF ATiempo, Pid, Tid
  <2>1. /\ tcbs' = tcbs \cup {Len(memo) + 1} /\ Len(memo) \in Nat
        /\ \A n \in tcbs : n \in 1 .. Len(memo) /\ memo'[n] = memo[n]
    BY <1>1, <1>2, MemoTipos DEF GuardarHilo, TiposMemoria
  <2>2. servidor.op # "ninguna" =>
          /\ memo'[servidor.obj].estado = "sano"
          /\ \E n \in tcbs' : /\ memo'[n].pid = memo'[servidor.obj].pid
                              /\ memo'[n].tid = memo'[servidor.obj].tid
    BY <1>2, <2>1, ServidorVive DEF InvVida
  <2>3. \A n \in tcbs' : hilos'[memo'[n].pid][memo'[n].tid] # 0
    <3>1. hilos'[Pid(k)][Tid(k)] # 0
      BY <1>2, <1>4, <2>1
    <3>2. ASSUME NEW n \in tcbs
          PROVE  hilos'[memo[n].pid][memo[n].tid] # 0
      <4>1. memo[n].pid \in Pids /\ memo[n].tid \in Tids /\ hilos[memo[n].pid][memo[n].tid] # 0
        BY <1>1, <2>1, MemoTipos DEF InvVida, ATiempo
      <4> QED
        BY <1>2, <2>1, <4>1
    <3> QED
      BY <1>2, <2>1, <3>1, <3>2
  <2>4. peticion'[Principal].op = "FINALIZAR_HILO" =>
          /\ peticion'[Principal].pid \in procesos
          /\ \A n \in tcbs' : \/ memo'[n].pid # peticion'[Principal].pid
                              \/ memo'[n].tid # peticion'[Principal].tid
    <3> SUFFICES ASSUME peticion'[Principal].op = "FINALIZAR_HILO"
                 PROVE  /\ peticion'[Principal].pid \in procesos
                        /\ \A n \in tcbs' : \/ memo'[n].pid # peticion'[Principal].pid
                                            \/ memo'[n].tid # peticion'[Principal].tid
      OBVIOUS
    <3>1. k = Largo /\ peticion'[Principal] = peticion[Principal]
      BY <1>3, <1>8
    <3>2. /\ Pid(Principal) \in procesos /\ Pid(k) # Pid(Principal)
          /\ \A n \in tcbs : memo[n].pid # Pid(Principal) \/ memo[n].tid # Tid(Principal)
      BY <1>5, <3>1 DEF InvVida, ATiempo
    <3> QED
      BY <1>2, <2>1, <3>1, <3>2 DEF Pid, Tid
  <2> QED
    BY <1>1, <2>1, <2>2, <2>3, <2>4 DEF InvVida, ATiempo
<1> QED
  BY <1>7, <1>9, <1>10, <1>12 DEF InvVida, SinColgar

LEMMA VidaDestruir ==
  ASSUME InvTipos, InvPedidos, InvVida, Conserva, NEW k \in Hilos, memoria = "viva",
         UNCHANGED <<servidor, red, nuevos, proc, tarde>>, Destruir(k)
  PROVE  InvVida'
<1> DEFINE S == {hilos[Pid(k)][t] : t \in Tids} \ {0}
<1>1. /\ UNCHANGED <<procesos, hilos, tcbs>> /\ UNCHANGED <<cpu, servidor, cola, tarde>>
      /\ TiposMemoria /\ peticion[k].op = "FINALIZAR_PROCESO" /\ peticion[k].paso = "destruir"
      /\ memo' = [n \in DOMAIN memo |->
                    IF n \in S THEN [memo[n] EXCEPT !.estado = "vacio"] ELSE memo[n]]
      /\ vaciado' = vaciado \cup {Pid(k)} /\ Requiere(\A n \in S : memo[n].estado = "sano")
      /\ Sigue(k, "quitar") /\ peticion \in [Hilos -> Peticion]
  BY DEF Destruir, proc, InvTipos, TiposMemoria, En
<1>2. k = Principal /\ Pid(k) \in Pids /\ Pid(k) \in procesos
  BY <1>1, Operandos DEF InvPedidos, PidsPedidos
<1>3. /\ peticion'[k].op = "FINALIZAR_PROCESO" /\ peticion'[k].pid = Pid(k)
      /\ peticion'[k].tid = Tid(k) /\ peticion'[k].paso = "quitar"
  BY <1>1, SigueCambia DEF Pasos, Pid, Tid
<1>4. Pid(k) \notin vaciado
  BY <1>1, <1>2, SinVaciar DEF InvVida, En
<1>5. \A n \in S : memo[n].estado = "sano" /\ memo[n].pid = Pid(k)
  <2> SUFFICES ASSUME NEW t \in Tids, hilos[Pid(k)][t] # 0
               PROVE  /\ memo[hilos[Pid(k)][t]].estado = "sano"
                      /\ memo[hilos[Pid(k)][t]].pid = Pid(k)
    OBVIOUS
  <2> QED
    BY <1>1, <1>2, <1>4, Entrada DEF InvVida, En
<1>6. memoria' = "viva"
  BY <1>1, <1>5 DEF Requiere
<1> HIDE DEF S
<1>7. \A m \in 1 .. Len(memo) :
        /\ memo'[m].pid = memo[m].pid /\ memo'[m].tid = memo[m].tid
        /\ memo'[m].estado = IF m \in S THEN "vacio" ELSE memo[m].estado
  BY <1>1, MemoVacio
<1>8. Entradas'
  <2> SUFFICES ASSUME NEW p \in Pids, NEW t \in Tids, hilos[p][t] # 0
               PROVE  /\ memo'[hilos[p][t]].pid = p /\ memo'[hilos[p][t]].tid = t
                      /\ memo'[hilos[p][t]].estado # "libre"
                      /\ p \in vaciado' \/ memo'[hilos[p][t]].estado = "sano"
    BY <1>1 DEF Entradas
  <2>1. /\ hilos[p][t] \in 1 .. Len(memo)
        /\ memo[hilos[p][t]].pid = p /\ memo[hilos[p][t]].tid = t
        /\ memo[hilos[p][t]].estado # "libre"
        /\ p \in vaciado \/ memo[hilos[p][t]].estado = "sano"
    BY <1>1, <1>2, Entrada DEF InvVida, En
  <2>2. CASE p = Pid(k)
    BY <1>1, <1>7, <2>1, <2>2
  <2>3. CASE p # Pid(k)
    <3>1. hilos[p][t] \notin S
      BY <1>5, <2>1, <2>3
    <3> QED
      BY <1>1, <1>7, <2>1, <3>1
  <2> QED
    BY <2>2, <2>3
<1>9. Vaciados'
  <2>1. \A p \in vaciado' : \E m \in DOMAIN memo' : memo'[m].pid = p
    <3>1. \E m \in DOMAIN memo' : memo'[m].pid = Pid(k)
      <4>1. PICK m \in DOMAIN memo : memo[m].pid = Pid(k)
        BY <1>1 DEF InvPedidos, SinTcb
      <4>2. m \in DOMAIN memo' /\ memo'[m].pid = Pid(k)
        BY <4>1 DEF Conserva
      <4> QED
        BY <4>2
    <3> QED
      BY <1>1, <3>1, VaciadoSigue DEF InvVida
  <2>2. vaciado \cap procesos = {}
    BY <1>1, <1>2 DEF InvVida, Vaciados, En
  <2>3. \A p \in vaciado' \cap procesos' : p = Pid(k)
    BY <1>1, <2>2
  <2>4. peticion'[Principal].op = "FINALIZAR_PROCESO" /\ peticion'[Principal].paso = "quitar"
        /\ peticion'[Principal].pid = Pid(k)
    BY <1>2, <1>3
  <2> QED
    BY <2>1, <2>3, <2>4 DEF Vaciados, En, Pid
<1>11. ATiempo'
  <2>1. ~tarde => /\ servidor.op # "ninguna" => memo'[servidor.obj].estado = memo[servidor.obj].estado
                  /\ \A m \in tcbs : hilos'[memo[m].pid][memo[m].tid] # 0
    <3> SUFFICES ASSUME ~tarde
                 PROVE  servidor.op # "ninguna" => memo'[servidor.obj].estado = memo[servidor.obj].estado
      BY <1>1 DEF InvVida, ATiempo
    <3>1. \A m \in tcbs : memo[m].pid # Pid(k)
      BY <1>1 DEF InvPedidos, SinTcb
    <3>2. servidor.op # "ninguna" => servidor.obj \in 1 .. Len(memo) /\ servidor.obj \notin S
      BY <1>5, <3>1, ServidorVive DEF InvVida
    <3> QED
      BY <1>7, <3>2
  <2>2. UNCHANGED <<cpu, cola, servidor, tarde, tcbs, procesos>> /\ ATiempo
    BY <1>1 DEF InvVida
  <2> QED
    BY <1>2, <1>3, <2>1, <2>2, ATiempoIgual
<1> QED
  BY <1>6, <1>8, <1>9, <1>11 DEF InvVida, SinColgar

\* A step of the CPU or of the thread that serves it: the dictionaries and the
\* requests of the Kernel stay.
LEMMA VidaMemoria ==
  ASSUME InvTipos, InvVida, Conserva, UNCHANGED <<hilos, vaciado, procesos, peticion>>,
         \A m \in 1 .. Len(memo) : memo'[m].estado = memo[m].estado
  PROVE  Entradas' /\ Vaciados'
<1>1. En(Principal, "FINALIZAR_HILO", "quitar") => En(Principal, "FINALIZAR_HILO", "quitar")'
  BY DEF En
<1>2. Entradas'
  BY <1>1, EntradasIgual DEF InvVida, InvTipos
<1>3. Vaciados'
  BY VaciadosIgual DEF InvVida
<1> QED
  BY <1>2, <1>3

\* In time, who has a TCB is found with contents.
LEMMA ConTcb ==
  ASSUME InvTipos, InvPedidos, InvVida, ~tarde, NEW n \in tcbs
  PROVE  /\ memo[n].pid \in procesos /\ memo[n].pid \notin vaciado
         /\ hilos[memo[n].pid][memo[n].tid] # 0
         /\ memo[hilos[memo[n].pid][memo[n].tid]].estado = "sano"
<1> DEFINE p == memo[n].pid
           t == memo[n].tid
<1>1. n \in 1 .. Len(memo) /\ TiposMemoria /\ Entradas
  BY DEF InvTipos, TiposMemoria, InvVida
<1>2. p \in Pids /\ t \in Tids
  BY <1>1, MemoTipos
<1>3. p \in procesos
  BY DEF InvPedidos, Presentes
<1>4. ~ (En(Principal, "FINALIZAR_PROCESO", "quitar") /\ Pid(Principal) = p)
  BY DosHilos DEF InvPedidos, SinTcb, En
<1>5. p \notin vaciado
  BY <1>3, <1>4, SinVaciar DEF InvVida
<1>6. hilos[p][t] # 0
  BY DEF InvVida, ATiempo
<1>7. ~ (En(Principal, "FINALIZAR_HILO", "quitar") /\ Pid(Principal) = p /\ Tid(Principal) = t)
  BY DEF InvVida, ATiempo, En
<1> HIDE DEF p, t
<1>8. memo[hilos[p][t]].estado = "sano"
  BY <1>1, <1>2, <1>5, <1>6, <1>7, Entrada
<1> QED
  BY <1>3, <1>5, <1>6, <1>8 DEF p, t

\* The CPU starts a burst, asks, reads or ends the burst.
LEMMA VidaCpu ==
  ASSUME InvTipos, InvVida, Conserva, UNCHANGED <<memoria, mem, servidor, kern>>, CpuMueve
  PROVE  InvVida'
<1>1. UNCHANGED <<hilos, vaciado, procesos, peticion, memo, tcbs>> /\ UNCHANGED <<servidor, memoria>>
  BY DEF mem, kern
<1>2. Entradas' /\ Vaciados'
  BY <1>1, VidaMemoria
<1>a. /\ ~tarde /\ cpu.espera # "ociosa" => cpu.tcb \in tcbs
      /\ cola \in Seq(EnCola)
  BY CpuPartes DEF InvVida, ATiempo
<1>b. Len(memo) \in 0 .. MaxHilos /\ DOMAIN memo = 1 .. Len(memo)
      /\ \A n \in 1 .. Len(memo) : guardado[n] \in Registros
  BY CpuPartes, MemoTipos, PeticionesAssumption DEF InvTipos
<1>3. /\ tarde => tarde'
      /\ ~tarde' => /\ cpu'.espera # "ociosa" => cpu'.tcb \in tcbs
                    /\ \/ UNCHANGED cola
                       \/ \E op \in Consultas, n \in tcbs, r \in Registros : Consulta(op, n, r)
  <2>1. ASSUME NEW n \in DOMAIN memo, Despachar(n)
        PROVE  /\ tarde' = (tarde \/ n \notin tcbs) /\ cpu'.tcb = n
               /\ Consulta("CONTEXTO", n, guardado[n]) /\ guardado[n] \in Registros
    BY <2>1, <1>b DEF Despachar
  <2>2. CASE Preguntar
    <3>1. /\ cpu.espera = "corre" /\ UNCHANGED tarde /\ cpu'.tcb = cpu.tcb
          /\ cpu.tcb \in 1 .. Len(memo)
      BY <2>2, CpuPartes DEF Preguntar
    <3>2. \E op \in Consultas : Consulta(op, cpu.tcb, guardado[cpu.tcb])
      BY <2>2 DEF Preguntar, Consultas
    <3>3. guardado[cpu.tcb] \in Registros
      BY <3>1, <1>b
    <3> QED
      BY <1>a, <3>1, <3>2, <3>3
  <2>3. CASE RecibirBuffer
    <3>1. cpu.espera # "ociosa" /\ UNCHANGED <<tarde, cola>> /\ cpu'.tcb = cpu.tcb
      BY <2>3, CpuPartes DEF RecibirBuffer, Consultas
    <3> QED
      BY <1>a, <3>1
  <2>4. CASE Devolver
    <3>1. /\ cpu.espera = "corre" /\ UNCHANGED tarde /\ cpu'.espera = "ociosa"
          /\ Consulta("ACTUALIZAR", cpu.tcb, rafagas) /\ rafagas \in Registros
      BY <2>4, CpuPartes DEF Devolver
    <3> QED
      BY <1>a, <3>1 DEF Consultas
  <2>5. "CONTEXTO" \in Consultas
    BY DEF Consultas
  <2> QED
    BY <2>1, <2>2, <2>3, <2>4, <2>5 DEF CpuMueve
<1>4. ~tarde' => \A i \in DOMAIN cola' : cola'[i].tcb \in tcbs
  <2> SUFFICES ASSUME ~tarde', NEW i \in DOMAIN cola'
               PROVE  cola'[i].tcb \in tcbs
    OBVIOUS
  <2>1. \A j \in DOMAIN cola : cola[j].tcb \in tcbs
    BY <1>3 DEF InvVida, ATiempo
  <2>2. CASE UNCHANGED cola
    BY <2>1, <2>2
  <2>3. ASSUME NEW op \in Consultas, NEW n \in tcbs, NEW r \in Registros, Consulta(op, n, r)
        PROVE  cola'[i].tcb \in tcbs
    <3>1. n \in 1 .. Len(memo)
      BY DEF InvTipos, TiposMemoria
    <3>2. /\ DOMAIN cola' = 1 .. Len(cola) + 1 /\ Len(cola) \in Nat /\ DOMAIN cola = 1 .. Len(cola)
          /\ \A j \in 1 .. Len(cola) : cola'[j] = cola[j]
          /\ cola'[Len(cola) + 1].tcb = n
      BY <2>3, <3>1, CpuPartes, ConsultaCambia
    <3> QED
      BY <2>1, <3>2
  <2> QED
    BY <1>3, <2>2, <2>3
<1>5. ATiempo'
  BY <1>1, <1>3, <1>4 DEF InvVida, ATiempo, Pid, Tid
<1> QED
  BY <1>1, <1>2, <1>3, <1>5 DEF InvVida, SinColgar

LEMMA VidaRecibir ==
  ASSUME InvTipos, InvPedidos, InvVida, Conserva, memoria = "viva", Recibir,
         UNCHANGED <<kern, cpu, rafagas, guardado, tarde>>
  PROVE  InvVida'
<1> DEFINE c == cola[1]
           p == memo[c.tcb].pid
           t == memo[c.tcb].tid
           n == hilos[p][t]
<1>1. /\ c \in EnCola /\ c.op \in Consultas /\ c.tcb \in 1 .. Len(memo) /\ c.reg \in Registros
      /\ p \in Pids /\ t \in Tids /\ n \in 0 .. Len(memo)
      /\ servidor.op = "ninguna" /\ 1 \in 1 .. Len(cola)
      /\ UNCHANGED <<libres, procesos, base, vaciado, memo, hilos>>
  BY RecibirCambia
<1>2. \/ /\ p \in vaciado \cap procesos \/ p \notin procesos \/ n = 0
         /\ memoria' = "colgada" /\ UNCHANGED <<servidor, cola>>
      \/ /\ servidor' = [op |-> "ninguna", obj |-> 0, reg |-> 0] /\ cola' = Tail(cola)
         /\ UNCHANGED memoria
      \/ /\ servidor' = [op |-> c.op, obj |-> n, reg |-> c.reg] /\ cola' = Tail(cola)
         /\ n # 0 /\ UNCHANGED memoria
  BY RecibirCambia
<1>3. DOMAIN cola = 1 .. Len(cola) /\ Len(cola) \in Nat /\ TiposMemoria /\ Entradas
  BY CpuPartes DEF InvVida
<1>4. ~tarde => c.tcb \in tcbs
  BY <1>1, <1>3 DEF InvVida, ATiempo
<1>5. UNCHANGED <<peticion, tcbs, tarde, cpu>>
  BY DEF kern
<1>6. Entradas' /\ Vaciados'
  BY <1>1, <1>5, VidaMemoria
<1>b. ~tarde => p \in procesos /\ p \notin vaciado /\ n # 0 /\ memo[n].estado = "sano"
  BY <1>4, ConTcb
<1>c. n # 0 => memo[n].pid = p /\ memo[n].tid = t
  <2>1. ASSUME NEW q \in Pids, NEW u \in Tids, hilos[q][u] # 0
        PROVE  memo[hilos[q][u]].pid = q /\ memo[hilos[q][u]].tid = u
    BY <1>3, <2>1, Entrada
  <2> QED
    BY <1>1, <2>1
<1> HIDE DEF n, p, t, c
<1>7. CASE /\ p \in vaciado \cap procesos \/ p \notin procesos \/ n = 0
           /\ memoria' = "colgada" /\ UNCHANGED <<servidor, cola>>
  <2>1. tarde
    BY <1>b, <1>7
  <2> QED
    BY <1>5, <1>6, <2>1 DEF InvVida, ATiempo, SinColgar
<1>8. CASE servidor'.op = "ninguna" /\ cola' = Tail(cola) /\ UNCHANGED memoria
  <2>1. \A i \in DOMAIN cola' : i + 1 \in DOMAIN cola /\ cola'[i] = cola[i + 1]
    BY <1>1, <1>3, <1>8, EmptySeq, SirveCambia
  <2>2. ATiempo'
    BY <1>1, <1>5, <1>8, <2>1 DEF InvVida, ATiempo, Pid, Tid
  <2> QED
    BY <1>6, <1>8, <2>2 DEF InvVida, SinColgar
<1>9. CASE /\ servidor' = [op |-> c.op, obj |-> n, reg |-> c.reg] /\ cola' = Tail(cola)
           /\ n # 0 /\ UNCHANGED memoria
  <2>1. \A i \in DOMAIN cola' : i + 1 \in DOMAIN cola /\ cola'[i] = cola[i + 1]
    BY <1>1, <1>3, <1>9, EmptySeq, SirveCambia
  <2>2. servidor'.obj = n
    BY <1>9
  <2>3. ~tarde => /\ memo[n].estado = "sano"
                  /\ \E m \in tcbs : memo[m].pid = memo[n].pid /\ memo[m].tid = memo[n].tid
    BY <1>4, <1>9, <1>b, <1>c DEF p, t
  <2>4. ATiempo'
    BY <1>1, <1>5, <2>1, <2>2, <2>3 DEF InvVida, ATiempo, Pid, Tid
  <2> QED
    BY <1>6, <1>9, <2>4 DEF InvVida, SinColgar
<1>10. [op |-> "ninguna", obj |-> 0, reg |-> 0].op = "ninguna"
  OBVIOUS
<1> QED
  BY <1>2, <1>7, <1>8, <1>9, <1>10

LEMMA VidaServidor ==
  ASSUME InvTipos, InvVida, Conserva, memoria = "viva",
         DarContexto \/ Actualizar \/ DarInstruccion \/ UsarLiberado,
         UNCHANGED <<kern, cpu, rafagas, guardado, tarde>>
  PROVE  InvVida'
<1>1. UNCHANGED <<hilos, vaciado, procesos, peticion, tcbs, tarde, cola, cpu>>
  BY DEF DarContexto, Actualizar, DarInstruccion, UsarLiberado, Terminar, mem, kern
<1>2. \A m \in 1 .. Len(memo) : memo'[m].estado = memo[m].estado
  <2>1. CASE Actualizar
    BY <2>1, CpuPartes, MemoReg DEF Actualizar, InvTipos
  <2>2. CASE UNCHANGED memo
    BY <2>2
  <2> QED
    BY <2>1, <2>2 DEF DarContexto, DarInstruccion, UsarLiberado, mem
<1>3. Entradas' /\ Vaciados'
  BY <1>1, <1>2, VidaMemoria
<1>4. CASE UNCHANGED <<servidor, memo>> /\ (tarde \/ servidor.op = "PASADA")
  <2>1. ATiempo'
    BY <1>1, <1>4 DEF InvVida, ATiempo, Pid, Tid
  <2> QED
    BY <1>1, <1>3, <1>4, <2>1 DEF InvVida, SinColgar
<1>5. CASE servidor'.op = "ninguna" /\ memoria' = "viva"
  <2>1. \A n \in tcbs : memo'[n].pid = memo[n].pid /\ memo'[n].tid = memo[n].tid
    BY DEF Conserva, InvTipos, TiposMemoria
  <2>2. ATiempo'
    BY <1>1, <1>5, <2>1 DEF InvVida, ATiempo, Pid, Tid
  <2> QED
    BY <1>3, <1>5, <2>2 DEF InvVida, SinColgar
<1>6. CASE DarContexto \/ Actualizar
  BY <1>5, <1>6 DEF DarContexto, Actualizar, Terminar
<1>7. CASE DarInstruccion
  BY <1>4, <1>5, <1>7 DEF DarInstruccion, Terminar, mem
<1>8. CASE UsarLiberado
  <2>1. UNCHANGED <<servidor, memo>> /\ servidor.op # "ninguna" /\ Usado.estado # "sano"
    BY <1>8 DEF UsarLiberado, mem
  <2>2. tarde
    BY <2>1, ServidorVive DEF InvVida, Usado
  <2> QED
    BY <1>4, <2>1, <2>2
<1> QED
  BY <1>6, <1>7, <1>8

LEMMA VidaSiguiente ==
  ASSUME InvTipos, InvTipos', InvPedidos, InvVida, [Next]_vars
  PROVE  InvVida'
<1>a. Conserva
  BY SiempreConserva DEF InvTipos
<1>1. CASE UNCHANGED vars \/ (memoria' = "indefinida" /\ UNCHANGED <<mem, servidor, red, kern, proc, tarde>>)
  <2>1. /\ UNCHANGED <<hilos, vaciado, procesos, memo, servidor, peticion, tcbs, cpu, cola, tarde>>
        /\ memoria' = "indefinida" \/ UNCHANGED memoria
    BY <1>1 DEF vars, mem, kern, proc
  <2>2. Entradas' /\ Vaciados'
    BY <1>a, <2>1, VidaMemoria
  <2>3. ATiempo'
    BY <2>1 DEF InvVida, ATiempo, Pid, Tid
  <2> QED
    BY <2>1, <2>2, <2>3 DEF InvVida, SinColgar
<1>2. CASE Next
  <2>1. memoria = "viva"
    BY <1>2, Casos
  <2>2. CASE PedirAlgo /\ UNCHANGED <<memoria, mem, servidor, red, proc>>
    BY <1>a, <2>1, <2>2, VidaPedir
  <2>3. ASSUME NEW k \in Hilos, manejar_peticion(k), UNCHANGED <<servidor, red, nuevos, proc, tarde>>
        PROVE  InvVida'
    <3>1. CASE Buscar(k) \/ Marcar(k) \/ BuscarProceso(k) \/ TomarProceso(k) \/ Soltar(k)
      BY <1>a, <2>3, <3>1, VidaResto
    <3>2. CASE GuardarProceso(k) \/ QuitarProceso(k)
      BY <1>a, <2>3, <3>2, VidaGuardarProceso, VidaQuitarProceso
    <3>3. CASE GuardarHilo(k) \/ Destruir(k)
      BY <1>a, <2>1, <2>3, <3>3, VidaGuardarHilo, VidaDestruir
    <3>4. CASE TomarHilo(k) \/ LiberarHilo(k) \/ QuitarHilo(k)
      BY <1>a, <2>1, <2>3, <3>4, VidaTomarHilo, VidaLiberarHilo, VidaQuitarHilo
    <3> QED
      BY <2>3, <3>1, <3>2, <3>3, <3>4 DEF manejar_peticion
  <2>4. CASE CpuMueve /\ UNCHANGED <<memoria, mem, servidor, kern>>
    BY <1>a, <2>4, VidaCpu
  <2>5. CASE hilo_instrucciones_cpu /\ UNCHANGED <<kern, cpu, rafagas, guardado, tarde>>
    BY <1>a, <2>1, <2>5, VidaRecibir, VidaServidor DEF hilo_instrucciones_cpu
  <2> QED
    BY <1>1, <1>2, <2>2, <2>3, <2>4, <2>5, Casos
<1> QED
  BY <1>1, <1>2

LEMMA VidaInicial == Init => InvVida
<1> SUFFICES ASSUME Init
             PROVE  InvVida
  OBVIOUS
<1>1. /\ memoria = "viva" /\ vaciado = {} /\ cola = <<>> /\ DOMAIN cola = {}
      /\ servidor.op = "ninguna" /\ cpu.espera = "ociosa"
      /\ \A p \in Pids, t \in Tids : hilos[p][t] = 0
      /\ tcbs = {}
      /\ peticion[Principal] = Libre
  BY EmptySeq, DosHilos DEF Init
<1> QED
  BY <1>1, LibreTipo DEF InvVida, Entradas, Vaciados, ATiempo, SinColgar, En

\* No thread of Memoria uses NULL, a freed process or a freed hilo, unless the Kernel
\* asked for the end of a hilo with requests of the CPU under way or of one that
\* shares its TID, dispatched a hilo it had ended, or the CPU asked for an
\* instruction after the last.
THEOREM NadaColgado == Spec => []SinColgar
<1>1. Init => InvTipos /\ InvPedidos /\ InvVida
  BY TiposInicial, PedidosInicial, VidaInicial
<1>2. InvTipos /\ InvPedidos /\ InvVida /\ [Next]_vars => (InvTipos /\ InvPedidos /\ InvVida)'
  BY TiposSiguiente, PedidosSiguiente, VidaSiguiente
<1>3. InvVida => SinColgar
  BY DEF InvVida
<1> QED
  BY <1>1, <1>2, <1>3, PTL DEF Spec

---------------------------------------------------------------------------
(* The registers the CPU is given: InvContexto *)

LEMMA SinRepetir ==
  ASSUME Conserva, NEW n \in 1 .. Len(memo), ~Repetido(n)'
  PROVE  ~Repetido(n)
BY RepetidoSigue

\* Who is not found any more never is again.
LEMMA EncontradoAntes ==
  ASSUME Conserva, NEW n \in 1 .. Len(memo), Encontrado(n)',
         memo[n].pid \in procesos' => memo[n].pid \in procesos,
         hilos'[memo[n].pid][memo[n].tid] = n => hilos[memo[n].pid][memo[n].tid] = n
  PROVE  Encontrado(n)
BY SinRepetir DEF Encontrado, Conserva

\* What Guardados says of the next state, with the registers by name.
LEMMA GuardadosDespues ==
  ASSUME NEW n, NEW L, L = Len(cola') + 1,
         \A j \in DOMAIN cola' : \A x :
           cola'[j].tcb = n /\ cola'[j].op # "ACTUALIZAR" /\ x = cola'[j].reg => Registro(n, x, j)',
         \A x : x = guardado'[n] => Registro(n, x, L)'
  PROVE  Guardados(n)'
<1>1. \A j \in DOMAIN cola' :
        cola'[j].tcb = n /\ cola'[j].op # "ACTUALIZAR" => Registro(n, cola[j].reg, j)'
  BY DEF Registro
<1>2. Registro(n, guardado[n], Len(cola) + 1)'
  BY DEF Registro
<1> QED
  BY <1>1, <1>2 DEF Guardados

\* The queue stays, and what Memoria has or is storing for n.
LEMMA RegistroIgual ==
  ASSUME NEW n, NEW r, NEW j, Registro(n, r, j), UNCHANGED cola, Ahora(n)' = Ahora(n)
  PROVE  Registro(n, r, j)'
<1>1. \A i : Intactos(n, i, j)' <=> Intactos(n, i, j)
  BY DEF Intactos
<1> QED
  BY <1>1 DEF Registro

LEMMA GuardadosIgual ==
  ASSUME NEW n, Guardados(n), UNCHANGED cola, Ahora(n)' = Ahora(n), guardado'[n] = guardado[n]
  PROVE  Guardados(n)'
<1>1. ASSUME NEW j \in DOMAIN cola', NEW x, cola'[j].tcb = n, cola'[j].op # "ACTUALIZAR",
             x = cola'[j].reg
      PROVE  Registro(n, x, j)'
  <2>1. Registro(n, x, j)
    BY <1>1 DEF Guardados
  <2> QED
    BY <2>1, RegistroIgual
<1>2. PICK L : L = Len(cola) + 1
  OBVIOUS
<1>3. ASSUME NEW x, x = guardado'[n]
      PROVE  Registro(n, x, L)'
  <2>1. Registro(n, x, L)
    BY <1>2, <1>3 DEF Guardados
  <2> QED
    BY <2>1, RegistroIgual
<1>4. L = Len(cola') + 1
  BY <1>2
<1> QED
  BY <1>1, <1>3, <1>4, GuardadosDespues

\* A step that neither sends nor takes a request and stores no registers.
LEMMA ContextoQuieto ==
  ASSUME InvTipos, InvContexto, Conserva, UNCHANGED <<cola, guardado>>, Len(memo') = Len(memo),
         \A n \in 1 .. Len(memo) : Encontrado(n)' => Encontrado(n),
         \A n \in 1 .. Len(memo) : Ahora(n)' = Ahora(n),
         servidor'.op = "CONTEXTO" => UNCHANGED <<servidor, memo[servidor.obj].reg>>
  PROVE  InvContexto'
<1>1. \A n \in DOMAIN memo' : Encontrado(n)' => Guardados(n)'
  BY GuardadosIgual DEF InvContexto, Conserva
<1>2. ContextoFiel'
  <2> SUFFICES ASSUME servidor'.op = "CONTEXTO"
               PROVE  Repetido(servidor.obj)' \/ memo'[servidor.obj].reg = servidor.reg
    BY DEF ContextoFiel, Usado
  <2>1. servidor.obj \in 1 .. Len(memo)
    BY CpuPartes
  <2>2. Repetido(servidor.obj) \/ memo[servidor.obj].reg = servidor.reg
    BY DEF InvContexto, ContextoFiel, Usado
  <2> QED
    BY <2>1, <2>2, RepetidoSigue
<1> QED
  BY <1>1, <1>2 DEF InvContexto

\* Memoria goes on with a request of the Kernel.
LEMMA ContextoMemoria ==
  ASSUME InvTipos, InvContexto, Conserva, UNCHANGED <<cola, servidor, guardado>>,
         Len(memo') = Len(memo), \A m \in 1 .. Len(memo) : memo'[m].reg = memo[m].reg,
         \A m \in 1 .. Len(memo) : memo[m].pid \in procesos' => memo[m].pid \in procesos,
         \A m \in 1 .. Len(memo) :
           hilos'[memo[m].pid][memo[m].tid] = m => hilos[memo[m].pid][memo[m].tid] = m
  PROVE  InvContexto'
<1>1. \A n \in 1 .. Len(memo) : Encontrado(n)' => Encontrado(n)
  BY EncontradoAntes
<1>2. \A n \in 1 .. Len(memo) : Ahora(n)' = Ahora(n)
  BY DEF Ahora
<1>3. servidor'.op = "CONTEXTO" => UNCHANGED <<servidor, memo[servidor.obj].reg>>
  BY CpuPartes
<1> QED
  BY <1>1, <1>2, <1>3, ContextoQuieto

\* crear_hilo: nobody has saved registers of the new hilo, nor asked for them.
LEMMA ContextoGuardarHilo ==
  ASSUME InvTipos, TiposMemoria', InvContexto, Conserva, NEW k \in Hilos, GuardarHilo(k),
         UNCHANGED <<cola, servidor, guardado>>
  PROVE  InvContexto'
<1> DEFINE L == Len(memo)
           nuevo == L + 1
<1>1. L \in Nat /\ MaxHilos \in Nat /\ TiposMemoria /\ nuevo \in 1 .. MaxHilos
      /\ DOMAIN memo' = 1 .. nuevo /\ Len(memo') = nuevo
  <2>1. Pide(Principal)' \in {0, 1} /\ Pide(Largo)' \in {0, 1}
    BY PideTipo, DosHilos
  <2>2. Len(memo') + Pide(Principal)' + Pide(Largo)' <= MaxHilos /\ Len(memo') = L + 1 /\ L \in Nat
    BY CpuPartes, MemoNuevo DEF TiposMemoria
  <2> QED
    BY <2>1, <2>2, CpuPartes, PeticionesAssumption DEF Conserva
<1>2. /\ \A m \in 1 .. L : memo'[m] = memo[m]
      /\ memo'[nuevo].reg = 0
      /\ \A p \in Pids, t \in Tids : hilos'[p][t] = hilos[p][t] \/ hilos'[p][t] = nuevo
      /\ UNCHANGED procesos
  BY <1>1, MemoNuevo DEF GuardarHilo
<1>3. \A m \in 1 .. L : memo[m].pid \in Pids /\ memo[m].tid \in Tids /\ m # nuevo
  BY <1>1, MemoTipos
<1>4. \A i \in DOMAIN cola : cola[i].tcb \in 1 .. L
  BY CpuPartes
<1>5. servidor.obj \in 0 .. L
  BY CpuPartes
<1> HIDE DEF L, nuevo
<1>6. nuevo \notin 1 .. L /\ nuevo \notin 0 .. L
  BY <1>1 DEF nuevo
<1>7. ASSUME NEW n \in 1 .. L, Encontrado(n)'
      PROVE  Guardados(n)'
  <2>1. hilos'[memo[n].pid][memo[n].tid] = n => hilos[memo[n].pid][memo[n].tid] = n
    BY <1>2, <1>3
  <2>2. Encontrado(n)
    BY <1>2, <1>7, <2>1, EncontradoAntes DEF L
  <2>3. Guardados(n)
    BY <1>1, <2>2, MemoTipos DEF InvContexto, L
  <2>4. Ahora(n)' = Ahora(n)
    BY <1>2 DEF Ahora
  <2> QED
    BY <2>3, <2>4, GuardadosIgual
<1>8. PICK h : h = nuevo
  OBVIOUS
<1>9. Guardados(h)'
  <2>1. guardado[h] = 0
    BY <1>1, <1>8 DEF InvContexto, L, nuevo
  <2>2. \A i \in DOMAIN cola' : cola'[i].tcb # h
    BY <1>4, <1>6, <1>8
  <2>3. servidor.obj # h /\ memo'[h].reg = 0
    BY <1>2, <1>5, <1>6, <1>8
  <2>4. Ahora(h)' = 0
    BY <2>3 DEF Ahora
  <2> QED
    BY <2>1, <2>2, <2>4 DEF Guardados, Registro
<1>a. \A n \in DOMAIN memo' : Encontrado(n)' => Guardados(n)'
  <2>1. \A n \in 1 .. nuevo : n \in 1 .. L \/ n = h
    BY <1>1, <1>8 DEF nuevo
  <2>2. \A n \in 1 .. nuevo : Encontrado(n)' => Guardados(n)'
    <3> SUFFICES ASSUME NEW n \in 1 .. nuevo, Encontrado(n)'
                 PROVE  Guardados(n)'
      OBVIOUS
    <3>1. CASE n = h
      BY <1>9, <3>1
    <3>2. CASE n \in 1 .. L
      BY <1>7, <3>2
    <3> QED
      BY <2>1, <3>1, <3>2
  <2> QED
    BY <1>1, <2>2
<1>10. \A n \in 1 .. MaxHilos : n > Len(memo') => guardado'[n] = 0
  BY <1>1 DEF InvContexto, L, nuevo
<1>11. ContextoFiel'
  <2> SUFFICES ASSUME servidor.op = "CONTEXTO"
               PROVE  Repetido(servidor.obj)' \/ memo'[servidor.obj].reg = servidor.reg
    BY DEF ContextoFiel, Usado
  <2>1. servidor.obj \in 1 .. Len(memo)
    BY CpuPartes
  <2>2. Repetido(servidor.obj) \/ memo[servidor.obj].reg = servidor.reg
    BY DEF InvContexto, ContextoFiel, Usado
  <2> QED
    BY <1>2, <2>1, <2>2, RepetidoSigue DEF L
<1> QED
  BY <1>a, <1>10, <1>11 DEF InvContexto

\* What is sent at the end changes nothing of what comes before.
LEMMA RegistroEnvia ==
  ASSUME InvTipos, NEW op \in Consultas, NEW c \in 1 .. Len(memo), NEW r \in Registros,
         Consulta(op, c, r), NEW n, Ahora(n)' = Ahora(n),
         NEW x, NEW j \in 1 .. Len(cola) + 1, Registro(n, x, j)
  PROVE  Registro(n, x, j)'
<1>1. /\ DOMAIN cola = 1 .. Len(cola) /\ Len(cola) \in Nat /\ DOMAIN cola' = 1 .. Len(cola) + 1
      /\ \A i \in 1 .. Len(cola) : cola'[i] = cola[i]
  BY CpuPartes, ConsultaCambia
<1>2. \A i \in DOMAIN cola' : i < j => i \in DOMAIN cola
  BY <1>1
<1>3. \A i \in DOMAIN cola : i \in DOMAIN cola' /\ cola'[i] = cola[i]
  BY <1>1
<1>4. \A i : Intactos(n, i, j)' => Intactos(n, i, j)
  BY <1>3 DEF Intactos
<1> QED
  BY <1>2, <1>3, <1>4 DEF Registro

LEMMA GuardadosEnvia ==
  ASSUME InvTipos, NEW op \in Consultas, NEW c \in 1 .. Len(memo), NEW r \in Registros,
         Consulta(op, c, r), NEW n, Guardados(n), Ahora(n)' = Ahora(n),
         IF op = "ACTUALIZAR" /\ c = n THEN guardado'[n] = r ELSE guardado'[n] = guardado[n],
         op # "ACTUALIZAR" /\ c = n => r = guardado[n]
  PROVE  Guardados(n)'
<1>a. Len(cola) \in Nat
  BY CpuPartes
<1>b. PICK L \in Nat : L = Len(cola) + 1
  BY <1>a
<1>1. /\ DOMAIN cola = 1 .. Len(cola) /\ DOMAIN cola' = 1 .. L /\ Len(cola') = L
      /\ \A i \in 1 .. Len(cola) : cola'[i] = cola[i]
      /\ cola'[L].op = op /\ cola'[L].tcb = c /\ cola'[L].reg = r
  BY <1>b, CpuPartes, ConsultaCambia
<1>2. L \in 1 .. L /\ \A i \in 1 .. L : i \in DOMAIN cola \/ i = L
  BY <1>a, <1>b, <1>1
<1>3. \A i \in 1 .. Len(cola) : i \in 1 .. Len(cola) + 1
  BY <1>a
<1>4. ASSUME NEW x, x = guardado[n]
      PROVE  Registro(n, x, L)'
  <2>1. Registro(n, x, L)
    BY <1>b, <1>4 DEF Guardados
  <2> QED
    BY <1>b, <1>2, <2>1, RegistroEnvia
<1>5. ASSUME NEW j \in DOMAIN cola', NEW x, cola'[j].tcb = n, cola'[j].op # "ACTUALIZAR",
             x = cola'[j].reg
      PROVE  Registro(n, x, j)'
  <2>1. CASE j = L
    <3>1. x = guardado[n]
      BY <1>1, <1>5, <2>1
    <3> QED
      BY <1>4, <2>1, <3>1
  <2>2. CASE j \in DOMAIN cola
    <3>1. cola'[j] = cola[j]
      BY <1>1, <2>2
    <3>2. Registro(n, x, j)
      BY <1>5, <2>2, <3>1 DEF Guardados
    <3> QED
      BY <1>1, <1>3, <2>2, <3>2, RegistroEnvia
  <2> QED
    BY <1>1, <1>2, <2>1, <2>2
<1>6. PICK S \in Nat : S = L + 1
  OBVIOUS
<1>7. ASSUME NEW x, x = guardado'[n]
      PROVE  Registro(n, x, S)'
  <2>1. CASE ~ (op = "ACTUALIZAR" /\ c = n)
    <3>1. Registro(n, x, L)'
      BY <1>4, <1>7, <2>1
    <3>2. \A i : Intactos(n, i, S)' => Intactos(n, i, L)'
      BY <1>1, <1>6 DEF Intactos
    <3>3. \A i \in DOMAIN cola' : i < S /\ i # L => i < L
      BY <1>1, <1>6
    <3>4. ~ (cola'[L].tcb = n /\ cola'[L].op = "ACTUALIZAR")
      BY <1>1, <2>1
    <3> QED
      BY <3>1, <3>2, <3>3, <3>4 DEF Registro
  <2>2. CASE op = "ACTUALIZAR" /\ c = n
    <3>1. x = r
      BY <1>7, <2>2
    <3>2. \A i : i < L => ~Intactos(n, i, S)'
      BY <1>1, <1>2, <1>6, <2>2 DEF Intactos
    <3>3. 0 < L /\ \A i \in DOMAIN cola' : i < L \/ i = L
      BY <1>1, <1>2
    <3> QED
      BY <1>1, <2>2, <3>1, <3>2, <3>3 DEF Registro
  <2> QED
    BY <2>1, <2>2
<1>8. S = Len(cola') + 1
  BY <1>1, <1>6
<1> QED
  BY <1>5, <1>7, <1>8, GuardadosDespues

\* Memoria takes the first of the queue: if it stores registers of n, those are the
\* ones it has for n from now on.
LEMMA RegistroRecibe ==
  ASSUME InvTipos, cola # <<>>, cola' = Tail(cola), NEW n,
         Ahora(n)' = IF cola[1].tcb = n /\ cola[1].op = "ACTUALIZAR" THEN cola[1].reg ELSE Ahora(n),
         NEW x, NEW j \in Nat, j >= 1, Registro(n, x, j + 1)
  PROVE  Registro(n, x, j)'
<1>1. /\ DOMAIN cola = 1 .. Len(cola) /\ Len(cola) \in Nat /\ Len(cola) >= 1
      /\ DOMAIN cola' = 1 .. Len(cola) - 1
      /\ \A i \in 1 .. Len(cola) - 1 : cola'[i] = cola[i + 1]
  BY CpuPartes, SirveCambia
<1>2. \A i \in DOMAIN cola' : i \in Nat /\ i >= 1 /\ i + 1 \in DOMAIN cola /\ cola'[i] = cola[i + 1]
  BY <1>1
<1>3. \A l \in DOMAIN cola : l # 1 => l \in Nat /\ l - 1 \in DOMAIN cola' /\ cola'[l - 1] = cola[l]
  BY <1>1
<1>4. ASSUME NEW i \in Nat, Intactos(n, i, j)'
      PROVE  Intactos(n, i + 1, j + 1)
  <2> SUFFICES ASSUME NEW l \in DOMAIN cola, i + 1 < l, l < j + 1, cola[l].tcb = n
               PROVE  cola[l].op # "ACTUALIZAR"
    BY DEF Intactos
  <2>1. l \in Nat /\ l # 1
    BY <1>1
  <2>2. l - 1 \in DOMAIN cola' /\ cola'[l - 1] = cola[l] /\ i < l - 1 /\ l - 1 < j
    BY <1>3, <2>1
  <2> QED
    BY <1>4, <2>2 DEF Intactos
<1>5. ASSUME NEW i \in DOMAIN cola', i < j, cola'[i].tcb = n, cola'[i].op = "ACTUALIZAR",
             Intactos(n, i, j)'
      PROVE  x = cola'[i].reg
  <2>1. i + 1 \in DOMAIN cola /\ cola'[i] = cola[i + 1] /\ i + 1 < j + 1 /\ Intactos(n, i + 1, j + 1)
    BY <1>2, <1>4, <1>5
  <2> QED
    BY <1>5, <2>1 DEF Registro
<1>6. ASSUME Intactos(n, 0, j)'
      PROVE  x = Ahora(n)'
  <2>1. Intactos(n, 1, j + 1)
    BY <1>4, <1>6
  <2>2. 1 \in DOMAIN cola /\ 1 < j + 1
    BY <1>1
  <2>3. CASE cola[1].tcb = n /\ cola[1].op = "ACTUALIZAR"
    BY <2>1, <2>2, <2>3 DEF Registro
  <2>4. CASE ~ (cola[1].tcb = n /\ cola[1].op = "ACTUALIZAR")
    <3>1. \A l \in DOMAIN cola : 1 < l \/ l = 1
      BY <1>1
    <3>2. Intactos(n, 0, j + 1)
      BY <2>1, <2>4, <3>1 DEF Intactos
    <3> QED
      BY <2>4, <3>2 DEF Registro
  <2> QED
    BY <2>3, <2>4
<1> QED
  BY <1>5, <1>6 DEF Registro

LEMMA GuardadosRecibe ==
  ASSUME InvTipos, cola # <<>>, cola' = Tail(cola), UNCHANGED guardado, NEW n, Guardados(n),
         Ahora(n)' = IF cola[1].tcb = n /\ cola[1].op = "ACTUALIZAR" THEN cola[1].reg ELSE Ahora(n)
  PROVE  Guardados(n)'
<1>1. /\ DOMAIN cola = 1 .. Len(cola) /\ Len(cola) \in Nat /\ Len(cola) >= 1
      /\ DOMAIN cola' = 1 .. Len(cola) - 1 /\ Len(cola') = Len(cola) - 1
      /\ \A i \in 1 .. Len(cola) - 1 : cola'[i] = cola[i + 1]
  BY CpuPartes, SirveCambia
<1>2. ASSUME NEW j \in DOMAIN cola', NEW x, cola'[j].tcb = n, cola'[j].op # "ACTUALIZAR",
             x = cola'[j].reg
      PROVE  Registro(n, x, j)'
  <2>1. j \in Nat /\ j >= 1 /\ j + 1 \in DOMAIN cola /\ cola'[j] = cola[j + 1]
    BY <1>1
  <2>2. Registro(n, x, j + 1)
    BY <1>2, <2>1 DEF Guardados
  <2> QED
    BY <2>1, <2>2, RegistroRecibe
<1>3. PICK L \in Nat : L = Len(cola)
  BY <1>1
<1>4. ASSUME NEW x, x = guardado'[n]
      PROVE  Registro(n, x, L)'
  <2>1. Registro(n, x, L + 1)
    BY <1>3, <1>4 DEF Guardados
  <2> QED
    BY <1>1, <1>3, <2>1, RegistroRecibe
<1>5. L = Len(cola') + 1
  BY <1>1, <1>3
<1> QED
  BY <1>2, <1>4, <1>5, GuardadosDespues

LEMMA ContextoCpu ==
  ASSUME InvTipos, InvContexto, Conserva, UNCHANGED <<memoria, mem, servidor, kern>>, CpuMueve
  PROVE  InvContexto'
<1>1. /\ UNCHANGED <<memo, procesos, hilos, servidor>> /\ Len(memo) \in 0 .. MaxHilos
      /\ DOMAIN memo = 1 .. Len(memo) /\ MaxHilos \in Nat
      /\ guardado \in [1 .. MaxHilos -> Registros]
      /\ \A n \in 1 .. Len(memo) : n \in 1 .. MaxHilos /\ guardado[n] \in Registros
  BY CpuPartes, PeticionesAssumption DEF mem, Conserva
<1>2. \A n : /\ Encontrado(n)' <=> Encontrado(n)
             /\ Ahora(n)' = Ahora(n)
  BY <1>1 DEF Encontrado, Repetido, Ahora
<1>3. ContextoFiel'
  BY <1>1 DEF InvContexto, ContextoFiel, Usado, Repetido
<1>4. ASSUME NEW op \in Consultas, NEW c \in 1 .. Len(memo), NEW r \in Registros,
             Consulta(op, c, r),
             IF op = "ACTUALIZAR" THEN guardado' = [guardado EXCEPT ![c] = r]
             ELSE UNCHANGED guardado /\ r = guardado[c]
      PROVE  InvContexto'
  <2>1. \A n \in 1 .. MaxHilos : n # c => guardado'[n] = guardado[n]
    BY <1>1, <1>4
  <2>2. op = "ACTUALIZAR" => guardado'[c] = r
    BY <1>1, <1>4
  <2>3. ASSUME NEW n \in DOMAIN memo, Encontrado(n)
        PROVE  Guardados(n)'
    <3>1. Guardados(n) /\ n \in 1 .. MaxHilos
      BY <1>1, <2>3 DEF InvContexto
    <3>2. IF op = "ACTUALIZAR" /\ c = n THEN guardado'[n] = r ELSE guardado'[n] = guardado[n]
      BY <1>4, <2>1, <2>2, <3>1
    <3>3. op # "ACTUALIZAR" /\ c = n => r = guardado[n]
      BY <1>4
    <3> QED
      BY <1>2, <1>4, <3>1, <3>2, <3>3, GuardadosEnvia
  <2>4. \A n \in 1 .. MaxHilos : n > Len(memo) => guardado'[n] = 0
    BY <1>1, <2>1 DEF InvContexto
  <2> QED
    BY <1>1, <1>2, <1>3, <2>3, <2>4 DEF InvContexto
<1>5. ASSUME NEW n \in DOMAIN memo, Despachar(n)
      PROVE  InvContexto'
  <2>1. Consulta("CONTEXTO", n, guardado[n]) /\ UNCHANGED guardado
    BY <1>5 DEF Despachar
  <2> QED
    BY <1>1, <1>4, <2>1 DEF Consultas
<1>6. CASE Preguntar
  <2>1. PICK op \in {"INSTRUCCION", "PASADA", "MEMORIA"} : Consulta(op, cpu.tcb, guardado[cpu.tcb])
    BY <1>6 DEF Preguntar
  <2>2. UNCHANGED guardado /\ cpu.tcb \in 1 .. Len(memo)
    BY <1>6, CpuPartes DEF Preguntar
  <2>3. op \in Consultas /\ op # "ACTUALIZAR"
    BY DEF Consultas
  <2> QED
    BY <1>1, <1>4, <2>1, <2>2, <2>3
<1>7. CASE RecibirBuffer
  <2>1. UNCHANGED <<cola, guardado>>
    BY <1>7 DEF RecibirBuffer
  <2> QED
    BY <1>1, <1>2, <2>1, ContextoQuieto
<1>8. CASE Devolver
  <2>1. /\ Consulta("ACTUALIZAR", cpu.tcb, rafagas) /\ cpu.tcb \in 1 .. Len(memo)
        /\ guardado' = [guardado EXCEPT ![cpu.tcb] = rafagas] /\ rafagas \in Registros
    BY <1>8, CpuPartes DEF Devolver
  <2> QED
    BY <1>4, <2>1 DEF Consultas
<1> QED
  BY <1>5, <1>6, <1>7, <1>8 DEF CpuMueve

LEMMA ContextoRecibir ==
  ASSUME InvTipos, InvVida, InvContexto, Conserva, Recibir,
         UNCHANGED <<kern, cpu, rafagas, guardado, tarde>>
  PROVE  InvContexto'
<1> DEFINE c == cola[1].tcb
           p == memo[c].pid
           t == memo[c].tid
           m == hilos[p][t]
<1>1. /\ c \in 1 .. Len(memo) /\ p \in Pids /\ t \in Tids /\ m \in 0 .. Len(memo)
      /\ servidor.op = "ninguna" /\ 1 \in 1 .. Len(cola)
      /\ UNCHANGED <<procesos, vaciado, memo, hilos>>
  BY RecibirCambia
<1>2. \/ UNCHANGED <<servidor, cola>>
      \/ /\ \/ cola[1].op = "MEMORIA"
            \/ (p \notin procesos \/ m = 0) /\ p \notin vaciado \cap procesos
         /\ servidor' = [op |-> "ninguna", obj |-> 0, reg |-> 0] /\ cola' = Tail(cola)
      \/ /\ p \in procesos /\ m # 0
         /\ servidor' = [op |-> cola[1].op, obj |-> m, reg |-> cola[1].reg] /\ cola' = Tail(cola)
  BY RecibirCambia
<1>3. cola # <<>> /\ DOMAIN memo = 1 .. Len(memo) /\ DOMAIN cola = 1 .. Len(cola)
  BY CpuPartes DEF Recibir, Conserva
<1>4. \A n : Encontrado(n)' <=> Encontrado(n)
  BY <1>1 DEF Encontrado, Repetido
<1>5. CASE UNCHANGED <<servidor, cola>>
  BY <1>1, <1>4, <1>5, ContextoQuieto DEF Ahora
<1>6. m # 0 => memo[m].pid = p /\ memo[m].tid = t /\ m \in DOMAIN memo
  <2>1. ASSUME NEW q \in Pids, NEW u \in Tids, hilos[q][u] # 0
        PROVE  memo[hilos[q][u]].pid = q /\ memo[hilos[q][u]].tid = u /\ hilos[q][u] \in 1 .. Len(memo)
    BY <2>1, Entrada DEF InvVida, InvTipos
  <2>2. PICK q \in Pids, u \in Tids : q = p /\ u = t
    BY <1>1
  <2>3. hilos[q][u] = m
    BY <2>2
  <2> HIDE DEF m
  <2>4. m # 0 => memo[m].pid = q /\ memo[m].tid = u /\ m \in 1 .. Len(memo)
    BY <2>1, <2>3
  <2> QED
    BY <1>3, <2>2, <2>4
<1>7. \A n \in DOMAIN memo : ~Repetido(n) /\ m = n /\ m # 0 => c = n
  BY <1>1, <1>3, <1>6 DEF Repetido
<1> HIDE DEF c, p, t, m
<1>8. ASSUME NEW n \in DOMAIN memo, Encontrado(n), c = n
      PROVE  p \in procesos /\ m = n /\ n # 0
  BY <1>3, <1>8 DEF Encontrado, p, t, m
<1>9. ASSUME cola' = Tail(cola), ContextoFiel',
             \A n \in DOMAIN memo : Encontrado(n) =>
               Ahora(n)' = IF c = n /\ cola[1].op = "ACTUALIZAR" THEN cola[1].reg ELSE Ahora(n)
      PROVE  InvContexto'
  <2>1. ASSUME NEW n \in DOMAIN memo, Encontrado(n)
        PROVE  Guardados(n)'
    <3>1. Guardados(n)
      BY <2>1 DEF InvContexto
    <3> QED
      BY <1>3, <1>9, <2>1, <3>1, GuardadosRecibe DEF c
  <2> QED
    BY <1>1, <1>4, <1>9, <2>1 DEF InvContexto
<1>10. CASE /\ \/ cola[1].op = "MEMORIA"
               \/ (p \notin procesos \/ m = 0) /\ p \notin vaciado \cap procesos
            /\ servidor' = [op |-> "ninguna", obj |-> 0, reg |-> 0] /\ cola' = Tail(cola)
  <2>1. servidor'.op = "ninguna"
    BY <1>10
  <2>2. \A n \in DOMAIN memo : Encontrado(n) => ~ (c = n /\ cola[1].op = "ACTUALIZAR")
    BY <1>8, <1>10
  <2>3. \A n : Ahora(n)' = Ahora(n)
    BY <1>1, <2>1 DEF Ahora
  <2> QED
    BY <1>9, <1>10, <2>1, <2>2, <2>3 DEF ContextoFiel
<1>11. CASE /\ p \in procesos /\ m # 0
            /\ servidor' = [op |-> cola[1].op, obj |-> m, reg |-> cola[1].reg] /\ cola' = Tail(cola)
  <2>1. servidor'.op = cola[1].op /\ servidor'.obj = m /\ servidor'.reg = cola[1].reg
    BY <1>11
  <2>2. ASSUME NEW n \in DOMAIN memo, Encontrado(n)
        PROVE  Ahora(n)' = IF c = n /\ cola[1].op = "ACTUALIZAR" THEN cola[1].reg ELSE Ahora(n)
    <3>1. m = n <=> c = n
      BY <1>7, <1>8, <1>11, <2>2 DEF Encontrado
    <3> QED
      BY <1>1, <2>1, <3>1 DEF Ahora
  <2>3. ContextoFiel'
    <3> SUFFICES ASSUME cola[1].op = "CONTEXTO", ~Repetido(m)
                 PROVE  memo[m].reg = cola[1].reg
      BY <1>1, <2>1 DEF ContextoFiel, Usado, Repetido
    <3>1. m \in DOMAIN memo /\ c = m
      BY <1>6, <1>7, <1>11
    <3>2. Encontrado(m)
      BY <1>11, <3>1 DEF Encontrado, p, t, m
    <3>3. Registro(m, cola[1].reg, 1)
      BY <1>1, <1>3, <3>1, <3>2 DEF InvContexto, Guardados, c
    <3>4. Intactos(m, 0, 1)
      BY <1>3, CpuPartes DEF Intactos
    <3> QED
      BY <1>1, <3>3, <3>4 DEF Registro, Ahora
  <2> QED
    BY <1>9, <1>11, <2>2, <2>3
<1> QED
  BY <1>2, <1>5, <1>10, <1>11

LEMMA ContextoServidor ==
  ASSUME InvTipos, InvContexto, Conserva,
         DarContexto \/ Actualizar \/ DarInstruccion \/ UsarLiberado,
         UNCHANGED <<kern, cpu, rafagas, guardado, tarde>>
  PROVE  InvContexto'
<1>1. UNCHANGED <<cola, guardado, procesos, hilos>>
  BY DEF DarContexto, Actualizar, DarInstruccion, UsarLiberado, Terminar, mem
<1>2. \A n \in 1 .. Len(memo) : Encontrado(n)' => Encontrado(n)
  BY <1>1, EncontradoAntes
<1>3. CASE UNCHANGED memo /\ (UNCHANGED servidor \/ (servidor'.op = "ninguna" /\ servidor.op # "ACTUALIZAR"))
  <2>1. \A n : Ahora(n)' = Ahora(n)
    BY <1>3 DEF Ahora
  <2> QED
    BY <1>1, <1>2, <1>3, <2>1, ContextoQuieto
<1>4. CASE Actualizar
  <2>1. /\ servidor.op = "ACTUALIZAR" /\ servidor'.op = "ninguna" /\ TiposMemoria
        /\ memo' = [memo EXCEPT ![servidor.obj].reg = servidor.reg] /\ servidor.reg \in Registros
    BY <1>4, CpuPartes DEF Actualizar, Terminar
  <2>2. Len(memo') = Len(memo) /\ \A m \in 1 .. Len(memo) :
          memo'[m].reg = IF m = servidor.obj THEN servidor.reg ELSE memo[m].reg
    BY <2>1, MemoReg
  <2>3. \A n \in 1 .. Len(memo) : Ahora(n)' = Ahora(n)
    BY <2>1, <2>2 DEF Ahora
  <2> QED
    BY <1>1, <1>2, <2>1, <2>2, <2>3, ContextoQuieto
<1> QED
  BY <1>3, <1>4 DEF DarContexto, DarInstruccion, UsarLiberado, Terminar, mem

LEMMA ContextoManejar ==
  ASSUME InvTipos, TiposMemoria', InvPedidos, InvContexto, Conserva, NEW k \in Hilos,
         manejar_peticion(k), UNCHANGED <<servidor, red, nuevos, proc, tarde>>
  PROVE  InvContexto'
<1>a. UNCHANGED <<cola, servidor, guardado>> /\ TiposMemoria
  BY DEF proc, InvTipos
<1>b. \A m \in 1 .. Len(memo) : memo[m].pid \in Pids /\ memo[m].tid \in Tids
  BY <1>a, MemoTipos
<1>1. CASE GuardarHilo(k)
  BY <1>a, <1>1, ContextoGuardarHilo
<1>2. CASE Destruir(k) \/ LiberarHilo(k) \/ QuitarHilo(k)
  <2>1. UNCHANGED procesos /\ Len(memo') = Len(memo)
        /\ \A m \in 1 .. Len(memo) : memo'[m].reg = memo[m].reg
    BY <1>a, <1>2, MemoEstado, MemoVacio DEF Destruir, LiberarHilo, QuitarHilo
  <2>2. \A m \in 1 .. Len(memo) :
          hilos'[memo[m].pid][memo[m].tid] = m => hilos[memo[m].pid][memo[m].tid] = m
    <3>1. CASE UNCHANGED hilos
      BY <3>1
    <3>2. CASE QuitarHilo(k)
      <4>1. hilos' = [hilos EXCEPT ![Pid(k)][Tid(k)] = 0] /\ hilos \in [Pids -> [Tids -> 0 .. Len(memo)]]
        BY <1>a, <3>2 DEF QuitarHilo, TiposMemoria
      <4>2. \A q \in Pids, u \in Tids : hilos'[q][u] = hilos[q][u] \/ hilos'[q][u] = 0
        BY <4>1
      <4>3. \A m \in 1 .. Len(memo) : m # 0
        BY <1>a, MemoTipos
      <4> QED
        BY <1>b, <4>2, <4>3
    <3> QED
      BY <1>2, <3>1, <3>2 DEF Destruir, LiberarHilo
  <2> QED
    BY <1>a, <2>1, <2>2, ContextoMemoria
<1>3. CASE GuardarProceso(k)
  <2>1. /\ procesos' = procesos \cup {Pid(k)} /\ UNCHANGED <<memo, hilos>>
        /\ peticion[k].op = "CREAR_PROCESO"
    BY <1>3 DEF GuardarProceso, En
  <2>2. \A m \in 1 .. Len(memo) : memo[m].pid # Pid(k)
    BY <2>1 DEF InvPedidos, PidsNuevos, Ajeno, Conserva
  <2> QED
    BY <1>a, <2>1, <2>2, ContextoMemoria
<1>4. CASE /\ ~GuardarHilo(k) /\ ~Destruir(k) /\ ~LiberarHilo(k) /\ ~QuitarHilo(k)
           /\ ~GuardarProceso(k)
  <2>1. UNCHANGED <<memo, hilos>> /\ procesos' \subseteq procesos
    BY <1>4 DEF manejar_peticion, Buscar, Marcar, BuscarProceso,
                TomarProceso, Soltar, QuitarProceso, TomarHilo, mem
  <2> QED
    BY <1>a, <2>1, ContextoMemoria
<1> QED
  BY <1>1, <1>2, <1>3, <1>4

LEMMA ContextoSiguiente ==
  ASSUME InvTipos, InvTipos', InvPedidos, InvVida, InvContexto, [Next]_vars
  PROVE  InvContexto'
<1>a. Conserva /\ TiposMemoria /\ TiposMemoria'
  BY SiempreConserva DEF InvTipos
<1>1. CASE UNCHANGED <<mem, servidor, proc>>
  <2>1. UNCHANGED <<memo, procesos, hilos, cola, servidor, guardado>>
    BY <1>1 DEF mem, proc
  <2> QED
    BY <1>a, <2>1, ContextoMemoria
<1>2. CASE UNCHANGED vars
  BY <1>1, <1>2 DEF vars
<1>3. ASSUME NEW k \in Hilos, manejar_peticion(k), UNCHANGED <<servidor, red, nuevos, proc, tarde>>
      PROVE  InvContexto'
  BY <1>a, <1>3, ContextoManejar
<1>4. CASE CpuMueve /\ UNCHANGED <<memoria, mem, servidor, kern>>
  BY <1>a, <1>4, ContextoCpu
<1>5. CASE hilo_instrucciones_cpu /\ UNCHANGED <<kern, cpu, rafagas, guardado, tarde>>
  BY <1>a, <1>5, ContextoRecibir, ContextoServidor DEF hilo_instrucciones_cpu
<1> QED
  BY <1>1, <1>2, <1>3, <1>4, <1>5, Casos

LEMMA ContextoInicial == Init => InvContexto
<1> SUFFICES ASSUME Init
             PROVE  InvContexto
  OBVIOUS
<1>1. memo = <<>> /\ DOMAIN memo = {} /\ servidor.op = "ninguna"
      /\ \A n \in 1 .. MaxHilos : guardado[n] = 0
  BY EmptySeq DEF Init
<1> QED
  BY <1>1 DEF InvContexto, ContextoFiel

\* Memoria answers a request for the context of a hilo with the registers the CPU
\* had saved last when it asked, zeros the first time, although nobody waits for
\* them to be stored and the CPU may have asked before they were.
THEOREM ContextosFieles == Spec => []ContextoFiel
<1> DEFINE Inv == InvTipos /\ InvPedidos /\ InvVida /\ InvContexto
<1>1. Init => Inv
  BY TiposInicial, PedidosInicial, VidaInicial, ContextoInicial
<1>2. Inv /\ [Next]_vars => Inv'
  BY TiposSiguiente, PedidosSiguiente, VidaSiguiente, ContextoSiguiente
<1>3. Inv => ContextoFiel
  BY DEF InvContexto
<1> QED
  BY <1>1, <1>2, <1>3, PTL DEF Spec
=============================================================================
