----------------------------- MODULE Peticiones -----------------------------
(***************************************************************************)
(* The requests that Memoria serves: one thread of manejar_peticion for    *)
(* each request of the Kernel and hilo_instrucciones_cpu for the CPU, over *)
(* the dictionary procesos, the hilos of each process and the partitions,  *)
(* none of which has a lock.                                               *)
(*                                                                         *)
(* A t_proceso is known by its PID, which the Kernel never repeats.  A     *)
(* t_hilo is its index in memo, in the order they were created: the same   *)
(* TID may come again in a process (crear_tcb does not assign it) and the  *)
(* dictionary then keeps the newer.  Partitions are blocks of one size:    *)
(* which one a search picks, splits and joins are left to Particiones.     *)
(*                                                                         *)
(* The Kernel is here as far as its code limits what it asks: the thread   *)
(* that dispatches asks nothing while the CPU has a hilo, and a process is *)
(* new to everybody else until its hilo 0 exists.  A TCB may be dispatched *)
(* after its end: THREAD_CANCEL and PROCESS_EXIT leave TCBs in READY.      *)
(*                                                                         *)
(* The CPU does not read the answer to ACTUALIZAR_CONTEXTO, so from then   *)
(* on what it reads is not what it asked for, and it may go on before      *)
(* Memoria has served it.                                                  *)
(***************************************************************************)
EXTENDS Integers, Sequences, FiniteSets

CONSTANTS
  Pids, Tids, Bloques,
  Nada,
  Principal,       \* the thread of the Kernel that dispatches
  Largo,           \* the one of the long-term scheduler
  MaxHilos,        \* bound: hilos made by crear_hilo
  MaxRafagas,      \* bound: bursts of the CPU
  MaxCola          \* bound: requests of the CPU not read, when it makes another

ASSUME PeticionesAssumption ==
  /\ Nada \notin Pids \cup Bloques
  /\ Principal # Largo
  /\ MaxHilos \in Nat /\ MaxRafagas \in Nat /\ MaxCola \in Nat

VARIABLES
  \* Memoria
  memoria,      \* "viva"; "colgada": it used freed memory or NULL; "indefinida":
                \* two threads collided
  libres,       \* the partitions with estado 0
  procesos,     \* the keys of the dictionary
  base,         \* contexto.base of each t_proceso
  vaciado,      \* the t_proceso whose contents are freed
  memo,         \* the t_hilo
  hilos,        \* the dictionary of each process: TID -> index in memo, or 0
  cola,         \* what the CPU sent and hilo_instrucciones_cpu has not read
  servidor,     \* the request it is serving and the t_hilo it found
  respuestas,   \* there are bytes of Memoria that the CPU has not read
  desfase,      \* among them was an answer to ACTUALIZAR_CONTEXTO
  \* The Kernel and the CPU
  peticion,     \* the request each thread of the Kernel waits for, and how far it is
  nuevos,       \* PIDs no thread has asked to create
  tcbs,         \* the TCBs of the Kernel, by the t_hilo that was made for each
  cpu,          \* the burst: the TCB and what it waits for
  rafagas,      \* bursts so far
  \* History
  guardado,     \* the registers the CPU saved last for each TCB
  carrera,      \* two threads were about to use a structure and one to change it
  tarde         \* an end was asked for with requests of the hilo under way, or with
                \* another hilo under its TID; or an ended hilo was dispatched

mem == <<libres, procesos, base, vaciado, memo, hilos>>
kern == <<peticion, nuevos, tcbs>>
proc == <<cpu, rafagas, cola, guardado>>
red == <<respuestas, desfase>>
vars == <<memoria, mem, servidor, red, kern, proc, carrera, tarde>>

Hilos == {Principal, Largo}
Libre == [op |-> "ninguna", pid |-> Nada, tid |-> Nada, paso |-> "fin", obj |-> 0,
          bloque |-> Nada]
Operaciones == {"CREAR_PROCESO", "CREAR_HILO", "FINALIZAR_PROCESO", "FINALIZAR_HILO"}
Pasos == {"buscar", "marcar", "guardar", "get", "soltar", "destruir", "liberar",
          "quitar", "fin"}
\* "PASADA": an instruction after the last one of the file.
Consultas == {"CONTEXTO", "INSTRUCCION", "PASADA", "ACTUALIZAR", "MEMORIA"}
Indices == 0 .. MaxHilos
Registros == 0 .. MaxRafagas

\* Dictionaries lead to t_hilo that exist; every request is at a known place.
TypeOK ==
  /\ memoria \in {"viva", "colgada", "indefinida"}
  /\ libres \subseteq Bloques /\ procesos \subseteq Pids /\ vaciado \subseteq Pids
  /\ base \in [Pids -> Bloques \cup {Nada}]
  /\ memo \in Seq([pid : Pids, tid : Tids, reg : Registros,
                   estado : {"sano", "vacio", "libre"}])
  /\ hilos \in [Pids -> [Tids -> 0 .. Len(memo)]]
  /\ cola \in Seq([op : Consultas, tcb : 1 .. MaxHilos, reg : Registros])
  /\ servidor.obj \in 0 .. Len(memo)
  /\ peticion \in [Hilos -> [op : Operaciones \cup {"ninguna"}, pid : Pids \cup {Nada},
                             tid : Tids \cup {Nada}, paso : Pasos, obj : Indices,
                             bloque : Bloques \cup {Nada}]]
  /\ nuevos \subseteq Pids /\ tcbs \subseteq 1 .. Len(memo)
  /\ cpu.espera \in Consultas \cup {"ociosa", "corre"}
  /\ respuestas \in BOOLEAN /\ desfase \in BOOLEAN
  /\ guardado \in [1 .. MaxHilos -> Registros]
  /\ carrera \in BOOLEAN /\ tarde \in BOOLEAN

Init ==
  /\ memoria = "viva"
  /\ libres = Bloques /\ procesos = {} /\ vaciado = {}
  /\ base = [p \in Pids |-> Nada]
  /\ memo = <<>>
  /\ hilos = [p \in Pids |-> [t \in Tids |-> 0]]
  /\ cola = <<>> /\ servidor = [op |-> "ninguna", obj |-> 0, reg |-> 0]
  /\ peticion = [k \in Hilos |-> Libre]
  /\ nuevos = Pids /\ tcbs = {}
  /\ respuestas = FALSE /\ desfase = FALSE
  /\ cpu = [tcb |-> 0, espera |-> "ociosa"] /\ rafagas = 0
  /\ guardado = [n \in 1 .. MaxHilos |-> 0]
  /\ carrera = FALSE /\ tarde = FALSE

---------------------------------------------------------------------------
(* The threads of the Kernel *)

Ociosa(k) ==
  /\ peticion[k] = Libre
  /\ k = Principal => cpu.espera = "ociosa"

Pedir(k, op, pid, tid, paso) ==
  peticion' = [peticion EXCEPT ![k] =
                 [Libre EXCEPT !.op = op, !.pid = pid, !.tid = tid, !.paso = paso]]

\* Bound: the hilos made and those asked for.
Cabe == Len(memo) + Cardinality({k \in Hilos : peticion[k].op = "CREAR_HILO"}) < MaxHilos

\* crearProceso: crearProcesoMemoria with a PID of its own.
PedirProceso(k) ==
  /\ Ociosa(k)
  /\ \E p \in nuevos :
       /\ Pedir(k, "CREAR_PROCESO", p, Nada, "buscar")
       /\ nuevos' = nuevos \ {p}
  /\ UNCHANGED <<tcbs, tarde>>

\* crear_hilo: hilo 0 of a process Memoria has just accepted.
PedirHiloCero(k) ==
  /\ peticion[k].op = "CREAR_PROCESO" /\ peticion[k].paso = "fin"
  /\ Cabe
  /\ \E t \in Tids : Pedir(k, "CREAR_HILO", peticion[k].pid, t, "get")
  /\ UNCHANGED <<nuevos, tcbs, tarde>>

\* THREAD_CREATE, for a hilo of a process that has one.
PedirHilo(n) ==
  /\ Ociosa(Principal)
  /\ Cabe
  /\ \E t \in Tids : Pedir(Principal, "CREAR_HILO", memo[n].pid, t, "get")
  /\ UNCHANGED <<nuevos, tcbs, tarde>>

Gemelos(n) == {m \in DOMAIN memo : memo[m].pid = memo[n].pid /\ memo[m].tid = memo[n].tid}

\* Requests of the CPU for a hilo of S that Memoria has not finished with.
EnCamino(S) ==
  \/ \E i \in DOMAIN cola : cola[i].tcb \in S
  \/ servidor.op # "ninguna" /\ servidor.obj \in S

\* THREAD_EXIT and THREAD_CANCEL: finalizarHiloMemoria.
PedirFinHilo(n) ==
  /\ Ociosa(Principal)
  /\ Pedir(Principal, "FINALIZAR_HILO", memo[n].pid, memo[n].tid, "get")
  /\ tcbs' = tcbs \ {n}
  /\ tarde' = (tarde \/ EnCamino(Gemelos(n))
                  \/ \E m \in Gemelos(n) \ {n} : m \in tcbs)
  /\ UNCHANGED nuevos

\* PROCESS_EXIT: finalizarProcesoMemoria; the hilos of the process go with it.
PedirFinProceso(n) ==
  /\ Ociosa(Principal)
  /\ LET suyos == {m \in DOMAIN memo : memo[m].pid = memo[n].pid}
     IN  /\ Pedir(Principal, "FINALIZAR_PROCESO", memo[n].pid, Nada, "get")
         /\ tcbs' = tcbs \ suyos
         /\ tarde' = (tarde \/ EnCamino(suyos))
  /\ UNCHANGED nuevos

---------------------------------------------------------------------------
(* manejar_peticion: one step per access to what the threads share *)

En(k, op, paso) == peticion[k].op = op /\ peticion[k].paso = paso

Pid(k) == peticion[k].pid
Tid(k) == peticion[k].tid

\* The next step of the request, or its answer: the Kernel's thread goes on.
Sigue(k, paso) == peticion' = [peticion EXCEPT ![k].paso = paso]
Contesta(k) == peticion' = [peticion EXCEPT ![k] = Libre]

\* Otherwise Memoria dereferences NULL or memory it has freed.
Requiere(sano) == memoria' = IF sano THEN memoria ELSE "colgada"

\* crear_proceso: asignar_memoria looks for a free partition, and there may be none
\* big enough; then it marks it.
Buscar(k) ==
  /\ En(k, "CREAR_PROCESO", "buscar")
  /\ \/ \E b \in libres :
          peticion' = [peticion EXCEPT ![k].paso = "marcar", ![k].bloque = b]
     \/ Contesta(k)
  /\ UNCHANGED <<memoria, mem, tcbs>>

Marcar(k) ==
  /\ En(k, "CREAR_PROCESO", "marcar")
  /\ libres' = libres \ {peticion[k].bloque}
  /\ base' = [base EXCEPT ![Pid(k)] = peticion[k].bloque]
  /\ Sigue(k, "guardar")
  /\ UNCHANGED <<memoria, procesos, vaciado, memo, hilos, tcbs>>

GuardarProceso(k) ==
  /\ En(k, "CREAR_PROCESO", "guardar")
  /\ procesos' = procesos \cup {Pid(k)}
  /\ Sigue(k, "fin")
  /\ UNCHANGED <<memoria, libres, base, vaciado, memo, hilos, tcbs>>

\* crear_hilo: the process and its file, which may not open, then the dictionary.
BuscarProceso(k) ==
  /\ En(k, "CREAR_HILO", "get")
  /\ \/ Pid(k) \in procesos /\ Sigue(k, "guardar")
     \/ Contesta(k)
  /\ UNCHANGED <<memoria, mem, tcbs>>

\* Mutant: inicializar_registros is not called.
GuardarHiloMut(k) ==
  /\ En(k, "CREAR_HILO", "guardar")
  /\ Requiere(Pid(k) \notin vaciado)
  /\ memo' = Append(memo, [pid |-> Pid(k), tid |-> Tid(k), reg |-> -1, estado |-> "sano"])
  /\ hilos' = [hilos EXCEPT ![Pid(k)][Tid(k)] = Len(memo) + 1]
  /\ tcbs' = tcbs \cup {Len(memo) + 1}
  /\ Contesta(k)
  /\ UNCHANGED <<libres, procesos, base, vaciado>>

\* dictionary_put: a hilo with the same TID is replaced and never freed.
GuardarHilo(k) ==
  /\ En(k, "CREAR_HILO", "guardar")
  /\ Requiere(Pid(k) \notin vaciado)
  /\ memo' = Append(memo, [pid |-> Pid(k), tid |-> Tid(k), reg |-> 0, estado |-> "sano"])
  /\ hilos' = [hilos EXCEPT ![Pid(k)][Tid(k)] = Len(memo) + 1]
  /\ tcbs' = tcbs \cup {Len(memo) + 1}
  /\ Contesta(k)
  /\ UNCHANGED <<libres, procesos, base, vaciado>>

\* finalizar_proceso: get_proceso; liberar_proceso gives the partition back and
\* empties the hilos; only then is the process taken out of the dictionary.
\* What free(contexto.base) may do before that is in Particiones (EfectosBase).
TomarProceso(k) ==
  /\ En(k, "FINALIZAR_PROCESO", "get")
  /\ IF Pid(k) \in procesos THEN Sigue(k, "soltar") ELSE Contesta(k)
  /\ UNCHANGED <<memoria, mem, tcbs>>

\* Mutant: the partition is not given back.
SoltarMut(k) ==
  /\ En(k, "FINALIZAR_PROCESO", "soltar")
  /\ Sigue(k, "destruir")
  /\ UNCHANGED <<memoria, mem, tcbs>>

Soltar(k) ==
  /\ En(k, "FINALIZAR_PROCESO", "soltar")
  /\ libres' = libres \cup {base[Pid(k)]}
  /\ Sigue(k, "destruir")
  /\ UNCHANGED <<memoria, procesos, base, vaciado, memo, hilos, tcbs>>

\* liberar_hilo on every element: freeing one twice is caught by free().
Destruir(k) ==
  /\ En(k, "FINALIZAR_PROCESO", "destruir")
  /\ LET suyos == {hilos[Pid(k)][t] : t \in Tids} \ {0}
     IN  /\ Requiere(\A n \in suyos : memo[n].estado = "sano")
         /\ memo' = [n \in DOMAIN memo |->
                       IF n \in suyos THEN [memo[n] EXCEPT !.estado = "vacio"] ELSE memo[n]]
  /\ vaciado' = vaciado \cup {Pid(k)}
  /\ Sigue(k, "quitar")
  /\ UNCHANGED <<libres, procesos, base, hilos, tcbs>>

QuitarProceso(k) ==
  /\ En(k, "FINALIZAR_PROCESO", "quitar")
  /\ procesos' = procesos \ {Pid(k)}
  /\ Contesta(k)
  /\ UNCHANGED <<memoria, libres, base, vaciado, memo, hilos, tcbs>>

\* get_hilo does not check what get_proceso returned.
SinProceso(p) == p \notin procesos \/ p \in vaciado

\* finalizar_hilo: get_hilo, liberar_hilo, and the dictionary of get_proceso.
TomarHilo(k) ==
  /\ En(k, "FINALIZAR_HILO", "get")
  /\ Requiere(~SinProceso(Pid(k)))
  /\ LET n == hilos[Pid(k)][Tid(k)]
     IN  peticion' = [peticion EXCEPT
                        ![k] = IF n = 0 THEN Libre ELSE [@ EXCEPT !.paso = "liberar", !.obj = n]]
  /\ UNCHANGED <<mem, tcbs>>

LiberarHilo(k) ==
  /\ En(k, "FINALIZAR_HILO", "liberar")
  /\ Requiere(memo[peticion[k].obj].estado = "sano")
  /\ memo' = [memo EXCEPT ![peticion[k].obj].estado = "vacio"]
  /\ Sigue(k, "quitar")
  /\ UNCHANGED <<libres, procesos, base, vaciado, hilos, tcbs>>

\* Mutant: the hilo stays in the dictionary.
QuitarHiloMut(k) ==
  /\ En(k, "FINALIZAR_HILO", "quitar")
  /\ memo' = [memo EXCEPT ![peticion[k].obj].estado = "libre"]
  /\ Contesta(k)
  /\ UNCHANGED <<memoria, libres, procesos, base, vaciado, hilos, tcbs>>

\* Mutant: the dictionary of the process is emptied.
QuitarHiloMutTodos(k) ==
  /\ En(k, "FINALIZAR_HILO", "quitar")
  /\ memo' = [memo EXCEPT ![peticion[k].obj].estado = "libre"]
  /\ hilos' = [hilos EXCEPT ![Pid(k)] = [t \in Tids |-> 0]]
  /\ Contesta(k)
  /\ UNCHANGED <<memoria, libres, procesos, base, vaciado, tcbs>>

QuitarHilo(k) ==
  /\ En(k, "FINALIZAR_HILO", "quitar")
  /\ Requiere(~SinProceso(Pid(k)))
  /\ memo' = [memo EXCEPT ![hilos[Pid(k)][Tid(k)]].estado = "libre"]
  /\ hilos' = [hilos EXCEPT ![Pid(k)][Tid(k)] = 0]
  /\ Contesta(k)
  /\ UNCHANGED <<libres, procesos, base, vaciado, tcbs>>

manejar_peticion(k) ==
  \/ Buscar(k) \/ Marcar(k) \/ GuardarProceso(k)
  \/ BuscarProceso(k) \/ GuardarHilo(k)
  \/ TomarProceso(k) \/ Soltar(k) \/ Destruir(k) \/ QuitarProceso(k)
  \/ TomarHilo(k) \/ LiberarHilo(k) \/ QuitarHilo(k)

---------------------------------------------------------------------------
(* The CPU, and hilo_instrucciones_cpu, which serves it in order *)

Consulta(op, n, r) == cola' = Append(cola, [op |-> op, tcb |-> n, reg |-> r])

\* The Kernel dispatches TCB n and the CPU asks for its context.  The registers in
\* a request that carries none are those the CPU had saved last: history.
Despachar(n) ==
  /\ Ociosa(Principal)
  /\ rafagas < MaxRafagas
  /\ rafagas' = rafagas + 1
  /\ cpu' = [tcb |-> n, espera |-> "CONTEXTO"]
  /\ Consulta("CONTEXTO", n, guardado[n])
  /\ tarde' = (tarde \/ n \notin tcbs)
  /\ UNCHANGED <<guardado, red>>

\* fetchInstruccion, and the two accesses to user memory.
Preguntar ==
  /\ cpu.espera = "corre"
  /\ Len(cola) < MaxCola
  /\ \E op \in {"INSTRUCCION", "PASADA", "MEMORIA"} :
       cpu' = [cpu EXCEPT !.espera = op] /\ Consulta(op, cpu.tcb, guardado[cpu.tcb])
  /\ UNCHANGED <<rafagas, guardado, red, tarde>>

\* RecibirBuffer: what there is, be it the answer or not.  Its size is the size of
\* a message until the answer to an ACTUALIZAR_CONTEXTO, which starts with the
\* operation; afterwards it takes any part of what has arrived.
RecibirBuffer ==
  /\ cpu.espera \in Consultas
  /\ respuestas
  /\ cpu' = [cpu EXCEPT !.espera = "corre"]
  /\ respuestas' \in (IF desfase THEN BOOLEAN ELSE {FALSE})
  /\ UNCHANGED <<desfase, cola, rafagas, guardado, tarde>>

\* End of the burst: the CPU sends the registers, changed, and does not wait.
Devolver ==
  /\ cpu.espera = "corre"
  /\ Consulta("ACTUALIZAR", cpu.tcb, rafagas)
  /\ guardado' = [guardado EXCEPT ![cpu.tcb] = rafagas]
  /\ cpu' = [tcb |-> 0, espera |-> "ociosa"]
  /\ UNCHANGED <<rafagas, red, tarde>>

Servir(op, n, r) ==
  /\ servidor' = [op |-> op, obj |-> n, reg |-> r]
  /\ cola' = Tail(cola)

\* enviar_contexto, enviar_instruccion and enviar_estado.
Responder(op) ==
  /\ respuestas' = TRUE
  /\ desfase' = (desfase \/ op = "ACTUALIZAR")

\* What get_hilo, or the checks before it, find for the first request in the queue.
\* OBTENER_CONTEXTO and ACTUALIZAR_CONTEXTO check the process and the hilo, and only
\* the second is then answered; OBTENER_INSTRUCCION checks neither.  READ_MEM and
\* WRITE_MEM do nothing.
Recibir ==
  /\ servidor.op = "ninguna"
  /\ cola # <<>>
  /\ LET c == Head(cola)
         p == memo[c.tcb].pid
         n == hilos[p][memo[c.tcb].tid]
         falta == p \notin procesos \/ n = 0
     IN  \/ /\ c.op # "MEMORIA"
            /\ p \in vaciado \cap procesos \/ (c.op \in {"INSTRUCCION", "PASADA"} /\ falta)
            /\ memoria' = "colgada"
            /\ UNCHANGED <<servidor, cola, red>>
         \/ /\ \/ c.op = "MEMORIA"
               \/ c.op \in {"CONTEXTO", "ACTUALIZAR"} /\ falta /\ p \notin vaciado \cap procesos
            /\ Servir("ninguna", 0, 0)
            /\ IF c.op = "ACTUALIZAR" THEN Responder(c.op) ELSE UNCHANGED red
            /\ UNCHANGED memoria
         \/ /\ c.op # "MEMORIA" /\ ~falta /\ p \notin vaciado
            /\ Servir(c.op, n, c.reg)
            /\ UNCHANGED <<memoria, red>>
  /\ UNCHANGED mem

Terminar == servidor' = [op |-> "ninguna", obj |-> 0, reg |-> 0] /\ UNCHANGED cola

Usado == memo[servidor.obj]

\* obtener_contexto copies the registers.
DarContexto ==
  /\ servidor.op = "CONTEXTO" /\ Usado.estado # "libre"
  /\ Responder("CONTEXTO")
  /\ Terminar
  /\ UNCHANGED <<memoria, mem>>

\* Mutant: the registers are not copied.
ActualizarMut ==
  /\ servidor.op = "ACTUALIZAR" /\ Usado.estado # "libre"
  /\ Responder("ACTUALIZAR")
  /\ Terminar
  /\ UNCHANGED <<memoria, mem>>

\* actualizar_contexto writes them; enviar_estado answers.
Actualizar ==
  /\ servidor.op = "ACTUALIZAR" /\ Usado.estado # "libre"
  /\ memo' = [memo EXCEPT ![servidor.obj].reg = servidor.reg]
  /\ Responder("ACTUALIZAR")
  /\ Terminar
  /\ UNCHANGED <<memoria, libres, procesos, base, vaciado, hilos>>

\* obtener_instruccion_numero; past the last one, strlen gets NULL.
DarInstruccion ==
  /\ servidor.op \in {"INSTRUCCION", "PASADA"} /\ Usado.estado = "sano"
  /\ \/ servidor.op = "INSTRUCCION" /\ Responder("INSTRUCCION") /\ Terminar /\ UNCHANGED memoria
     \/ servidor.op = "PASADA" /\ memoria' = "colgada" /\ UNCHANGED <<servidor, cola, red>>
  /\ UNCHANGED mem

\* The t_hilo was freed since Recibir.
UsarLiberado ==
  /\ servidor.op # "ninguna"
  /\ \/ Usado.estado = "libre"
     \/ servidor.op \in {"INSTRUCCION", "PASADA"} /\ Usado.estado # "sano"
  /\ memoria' = "colgada"
  /\ UNCHANGED <<mem, servidor, cola, red>>

hilo_instrucciones_cpu ==
  Recibir \/ DarContexto \/ Actualizar \/ DarInstruccion \/ UsarLiberado

---------------------------------------------------------------------------
(* Data races: what each thread is about to use and to change *)

Escribe(k) ==
  CASE peticion[k].paso \in {"marcar", "soltar"}                 -> {<<"lista_particiones">>}
    [] En(k, "CREAR_PROCESO", "guardar")                         -> {<<"procesos">>}
    [] En(k, "FINALIZAR_PROCESO", "quitar")                      -> {<<"procesos">>}
    [] En(k, "CREAR_HILO", "guardar") \/ En(k, "FINALIZAR_HILO", "quitar")
       \/ En(k, "FINALIZAR_PROCESO", "destruir")                 -> {<<"hilos", Pid(k)>>}
    [] OTHER                                                     -> {}

Usa(k) ==
  Escribe(k) \cup
  (CASE peticion[k].paso = "buscar"                              -> {<<"lista_particiones">>}
     [] peticion[k].paso = "get" \/ En(k, "FINALIZAR_HILO", "quitar") -> {<<"procesos">>}
     [] OTHER                                                    -> {})

UsaServidor ==
  IF servidor.op = "ninguna" /\ cola # <<>>
  THEN {<<"procesos">>, <<"hilos", memo[Head(cola).tcb].pid>>}
  ELSE {}

EnCarrera ==
  \/ Escribe(Principal) \cap Usa(Largo) # {}
  \/ Escribe(Largo) \cap Usa(Principal) # {}
  \/ \E k \in Hilos : Escribe(k) \cap UsaServidor # {}

\* The two accesses overlap and the structure is broken.
Chocar ==
  /\ EnCarrera
  /\ memoria' = "indefinida"
  /\ UNCHANGED <<mem, servidor, red, kern, proc, tarde>>

\* A hilo asks through the Kernel while it exists, or once dispatched after its end.
PedirAlgo ==
  /\ \/ \E k \in Hilos : PedirProceso(k) \/ PedirHiloCero(k)
     \/ \E n \in (IF tarde THEN DOMAIN memo ELSE tcbs) :
          PedirHilo(n) \/ PedirFinHilo(n) \/ PedirFinProceso(n)
  /\ UNCHANGED <<memoria, mem, servidor, red, proc>>

Next ==
  /\ memoria = "viva"
  /\ carrera' = (carrera \/ EnCarrera)
  /\ \/ PedirAlgo
     \/ /\ \E k \in Hilos : manejar_peticion(k)
        /\ UNCHANGED <<servidor, red, nuevos, proc, tarde>>
     \/ /\ (\E n \in DOMAIN memo : Despachar(n)) \/ Preguntar \/ RecibirBuffer \/ Devolver
        /\ UNCHANGED <<memoria, mem, servidor, kern>>
     \/ /\ hilo_instrucciones_cpu
        /\ UNCHANGED <<kern, cpu, rafagas, guardado, tarde>>
     \/ Chocar

Spec == Init /\ [][Next]_vars

---------------------------------------------------------------------------
(* Properties *)

\* No thread of Memoria dereferences NULL, a freed process or a freed hilo as long
\* as the Kernel asks for the end of a hilo only when Memoria is done with what the
\* CPU sent for it, which the CPU does not wait for, and of one that shares its TID
\* with none; dispatches nothing it has ended; and the CPU asks for no instruction
\* after the last.
SinColgar == memoria = "colgada" => tarde \/ servidor.op = "PASADA"

\* The processes that hold a partition: from the mark of crear_proceso to the
\* release of liberar_proceso.
Tenedores ==
  {p \in procesos : \A k \in Hilos : Pid(k) = p => ~(peticion[k].op = "FINALIZAR_PROCESO"
                                                    /\ peticion[k].paso \in {"destruir", "quitar"})}
  \cup {Pid(k) : k \in {h \in Hilos : En(h, "CREAR_PROCESO", "guardar")}}

\* Requests that do not collide leave each occupied partition with one holder and
\* each holder with a partition, in the middle of the other requests too.
BloqueConDuenio ==
  ~carrera =>
    /\ \A p \in Tenedores : base[p] \in Bloques \ libres
    /\ \A p, q \in Tenedores : base[p] = base[q] => p = q
    /\ \A b \in Bloques \ libres : \E p \in Tenedores : base[p] = b

\* Another hilo of the process has, or had, the TID of n.
Repetido(n) ==
  \E m \in DOMAIN memo \ {n} : memo[m].pid = memo[n].pid /\ memo[m].tid = memo[n].tid

\* A hilo whose creation was answered with true is found under its TID until its
\* end is asked for; a repeated TID excepted.
HiloPresente ==
  memoria = "viva" =>
    \A n \in tcbs :
      Repetido(n) \/ (memo[n].pid \in procesos /\ hilos[memo[n].pid][memo[n].tid] = n)

\* Memoria answers OBTENER_CONTEXTO with the registers the CPU had saved last for
\* that hilo when it asked, zeros the first time, although nobody waits for them to
\* be stored; a repeated TID excepted.  What the CPU takes for the answer is in Cpu.
ContextoFiel ==
  servidor.op = "CONTEXTO" => Repetido(servidor.obj) \/ Usado.reg = servidor.reg

=============================================================================
