-------------------------------- MODULE Cpu --------------------------------
(***************************************************************************)
(* The CPU: the thread that serves the dispatch socket and runs the        *)
(* instruction cycle, the thread that serves the interrupt socket, and the *)
(* flag they share.  The Kernel (it sends a hilo, waits for the answer, and*)
(* may send interruptions) and Memoria (it answers requests in order, or   *)
(* not at all) are its peers.                                              *)
(*                                                                         *)
(* Messages are whole: what the bytes of a reply say when the two ends     *)
(* disagree on the layout is left out.  A reply of another kind than the   *)
(* one expected is read as any context of RegistrosBasura, or as an        *)
(* instruction that is not known.  RecibirBuffer does not look at what recv*)
(* returns, so once Memoria is dead the CPU goes on with a buffer nobody   *)
(* wrote (any context of RegistrosBasura, the last line again or none)     *)
(* or is ended by a signal, which is "segv" here, SIGPIPE included.        *)
(***************************************************************************)
EXTENDS Integers, Sequences, SequencesExt

CONSTANTS
  Programas,          \* the pseudocode a hilo may run: sequences of Linea
  Ancho,              \* bits of a register (32 in the code)
  Limite,             \* size of its partition
  RegistrosBasura,    \* what a reply that is not a context may leave in PC and AX
  MaxRafagas,         \* bound on the dispatches
  MaxInterrupciones,  \* bound on the interruptions sent
  MaxRetorno          \* bound on the codes of bufferRetorno remembered

Registros == {"PC", "AX", "BX", "CX", "DX", "EX", "FX", "GX", "HX", "BASE", "LIMITE"}
Modulo == 2 ^ Ancho
NULO == "NULL"

\* A line: the name and its operands, each with what obtenerRegistro (texto) and
\* atoi (numero, 0 for a name) see in it.
Op(texto)  == [texto |-> texto, numero |-> 0]
Num(n)     == [texto |-> "", numero |-> n]
Linea(nombre, ops) == [nombre |-> nombre, ops |-> ops]

Syscalls == {"DUMP_MEMORY", "IO", "PROCESS_CREATE", "THREAD_CREATE", "THREAD_JOIN",
             "THREAD_CANCEL", "MUTEX_CREATE", "MUTEX_LOCK", "MUTEX_UNLOCK",
             "THREAD_EXIT", "PROCESS_EXIT"}
Comunes == {"SET", "READ_MEM", "WRITE_MEM", "SUM", "SUB", "JNZ", "LOG"}
Viejas == {"RESIZE", "COPY_STRING", "WAIT"}

ASSUME CpuAssumption ==
  /\ Ancho \in Nat /\ Modulo \in Nat \ {0}
  /\ Limite \in 0 .. Modulo - 1
  /\ RegistrosBasura \subseteq (0 .. Modulo - 1) \X (0 .. Modulo - 1)
  /\ MaxRafagas \in Nat /\ MaxInterrupciones \in Nat /\ MaxRetorno \in Nat \ {0, 1}
  /\ \A p \in Programas : \A i \in DOMAIN p :
       p[i].nombre \in STRING /\ \A j \in DOMAIN p[i].ops : p[i].ops[j].numero \in Nat

VARIABLES
  programa,
  pc,                    \* where the dispatch thread is
  registros,
  instr,                 \* the last instruction decoded
  retorno,               \* the codes written to bufferRetorno, in order: the first
                         \* and the last MaxRetorno - 1
  interrupcionRecibida,
  rafagas, respondidas,  \* hilos the Kernel sent, answers it got
  interrumpe,            \* interruptions on their way
  enviadas,              \* how many were sent
  respuestas,            \* replies of Memoria not read yet
  guardado,              \* the context Memoria keeps for the hilo
  memoria,               \* whether Memoria is alive
  existe                 \* whether it has the hilo in its dictionary

dispatch == <<registros, instr, retorno>>
kernel   == <<rafagas, respondidas, enviadas>>
vars == <<programa, pc, dispatch, interrupcionRecibida, kernel, interrumpe, respuestas,
          guardado, memoria, existe>>

Cero == [r \in Registros |-> 0]
Contexto(p, a) == [Cero EXCEPT !["PC"] = p, !["AX"] = a, !["LIMITE"] = Limite]
SinInstruccion == [instruccion |-> "INVALID_INSTRUCTION", registro1 |-> NULO,
                   registro2 |-> NULO, valor |-> 0]

Init ==
  /\ programa \in Programas
  /\ pc = "libre"
  /\ registros = Cero /\ instr = SinInstruccion /\ retorno = <<>>
  /\ interrupcionRecibida = FALSE
  /\ rafagas = 0 /\ respondidas = 0 /\ interrumpe = 0 /\ enviadas = 0
  /\ respuestas = <<>>
  /\ guardado = Contexto(0, 0)
  /\ memoria = "viva" /\ existe = TRUE

---------------------------------------------------------------------------
(* The Kernel *)

EnviarTCB ==
  /\ rafagas = respondidas /\ rafagas < MaxRafagas
  /\ rafagas' = rafagas + 1
  /\ UNCHANGED <<programa, pc, dispatch, interrupcionRecibida, respondidas, interrumpe, enviadas,
                 respuestas, guardado, memoria, existe>>

\* InterrumpirCPU, which no caller has yet: it sends when desalojado is false, which
\* is while the CPU has no hilo, and what it sends may arrive in the next burst.
Interrumpir ==
  /\ rafagas = respondidas
  /\ enviadas < MaxInterrupciones
  /\ interrumpe' = interrumpe + 1
  /\ enviadas' = enviadas + 1
  /\ UNCHANGED <<programa, pc, dispatch, interrupcionRecibida, rafagas, respondidas, respuestas,
                 guardado, memoria, existe>>

\* THREAD_CANCEL has Memoria forget a hilo whose TCB stays in its list, from where
\* it may be sent again.
Olvidar ==
  /\ rafagas = respondidas
  /\ memoria = "viva" /\ existe
  /\ existe' = FALSE
  /\ UNCHANGED <<programa, pc, dispatch, interrupcionRecibida, kernel, interrumpe, respuestas,
                 guardado, memoria>>

---------------------------------------------------------------------------
(* The interrupt thread of ServerCPU *)

RecibirInterrupcion ==
  /\ interrumpe > 0
  /\ interrupcionRecibida' = TRUE
  /\ interrumpe' = interrumpe - 1
  /\ UNCHANGED <<programa, pc, dispatch, kernel, respuestas, guardado, memoria, existe>>

---------------------------------------------------------------------------
(* Decode *)

obtenerRegistro(op) == IF op.texto \in Registros THEN op.texto ELSE NULO

obtenerInstruccion(nombre) ==
  IF nombre \in Comunes \cup Syscalls \cup Viejas THEN nombre ELSE "INVALID_INSTRUCTION"

\* The operand that each field of t_instruccion is read from; the last one for
\* those that keep overwriting valor, 0 for none.
PosRegistro1(i) ==
  CASE i \in {"SET", "JNZ", "READ_MEM", "WRITE_MEM", "SUM", "SUB"} -> 1
    [] i \in {"PROCESS_CREATE", "THREAD_CREATE"}                   -> 2
    [] OTHER                                                       -> 0
PosRegistro2(i) ==
  CASE i \in {"READ_MEM", "WRITE_MEM", "SUM", "SUB"} -> 2
    [] i = "PROCESS_CREATE"                          -> 3
    [] OTHER                                         -> 0
PosValor(i, n) ==
  CASE i \in {"SET", "JNZ"}                                  -> 2
    [] i \in {"LOG", "IO", "THREAD_JOIN", "THREAD_CANCEL"}   -> n
    [] OTHER                                                 -> 0

\* A line without a name leaves the instruction at zero, which is SET.
parsearInstruccion(linea) ==
  LET i == IF linea.nombre = "" THEN "SET" ELSE obtenerInstruccion(linea.nombre)
      Registro(n) == IF n \in DOMAIN linea.ops THEN obtenerRegistro(linea.ops[n]) ELSE NULO
      v == PosValor(i, Len(linea.ops))
  IN [instruccion |-> i,
      registro1   |-> Registro(PosRegistro1(i)),
      registro2   |-> IF i = "JNZ" THEN "PC" ELSE Registro(PosRegistro2(i)),
      valor       |-> IF v \in DOMAIN linea.ops THEN linea.ops[v].numero % Modulo ELSE 0]

---------------------------------------------------------------------------
(* Execute *)

\* The registers the case dereferences without a test, its log line included.
Desreferencia(d) ==
  CASE d.instruccion \in {"SET", "JNZ"}                           -> {d.registro1}
    [] d.instruccion = "READ_MEM"                                 -> {d.registro2}
    [] d.instruccion \in {"WRITE_MEM", "SUM", "PROCESS_CREATE",
                          "THREAD_CREATE"}                        -> {d.registro1, d.registro2}
    [] OTHER                                                      -> {}

EfectoMut(d, r) ==
  CASE d.instruccion = "SET" -> [r EXCEPT ![d.registro1] = d.valor]
    [] d.instruccion = "SUM" -> [r EXCEPT ![d.registro1] = @ + r[d.registro2]]
    [] d.instruccion = "SUB" /\ NULO \notin {d.registro1, d.registro2}
                             -> [r EXCEPT ![d.registro1] = @ - r[d.registro2]]
    [] OTHER                 -> r

Efecto(d, r) ==
  CASE d.instruccion = "SET" -> [r EXCEPT ![d.registro1] = d.valor]
    [] d.instruccion = "SUM" -> [r EXCEPT ![d.registro1] = (@ + r[d.registro2]) % Modulo]
    [] d.instruccion = "SUB" /\ NULO \notin {d.registro1, d.registro2}
                             -> [r EXCEPT ![d.registro1] = (@ - r[d.registro2]) % Modulo]
    [] d.instruccion = "JNZ" -> IF r[d.registro1] # 0 THEN [r EXCEPT !["PC"] = d.valor] ELSE r
    [] OTHER                 -> r

\* What executeInstruccion writes first: nothing for what it does not know, and
\* the code of SUM for WRITE_MEM.
Codigo(i) ==
  CASE i = "WRITE_MEM"              -> <<"SUM">>
    [] i \in Comunes \cup Syscalls  -> <<i>>
    [] OTHER                        -> <<>>

\* buffer_add_uint32 of the code; a long burst forgets those in the middle.
Anotar(codigo) ==
  LET todo == retorno \o codigo
  IN IF Len(todo) <= MaxRetorno THEN todo
     ELSE <<Head(todo)>> \o SubSeq(todo, Len(todo) - MaxRetorno + 2, Len(todo))

interrupcionInternaMut(i) == i \in Syscalls \ {"IO", "THREAD_EXIT"}

interrupcionInterna(i) == i \in Syscalls

---------------------------------------------------------------------------
(* The dispatch thread: ServerCPU and EjecutarProceso *)

Responder(r) == respuestas' = Append(respuestas, r)

\* RecibirBuffer: the next reply, or an unset buffer when there will be none.
PuedeLeer == respuestas # <<>> \/ memoria = "caida"
Leida == IF respuestas = <<>> THEN [tipo |-> "nada"] ELSE Head(respuestas)
Consumir == respuestas' = IF respuestas = <<>> THEN <<>> ELSE Tail(respuestas)

\* The signals: SIGPIPE when sending to a dead Memoria, and an access through what an
\* unset buffer says.
SiFalla(condicion) == IF condicion THEN {"segv"} ELSE {}

\* CONTEXTO: solicitar_contexto.  Memoria answers nothing when it does not find the
\* hilo.
TomarTCB ==
  /\ pc = "libre" /\ rafagas > respondidas
  /\ pc' \in {"contexto"} \cup SiFalla(memoria = "caida")
  /\ IF memoria = "viva" /\ existe
     THEN Responder([tipo |-> "contexto", contexto |-> guardado])
     ELSE UNCHANGED respuestas
  /\ UNCHANGED <<programa, dispatch, interrupcionRecibida, kernel, interrumpe,
                 guardado, memoria, existe>>

\* The reply is read whatever it is; then the flag is cleared, without its mutex.
RecibirContexto ==
  /\ pc = "contexto" /\ PuedeLeer
  /\ registros' \in IF Leida.tipo = "contexto" THEN {Leida.contexto}
                    ELSE {Contexto(g[1], g[2]) : g \in RegistrosBasura}
  /\ Consumir
  /\ interrupcionRecibida' = FALSE
  /\ retorno' = <<>>
  /\ pc' \in {"ciclo"} \cup SiFalla(respuestas = <<>>)
  /\ UNCHANGED <<programa, instr, kernel, interrumpe, guardado, memoria, existe>>

FetchMut ==
  /\ pc = "ciclo"
  /\ interrupcionRecibida' = FALSE
  /\ registros["PC"] + 1 \in DOMAIN programa
  /\ Responder([tipo |-> "instruccion", linea |-> programa[registros["PC"] + 1]])
  /\ pc' = "fetch"
  /\ UNCHANGED <<programa, registros, instr, retorno, kernel, interrumpe, guardado,
                 memoria, existe>>

\* The test of the while, and solicitar_instruccion.  Memoria dies reading a
\* line the pseudocode does not have, or a hilo that is not there.
Fetch ==
  /\ pc = "ciclo" /\ ~interrupcionRecibida
  /\ LET n == registros["PC"]
     IN IF memoria = "viva" /\ existe /\ n + 1 \in DOMAIN programa
        THEN Responder([tipo |-> "instruccion", linea |-> programa[n + 1]])
             /\ UNCHANGED memoria
        ELSE memoria' = "caida" /\ UNCHANGED respuestas
  /\ pc' \in {"fetch"} \cup SiFalla(memoria = "caida")
  /\ UNCHANGED <<programa, registros, instr, retorno, interrupcionRecibida, kernel,
                 interrumpe, guardado, existe>>

Desalojar ==
  /\ pc = "ciclo" /\ interrupcionRecibida
  /\ pc' = "devuelve"
  /\ UNCHANGED <<programa, dispatch, interrupcionRecibida, kernel, interrumpe,
                 respuestas, guardado, memoria, existe>>

\* What decodeInstruccion makes of the reply.  The block of an unset buffer may
\* still hold the last line, or nothing that can be read as a line.
Decodificada ==
  CASE Leida.tipo = "instruccion" -> {parsearInstruccion(Leida.linea)}
    [] Leida.tipo = "nada"        -> {instr, parsearInstruccion(Linea("", <<>>)),
                                      parsearInstruccion(Linea("basura", <<>>))}
    [] OTHER                      -> {parsearInstruccion(Linea("basura", <<>>))}

\* decodeInstruccion and executeInstruccion of the line received.
Ejecutar ==
  /\ pc = "fetch" /\ PuedeLeer
  /\ \E d \in Decodificada :
       /\ instr' = d
       /\ IF NULO \in Desreferencia(d)
          THEN pc' = "segv" /\ UNCHANGED <<registros, retorno>>
          ELSE IF d.instruccion \in {"READ_MEM", "WRITE_MEM"}
          THEN /\ pc' \in {"memoria"} \cup SiFalla(memoria = "caida")
               /\ UNCHANGED <<registros, retorno>>
          ELSE /\ registros' = Efecto(d, registros)
               /\ retorno' = Anotar(Codigo(d.instruccion))
               /\ pc' = IF interrupcionInterna(d.instruccion) THEN "devuelve" ELSE "avanza"
  /\ Consumir
  /\ UNCHANGED <<programa, interrupcionRecibida, kernel, interrumpe, guardado,
                 memoria, existe>>

\* leer_en_memoria and escribir_en_memoria: Memoria never answers these, what
\* arrives is a reply to something else.  READ_MEM of an unknown register 1
\* copies to NULL.
RecibirDato ==
  /\ pc = "memoria" /\ PuedeLeer
  /\ Consumir
  /\ retorno' = Anotar(Codigo(instr.instruccion))
  /\ IF instr.instruccion = "READ_MEM"
     THEN IF instr.registro1 = NULO THEN pc' = "segv" /\ UNCHANGED registros
          ELSE /\ \E g \in RegistrosBasura :
                    registros' = [registros EXCEPT ![instr.registro1] = g[2]]
               /\ pc' \in {"avanza"} \cup SiFalla(respuestas = <<>>)
     ELSE /\ pc' \in {"avanza", "devuelve"} \cup SiFalla(respuestas = <<>>)
          /\ UNCHANGED registros
  /\ UNCHANGED <<programa, instr, interrupcionRecibida, kernel, interrumpe,
                 guardado, memoria, existe>>

AvanzarMut ==
  /\ pc = "avanza"
  /\ pc' = IF interrupcionRecibida THEN "devuelve" ELSE "ciclo"
  /\ UNCHANGED <<programa, dispatch, interrupcionRecibida, kernel, interrumpe,
                 respuestas, guardado, memoria, existe>>

\* PC++, only when nothing stops the cycle.
Avanzar ==
  /\ pc = "avanza"
  /\ IF interrupcionRecibida
     THEN pc' = "devuelve" /\ UNCHANGED registros
     ELSE /\ registros' = [registros EXCEPT !["PC"] = (@ + 1) % Modulo]
          /\ pc' = "ciclo"
  /\ UNCHANGED <<programa, instr, retorno, interrupcionRecibida, kernel, interrumpe, respuestas,
                 guardado, memoria, existe>>

\* ACTUALIZAR_CONTEXTO, whose reply is never read, and the answer to the Kernel.
Devolver ==
  /\ pc = "devuelve"
  /\ IF memoria = "viva" THEN Responder([tipo |-> "estado"]) ELSE UNCHANGED respuestas
  /\ guardado' = IF memoria = "viva" /\ existe THEN registros ELSE guardado
  /\ \/ pc' = "libre" /\ respondidas' = respondidas + 1
     \/ memoria = "caida" /\ pc' = "segv" /\ UNCHANGED respondidas
  /\ UNCHANGED <<programa, dispatch, interrupcionRecibida, rafagas, interrumpe,
                 enviadas, memoria, existe>>

Ciclo ==
  \/ TomarTCB \/ RecibirContexto \/ Fetch \/ Desalojar \/ Ejecutar \/ RecibirDato
  \/ Avanzar \/ Devolver
Next == EnviarTCB \/ Interrumpir \/ Olvidar \/ RecibirInterrupcion \/ Ciclo

Spec == Init /\ [][Next]_vars

\* Both threads keep running; the Kernel owes nothing.
FairSpec == Spec /\ WF_vars(Ciclo) /\ WF_vars(RecibirInterrupcion)

---------------------------------------------------------------------------
(* Properties *)

\* Registers never leave their width, whatever SUM, SUB and PC++ do.
TypeOK ==
  /\ programa \in Programas
  /\ pc \in {"libre", "contexto", "ciclo", "fetch", "memoria", "avanza", "devuelve", "segv"}
  /\ registros \in [Registros -> 0 .. Modulo - 1]
  /\ instr.registro1 \in Registros \cup {NULO} /\ instr.registro2 \in Registros \cup {NULO}
  /\ instr.valor \in 0 .. Modulo - 1
  /\ retorno \in Seq(Comunes \cup Syscalls) /\ Len(retorno) <= MaxRetorno
  /\ interrupcionRecibida \in BOOLEAN
  /\ respondidas \in {rafagas - 1, rafagas} \cap Nat
  /\ guardado \in [Registros -> 0 .. Modulo - 1]
  /\ memoria \in {"viva", "caida"} /\ existe \in BOOLEAN

\* A syscall closes its burst: nothing is executed after it until the Kernel
\* dispatches again (interrupcionInterna in EjecutarProceso).
SyscallCierra == \A i \in 1 .. Len(retorno) - 1 : retorno[i] \notin Syscalls

SinSaltos == \A i \in DOMAIN programa : programa[i].nombre # "JNZ"

\* In the first burst, and until Memoria dies, a program without jumps is executed line
\* by line: what bufferRetorno records is a prefix of it, and at the top of the cycle
\* the PC is at its next line.
RecorreEnOrden ==
  SinSaltos /\ rafagas = 1 /\ memoria = "viva" =>
    /\ \A i \in DOMAIN retorno : retorno[i] = programa[i].nombre
    /\ pc = "ciclo" => registros["PC"] = Len(retorno)

\* What stops the CPU for good: Memoria is gone, it will not answer the request under
\* way (the context of a hilo it does not have, an access to memory) and no older
\* reply is left to be taken for the answer, or the instruction had no register.
Detenida ==
  \/ memoria = "caida" \/ pc = "segv"
  \/ respuestas = <<>> /\ pc = "memoria"
  \/ respuestas = <<>> /\ pc = "contexto" /\ ~existe

\* A hilo that reaches a syscall is given back to the Kernel, interrupted or not,
\* unless the CPU is stopped for good.
TodaRafagaVuelve ==
  (SinSaltos /\ rafagas > respondidas) ~> (rafagas = respondidas \/ Detenida)

\* An interruption that finds the cycle running ends it, even in an endless
\* loop of the program (the two tests of the flag in EjecutarProceso).
DesalojoLlega ==
  (interrupcionRecibida /\ pc \in {"ciclo", "fetch", "avanza"}) ~> (pc = "libre" \/ Detenida)

=============================================================================
