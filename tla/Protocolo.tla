------------------------------ MODULE Protocolo ------------------------------
(***************************************************************************)
(* The bytes of one socket: EnviarOperacion, EnviarBuffer and RecibirBuffer*)
(* of the common library, the handshake, and the two ways of taking an     *)
(* operation: recibir_operacion (the CPU, for the Kernel) and              *)
(* recibir_paquete (Memoria, for the CPU).                                 *)
(*                                                                         *)
(* The bytes go in order and arrive in parts, any part at a time.  A recv()*)
(* without MSG_WAITALL takes what it asked for or what has arrived, if     *)
(* less; it blocks while nothing has, even if it asked for no bytes.       *)
(* Integers are four bytes, the lowest first.                              *)
(***************************************************************************)
EXTENDS Integers, Sequences, SequencesExt

CONSTANTS
  Enlaces,          \* the sockets to look at
  Tcbs,             \* <<PID, TID, prioridad, estado>> of the hilos dispatched
  Tamanios,         \* what malloc may leave in the size SerializarTCB does not set
  Legible,          \* bytes that can be read from the start of a stream on
  Basura,           \* bytes nobody wrote
  MaxOperaciones    \* bound: operations sent

KERNEL == 0
CPU == 3
HANDSHAKE == 0
CONTEXTO == 1
INTERRUPCION == 2
OBTENER_CONTEXTO == 0

ASSUME ProtocoloAssumption ==
  /\ Enlaces \subseteq {"dispatch", "interrupt", "memoria"}
  /\ Tamanios \subseteq Nat /\ Basura \subseteq 0 .. 127
  /\ \A t \in Tcbs : \A k \in 1 .. 4 : t[k] \in Nat
  /\ Legible \in Nat /\ Legible >= 16
  /\ MaxOperaciones \in Nat

VARIABLES
  enlace,
  ida, vuelta,      \* bytes sent to the server and not read, and back
  llegaron,         \* how many of ida have arrived
  cliente,          \* "saluda", "listo", "envia", "espera" (an answer), "espera datos"
                    \* (of the answer) or "abort"
  envios,           \* the send() calls the client still has to make
  escritas,         \* the operations it sent, with the fields the server should see
  servidor,         \* "saludo", "operacion", "modulo", "tamanio", "datos" or "segv"
  op, tamanio,      \* what it has read of the operation
  leidas,           \* the operations it took, with the fields it saw
  \* History
  cortada,          \* a recv() took less than it asked for with more on its way
  vacia             \* an operation was sent and its data was not

salida == <<cliente, envios, escritas, vacia>>
entrada == <<servidor, op, tamanio, leidas>>
vars == <<enlace, ida, vuelta, llegaron, cortada, salida, entrada>>

\* What the byte i of an integer is worth.
Potencia(i) == <<1, 256, 256 * 256, 256 * 256 * 256>>[i]
Bytes(n) == [i \in 1 .. 4 |-> (n \div Potencia(i)) % 256]
Valor(b) == b[1] + b[2] * Potencia(2) + b[3] * Potencia(3) + b[4] * Potencia(4)

\* buffer_read_int n times, from the start of the stream.
Leer(b, n) == [k \in 1 .. n |-> Valor(SubSeq(b, 4 * k - 3, 4 * k))]

\* What a reader gets that goes past the end of its stream.
FUERA == <<>>
Campos(b, n) == IF Len(b) >= 4 * n THEN Leer(b, n) ELSE FUERA

Esperados == IF enlace = "dispatch" THEN 4 ELSE 1

\* handshake_Client: an operation 0 and the module, whoever listens.
Init ==
  /\ enlace \in Enlaces
  /\ ida = <<>> /\ vuelta = <<>> /\ llegaron = 0
  /\ cortada = FALSE /\ vacia = FALSE
  /\ cliente = "saluda"
  /\ envios = <<Bytes(0), Bytes(IF enlace = "memoria" THEN CPU ELSE KERNEL)>>
  /\ escritas = <<>> /\ leidas = <<>>
  /\ servidor = IF enlace = "memoria" THEN "saludo" ELSE "operacion"
  /\ op = 0 /\ tamanio = 0

---------------------------------------------------------------------------
(* The client: the Kernel on its two sockets with the CPU, or the CPU *)

Send ==
  /\ envios # <<>>
  /\ ida' = ida \o Head(envios)
  /\ envios' = Tail(envios)
  /\ UNCHANGED <<enlace, vuelta, llegaron, cortada, cliente, escritas, vacia, entrada>>

\* The network.
Llegar ==
  /\ \E n \in llegaron + 1 .. Len(ida) : llegaron' = n
  /\ UNCHANGED <<enlace, ida, vuelta, cortada, salida, entrada>>

\* The answer to the handshake, with MSG_WAITALL.
TerminarSaludo ==
  /\ cliente = "saluda" /\ envios = <<>>
  /\ Len(vuelta) >= 4
  /\ cliente' = IF Valor(SubSeq(vuelta, 1, 4)) = 0 THEN "listo" ELSE "abort"
  /\ vuelta' = SubSeq(vuelta, 5, Len(vuelta))
  /\ UNCHANGED <<enlace, ida, llegaron, cortada, envios, escritas, vacia, entrada>>

\* The first n bytes from the start of b, which may be shorter.
Stream(b, n, x) == [i \in 1 .. n |-> IF i <= Len(b) THEN b[i] ELSE x]

\* What send() copies of size bytes: all, or some when not all can be read.
Enviables(size) == IF size <= Legible THEN {size} ELSE 0 .. Legible

EnviarOperacion(cod, size, b, x) ==
  /\ cliente = "listo"
  /\ Len(escritas) < MaxOperaciones
  /\ \E n \in Enviables(size) :
       /\ envios' = <<Bytes(cod), Bytes(size), Stream(b, n, x)>>
       /\ escritas' = Append(escritas, [op     |-> cod,
                                        campos |-> IF n < Len(b) THEN FUERA
                                                   ELSE Leer(b, Len(b) \div 4)])
       /\ vacia' = (vacia \/ n = 0)
  /\ cliente' = "envia"
  /\ UNCHANGED <<enlace, ida, vuelta, llegaron, cortada, entrada>>

\* The four fields in order; buffer->size is whatever malloc left there.
SerializarTCB(t) == Bytes(t[1]) \o Bytes(t[2]) \o Bytes(t[3]) \o Bytes(t[4])

enviarTCBCPU ==
  /\ enlace = "dispatch"
  /\ \E t \in Tcbs, size \in Tamanios, x \in Basura :
       EnviarOperacion(CONTEXTO, size, SerializarTCB(t), x)

InterrumpirCPU == enlace = "interrupt" /\ EnviarOperacion(INTERRUPCION, 4, Bytes(0), 0)

solicitar_contexto ==
  /\ enlace = "memoria"
  /\ \E t \in Tcbs : EnviarOperacion(OBTENER_CONTEXTO, 8, Bytes(t[1]) \o Bytes(t[2]), 0)

\* Only the interruptions are sent without waiting for an answer.
TerminarEnvio ==
  /\ cliente = "envia" /\ envios = <<>>
  /\ cliente' = IF enlace = "interrupt" THEN "listo" ELSE "espera"
  /\ UNCHANGED <<enlace, ida, vuelta, llegaron, cortada, envios, escritas, vacia, entrada>>

\* RecibirBuffer of the answer of a burst: its size is 0, and with no bytes to come
\* the second recv() does not return.
RecibirRespuesta ==
  /\ cliente = "espera"
  /\ \E n \in 1 .. 4 :
       /\ n <= Len(vuelta)
       /\ vuelta' = SubSeq(vuelta, n + 1, Len(vuelta))
       /\ cortada' = (cortada \/ n < 4)
  /\ cliente' = "espera datos"
  /\ UNCHANGED <<enlace, ida, llegaron, envios, escritas, vacia, entrada>>

---------------------------------------------------------------------------
(* The server *)

\* A recv() of n bytes: what it takes, and what is left.
Hay(n) == IF n < llegaron THEN n ELSE llegaron
Quitar(n) ==
  /\ ida' = SubSeq(ida, Hay(n) + 1, Len(ida))
  /\ llegaron' = llegaron - Hay(n)
  /\ cortada' = (cortada \/ (Hay(n) < n /\ llegaron < Len(ida)))

\* handshake_Server: Memoria lets in the Kernel and the CPU, the CPU the Kernel.
handshake_Server(admitidos) ==
  /\ llegaron >= 4
  /\ vuelta' = vuelta \o Bytes(IF Valor(SubSeq(ida, 1, 4)) \in admitidos THEN 0 ELSE 255)
  /\ Quitar(4)
  /\ servidor' = "operacion"
  /\ UNCHANGED <<enlace, salida, op, tamanio, leidas>>

SaludarEnMemoria == servidor = "saludo" /\ handshake_Server({KERNEL, CPU})
SaludarEnCPU == servidor = "modulo" /\ handshake_Server({KERNEL})

\* Mutant: one byte of the operation, as in recibir_paquete.
recibir_operacionMut ==
  /\ enlace # "memoria" /\ servidor = "operacion"
  /\ llegaron > 0
  /\ op' = ida[1]
  /\ Quitar(1)
  /\ servidor' = IF op' = HANDSHAKE THEN "modulo"
                 ELSE IF op' \in {CONTEXTO, INTERRUPCION} THEN "tamanio" ELSE "operacion"
  /\ UNCHANGED <<enlace, vuelta, salida, tamanio, leidas>>

\* ServerCPU: the operation with MSG_WAITALL; one it does not know is passed over.
recibir_operacion ==
  /\ enlace # "memoria" /\ servidor = "operacion"
  /\ llegaron >= 4
  /\ op' = Valor(SubSeq(ida, 1, 4))
  /\ Quitar(4)
  /\ servidor' = IF op' = HANDSHAKE THEN "modulo"
                 ELSE IF op' \in {CONTEXTO, INTERRUPCION} THEN "tamanio" ELSE "operacion"
  /\ UNCHANGED <<enlace, vuelta, salida, tamanio, leidas>>

\* recibir_paquete: op_code is a uint8_t, of which the sender wrote four bytes.
recibir_paquete ==
  /\ enlace = "memoria" /\ servidor = "operacion"
  /\ llegaron > 0
  /\ op' = ida[1]
  /\ Quitar(1)
  /\ servidor' = "tamanio"
  /\ UNCHANGED <<enlace, vuelta, salida, tamanio, leidas>>

\* The size: the bytes that are there, over what the variable held.
RecibirTamanio ==
  /\ servidor = "tamanio"
  /\ llegaron > 0
  /\ \E x \in IF llegaron < 4 THEN Basura ELSE {0} :
       tamanio' = Valor(Stream(SubSeq(ida, 1, Hay(4)), 4, x))
  /\ Quitar(4)
  /\ servidor' = "datos"
  /\ UNCHANGED <<enlace, vuelta, salida, op, leidas>>

\* What ServerCPU does once it has the buffer: the answer of a burst has size 0.
\* Memoria's answers are left out.
Atender ==
  vuelta' = IF enlace = "dispatch" THEN vuelta \o Bytes(0) ELSE vuelta

\* Mutant: it waits for one byte more than the size.
RecibirDatosMut ==
  /\ servidor = "datos"
  /\ llegaron > tamanio
  /\ leidas' = Append(leidas, [op |-> op, campos |-> Campos(SubSeq(ida, 1, Hay(tamanio)), Esperados)])
  /\ Quitar(tamanio)
  /\ Atender
  /\ servidor' = "operacion"
  /\ UNCHANGED <<enlace, salida, op, tamanio>>

\* The data, as much as there is; DeserializarTCB or buffer_read_uint32 reads it.
RecibirDatos ==
  /\ servidor = "datos"
  /\ llegaron > 0
  /\ leidas' = Append(leidas, [op |-> op, campos |-> Campos(SubSeq(ida, 1, Hay(tamanio)), Esperados)])
  /\ Quitar(tamanio)
  /\ Atender
  /\ servidor' = "operacion"
  /\ UNCHANGED <<enlace, salida, op, tamanio>>

\* malloc refuses so much, and the reader of the fields uses NULL.
SinLugar ==
  /\ servidor = "datos"
  /\ llegaron > 0 /\ tamanio > Legible
  /\ servidor' = "segv"
  /\ UNCHANGED <<enlace, ida, vuelta, llegaron, cortada, salida, op, tamanio, leidas>>

\* Once a recv() was cut the rest is read out of place, and the model stops.
Cliente ==
  /\ ~cortada
  /\ Send \/ TerminarSaludo \/ TerminarEnvio \/ RecibirRespuesta
Servidor ==
  /\ ~cortada
  /\ \/ SaludarEnMemoria \/ SaludarEnCPU \/ recibir_operacion \/ recibir_paquete
     \/ RecibirTamanio \/ RecibirDatos \/ SinLugar
Red == ~cortada /\ Llegar
Pedir == ~cortada /\ (enviarTCBCPU \/ InterrumpirCPU \/ solicitar_contexto)

Next == Cliente \/ Servidor \/ Red \/ Pedir

Spec == Init /\ [][Next]_vars

\* Both ends keep running and the network delivers; the client need not have
\* anything to send.
FairSpec == Spec /\ WF_vars(Cliente) /\ WF_vars(Red) /\ WF_vars(Servidor)

---------------------------------------------------------------------------
(* Properties *)

\* On both sockets of the Kernel with the CPU, ServerCPU takes the operations that
\* were sent, in order, and sees their fields if they were sent whole, as long as
\* no recv() of RecibirBuffer was cut short: the size nobody sets in SerializarTCB
\* may lose a TCB, and by itself never the place of the operations that follow.
LoEnviadoEsLoLeido == enlace # "memoria" /\ ~cortada => IsPrefix(leidas, escritas)

\* Every operation sent to the CPU is taken, unless a recv() was cut, some operation
\* was sent without data, for which recv() waits, or its size was too much for malloc.
OperacionLlega ==
  \A n \in 1 .. MaxOperaciones :
    (enlace # "memoria" /\ Len(escritas) >= n)
      ~> (Len(leidas) >= n \/ cortada \/ vacia \/ servidor = "segv")

\* "la operacion, que siempre es op_code + buffer" (commons.c:474): Memoria takes the
\* operation the CPU sent.
CodigoReconocido ==
  \A i \in DOMAIN leidas : i \in DOMAIN escritas /\ leidas[i].op = escritas[i].op

=============================================================================
