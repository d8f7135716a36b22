------------------------------ MODULE Conexion ------------------------------
(***************************************************************************)
(* The requests of the Kernel to Memoria: one connection per request, kept *)
(* in the global socket_memoria that every thread of the Kernel assigns,   *)
(* reads and closes; and, on the other side, gestionar_kernel, which       *)
(* accepts each connection and gives it to a thread (manejar_peticion)     *)
(* that answers one request and closes.                                    *)
(*                                                                         *)
(* Connections are numbered as they are made.  A normal request is the     *)
(* number of the connection that was made for it, and so is its answer;    *)
(* DUMP_MEMORY makes no connection and is request 0.  Messages are whole:  *)
(* what their bytes are is left to Protocolo, and what they do in Memoria  *)
(* to Peticiones.  The Kernel's sockets are file descriptors that the      *)
(* system reuses, the lowest free one first.                               *)
(***************************************************************************)
EXTENDS Integers, Sequences, FiniteSetsExt

CONSTANTS
  Hilos,           \* the threads of the Kernel that ask Memoria something
  Volcadores,      \* those of them that also run DUMP_MEMORY
  Saludos,         \* the socket gestionar_kernel may do the handshake on
  MaxConexiones    \* bound: connections made in an execution

ASSUME ConexionAssumption ==
  /\ Volcadores \subseteq Hilos
  /\ Saludos \subseteq {"fd_server_memoria", "fd_cliente"}
  /\ MaxConexiones \in Nat

VARIABLES
  \* The Kernel
  kernel,           \* "vivo" or "muerto"
  pc,               \* where each thread is
  mia,              \* the connection a thread made for its request, 0 for DUMP_MEMORY
  conexion,         \* its descriptor, in a local variable of conectar
  en,               \* the connection the recv of a thread waits on
  leida,            \* the answer a thread has read
  socket_memoria,   \* a file descriptor; 0 at the start
  tabla,            \* the connection each file descriptor refers to, 0 when closed
  \* The network and Memoria
  con,              \* the connections, in the order they were made
  pendientes,       \* connections not accepted yet
  memoria,          \* "viva" or "muerta"
  saludoEn,         \* the socket of the handshake in gestionar_kernel
  fd_cliente,       \* the connection gestionar_kernel accepted last
  peticiones,       \* the threads of manejar_peticion
  \* History
  enredadas         \* connections used by a thread that did not make them, or whose
                    \* thread used something else instead

kern == <<kernel, pc, mia, conexion, en, leida, socket_memoria, tabla>>
vars == <<kernel, pc, mia, conexion, en, leida, socket_memoria, tabla, con, pendientes,
          memoria, saludoEn, fd_cliente, peticiones, enredadas>>

Saludo == -1      \* the reply of handshake_Server
Basura == -2      \* what a recv that failed leaves

Descriptores == 1 .. MaxConexiones
Conexiones == 1 .. MaxConexiones
Mensajes == 0 .. MaxConexiones

\* Descriptors refer to connections that exist; each queue carries what its
\* writer sends.
TypeOK ==
  /\ kernel \in {"vivo", "muerto"} /\ memoria \in {"viva", "muerta"}
  /\ pc \in [Hilos -> {"libre", "saludo", "enviar", "llamar", "espera", "cerrar"}]
  /\ mia \in [Hilos -> 0 .. Len(con)] /\ conexion \in [Hilos -> {0} \cup Descriptores]
  /\ en \in [Hilos -> 0 .. Len(con)]
  /\ leida \in [Hilos -> {Basura, Saludo} \cup Mensajes]
  /\ socket_memoria \in {0} \cup Descriptores
  /\ tabla \in [Descriptores -> 0 .. Len(con)]
  /\ con \in Seq([duenio : Hilos, aMemoria : Seq(Mensajes),
                  aKernel : Seq({Saludo} \cup Mensajes), fin : BOOLEAN])
  /\ pendientes \in Seq(Conexiones) /\ fd_cliente \in 0 .. Len(con)
  /\ peticiones \in Seq([arg : Conexiones, fd : 0 .. Len(con), tiene : {Basura} \cup Mensajes,
                         estado : {"nace", "recibe", "contesta", "fin"}])
  /\ saludoEn \in Saludos
  /\ enredadas \subseteq Conexiones

Init ==
  /\ kernel = "vivo" /\ memoria = "viva"
  /\ pc = [t \in Hilos |-> "libre"]
  /\ mia = [t \in Hilos |-> 0] /\ conexion = [t \in Hilos |-> 0] /\ en = [t \in Hilos |-> 0]
  /\ leida = [t \in Hilos |-> Basura]
  /\ socket_memoria = 0
  /\ tabla = [f \in Descriptores |-> 0]
  /\ con = <<>> /\ pendientes = <<>>
  /\ fd_cliente = 0 /\ peticiones = <<>>
  /\ saludoEn \in Saludos
  /\ enredadas = {}

---------------------------------------------------------------------------
(* The Kernel *)

\* What a file descriptor refers to now; 0 is standard input, not a socket.
Refiere(f) == IF f = 0 THEN 0 ELSE tabla[f]

\* History: thread t used connection u (0: a descriptor that is not open).
Usa(t, u) ==
  enredadas' = IF u = mia[t] THEN enredadas
               ELSE enredadas \cup ({u, mia[t]} \ {0})

\* The connections whose other end Memoria still holds.
Abiertas == {c \in DOMAIN con : memoria = "viva" /\ ~con[c].fin}

Morir == kernel' = "muerto"

\* conectarMemoria: conectar makes the connection, sends the handshake and waits
\* for its reply on a descriptor of its own.
Conectar(t) ==
  /\ pc[t] = "libre"
  /\ memoria = "viva"
  /\ Len(con) < MaxConexiones
  /\ LET c == Len(con) + 1
         f == Min({g \in Descriptores : tabla[g] = 0})
     IN  /\ con' = Append(con, [duenio |-> t, aMemoria |-> <<>>, aKernel |-> <<>>, fin |-> FALSE])
         /\ pendientes' = Append(pendientes, c)
         /\ tabla' = [tabla EXCEPT ![f] = c]
         /\ conexion' = [conexion EXCEPT ![t] = f]
         /\ mia' = [mia EXCEPT ![t] = c]
         /\ en' = [en EXCEPT ![t] = c]
  /\ pc' = [pc EXCEPT ![t] = "saludo"]
  /\ UNCHANGED <<kernel, leida, socket_memoria, memoria, saludoEn, fd_cliente,
                 peticiones, enredadas>>

\* connect is refused: conectarMemoria aborts.
ConectarSinMemoria(t) ==
  /\ pc[t] = "libre"
  /\ memoria = "muerta"
  /\ Morir
  /\ UNCHANGED <<pc, mia, conexion, en, leida, socket_memoria, tabla, con, pendientes, memoria,
                 saludoEn, fd_cliente, peticiones, enredadas>>

\* Mutant: conectar returns the result of the handshake.
AsignarMut(t) ==
  /\ socket_memoria' = Saludo
  /\ pc' = [pc EXCEPT ![t] = "enviar"]
  /\ UNCHANGED kernel

\* The global takes the descriptor that conectar returned.
Asignar(t) ==
  /\ socket_memoria' = conexion[t]
  /\ pc' = [pc EXCEPT ![t] = "enviar"]
  /\ UNCHANGED kernel

NoAsignar == Morir /\ UNCHANGED <<socket_memoria, pc>>

\* handshake_Client reads an int: the reply, or an answer that took its place,
\* which is not 0 and makes conectarMemoria abort.
LeerSaludo(t) ==
  /\ con[en[t]].aKernel # <<>>
  /\ con' = [con EXCEPT ![en[t]].aKernel = Tail(@)]
  /\ IF Head(con[en[t]].aKernel) = Saludo THEN Asignar(t) ELSE NoAsignar

\* The peer closed: err keeps whatever the stack held.
LeerSaludoCortado(t) ==
  /\ con[en[t]].aKernel = <<>>
  /\ en[t] \notin Abiertas
  /\ Asignar(t) \/ NoAsignar
  /\ UNCHANGED con

Saludar(t) ==
  /\ pc[t] = "saludo"
  /\ LeerSaludo(t) \/ LeerSaludoCortado(t)
  /\ UNCHANGED <<mia, conexion, en, leida, tabla, pendientes, memoria, saludoEn, fd_cliente,
                 peticiones, enredadas>>

\* interpretarCPU, DUMP_MEMORY: nothing is connected.
Volcar(t) ==
  /\ t \in Volcadores
  /\ pc[t] = "libre"
  /\ pc' = [pc EXCEPT ![t] = "enviar"]
  /\ mia' = [mia EXCEPT ![t] = 0]
  /\ UNCHANGED <<kernel, conexion, en, leida, socket_memoria, tabla, con, pendientes, memoria,
                 saludoEn, fd_cliente, peticiones, enredadas>>

\* EnviarOperacion on what the global refers to now.  What is sent to a
\* connection that Memoria closed is lost, or kills the Kernel (SIGPIPE).
Enviar(t) ==
  /\ pc[t] = "enviar"
  /\ LET u == Refiere(socket_memoria)
     IN  /\ Usa(t, u)
         /\ \/ /\ u \in Abiertas
               /\ con' = [con EXCEPT ![u].aMemoria = Append(@, mia[t])]
               /\ UNCHANGED kernel
            \/ /\ u \notin Abiertas
               /\ UNCHANGED <<con, kernel>>
            \/ /\ u # 0 /\ u \notin Abiertas
               /\ Morir
               /\ UNCHANGED con
  /\ pc' = [pc EXCEPT ![t] = "llamar"]
  /\ UNCHANGED <<mia, conexion, en, leida, socket_memoria, tabla, pendientes, memoria, saludoEn,
                 fd_cliente, peticiones>>

\* RecibirBuffer is called with the global as it is now, and waits there.
Llamar(t) ==
  /\ pc[t] = "llamar"
  /\ LET u == Refiere(socket_memoria)
     IN  Usa(t, u) /\ en' = [en EXCEPT ![t] = u]
  /\ pc' = [pc EXCEPT ![t] = "espera"]
  /\ UNCHANGED <<kernel, mia, conexion, leida, socket_memoria, tabla, con, pendientes, memoria,
                 saludoEn, fd_cliente, peticiones>>

\* DUMP_MEMORY does not close the socket.
Seguir(t) == pc' = [pc EXCEPT ![t] = IF mia[t] = 0 THEN "libre" ELSE "cerrar"]

LeerRespuesta(t) ==
  /\ en[t] # 0
  /\ con[en[t]].aKernel # <<>>
  /\ leida' = [leida EXCEPT ![t] = Head(con[en[t]].aKernel)]
  /\ con' = [con EXCEPT ![en[t]].aKernel = Tail(@)]
  /\ Seguir(t)
  /\ UNCHANGED kernel

\* recv fails: the size is garbage, and buffer_read_int, which DUMP_MEMORY does
\* not call, reads garbage or faults.
LeerNada(t) ==
  /\ en[t] \notin Abiertas
  /\ en[t] # 0 => con[en[t]].aKernel = <<>>
  /\ leida' = [leida EXCEPT ![t] = Basura]
  /\ Seguir(t)
  /\ \/ UNCHANGED kernel
     \/ mia[t] # 0 /\ Morir
  /\ UNCHANGED con

Recibir(t) ==
  /\ pc[t] = "espera"
  /\ LeerRespuesta(t) \/ LeerNada(t)
  /\ UNCHANGED <<mia, conexion, en, socket_memoria, tabla, pendientes, memoria, saludoEn,
                 fd_cliente, peticiones, enredadas>>

\* Mutant: the connection is not closed.
CerrarMut(t) ==
  /\ pc[t] = "cerrar"
  /\ pc' = [pc EXCEPT ![t] = "libre"]
  /\ UNCHANGED <<kernel, mia, conexion, en, leida, socket_memoria, tabla, con, pendientes, memoria,
                 saludoEn, fd_cliente, peticiones, enredadas>>

\* close(socket_memoria), which keeps its value.
Cerrar(t) ==
  /\ pc[t] = "cerrar"
  /\ Usa(t, Refiere(socket_memoria))
  /\ tabla' = [f \in Descriptores |-> IF f = socket_memoria THEN 0 ELSE tabla[f]]
  /\ pc' = [pc EXCEPT ![t] = "libre"]
  /\ UNCHANGED <<kernel, mia, conexion, en, leida, socket_memoria, con, pendientes, memoria,
                 saludoEn, fd_cliente, peticiones>>

---------------------------------------------------------------------------
(* Memoria *)

Aceptada(c) ==
  /\ fd_cliente' = c
  /\ pendientes' = Tail(pendientes)

\* One turn of gestionar_kernel: accept, handshake, a thread with a copy of the
\* descriptor.
AceptarYSaludar ==
  /\ saludoEn = "fd_cliente"
  /\ LET c == Head(pendientes)
     IN  /\ Aceptada(c)
         /\ con' = [con EXCEPT ![c].aKernel = Append(@, Saludo)]
         /\ peticiones' = Append(peticiones, [arg |-> c, fd |-> 0, tiene |-> Basura,
                                              estado |-> "nace"])
  /\ UNCHANGED memoria

\* The handshake on the listening socket, as the code has it today: send raises
\* SIGPIPE there.
AceptarYCaer ==
  /\ saludoEn = "fd_server_memoria"
  /\ Aceptada(Head(pendientes))
  /\ memoria' = "muerta"
  /\ UNCHANGED <<con, peticiones>>

gestionar_kernel ==
  /\ memoria = "viva"
  /\ pendientes # <<>>
  /\ AceptarYSaludar \/ AceptarYCaer
  /\ UNCHANGED <<kern, saludoEn, enredadas>>

\* Mutant: the thread is given the address of the variable of the loop.
ArgumentoMut(h) == fd_cliente

\* What the thread finds at its argument.
Argumento(h) == peticiones[h].arg

LeerArgumento(h) ==
  /\ peticiones[h].estado = "nace"
  /\ peticiones' = [peticiones EXCEPT ![h].fd = Argumento(h), ![h].estado = "recibe"]
  /\ UNCHANGED <<con, memoria>>

RecibirPaquete(h) ==
  /\ peticiones[h].estado = "recibe"
  /\ con[peticiones[h].fd].aMemoria # <<>>
  /\ con' = [con EXCEPT ![peticiones[h].fd].aMemoria = Tail(@)]
  /\ peticiones' = [peticiones EXCEPT ![h].tiene = Head(con[peticiones[h].fd].aMemoria),
                                      ![h].estado = "contesta"]
  /\ UNCHANGED memoria

\* No thread of the Kernel can write to c any more.
SinKernel(c) ==
  \/ kernel = "muerto"
  \/ /\ \A f \in Descriptores : tabla[f] # c
     /\ \A t \in Hilos : ~(pc[t] \in {"saludo", "espera"} /\ en[t] = c)

\* The Kernel closed without asking: the packet is garbage, which is not a known
\* operation or makes the thread fault.
RecibirNada(h) ==
  /\ peticiones[h].estado = "recibe"
  /\ con[peticiones[h].fd].aMemoria = <<>>
  /\ SinKernel(peticiones[h].fd)
  /\ \/ /\ con' = [con EXCEPT ![peticiones[h].fd].fin = TRUE]
        /\ peticiones' = [peticiones EXCEPT ![h].estado = "fin"]
        /\ UNCHANGED memoria
     \/ /\ memoria' = "muerta"
        /\ UNCHANGED <<con, peticiones>>

\* Mutant: an operation that fails is not answered, and the connection stays open.
ContestarMut(h) ==
  /\ peticiones[h].estado = "contesta"
  /\ peticiones' = [peticiones EXCEPT ![h].estado = "fin"]
  /\ UNCHANGED <<con, memoria>>

\* Mutant: the answer goes to the connection accepted last.
ContestarMutFd(h) ==
  /\ peticiones[h].estado = "contesta"
  /\ con' = [con EXCEPT ![fd_cliente].aKernel = Append(@, peticiones[h].tiene),
                        ![peticiones[h].fd].fin = TRUE]
  /\ peticiones' = [peticiones EXCEPT ![h].estado = "fin"]
  /\ UNCHANGED memoria

\* enviar_estado and close, whatever the operation was.  Its three sends may end
\* Memoria (SIGPIPE) when a crossed request has closed the other end.
Contestar(h) ==
  /\ peticiones[h].estado = "contesta"
  /\ \/ /\ con' = [con EXCEPT ![peticiones[h].fd].aKernel = Append(@, peticiones[h].tiene),
                              ![peticiones[h].fd].fin = TRUE]
        /\ peticiones' = [peticiones EXCEPT ![h].estado = "fin"]
        /\ UNCHANGED memoria
     \/ /\ SinKernel(peticiones[h].fd)
        /\ memoria' = "muerta"
        /\ UNCHANGED <<con, peticiones>>

manejar_peticion(h) ==
  /\ memoria = "viva"
  /\ h \in DOMAIN peticiones
  /\ LeerArgumento(h) \/ RecibirPaquete(h) \/ RecibirNada(h) \/ Contestar(h)
  /\ UNCHANGED <<kern, pendientes, saludoEn, fd_cliente, enredadas>>

---------------------------------------------------------------------------
\* A request under way: every step of a thread but the first.
Avanzar(t) ==
  /\ kernel = "vivo"
  /\ Saludar(t) \/ Enviar(t) \/ Llamar(t) \/ Recibir(t) \/ Cerrar(t)

Empezar(t) ==
  /\ kernel = "vivo"
  /\ Conectar(t) \/ ConectarSinMemoria(t) \/ Volcar(t)

Next ==
  \/ \E t \in Hilos : Empezar(t) \/ Avanzar(t)
  \/ gestionar_kernel
  \/ \E h \in Conexiones : manejar_peticion(h)

Spec == Init /\ [][Next]_vars

\* Threads of both processes that can go on do; no request is owed.
FairSpec ==
  /\ Spec
  /\ \A t \in Hilos : WF_vars(Avanzar(t))
  /\ WF_vars(gestionar_kernel)
  /\ \A h \in Conexiones : WF_vars(manejar_peticion(h))

---------------------------------------------------------------------------
(* Properties *)

\* A request that kept its connection to itself reads the answer to that request
\* and no other, however other requests (DUMP_MEMORY included) overlapped it;
\* only a dead Memoria leaves it with garbage (crearProcesoMemoria and the rest).
RespuestaPropia ==
  \A t \in Hilos :
    pc[t] = "cerrar" /\ mia[t] \notin enredadas =>
      leida[t] = mia[t] \/ (leida[t] = Basura /\ memoria = "muerta")

\* A descriptor that is still open belongs to a request under way, or to one that
\* another thread crossed: close(socket_memoria) leaks nothing else.
SinFugas ==
  \A f \in Descriptores :
    tabla[f] # 0 =>
      LET c == tabla[f]
          t == con[c].duenio
      IN  c \in enredadas \/ (mia[t] = c /\ pc[t] # "libre")

\* Whatever the accept loop has done meanwhile, no two threads of
\* manejar_peticion serve one connection (the malloc'ed copy of the descriptor).
UnHiloPorConexion ==
  \A g, h \in DOMAIN peticiones :
    g # h /\ peticiones[g].fd # 0 => peticiones[g].fd # peticiones[h].fd

\* A request that keeps its connection to itself ends, and no thread waits for
\* ever for Memoria unless another one crossed it.
PeticionTermina ==
  \A t \in Hilos :
    (pc[t] # "libre" /\ mia[t] # 0) ~>
      (pc[t] = "libre" \/ mia[t] \in enredadas \/ kernel = "muerto")

=============================================================================
