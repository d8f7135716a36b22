--------------------------- MODULE ConexionProofs ---------------------------
(***************************************************************************)
(* Proofs about Conexion, for every number of threads of the Kernel and of *)
(* connections, whichever threads dump memory and whatever socket the      *)
(* handshake is done on.                                                   *)
(***************************************************************************)
EXTENDS Conexion, SecuenciasProofs

Canal == [duenio : Hilos, aMemoria : Seq(Mensajes), aKernel : Seq({Saludo} \cup Mensajes),
          fin : BOOLEAN]
Estados == {"nace", "recibe", "contesta", "fin"}
Peticion == [arg : Conexiones, fd : 0 .. Len(con), tiene : {Basura} \cup Mensajes,
             estado : Estados]

\* A descriptor is of one connection, and a thread's own connection is its own.
InvTipos ==
  /\ TypeOK
  /\ Len(con) <= MaxConexiones
  /\ \A f, g \in Descriptores : f # g /\ tabla[f] # 0 => tabla[f] # tabla[g]
  /\ \A t \in Hilos : mia[t] # 0 => con[mia[t]].duenio = t
  /\ \A t \in Hilos : pc[t] \in {"saludo", "cerrar"} => mia[t] # 0
  /\ \A t \in Hilos : pc[t] = "saludo" => en[t] = mia[t]

\* A connection is waiting to be accepted or is the argument of one thread of
\* manejar_peticion, never both nor twice.
InvColas ==
  /\ \A i \in DOMAIN pendientes : pendientes[i] <= Len(con)
  /\ \A i, j \in DOMAIN pendientes : i # j => pendientes[i] # pendientes[j]
  /\ \A h \in DOMAIN peticiones : peticiones[h].arg <= Len(con)
  /\ \A g, h \in DOMAIN peticiones : g # h => peticiones[g].arg # peticiones[h].arg
  /\ \A i \in DOMAIN pendientes, h \in DOMAIN peticiones : pendientes[i] # peticiones[h].arg
  /\ \A h \in DOMAIN peticiones :
       peticiones[h].fd = IF peticiones[h].estado = "nace" THEN 0 ELSE peticiones[h].arg
  /\ \A h \in DOMAIN peticiones :
       peticiones[h].estado = "contesta" => peticiones[h].tiene # Basura

Limpia(t) == pc[t] # "libre" /\ mia[t] # 0 /\ mia[t] \notin enredadas

Pendiente(c) == \E i \in DOMAIN pendientes : pendientes[i] = c
SinLeer(c) == \A h \in DOMAIN peticiones :
                peticiones[h].arg = c => peticiones[h].estado \in {"nace", "recibe"}

\* What travels on connection c while its thread is at each place.
Trafico(t, c) ==
  /\ pc[t] \in {"saludo", "enviar"} => con[c].aMemoria = <<>> /\ ~con[c].fin /\ SinLeer(c)
  /\ pc[t] = "saludo" => con[c].aKernel = <<>> \/ (con[c].aKernel = <<Saludo>> /\ ~Pendiente(c))
  /\ pc[t] = "enviar" => con[c].aKernel = <<>>
  /\ pc[t] \in {"enviar", "llamar", "espera"} /\ memoria = "viva" => ~Pendiente(c)
  /\ pc[t] \in {"llamar", "espera"} =>
       /\ con[c].aKernel \in {<<>>, <<c>>}
       /\ con[c].aMemoria = <<>> \/ (con[c].aMemoria = <<c>> /\ con[c].aKernel = <<>> /\ SinLeer(c))
       /\ \A h \in DOMAIN peticiones :
            peticiones[h].arg = c /\ peticiones[h].estado = "contesta"
              => peticiones[h].tiene = c /\ con[c].aKernel = <<>>
       /\ con[c].fin => con[c].aKernel = <<c>>

\* A thread whose connection nobody crossed.
Propia(t) ==
  LET c == mia[t]
  IN  /\ \E f \in Descriptores : tabla[f] = c
      /\ \A s \in Hilos \ {t} : pc[s] \in {"saludo", "espera"} => en[s] # c
      /\ pc[t] = "espera" => en[t] = c
      /\ pc[t] = "cerrar" => leida[t] = c \/ (leida[t] = Basura /\ memoria = "muerta")
      /\ kernel = "vivo" => Trafico(t, c)

InvPropia == \A t \in Hilos : Limpia(t) => Propia(t)

---------------------------------------------------------------------------
(* Types *)

LEMMA Hechos ==
  ASSUME InvTipos
  PROVE  /\ MaxConexiones \in Nat /\ Len(con) \in Nat /\ Len(con) <= MaxConexiones
         /\ con \in Seq(Canal) /\ DOMAIN con = 1 .. Len(con)
         /\ \A c \in 1 .. Len(con) : con[c] \in Canal
         /\ pendientes \in Seq(Conexiones) /\ DOMAIN pendientes = 1 .. Len(pendientes)
         /\ Len(pendientes) \in Nat
         /\ \A i \in 1 .. Len(pendientes) : pendientes[i] \in Conexiones
         /\ peticiones \in Seq(Peticion) /\ DOMAIN peticiones = 1 .. Len(peticiones)
         /\ Len(peticiones) \in Nat
         /\ \A h \in 1 .. Len(peticiones) : peticiones[h] \in Peticion
<1>1. con \in Seq(Canal) /\ pendientes \in Seq(Conexiones) /\ peticiones \in Seq(Peticion)
  BY DEF InvTipos, TypeOK, Canal, Peticion, Estados
<1>2. MaxConexiones \in Nat /\ Len(con) <= MaxConexiones
  BY ConexionAssumption DEF InvTipos
<1> HIDE DEF Canal, Peticion, Conexiones
<1> QED
  BY <1>1, <1>2, LenProperties, ElementOfSeq

\* The connections already made are fewer than the descriptors.
LEMMA HayLibre ==
  ASSUME InvTipos, Len(con) < MaxConexiones
  PROVE  LET f == Min({g \in Descriptores : tabla[g] = 0})
         IN  f \in Descriptores /\ tabla[f] = 0
<1>1. {g \in Descriptores : tabla[g] = 0} # {}
  <2>1. SUFFICES ASSUME \A g \in Descriptores : tabla[g] # 0
                 PROVE  FALSE
    OBVIOUS
  <2>2. tabla \in [Descriptores -> 1 .. Len(con)]
    BY <2>1, Hechos DEF InvTipos, TypeOK
  <2>3. /\ IsFiniteSet(Descriptores) /\ Cardinality(Descriptores) = MaxConexiones
        /\ IsFiniteSet(1 .. Len(con)) /\ Cardinality(1 .. Len(con)) = Len(con)
    <3>1. \A n \in Nat : IsFiniteSet(1 .. n) /\ Cardinality(1 .. n) = n
      <4>1. \A n \in Nat : Cardinality(1 .. n) = IF 1 > n THEN 0 ELSE n - 1 + 1
        BY FS_Interval
      <4> QED
        BY <4>1, FS_Interval
    <3> QED
      BY <3>1, Hechos DEF Descriptores
  <2>4. \E f, g \in Descriptores : f # g /\ tabla[f] = tabla[g]
    BY <2>2, <2>3, FS_PigeonHole
  <2> QED
    BY <2>1, <2>4 DEF InvTipos
<1>2. {g \in Descriptores : tabla[g] = 0} \in SUBSET Nat
  BY Hechos DEF Descriptores
<1> QED
  BY <1>1, <1>2, MinNat

LEMMA Escribir ==
  ASSUME NEW r \in Canal, NEW m \in Mensajes
  PROVE  /\ [r EXCEPT !.aMemoria = Append(@, m)] \in Canal
         /\ [r EXCEPT !.aKernel = Append(@, m)] \in Canal
<1> DEFINE A == Seq(Mensajes)
           K == Seq({Saludo} \cup Mensajes)
<1>1. r.aMemoria \in A /\ r.aKernel \in K
  BY DEF Canal
<1>2. Append(r.aMemoria, m) \in A /\ Append(r.aKernel, m) \in K
  BY <1>1, AppendProperties
<1> HIDE DEF A, K
<1>3. Canal = [duenio : Hilos, aMemoria : A, aKernel : K, fin : BOOLEAN]
  BY DEF Canal, A, K
<1> QED
  BY <1>1, <1>2, <1>3

LEMMA Leer ==
  ASSUME NEW r \in Canal
  PROVE  /\ [r EXCEPT !.aKernel = Append(@, Saludo)] \in Canal
         /\ r.aKernel # <<>> => /\ [r EXCEPT !.aKernel = Tail(@)] \in Canal
                                /\ Head(r.aKernel) \in {Saludo} \cup Mensajes
         /\ r.aMemoria # <<>> => /\ [r EXCEPT !.aMemoria = Tail(@)] \in Canal
                                 /\ Head(r.aMemoria) \in Mensajes
<1> DEFINE A == Seq(Mensajes)
           K == Seq({Saludo} \cup Mensajes)
<1>1. r.aMemoria \in A /\ r.aKernel \in K
  BY DEF Canal
<1>2. Append(r.aKernel, Saludo) \in K
  BY <1>1, AppendProperties
<1>3. /\ r.aKernel # <<>> => Tail(r.aKernel) \in K /\ Head(r.aKernel) \in {Saludo} \cup Mensajes
      /\ r.aMemoria # <<>> => Tail(r.aMemoria) \in A /\ Head(r.aMemoria) \in Mensajes
  BY <1>1, HeadTailProperties
<1> HIDE DEF A, K
<1>4. Canal = [duenio : Hilos, aMemoria : A, aKernel : K, fin : BOOLEAN]
  BY DEF Canal, A, K
<1> QED
  BY <1>1, <1>2, <1>3, <1>4

---------------------------------------------------------------------------
(* Every step keeps InvTipos *)

\* What the steps of the Kernel keep when no connection is made or closed.
LEMMA TiposKernel ==
  ASSUME InvTipos,
         con' \in Seq(Canal), Len(con') = Len(con),
         \A c \in 1 .. Len(con) : con'[c].duenio = con[c].duenio,
         UNCHANGED <<conexion, tabla, pendientes, fd_cliente, peticiones, saludoEn>>,
         kernel' \in {"vivo", "muerto"}, memoria' = memoria,
         NEW t \in Hilos,
         NEW lugar \in {"libre", "saludo", "enviar", "llamar", "espera", "cerrar"},
         pc' = [pc EXCEPT ![t] = lugar], lugar # "saludo",
         mia' = mia \/ mia' = [mia EXCEPT ![t] = 0],
         lugar = "cerrar" => mia'[t] # 0,
         \A s \in Hilos : pc[s] = "saludo" /\ s # t => mia'[s] = mia[s] /\ en'[s] = en[s],
         en' \in [Hilos -> 0 .. Len(con)],
         leida' \in [Hilos -> {Basura, Saludo} \cup Mensajes],
         socket_memoria' \in {0} \cup Descriptores,
         enredadas' \subseteq Conexiones
  PROVE  InvTipos'
<1>1. /\ mia' \in [Hilos -> 0 .. Len(con)]
      /\ \A s \in Hilos : mia'[s] # 0 => mia'[s] = mia[s]
  <2>1. mia \in [Hilos -> 0 .. Len(con)] /\ 0 \in 0 .. Len(con)
    BY Hechos DEF InvTipos, TypeOK
  <2>2. CASE mia' = mia
    BY <2>1, <2>2
  <2>3. CASE mia' = [mia EXCEPT ![t] = 0]
    BY <2>1, <2>3
  <2> QED
    BY <2>2, <2>3
<1>2. pc' \in [Hilos -> {"libre", "saludo", "enviar", "llamar", "espera", "cerrar"}]
  BY DEF InvTipos, TypeOK
<1>3. TypeOK'
  <2> HIDE DEF Mensajes, Descriptores, Conexiones
  <2>1. UNCHANGED <<conexion, tabla, pendientes, fd_cliente, saludoEn, memoria, peticiones>>
    OBVIOUS
  <2>2. con' \in Seq(Canal)
    OBVIOUS
  <2>3. /\ 0 .. Len(con') = 0 .. Len(con)
        /\ [Hilos -> 0 .. Len(con')] = [Hilos -> 0 .. Len(con)]
    OBVIOUS
  <2> QED
    BY <1>1, <1>2, <2>1, <2>2, <2>3 DEF InvTipos, TypeOK, Canal
<1>4. \A s \in Hilos : mia'[s] # 0 => con'[mia'[s]].duenio = s
  <2>1. \A s \in Hilos : mia[s] # 0 => mia[s] \in 1 .. Len(con)
    BY Hechos DEF InvTipos, TypeOK
  <2> QED
    BY <1>1, <2>1 DEF InvTipos
<1>5. \A s \in Hilos : pc'[s] \in {"saludo", "cerrar"} => mia'[s] # 0
  BY DEF InvTipos, TypeOK
<1>6. \A s \in Hilos : pc'[s] = "saludo" => en'[s] = mia'[s]
  BY DEF InvTipos, TypeOK
<1>7. (Len(con) <= MaxConexiones)'
  BY DEF InvTipos
<1>8. (\A f, g \in Descriptores : f # g /\ tabla[f] # 0 => tabla[f] # tabla[g])'
  BY DEF InvTipos, Descriptores
<1> QED
  BY <1>3, <1>4, <1>5, <1>6, <1>7, <1>8 DEF InvTipos


\* What the steps of Memoria keep, and those of a thread of the Kernel that stays.
LEMMA TiposQuietos ==
  ASSUME InvTipos,
         con' \in Seq(Canal), Len(con') = Len(con),
         \A c \in 1 .. Len(con) : con'[c].duenio = con[c].duenio,
         UNCHANGED <<pc, mia, conexion, en, leida, socket_memoria, tabla, saludoEn, enredadas>>,
         kernel' \in {"vivo", "muerto"}, memoria' \in {"viva", "muerta"},
         pendientes' \in Seq(Conexiones), fd_cliente' \in 0 .. Len(con),
         peticiones' \in Seq(Peticion)
  PROVE  InvTipos'
<1>1. TypeOK'
  <2>1. /\ 0 .. Len(con') = 0 .. Len(con)
        /\ [Hilos -> 0 .. Len(con')] = [Hilos -> 0 .. Len(con)]
    OBVIOUS
  <2> HIDE DEF Mensajes, Descriptores, Conexiones
  <2> QED
    BY <2>1 DEF InvTipos, TypeOK, Canal, Peticion, Estados
<1>2. \A s \in Hilos : mia'[s] # 0 => con'[mia'[s]].duenio = s
  <2>1. \A s \in Hilos : mia[s] # 0 => mia[s] \in 1 .. Len(con)
    BY Hechos DEF InvTipos, TypeOK
  <2> QED
    BY <2>1 DEF InvTipos
<1> QED
  BY <1>1, <1>2 DEF InvTipos

---------------------------------------------------------------------------
(* What each step does to the connections and to the threads of Memoria *)

\* Connection c carries r now, and the others what they did.
EnCanal(c, r) ==
  /\ con' \in Seq(Canal) /\ Len(con') = Len(con)
  /\ con'[c] = r /\ r.duenio = con[c].duenio
  /\ \A d \in 1 .. Len(con) : d # c => con'[d] = con[d]

EnPeticion(h, r) ==
  /\ peticiones' \in Seq(Peticion) /\ Len(peticiones') = Len(peticiones)
  /\ peticiones'[h] = r
  /\ \A g \in 1 .. Len(peticiones) : g # h => peticiones'[g] = peticiones[g]

LEMMA CambiaCanal ==
  ASSUME InvTipos, NEW c \in 1 .. Len(con), NEW r \in Canal, con' = [con EXCEPT ![c] = r],
         r.duenio = con[c].duenio
  PROVE  EnCanal(c, r)
BY Hechos, ExceptSeq DEF EnCanal

LEMMA CambiaPeticion ==
  ASSUME InvTipos, NEW h \in 1 .. Len(peticiones), NEW r \in Peticion,
         peticiones' = [peticiones EXCEPT ![h] = r]
  PROVE  EnPeticion(h, r)
BY Hechos, ExceptSeq DEF EnPeticion

LEMMA EnCanalDuenios ==
  ASSUME InvTipos, NEW c, NEW r, EnCanal(c, r)
  PROVE  \A d \in 1 .. Len(con) : con'[d].duenio = con[d].duenio
BY DEF EnCanal

LEMMA RefiereTipos ==
  ASSUME InvTipos
  PROVE  Refiere(socket_memoria) \in 0 .. Len(con)
BY Hechos DEF InvTipos, TypeOK, Refiere

LEMMA UsaTipos ==
  ASSUME InvTipos, NEW t \in Hilos, Usa(t, Refiere(socket_memoria))
  PROVE  enredadas' \subseteq Conexiones
<1>1. 1 .. Len(con) \subseteq Conexiones
  BY Hechos DEF Conexiones
<1>2. Refiere(socket_memoria) \in 0 .. Len(con) /\ mia[t] \in 0 .. Len(con)
  BY RefiereTipos DEF InvTipos, TypeOK
<1>3. {Refiere(socket_memoria), mia[t]} \ {0} \subseteq 1 .. Len(con)
  BY <1>2, Hechos
<1>4. enredadas \subseteq Conexiones
  BY DEF InvTipos, TypeOK
<1> QED
  BY <1>1, <1>3, <1>4 DEF Usa

LEMMA HaceLeerSaludo ==
  ASSUME InvTipos, NEW t \in Hilos, pc[t] = "saludo", LeerSaludo(t)
  PROVE  /\ en[t] = mia[t] /\ en[t] \in 1 .. Len(con)
         /\ EnCanal(en[t], [con[en[t]] EXCEPT !.aKernel = Tail(@)])
<1>1. en[t] = mia[t] /\ en[t] \in 1 .. Len(con)
  BY Hechos DEF InvTipos, TypeOK
<1>2. [con[en[t]] EXCEPT !.aKernel = Tail(@)] \in Canal
  BY <1>1, Hechos, Leer DEF LeerSaludo
<1>3. con' = [con EXCEPT ![en[t]] = [con[en[t]] EXCEPT !.aKernel = Tail(@)]]
  BY DEF LeerSaludo
<1> QED
  BY <1>1, <1>2, <1>3, Hechos, CambiaCanal DEF Canal

LEMMA HaceEnviar ==
  ASSUME InvTipos, NEW t \in Hilos, Enviar(t), con' # con
  PROVE  LET u == Refiere(socket_memoria)
         IN  /\ u \in Abiertas /\ u \in 1 .. Len(con)
             /\ EnCanal(u, [con[u] EXCEPT !.aMemoria = Append(@, mia[t])])
<1> DEFINE u == Refiere(socket_memoria)
<1>1. u \in Abiertas /\ con' = [con EXCEPT ![u].aMemoria = Append(@, mia[t])]
  BY DEF Enviar
<1>2. u \in 1 .. Len(con)
  BY <1>1, Hechos DEF Abiertas
<1> HIDE DEF u
<1>3. mia[t] \in Mensajes
  BY Hechos DEF InvTipos, TypeOK, Mensajes
<1>4. [con[u] EXCEPT !.aMemoria = Append(@, mia[t])] \in Canal
  BY <1>2, <1>3, Hechos, Escribir
<1>5. con' = [con EXCEPT ![u] = [con[u] EXCEPT !.aMemoria = Append(@, mia[t])]]
  BY <1>1
<1>6. EnCanal(u, [con[u] EXCEPT !.aMemoria = Append(@, mia[t])])
  BY <1>2, <1>4, <1>5, Hechos, CambiaCanal DEF Canal
<1> QED
  BY <1>1, <1>2, <1>6 DEF u

LEMMA HaceLeerRespuesta ==
  ASSUME InvTipos, NEW t \in Hilos, LeerRespuesta(t)
  PROVE  /\ en[t] \in 1 .. Len(con)
         /\ EnCanal(en[t], [con[en[t]] EXCEPT !.aKernel = Tail(@)])
         /\ Head(con[en[t]].aKernel) \in {Saludo} \cup Mensajes
<1>1. en[t] \in 1 .. Len(con)
  BY Hechos DEF InvTipos, TypeOK, LeerRespuesta
<1>2. /\ [con[en[t]] EXCEPT !.aKernel = Tail(@)] \in Canal
      /\ Head(con[en[t]].aKernel) \in {Saludo} \cup Mensajes
  BY <1>1, Hechos, Leer DEF LeerRespuesta
<1>3. con' = [con EXCEPT ![en[t]] = [con[en[t]] EXCEPT !.aKernel = Tail(@)]]
  BY DEF LeerRespuesta
<1> QED
  BY <1>1, <1>2, <1>3, Hechos, CambiaCanal DEF Canal


LEMMA HaceConectar ==
  ASSUME InvTipos, NEW t \in Hilos, Conectar(t)
  PROVE  LET c == Len(con) + 1
             r == [duenio |-> t, aMemoria |-> <<>>, aKernel |-> <<>>, fin |-> FALSE]
         IN  /\ c \in Conexiones
             /\ con' \in Seq(Canal) /\ Len(con') = c
             /\ con'[c] = r
             /\ \A d \in 1 .. Len(con) : con'[d] = con[d]
             /\ pendientes' \in Seq(Conexiones) /\ Len(pendientes') = Len(pendientes) + 1
             /\ pendientes'[Len(pendientes) + 1] = c
             /\ \A i \in 1 .. Len(pendientes) : pendientes'[i] = pendientes[i]
             /\ \E f \in Descriptores :
                  /\ tabla[f] = 0
                  /\ tabla' = [tabla EXCEPT ![f] = c]
                  /\ conexion' = [conexion EXCEPT ![t] = f]
<1> DEFINE c == Len(con) + 1
           r == [duenio |-> t, aMemoria |-> <<>>, aKernel |-> <<>>, fin |-> FALSE]
           f == Min({g \in Descriptores : tabla[g] = 0})
<1>1. c \in Conexiones
  BY Hechos DEF Conectar, Conexiones
<1>2. r \in Canal
  <2>1. <<>> \in Seq(Mensajes) /\ <<>> \in Seq({Saludo} \cup Mensajes)
    BY EmptySeq
  <2> QED
    BY <2>1 DEF Canal
<1>3. f \in Descriptores /\ tabla[f] = 0
  BY HayLibre DEF Conectar
<1>4. /\ con' = Append(con, r) /\ pendientes' = Append(pendientes, c)
      /\ tabla' = [tabla EXCEPT ![f] = c] /\ conexion' = [conexion EXCEPT ![t] = f]
  BY DEF Conectar
<1> HIDE DEF r, f
<1>5. /\ con' \in Seq(Canal) /\ Len(con') = c
      /\ con'[c] = r
      /\ \A d \in 1 .. Len(con) : con'[d] = con[d]
  BY <1>2, <1>4, Hechos, AppendProperties
<1> HIDE DEF c
<1>6. /\ pendientes' \in Seq(Conexiones) /\ Len(pendientes') = Len(pendientes) + 1
      /\ pendientes'[Len(pendientes) + 1] = c
      /\ \A i \in 1 .. Len(pendientes) : pendientes'[i] = pendientes[i]
  BY <1>1, <1>4, Hechos, AppendProperties
<1> QED
  BY <1>1, <1>3, <1>4, <1>5, <1>6 DEF c, r

LEMMA HaceAceptar ==
  ASSUME InvTipos, pendientes # <<>>, NEW c, c = Head(pendientes), pendientes' = Tail(pendientes)
  PROVE  /\ c = pendientes[1] /\ c \in Conexiones
         /\ pendientes' \in Seq(Conexiones) /\ Len(pendientes') = Len(pendientes) - 1
         /\ Len(pendientes') \in Nat
         /\ \A i \in 1 .. Len(pendientes) - 1 : pendientes'[i] = pendientes[i + 1]
<1>1. /\ pendientes' \in Seq(Conexiones) /\ Len(pendientes') = Len(pendientes) - 1
      /\ \A i \in 1 .. Len(pendientes') : pendientes'[i] = pendientes[i + 1]
      /\ c \in Conexiones
  BY Hechos, HeadTailProperties
<1>2. Len(pendientes') \in Nat
  BY <1>1, LenProperties
<1>3. c = pendientes[1]
  BY Hechos, EmptySeq
<1> QED
  BY <1>1, <1>2, <1>3

LEMMA HaceAceptarYSaludar ==
  ASSUME InvTipos, InvColas, pendientes # <<>>, AceptarYSaludar
  PROVE  LET c == Head(pendientes)
             r == [arg |-> c, fd |-> 0, tiene |-> Basura, estado |-> "nace"]
         IN  /\ c \in 1 .. Len(con)
             /\ EnCanal(c, [con[c] EXCEPT !.aKernel = Append(@, Saludo)])
             /\ peticiones' \in Seq(Peticion) /\ Len(peticiones') = Len(peticiones) + 1
             /\ peticiones'[Len(peticiones) + 1] = r
             /\ \A h \in 1 .. Len(peticiones) : peticiones'[h] = peticiones[h]
<1> DEFINE c == Head(pendientes)
           r == [arg |-> c, fd |-> 0, tiene |-> Basura, estado |-> "nace"]
<1>1. pendientes' = Tail(pendientes)
  BY DEF AceptarYSaludar, Aceptada
<1>2. c = pendientes[1] /\ c \in Conexiones /\ 1 \in DOMAIN pendientes
  <2>1. Len(pendientes) # 0
    BY Hechos, EmptySeq
  <2> QED
    BY <1>1, <2>1, Hechos, HaceAceptar
<1>3. c \in 1 .. Len(con)
  BY <1>2, Hechos DEF InvColas, Conexiones
<1> HIDE DEF c
<1>4. [con[c] EXCEPT !.aKernel = Append(@, Saludo)] \in Canal
  BY <1>3, Hechos, Leer
<1>5. con' = [con EXCEPT ![c] = [con[c] EXCEPT !.aKernel = Append(@, Saludo)]]
  BY DEF AceptarYSaludar, c
<1>6. EnCanal(c, [con[c] EXCEPT !.aKernel = Append(@, Saludo)])
  BY <1>3, <1>4, <1>5, Hechos, CambiaCanal DEF Canal
<1>7. r \in Peticion
  BY <1>2, Hechos DEF Peticion, Estados
<1>8. peticiones' = Append(peticiones, r)
  BY DEF AceptarYSaludar, c
<1> HIDE DEF r
<1>9. /\ peticiones' \in Seq(Peticion) /\ Len(peticiones') = Len(peticiones) + 1
      /\ peticiones'[Len(peticiones) + 1] = r
      /\ \A h \in 1 .. Len(peticiones) : peticiones'[h] = peticiones[h]
  BY <1>7, <1>8, Hechos, AppendProperties
<1> QED
  BY <1>3, <1>6, <1>9 DEF c, r

LEMMA HaceLeerArgumento ==
  ASSUME InvTipos, InvColas, NEW h \in 1 .. Len(peticiones), LeerArgumento(h)
  PROVE  EnPeticion(h, [peticiones[h] EXCEPT !.fd = peticiones[h].arg, !.estado = "recibe"])
<1>1. peticiones[h].arg \in 0 .. Len(con)
  <2>1. peticiones[h].arg \in Conexiones /\ peticiones[h].arg <= Len(con)
    BY Hechos DEF InvColas, Peticion
  <2> QED
    BY <2>1, Hechos DEF Conexiones
<1>2. [peticiones[h] EXCEPT !.fd = peticiones[h].arg, !.estado = "recibe"] \in Peticion
  BY <1>1, Hechos DEF Peticion, Estados
<1>3. peticiones' = [peticiones EXCEPT ![h] =
                       [peticiones[h] EXCEPT !.fd = peticiones[h].arg, !.estado = "recibe"]]
  BY DEF LeerArgumento, Argumento
<1> QED
  BY <1>2, <1>3, CambiaPeticion

\* The connection of a thread of manejar_peticion that has read its argument.
LEMMA SuConexion ==
  ASSUME InvTipos, InvColas, NEW h \in 1 .. Len(peticiones), peticiones[h].estado # "nace"
  PROVE  peticiones[h].fd = peticiones[h].arg /\ peticiones[h].fd \in 1 .. Len(con)
<1>1. peticiones[h].fd = peticiones[h].arg /\ peticiones[h].arg <= Len(con)
  BY Hechos DEF InvColas
<1>2. peticiones[h].arg \in Conexiones
  BY Hechos DEF Peticion
<1> QED
  BY <1>1, <1>2, Hechos DEF Conexiones

LEMMA HaceRecibirPaquete ==
  ASSUME InvTipos, InvColas, NEW h \in 1 .. Len(peticiones), RecibirPaquete(h)
  PROVE  LET c == peticiones[h].fd
         IN  /\ c = peticiones[h].arg /\ c \in 1 .. Len(con)
             /\ EnCanal(c, [con[c] EXCEPT !.aMemoria = Tail(@)])
             /\ Head(con[c].aMemoria) \in Mensajes
             /\ EnPeticion(h, [peticiones[h] EXCEPT !.tiene = Head(con[c].aMemoria),
                                                    !.estado = "contesta"])
<1> DEFINE c == peticiones[h].fd
<1>1. c = peticiones[h].arg /\ c \in 1 .. Len(con)
  BY SuConexion DEF RecibirPaquete
<1>2. con[c].aMemoria # <<>>
  BY DEF RecibirPaquete
<1>3. /\ con' = [con EXCEPT ![c] = [con[c] EXCEPT !.aMemoria = Tail(@)]]
      /\ peticiones' = [peticiones EXCEPT ![h] =
           [peticiones[h] EXCEPT !.tiene = Head(con[c].aMemoria), !.estado = "contesta"]]
  BY DEF RecibirPaquete
<1> HIDE DEF c
<1>4. [con[c] EXCEPT !.aMemoria = Tail(@)] \in Canal /\ Head(con[c].aMemoria) \in Mensajes
  BY <1>1, <1>2, Hechos, Leer
<1>5. [peticiones[h] EXCEPT !.tiene = Head(con[c].aMemoria), !.estado = "contesta"] \in Peticion
  BY <1>4, Hechos DEF Peticion, Estados
<1>6. EnCanal(c, [con[c] EXCEPT !.aMemoria = Tail(@)])
  BY <1>1, <1>3, <1>4, Hechos, CambiaCanal DEF Canal
<1>7. EnPeticion(h, [peticiones[h] EXCEPT !.tiene = Head(con[c].aMemoria),
                                          !.estado = "contesta"])
  BY <1>3, <1>5, CambiaPeticion
<1> QED
  BY <1>1, <1>4, <1>6, <1>7 DEF c

LEMMA HaceRecibirNada ==
  ASSUME InvTipos, InvColas, NEW h \in 1 .. Len(peticiones), RecibirNada(h)
  PROVE  LET c == peticiones[h].fd
         IN  /\ c = peticiones[h].arg /\ c \in 1 .. Len(con)
             /\ \/ memoria' = "muerta" /\ UNCHANGED <<con, peticiones>>
                \/ /\ memoria' = memoria
                   /\ EnCanal(c, [con[c] EXCEPT !.fin = TRUE])
                   /\ EnPeticion(h, [peticiones[h] EXCEPT !.estado = "fin"])
<1> DEFINE c == peticiones[h].fd
<1>1. c = peticiones[h].arg /\ c \in 1 .. Len(con)
  BY SuConexion DEF RecibirNada
<1>2. \/ memoria' = "muerta" /\ UNCHANGED <<con, peticiones>>
      \/ /\ con' = [con EXCEPT ![c] = [con[c] EXCEPT !.fin = TRUE]]
         /\ peticiones' = [peticiones EXCEPT ![h] = [peticiones[h] EXCEPT !.estado = "fin"]]
         /\ UNCHANGED memoria
  BY DEF RecibirNada
<1> HIDE DEF c
<1>3. [con[c] EXCEPT !.fin = TRUE] \in Canal /\ [peticiones[h] EXCEPT !.estado = "fin"] \in Peticion
  BY <1>1, Hechos DEF Canal, Peticion, Estados
<1>4. ASSUME con' = [con EXCEPT ![c] = [con[c] EXCEPT !.fin = TRUE]]
      PROVE  EnCanal(c, [con[c] EXCEPT !.fin = TRUE])
  BY <1>1, <1>3, <1>4, Hechos, CambiaCanal DEF Canal
<1>5. ASSUME peticiones' = [peticiones EXCEPT ![h] = [peticiones[h] EXCEPT !.estado = "fin"]]
      PROVE  EnPeticion(h, [peticiones[h] EXCEPT !.estado = "fin"])
  BY <1>3, <1>5, CambiaPeticion
<1> QED
  BY <1>1, <1>2, <1>4, <1>5 DEF c

LEMMA HaceContestar ==
  ASSUME InvTipos, InvColas, NEW h \in 1 .. Len(peticiones), Contestar(h)
  PROVE  LET c == peticiones[h].fd
         IN  /\ c = peticiones[h].arg /\ c \in 1 .. Len(con)
             /\ \/ memoria' = "muerta" /\ UNCHANGED <<con, peticiones>>
                \/ /\ memoria' = memoria
                   /\ EnCanal(c, [con[c] EXCEPT !.aKernel = Append(@, peticiones[h].tiene),
                                                !.fin = TRUE])
                   /\ EnPeticion(h, [peticiones[h] EXCEPT !.estado = "fin"])
<1> DEFINE c == peticiones[h].fd
           m == peticiones[h].tiene
           r == [con[c] EXCEPT !.aKernel = Append(@, m)]
           conEscrita == con' = [con EXCEPT ![c] = [con[c] EXCEPT !.aKernel = Append(@, m),
                                                                 !.fin = TRUE]]
           petFin == peticiones' = [peticiones EXCEPT ![h] =
                                      [peticiones[h] EXCEPT !.estado = "fin"]]
<1>1. c = peticiones[h].arg /\ c \in 1 .. Len(con)
  BY SuConexion DEF Contestar
<1>2. m \in Mensajes
  BY Hechos DEF InvColas, Contestar, Peticion
<1>3. \/ memoria' = "muerta" /\ UNCHANGED <<con, peticiones>>
      \/ conEscrita /\ petFin /\ memoria' = memoria
  BY DEF Contestar
<1> HIDE DEF c, m
<1>4. r \in Canal
  BY <1>1, <1>2, Hechos, Escribir
<1>5. [r EXCEPT !.fin = TRUE] \in Canal
  BY <1>4 DEF Canal
<1>6. [con[c] EXCEPT !.aKernel = Append(@, m), !.fin = TRUE] = [r EXCEPT !.fin = TRUE]
  BY <1>1, Hechos DEF Canal
<1>7. ASSUME conEscrita
      PROVE  EnCanal(c, [con[c] EXCEPT !.aKernel = Append(@, m), !.fin = TRUE])
  BY <1>1, <1>7, <1>5, <1>6, Hechos, CambiaCanal DEF Canal
<1>8. ASSUME petFin
      PROVE  EnPeticion(h, [peticiones[h] EXCEPT !.estado = "fin"])
  <2>1. [peticiones[h] EXCEPT !.estado = "fin"] \in Peticion
    BY Hechos DEF Peticion, Estados
  <2> QED
    BY <1>8, <2>1, CambiaPeticion
<1> QED
  BY <1>1, <1>3, <1>7, <1>8 DEF c, m


LEMMA TiposPaso ==
  ASSUME InvTipos, InvColas, [Next]_vars
  PROVE  InvTipos'
<1>0. /\ kernel \in {"vivo", "muerto"} /\ memoria \in {"viva", "muerta"}
      /\ en \in [Hilos -> 0 .. Len(con)] /\ fd_cliente \in 0 .. Len(con)
      /\ leida \in [Hilos -> {Basura, Saludo} \cup Mensajes]
      /\ socket_memoria \in {0} \cup Descriptores /\ enredadas \subseteq Conexiones
      /\ mia \in [Hilos -> 0 .. Len(con)]
  BY DEF InvTipos, TypeOK
<1>1. CASE UNCHANGED vars
  BY <1>1 DEF vars, InvTipos, TypeOK
<1>2. ASSUME NEW t \in Hilos, Conectar(t)
      PROVE  InvTipos'
  <2> DEFINE c == Len(con) + 1
  <2>1. /\ c \in Conexiones
        /\ con' \in Seq(Canal) /\ Len(con') = c /\ con'[c].duenio = t
        /\ \A d \in 1 .. Len(con) : con'[d] = con[d]
        /\ pendientes' \in Seq(Conexiones)
    <3>1. con'[c] = [duenio |-> t, aMemoria |-> <<>>, aKernel |-> <<>>, fin |-> FALSE]
      BY <1>2, HaceConectar
    <3>2. /\ c \in Conexiones
          /\ con' \in Seq(Canal) /\ Len(con') = c
          /\ \A d \in 1 .. Len(con) : con'[d] = con[d]
          /\ pendientes' \in Seq(Conexiones)
      BY <1>2, HaceConectar
    <3> QED
      BY <3>1, <3>2
  <2>2. PICK f \in Descriptores : /\ tabla[f] = 0
                                  /\ tabla' = [tabla EXCEPT ![f] = c]
                                  /\ conexion' = [conexion EXCEPT ![t] = f]
    BY <1>2, HaceConectar
  <2>3. /\ mia' = [mia EXCEPT ![t] = c] /\ en' = [en EXCEPT ![t] = c]
        /\ pc' = [pc EXCEPT ![t] = "saludo"] /\ pc[t] = "libre"
        /\ UNCHANGED <<kernel, leida, socket_memoria, memoria, saludoEn, fd_cliente,
                       peticiones, enredadas>>
    BY <1>2 DEF Conectar
  <2>4. c \in Nat /\ Len(con) \in Nat /\ c <= MaxConexiones /\ c # 0
    BY <2>1, Hechos DEF Conexiones
  <2>5. 0 .. Len(con) \subseteq 0 .. c /\ c \in 0 .. c
    BY <2>4
  <2> HIDE DEF c
  <2>6. peticiones' \in Seq([arg : Conexiones, fd : 0 .. Len(con'), tiene : {Basura} \cup Mensajes,
                             estado : Estados])
    <3>1. Peticion \subseteq [arg : Conexiones, fd : 0 .. Len(con'),
                              tiene : {Basura} \cup Mensajes, estado : Estados]
      BY <2>1, <2>5 DEF Peticion
    <3> QED
      BY <2>3, <3>1, Hechos, SeqMonotonic
  <2>7. TypeOK'
    <3>1. /\ mia' \in [Hilos -> 0 .. c] /\ en' \in [Hilos -> 0 .. c] /\ fd_cliente' \in 0 .. c
          /\ tabla' \in [Descriptores -> 0 .. c] /\ conexion' \in [Hilos -> {0} \cup Descriptores]
      BY <2>2, <2>3, <2>5 DEF InvTipos, TypeOK
    <3>2. pc' \in [Hilos -> {"libre", "saludo", "enviar", "llamar", "espera", "cerrar"}]
      BY <2>3 DEF InvTipos, TypeOK
    <3>3. /\ kernel' = kernel /\ leida' = leida /\ socket_memoria' = socket_memoria
          /\ memoria' = memoria /\ saludoEn' = saludoEn /\ enredadas' = enredadas
      BY <2>3
    <3> HIDE DEF Mensajes, Descriptores, Conexiones
    <3> QED
      BY <2>1, <2>6, <3>1, <3>2, <3>3 DEF InvTipos, TypeOK, Canal, Estados
  <2>8. \A g, k \in Descriptores : g # k /\ tabla'[g] # 0 => tabla'[g] # tabla'[k]
    <3>1. tabla \in [Descriptores -> 0 .. Len(con)] /\ c \notin 0 .. Len(con)
      BY <2>4 DEF InvTipos, TypeOK, c
    <3> QED
      BY <2>2, <3>1 DEF InvTipos
  <2>9. \A s \in Hilos : mia'[s] # 0 => con'[mia'[s]].duenio = s
    <3>1. \A s \in Hilos : mia[s] # 0 => mia[s] \in 1 .. Len(con) /\ con[mia[s]].duenio = s
      BY <2>4 DEF InvTipos, TypeOK
    <3> QED
      BY <1>0, <2>1, <2>3, <3>1
  <2>10. \A s \in Hilos : /\ pc'[s] \in {"saludo", "cerrar"} => mia'[s] # 0
                          /\ pc'[s] = "saludo" => en'[s] = mia'[s]
    BY <1>0, <2>3, <2>4 DEF InvTipos, TypeOK
  <2> QED
    BY <2>1, <2>4, <2>7, <2>8, <2>9, <2>10 DEF InvTipos
<1>3. ASSUME NEW t \in Hilos, ConectarSinMemoria(t)
      PROVE  InvTipos'
  BY <1>0, <1>3, Hechos, TiposQuietos DEF ConectarSinMemoria, Morir
<1>4. ASSUME NEW t \in Hilos, Saludar(t)
      PROVE  InvTipos'
  <2>1. /\ con' \in Seq(Canal) /\ Len(con') = Len(con)
        /\ \A c \in 1 .. Len(con) : con'[c].duenio = con[c].duenio
    <3>1. CASE LeerSaludo(t)
      BY <1>4, <3>1, HaceLeerSaludo, EnCanalDuenios DEF Saludar, EnCanal
    <3>2. CASE LeerSaludoCortado(t)
      BY <3>2, Hechos DEF LeerSaludoCortado
    <3> QED
      BY <1>4, <3>1, <3>2 DEF Saludar
  <2>2. /\ UNCHANGED <<mia, conexion, en, leida, tabla, pendientes, memoria, saludoEn, fd_cliente,
                       peticiones, enredadas>>
        /\ Asignar(t) \/ NoAsignar
    BY <1>4 DEF Saludar, LeerSaludo, LeerSaludoCortado
  <2>3. CASE Asignar(t)
    <3>1. socket_memoria' \in {0} \cup Descriptores
      BY <2>3 DEF Asignar, InvTipos, TypeOK
    <3>2. pc' = [pc EXCEPT ![t] = "enviar"] /\ kernel' = kernel
      BY <2>3 DEF Asignar
    <3> QED
      BY <1>0, <2>1, <2>2, <3>1, <3>2, TiposKernel
  <2>4. CASE NoAsignar
    BY <1>0, <2>1, <2>2, <2>4, Hechos, TiposQuietos DEF NoAsignar, Morir
  <2> QED
    BY <2>2, <2>3, <2>4
<1>5. ASSUME NEW t \in Hilos, Volcar(t)
      PROVE  InvTipos'
  BY <1>0, <1>5, Hechos, TiposKernel DEF Volcar
<1>6. ASSUME NEW t \in Hilos, Enviar(t)
      PROVE  InvTipos'
  <2>1. /\ con' \in Seq(Canal) /\ Len(con') = Len(con)
        /\ \A c \in 1 .. Len(con) : con'[c].duenio = con[c].duenio
    <3>1. CASE con' = con
      BY <3>1, Hechos
    <3>2. CASE con' # con
      BY <1>6, <3>2, HaceEnviar, EnCanalDuenios DEF EnCanal
    <3> QED
      BY <3>1, <3>2
  <2>2. /\ UNCHANGED <<mia, conexion, en, leida, socket_memoria, tabla, pendientes, memoria,
                       saludoEn, fd_cliente, peticiones>>
        /\ pc' = [pc EXCEPT ![t] = "llamar"]
        /\ kernel' \in {"vivo", "muerto"}
    BY <1>0, <1>6 DEF Enviar, Morir
  <2>3. enredadas' \subseteq Conexiones
    BY <1>0, <1>6, Hechos, UsaTipos DEF Enviar
  <2> QED
    BY <1>0, <2>1, <2>2, <2>3, TiposKernel
<1>7. ASSUME NEW t \in Hilos, Llamar(t)
      PROVE  InvTipos'
  <2>1. enredadas' \subseteq Conexiones
    BY <1>0, <1>7, Hechos, UsaTipos DEF Llamar
  <2>2. en' \in [Hilos -> 0 .. Len(con)] /\ \A s \in Hilos : s # t => en'[s] = en[s]
    BY <1>0, <1>7, RefiereTipos DEF Llamar
  <2> QED
    BY <1>0, <1>7, <2>1, <2>2, Hechos, TiposKernel DEF Llamar
<1>8. ASSUME NEW t \in Hilos, Recibir(t)
      PROVE  InvTipos'
  <2>1. /\ con' \in Seq(Canal) /\ Len(con') = Len(con)
        /\ \A c \in 1 .. Len(con) : con'[c].duenio = con[c].duenio
        /\ leida' \in [Hilos -> {Basura, Saludo} \cup Mensajes]
    <3>1. CASE LeerRespuesta(t)
      <4>1. /\ EnCanal(en[t], [con[en[t]] EXCEPT !.aKernel = Tail(@)])
            /\ Head(con[en[t]].aKernel) \in {Saludo} \cup Mensajes
        BY <3>1, HaceLeerRespuesta
      <4>2. leida' = [leida EXCEPT ![t] = Head(con[en[t]].aKernel)]
        BY <3>1 DEF LeerRespuesta
      <4> QED
        BY <1>0, <4>1, <4>2, EnCanalDuenios DEF EnCanal
    <3>2. CASE LeerNada(t)
      BY <1>0, <3>2, Hechos DEF LeerNada
    <3> QED
      BY <1>8, <3>1, <3>2 DEF Recibir
  <2>2. /\ UNCHANGED <<mia, conexion, en, socket_memoria, tabla, pendientes, memoria, saludoEn,
                       fd_cliente, peticiones, enredadas>>
        /\ kernel' \in {"vivo", "muerto"}
        /\ pc' = [pc EXCEPT ![t] = IF mia[t] = 0 THEN "libre" ELSE "cerrar"]
    BY <1>0, <1>8 DEF Recibir, LeerRespuesta, LeerNada, Morir, Seguir
  <2> QED
    BY <1>0, <2>1, <2>2, TiposKernel
<1>9. ASSUME NEW t \in Hilos, Cerrar(t)
      PROVE  InvTipos'
  <2>1. enredadas' \subseteq Conexiones
    BY <1>0, <1>9, Hechos, UsaTipos DEF Cerrar
  <2>2. /\ tabla' \in [Descriptores -> 0 .. Len(con)]
        /\ \A f \in Descriptores : tabla'[f] # 0 => tabla'[f] = tabla[f]
    BY <1>9 DEF Cerrar, InvTipos, TypeOK
  <2>3. /\ UNCHANGED <<kernel, mia, conexion, en, leida, socket_memoria, con, pendientes, memoria,
                       saludoEn, fd_cliente, peticiones>>
        /\ pc' = [pc EXCEPT ![t] = "libre"]
    BY <1>9 DEF Cerrar
  <2>4. TypeOK'
    BY <2>1, <2>2, <2>3 DEF InvTipos, TypeOK
  <2>5. \A f, g \in Descriptores : f # g /\ tabla'[f] # 0 => tabla'[f] # tabla'[g]
    BY <2>2 DEF InvTipos
  <2> QED
    BY <2>3, <2>4, <2>5 DEF InvTipos, TypeOK
<1>10. CASE gestionar_kernel
  <2>1. /\ UNCHANGED <<kernel, pc, mia, conexion, en, leida, socket_memoria, tabla, saludoEn,
                       enredadas>>
        /\ pendientes # <<>>
    BY <1>10 DEF gestionar_kernel, kern
  <2>2. CASE AceptarYSaludar
    <3>1. /\ Head(pendientes) \in 1 .. Len(con)
          /\ EnCanal(Head(pendientes), [con[Head(pendientes)] EXCEPT !.aKernel = Append(@, Saludo)])
          /\ peticiones' \in Seq(Peticion)
      BY <2>1, <2>2, HaceAceptarYSaludar
    <3>2. /\ memoria' = memoria /\ fd_cliente' = Head(pendientes)
          /\ pendientes' = Tail(pendientes)
      BY <2>2 DEF AceptarYSaludar, Aceptada
    <3>3. pendientes' \in Seq(Conexiones)
      BY <2>1, <3>2, HaceAceptar
    <3>4. fd_cliente' \in 0 .. Len(con)
      BY <3>1, <3>2
    <3> QED
      BY <1>0, <2>1, <3>1, <3>2, <3>3, <3>4, EnCanalDuenios, TiposQuietos DEF EnCanal
  <2>3. CASE AceptarYCaer
    <3>1. /\ memoria' = "muerta" /\ fd_cliente' = Head(pendientes)
          /\ pendientes' = Tail(pendientes) /\ UNCHANGED <<con, peticiones>>
      BY <2>3 DEF AceptarYCaer, Aceptada
    <3>2. pendientes' \in Seq(Conexiones) /\ Head(pendientes) = pendientes[1]
          /\ Head(pendientes) \in Conexiones
      BY <2>1, <3>1, HaceAceptar
    <3>3. 1 \in DOMAIN pendientes
      BY <2>1, Hechos, EmptySeq
    <3>4. fd_cliente' \in 0 .. Len(con)
      <4>1. pendientes[1] <= Len(con) /\ pendientes[1] \in Conexiones
        BY <3>2, <3>3 DEF InvColas
      <4> QED
        BY <3>1, <3>2, <4>1, Hechos DEF Conexiones
    <3> QED
      BY <1>0, <2>1, <3>1, <3>2, <3>4, Hechos, TiposQuietos
  <2> QED
    BY <1>10, <2>2, <2>3 DEF gestionar_kernel
<1>11. ASSUME NEW h \in Conexiones, manejar_peticion(h)
       PROVE  InvTipos'
  <2>0. h \in 1 .. Len(peticiones)
    BY <1>11, Hechos DEF manejar_peticion
  <2>1. UNCHANGED <<kernel, pc, mia, conexion, en, leida, socket_memoria, tabla, saludoEn,
                    enredadas, pendientes, fd_cliente>>
    BY <1>11 DEF manejar_peticion, kern
  <2>2. /\ con' \in Seq(Canal) /\ Len(con') = Len(con)
        /\ \A c \in 1 .. Len(con) : con'[c].duenio = con[c].duenio
        /\ memoria' \in {"viva", "muerta"}
        /\ peticiones' \in Seq(Peticion)
    <3>1. CASE LeerArgumento(h)
      BY <1>0, <2>0, <3>1, Hechos, HaceLeerArgumento DEF LeerArgumento, EnPeticion
    <3>2. CASE RecibirPaquete(h)
      BY <1>0, <2>0, <3>2, HaceRecibirPaquete, EnCanalDuenios
         DEF RecibirPaquete, EnPeticion, EnCanal
    <3>3. CASE RecibirNada(h)
      BY <1>0, <2>0, <3>3, Hechos, HaceRecibirNada, EnCanalDuenios DEF EnPeticion, EnCanal
    <3>4. CASE Contestar(h)
      BY <1>0, <2>0, <3>4, Hechos, HaceContestar, EnCanalDuenios DEF EnPeticion, EnCanal
    <3> QED
      BY <1>11, <3>1, <3>2, <3>3, <3>4 DEF manejar_peticion
  <2> QED
    BY <1>0, <2>1, <2>2, Hechos, TiposQuietos
<1> QED
  BY <1>1, <1>2, <1>3, <1>4, <1>5, <1>6, <1>7, <1>8, <1>9, <1>10, <1>11
     DEF Next, Empezar, Avanzar


---------------------------------------------------------------------------
(* Every step keeps InvColas *)

\* A thread of manejar_peticion moves on with the same connection.
LEMMA ColasPeticion ==
  ASSUME InvTipos, InvColas, Len(con') = Len(con), UNCHANGED pendientes,
         NEW h \in 1 .. Len(peticiones), NEW r, EnPeticion(h, r),
         r.arg = peticiones[h].arg,
         r.fd = IF r.estado = "nace" THEN 0 ELSE r.arg,
         r.estado = "contesta" => r.tiene # Basura
  PROVE  InvColas'
<1>1. DOMAIN peticiones' = DOMAIN peticiones /\ DOMAIN peticiones = 1 .. Len(peticiones)
  BY Hechos, LenProperties DEF EnPeticion
<1>2. \A g \in DOMAIN peticiones : peticiones'[g].arg = peticiones[g].arg
  BY <1>1 DEF EnPeticion
<1>3. \A g \in DOMAIN peticiones :
        /\ peticiones'[g].fd = IF peticiones'[g].estado = "nace" THEN 0 ELSE peticiones'[g].arg
        /\ peticiones'[g].estado = "contesta" => peticiones'[g].tiene # Basura
  BY <1>1 DEF EnPeticion, InvColas
<1> QED
  BY <1>1, <1>2, <1>3 DEF InvColas

LEMMA ColasPaso ==
  ASSUME InvTipos, InvColas, [Next]_vars
  PROVE  InvColas'
<1>1. ASSUME UNCHANGED <<pendientes, peticiones>>, Len(con') = Len(con)
      PROVE  InvColas'
  BY <1>1 DEF InvColas
<1>2. CASE UNCHANGED vars
  BY <1>1, <1>2 DEF vars
<1>3. ASSUME NEW t \in Hilos, Conectar(t)
      PROVE  InvColas'
  <2> DEFINE c == Len(con) + 1
             n == Len(pendientes)
  <2>1. /\ Len(con') = c /\ c > Len(con) /\ Len(con) \in Nat
        /\ Len(pendientes') = n + 1 /\ pendientes'[n + 1] = c
        /\ \A i \in 1 .. n : pendientes'[i] = pendientes[i]
        /\ pendientes' \in Seq(Conexiones)
    <3>1. c > Len(con) /\ Len(con) \in Nat
      BY Hechos
    <3>2. /\ Len(con') = c
          /\ Len(pendientes') = n + 1 /\ pendientes'[n + 1] = c
          /\ \A i \in 1 .. n : pendientes'[i] = pendientes[i]
          /\ pendientes' \in Seq(Conexiones)
      BY <1>3, HaceConectar
    <3> QED
      BY <3>1, <3>2
  <2>2. /\ peticiones' = peticiones /\ n \in Nat
        /\ DOMAIN pendientes = 1 .. n /\ DOMAIN pendientes' = 1 .. n + 1
    BY <1>3, <2>1, Hechos, LenProperties DEF Conectar
  <2>3. /\ \A i \in 1 .. n : pendientes[i] <= Len(con) /\ pendientes[i] \in Int
        /\ \A h \in DOMAIN peticiones : peticiones[h].arg <= Len(con) /\ peticiones[h].arg \in Int
    <3>1. /\ \A i \in 1 .. n : pendientes[i] \in Conexiones
          /\ \A h \in DOMAIN peticiones : peticiones[h] \in Peticion
      BY <2>2, Hechos
    <3>2. \A h \in DOMAIN peticiones : peticiones[h].arg \in Conexiones
      BY <3>1 DEF Peticion
    <3>3. Conexiones \subseteq Int
      BY Hechos DEF Conexiones
    <3> QED
      BY <2>2, <3>1, <3>2, <3>3 DEF InvColas
  <2> HIDE DEF c, n
  <2>4. \A i \in DOMAIN pendientes' : pendientes'[i] <= Len(con')
    BY <2>1, <2>2, <2>3 DEF c
  <2>5. \A i, j \in DOMAIN pendientes' : i # j => pendientes'[i] # pendientes'[j]
    <3>1. \A i \in 1 .. n : pendientes'[i] # c
      BY <2>1, <2>3
    <3>2. \A i, j \in 1 .. n : i # j => pendientes'[i] # pendientes'[j]
      BY <2>1, <2>2 DEF InvColas
    <3>3. \A i \in 1 .. n + 1 : i \in 1 .. n \/ i = n + 1
      BY <2>2
    <3> QED
      BY <2>1, <2>2, <3>1, <3>2, <3>3
  <2>6. \A h \in DOMAIN peticiones : peticiones[h].arg <= Len(con')
    BY <2>1, <2>3
  <2>7. \A i \in DOMAIN pendientes', h \in DOMAIN peticiones : pendientes'[i] # peticiones[h].arg
    <3>1. \A h \in DOMAIN peticiones : peticiones[h].arg # c
      BY <2>1, <2>3
    <3>2. \A i \in 1 .. n : pendientes'[i] = pendientes[i]
      BY <2>1
    <3>3. \A i \in 1 .. n + 1 : i \in 1 .. n \/ i = n + 1
      BY <2>2
    <3> QED
      BY <2>1, <2>2, <3>1, <3>2, <3>3 DEF InvColas
  <2> QED
    BY <2>2, <2>4, <2>5, <2>6, <2>7 DEF InvColas
<1>4. ASSUME NEW t \in Hilos,
             ConectarSinMemoria(t) \/ Volcar(t) \/ Llamar(t) \/ Cerrar(t)
      PROVE  InvColas'
  BY <1>1, <1>4 DEF ConectarSinMemoria, Volcar, Llamar, Cerrar
<1>5. ASSUME NEW t \in Hilos, Saludar(t)
      PROVE  InvColas'
  <2>1. Len(con') = Len(con)
    BY <1>5, HaceLeerSaludo DEF Saludar, LeerSaludoCortado, EnCanal
  <2> QED
    BY <1>1, <1>5, <2>1 DEF Saludar
<1>6. ASSUME NEW t \in Hilos, Enviar(t)
      PROVE  InvColas'
  <2>1. Len(con') = Len(con)
    BY <1>6, HaceEnviar DEF EnCanal
  <2> QED
    BY <1>1, <1>6, <2>1 DEF Enviar
<1>7. ASSUME NEW t \in Hilos, Recibir(t)
      PROVE  InvColas'
  <2>1. Len(con') = Len(con)
    BY <1>7, HaceLeerRespuesta DEF Recibir, LeerNada, EnCanal
  <2> QED
    BY <1>1, <1>7, <2>1 DEF Recibir
<1>8. CASE gestionar_kernel
  <2> DEFINE n == Len(pendientes)
             c == Head(pendientes)
  <2>0. pendientes # <<>> /\ pendientes' = Tail(pendientes)
    BY <1>8 DEF gestionar_kernel, AceptarYSaludar, AceptarYCaer, Aceptada
  <2>1. /\ c = pendientes[1] /\ pendientes' \in Seq(Conexiones)
        /\ Len(pendientes') = n - 1 /\ n - 1 \in Nat /\ n \in Nat
        /\ \A i \in 1 .. n - 1 : pendientes'[i] = pendientes[i + 1]
    BY <2>0, Hechos, HaceAceptar
  <2>2. DOMAIN pendientes = 1 .. n /\ DOMAIN pendientes' = 1 .. n - 1 /\ 1 \in 1 .. n
    BY <2>1, Hechos, LenProperties
  <2> HIDE DEF n, c
  <2>3. \A i \in 1 .. n - 1 : i + 1 \in 1 .. n /\ i + 1 # 1
    BY <2>1
  <2>4. /\ \A i \in 1 .. n - 1 : pendientes'[i] <= Len(con) /\ pendientes'[i] # c
        /\ \A i \in 1 .. n - 1, h \in DOMAIN peticiones : pendientes'[i] # peticiones[h].arg
    <3> SUFFICES ASSUME NEW i \in 1 .. n - 1
                 PROVE  /\ pendientes'[i] <= Len(con) /\ pendientes'[i] # c
                        /\ \A h \in DOMAIN peticiones : pendientes'[i] # peticiones[h].arg
      OBVIOUS
    <3>1. /\ i + 1 \in DOMAIN pendientes /\ 1 \in DOMAIN pendientes /\ i + 1 # 1
          /\ pendientes'[i] = pendientes[i + 1]
      BY <2>1, <2>2, <2>3
    <3> QED
      BY <2>1, <3>1 DEF InvColas
  <2>5. \A i, j \in 1 .. n - 1 : i # j => pendientes'[i] # pendientes'[j]
    <3> SUFFICES ASSUME NEW i \in 1 .. n - 1, NEW j \in 1 .. n - 1, i # j
                 PROVE  pendientes'[i] # pendientes'[j]
      OBVIOUS
    <3>1. i + 1 # j + 1 /\ i + 1 \in DOMAIN pendientes /\ j + 1 \in DOMAIN pendientes
      BY <2>2, <2>3
    <3>2. pendientes[i + 1] # pendientes[j + 1]
      BY <3>1 DEF InvColas
    <3> QED
      BY <2>1, <3>2
  <2>6. CASE AceptarYSaludar
    <3> DEFINE m == Len(peticiones)
    <3>1. /\ c \in 1 .. Len(con) /\ Len(con') = Len(con)
          /\ peticiones' \in Seq(Peticion) /\ Len(peticiones') = m + 1
          /\ peticiones'[m + 1] = [arg |-> c, fd |-> 0, tiene |-> Basura, estado |-> "nace"]
          /\ \A h \in 1 .. m : peticiones'[h] = peticiones[h]
      BY <2>0, <2>6, HaceAceptarYSaludar DEF EnCanal, c
    <3>2. DOMAIN peticiones = 1 .. m /\ DOMAIN peticiones' = 1 .. m + 1 /\ m \in Nat
      BY <3>1, Hechos, LenProperties
    <3> HIDE DEF m
    <3>3. \A h \in 1 .. m + 1 : h \in 1 .. m \/ h = m + 1
      BY <3>2
    <3>4. \A h \in 1 .. m : peticiones[h].arg # c /\ peticiones[h].arg <= Len(con)
      BY <2>1, <2>2, <3>2 DEF InvColas
    <3>5. c <= Len(con)
      BY <3>1, Hechos
    <3>6. \A h \in 1 .. m + 1 : peticiones'[h].arg <= Len(con)
      BY <3>1, <3>3, <3>4, <3>5
    <3>7. \A g, h \in 1 .. m + 1 : g # h => peticiones'[g].arg # peticiones'[h].arg
      <4>1. \A g, h \in 1 .. m : g # h => peticiones[g].arg # peticiones[h].arg
        BY <3>2 DEF InvColas
      <4>2. \A h \in 1 .. m : peticiones'[h].arg = peticiones[h].arg
        BY <3>1
      <4>3. peticiones'[m + 1].arg = c
        BY <3>1
      <4> QED
        BY <3>3, <3>4, <4>1, <4>2, <4>3
    <3>8. \A i \in 1 .. n - 1, h \in 1 .. m + 1 : pendientes'[i] # peticiones'[h].arg
      <4>1. ASSUME NEW i \in 1 .. n - 1, NEW h \in 1 .. m + 1
            PROVE  pendientes'[i] # peticiones'[h].arg
        <5>1. CASE h \in 1 .. m
          BY <2>4, <3>1, <3>2, <5>1
        <5>2. CASE h = m + 1
          BY <2>4, <3>1, <5>2
        <5> QED
          BY <3>3, <5>1, <5>2
      <4> QED
        BY <4>1
    <3>9. \A h \in 1 .. m + 1 :
            /\ peticiones'[h].fd = IF peticiones'[h].estado = "nace" THEN 0 ELSE peticiones'[h].arg
            /\ peticiones'[h].estado = "contesta" => peticiones'[h].tiene # Basura
      BY <3>1, <3>2, <3>3 DEF InvColas
    <3> QED
      BY <2>2, <2>4, <2>5, <3>1, <3>2, <3>6, <3>7, <3>8, <3>9 DEF InvColas
  <2>7. CASE AceptarYCaer
    <3>1. UNCHANGED <<con, peticiones>>
      BY <2>7 DEF AceptarYCaer
    <3> QED
      BY <2>2, <2>4, <2>5, <3>1 DEF InvColas
  <2> QED
    BY <1>8, <2>6, <2>7 DEF gestionar_kernel
<1>9. ASSUME NEW h \in Conexiones, manejar_peticion(h)
      PROVE  InvColas'
  <2>0. h \in 1 .. Len(peticiones) /\ pendientes' = pendientes /\ peticiones[h] \in Peticion
    BY <1>9, Hechos DEF manejar_peticion
  <2>1. CASE LeerArgumento(h)
    <3> DEFINE r == [peticiones[h] EXCEPT !.fd = peticiones[h].arg, !.estado = "recibe"]
    <3>1. EnPeticion(h, r) /\ con' = con
      BY <2>0, <2>1, HaceLeerArgumento DEF LeerArgumento
    <3>2. r.arg = peticiones[h].arg /\ r.fd = r.arg /\ r.estado = "recibe"
      BY <2>0 DEF Peticion
    <3> QED
      BY <2>0, <3>1, <3>2, ColasPeticion
  <2>2. CASE RecibirPaquete(h)
    <3> DEFINE m == Head(con[peticiones[h].fd].aMemoria)
               r == [peticiones[h] EXCEPT !.tiene = m, !.estado = "contesta"]
    <3>1. EnPeticion(h, r) /\ Len(con') = Len(con) /\ m \in Mensajes
      BY <2>0, <2>2, HaceRecibirPaquete DEF EnCanal
    <3>2. /\ r.arg = peticiones[h].arg /\ r.fd = peticiones[h].fd
          /\ r.estado = "contesta" /\ r.tiene = m
      BY <2>0 DEF Peticion
    <3>3. peticiones[h].fd = peticiones[h].arg
      BY <2>0, <2>2, SuConexion DEF RecibirPaquete
    <3>4. m # Basura
      BY <3>1, Hechos DEF Mensajes, Basura
    <3> HIDE DEF r
    <3> QED
      BY <2>0, <3>1, <3>2, <3>3, <3>4, ColasPeticion
  <2>3. CASE RecibirNada(h) \/ Contestar(h)
    <3> DEFINE r == [peticiones[h] EXCEPT !.estado = "fin"]
    <3>1. CASE UNCHANGED <<con, peticiones>>
      BY <1>1, <2>0, <3>1
    <3>2. CASE EnPeticion(h, r) /\ Len(con') = Len(con)
      <4>1. r.arg = peticiones[h].arg /\ r.fd = peticiones[h].fd /\ r.estado = "fin"
        BY <2>0 DEF Peticion
      <4>2. peticiones[h].fd = peticiones[h].arg
        BY <2>0, <2>3, SuConexion DEF RecibirNada, Contestar
      <4> HIDE DEF r
      <4> QED
        BY <2>0, <3>2, <4>1, <4>2, ColasPeticion
    <3> QED
      BY <2>0, <2>3, <3>1, <3>2, HaceRecibirNada, HaceContestar DEF EnCanal
  <2> QED
    BY <1>9, <2>1, <2>2, <2>3 DEF manejar_peticion
<1> QED
  BY <1>2, <1>3, <1>4, <1>5, <1>6, <1>7, <1>8, <1>9 DEF Next, Empezar, Avanzar


---------------------------------------------------------------------------
(* A connection that nobody crossed *)

LEMMA SeqUno ==
  ASSUME NEW x
  PROVE  /\ Head(<<x>>) = x /\ Tail(<<x>>) = <<>> /\ <<x>> # <<>>
         /\ Append(<<>>, x) = <<x>>
<1>1. <<x>> \in Seq({x}) /\ <<x>> # <<>> /\ Len(<<x>>) = 1 /\ <<>> \in Seq({x})
  OBVIOUS
<1>2. Tail(<<x>>) \in Seq({x}) /\ Len(Tail(<<x>>)) = 0
  BY <1>1, HeadTailProperties
<1>3. Tail(<<x>>) = <<>>
  BY <1>2, EmptySeq
<1>4. Append(<<>>, x) = <<>> \o <<x>>
  BY <1>1, AppendIsConcat
<1>5. <<>> \o <<x>> = <<x>>
  BY <1>1, ConcatEmptySeq
<1> QED
  BY <1>3, <1>4, <1>5

LEMMA MiaPropia ==
  ASSUME InvTipos, NEW t \in Hilos, mia[t] # 0
  PROVE  /\ mia[t] \in 1 .. Len(con)
         /\ \A s \in Hilos \ {t} : mia[s] # mia[t]
<1>1. mia[t] \in 0 .. Len(con) /\ Len(con) \in Nat
  BY Hechos DEF InvTipos, TypeOK
<1>2. ASSUME NEW s \in Hilos, mia[s] = mia[t]
      PROVE  s = t
  BY <1>2 DEF InvTipos
<1> QED
  BY <1>1, <1>2

\* What leaves alone thread t, its connection and what Memoria does with it.
LEMMA Quieta ==
  ASSUME NEW t \in Hilos, Propia(t), NEW c, c = mia[t],
         pc'[t] = pc[t], mia'[t] = mia[t], en'[t] = en[t], leida'[t] = leida[t],
         con'[c] = con[c],
         \E f \in Descriptores : tabla'[f] = c,
         \A s \in Hilos \ {t} : pc'[s] \in {"saludo", "espera"} => en'[s] # c,
         memoria' = memoria \/ memoria' = "muerta",
         kernel' = kernel \/ kernel' = "muerto",
         Pendiente(c)' => Pendiente(c),
         \A h \in DOMAIN peticiones' :
           peticiones'[h].arg = c => h \in DOMAIN peticiones /\ peticiones'[h] = peticiones[h]
  PROVE  Propia(t)'
<1>1. SinLeer(c) => SinLeer(c)'
  BY DEF SinLeer
<1>2. ASSUME Trafico(t, c), memoria' = "viva" => memoria = "viva" PROVE Trafico(t, c)'
  <2> HIDE DEF SinLeer, Pendiente
  <2> QED
    BY <1>1, <1>2 DEF Trafico
<1> QED
  BY <1>2 DEF Propia

LEMMA UsaLimpia ==
  ASSUME InvTipos, NEW s \in Hilos, NEW t \in Hilos, NEW u, Usa(s, u),
         mia' = mia, mia[t] # 0, mia[t] \notin enredadas'
  PROVE  /\ mia[t] \notin enredadas
         /\ u = mia[t] => s = t
         /\ s = t => u = mia[t]
BY MiaPropia DEF Usa


\* A step of another thread of the Kernel.
LEMMA OtraPropia ==
  ASSUME InvTipos, NEW s \in Hilos, NEW t \in Hilos, s # t,
         Propia(t), NEW c, c = mia[t], c # 0,
         pc' = [pc EXCEPT ![s] = pc'[s]],
         mia'[t] = mia[t], leida' = [leida EXCEPT ![s] = leida'[s]],
         en' = [en EXCEPT ![s] = en'[s]],
         pc'[s] \in {"saludo", "espera"} => en'[s] # c,
         con'[c] = con[c],
         tabla' = tabla \/ \E f \in Descriptores : tabla'[f] = c,
         UNCHANGED memoria, peticiones' = peticiones,
         Pendiente(c)' => Pendiente(c),
         kernel' = kernel \/ kernel' = "muerto"
  PROVE  Propia(t)'
<1>1. pc'[t] = pc[t] /\ en'[t] = en[t] /\ leida'[t] = leida[t]
  BY DEF InvTipos, TypeOK
<1>2. \A r \in Hilos \ {t} : pc'[r] \in {"saludo", "espera"} => en'[r] # c
  <2>1. \A r \in Hilos \ {s} : pc'[r] = pc[r] /\ en'[r] = en[r]
    BY DEF InvTipos, TypeOK
  <2> QED
    BY <2>1 DEF Propia
<1>3. \E f \in Descriptores : tabla'[f] = c
  BY DEF Propia
<1> QED
  BY <1>1, <1>2, <1>3, Quieta

LEMMA PropiaSaludar ==
  ASSUME InvTipos, InvColas, InvPropia, kernel = "vivo", NEW s \in Hilos, Saludar(s),
         NEW t \in Hilos, Limpia(t)'
  PROVE  Propia(t)'
<1> DEFINE c == mia[t]
<1>1. /\ pc[s] = "saludo" /\ pc'[s] \in {"saludo", "enviar"}
      /\ pc' = [pc EXCEPT ![s] = pc'[s]]
      /\ UNCHANGED <<mia, conexion, en, leida, tabla, pendientes, memoria, saludoEn, fd_cliente,
                     peticiones, enredadas>>
      /\ \/ kernel' = kernel /\ pc'[s] = "enviar"
         \/ kernel' = "muerto" /\ pc' = pc
  BY DEF Saludar, LeerSaludo, LeerSaludoCortado, Asignar, NoAsignar, Morir, InvTipos, TypeOK
<1>2. c # 0 /\ c \notin enredadas /\ Limpia(t)
  BY <1>1 DEF Limpia, InvTipos, TypeOK
<1>3. Propia(t)
  BY <1>2 DEF InvPropia
<1>4. c \in 1 .. Len(con)
  BY <1>2, MiaPropia
<1>5. Pendiente(c)' <=> Pendiente(c)
  BY <1>1 DEF Pendiente
<1>6. CASE s # t
  <2>1. en[s] # c
    BY <1>1, <1>3, <1>6 DEF Propia
  <2>2. con'[c] = con[c]
    <3>1. CASE LeerSaludo(s)
      BY <1>1, <1>4, <2>1, <3>1, HaceLeerSaludo DEF EnCanal
    <3>2. CASE LeerSaludoCortado(s)
      BY <3>2 DEF LeerSaludoCortado
    <3> QED
      BY <3>1, <3>2 DEF Saludar
  <2>3. en' = [en EXCEPT ![s] = en'[s]] /\ leida' = [leida EXCEPT ![s] = leida'[s]]
    BY <1>1 DEF InvTipos, TypeOK
  <2> HIDE DEF c
  <2> QED
    BY <1>1, <1>2, <1>3, <1>5, <1>6, <2>1, <2>2, <2>3, OtraPropia DEF c
<1>7. CASE s = t
  <2>0. /\ \E f \in Descriptores : tabla'[f] = c
        /\ \A r \in Hilos \ {t} : pc'[r] \in {"saludo", "espera"} => en'[r] # c
        /\ pc'[t] \notin {"espera", "cerrar"}
    <3>1. \A r \in Hilos \ {t} : pc'[r] = pc[r]
      BY <1>1, <1>7 DEF InvTipos, TypeOK
    <3> QED
      BY <1>1, <1>3, <1>7, <3>1 DEF Propia
  <2>1. ASSUME kernel' = "vivo" PROVE Trafico(t, c)'
    <3>1. kernel' = kernel /\ pc'[t] = "enviar" /\ en[t] = c /\ kernel = "vivo"
      BY <1>1, <1>7, <2>1 DEF InvTipos
    <3>2. /\ con[c].aMemoria = <<>> /\ ~con[c].fin /\ SinLeer(c)
          /\ con[c].aKernel = <<>> \/ (con[c].aKernel = <<Saludo>> /\ ~Pendiente(c))
      BY <1>1, <1>3, <1>7, <3>1 DEF Propia, Trafico
    <3>3. SinLeer(c)'
      BY <1>1, <3>2 DEF SinLeer
    <3>4. CASE LeerSaludo(t)
      <4>1. EnCanal(c, [con[c] EXCEPT !.aKernel = Tail(@)]) /\ con[c].aKernel # <<>>
        BY <1>1, <1>7, <3>1, <3>4, HaceLeerSaludo DEF LeerSaludo
      <4>2. Tail(con[c].aKernel) = <<>> /\ ~Pendiente(c)
        BY <3>2, <4>1, SeqUno
      <4>3. con'[c].aKernel = <<>> /\ con'[c].aMemoria = <<>> /\ ~con'[c].fin
        BY <1>4, <3>2, <4>1, <4>2, Hechos DEF EnCanal, Canal
      <4> QED
        BY <1>1, <1>5, <3>1, <3>3, <4>2, <4>3 DEF Trafico
    <3>5. CASE LeerSaludoCortado(t)
      <4>1. con' = con /\ con[c].aKernel = <<>> /\ c \notin Abiertas
        BY <3>1, <3>5 DEF LeerSaludoCortado
      <4>2. memoria # "viva"
        BY <1>4, <3>2, <4>1, Hechos DEF Abiertas
      <4> QED
        BY <1>1, <3>1, <3>2, <3>3, <4>1, <4>2 DEF Trafico
    <3> QED
      BY <1>7, <3>4, <3>5 DEF Saludar
  <2> QED
    BY <1>1, <2>0, <2>1 DEF Propia
<1> QED
  BY <1>6, <1>7


LEMMA PropiaEnviar ==
  ASSUME InvTipos, InvColas, InvPropia, kernel = "vivo", NEW s \in Hilos, Enviar(s),
         NEW t \in Hilos, Limpia(t)'
  PROVE  Propia(t)'
<1> DEFINE c == mia[t]
           u == Refiere(socket_memoria)
<1>1. /\ pc[s] = "enviar" /\ pc'[s] = "llamar" /\ pc' = [pc EXCEPT ![s] = pc'[s]]
      /\ UNCHANGED <<mia, conexion, en, leida, socket_memoria, tabla, pendientes, memoria,
                     saludoEn, fd_cliente, peticiones>>
      /\ kernel' = kernel \/ kernel' = "muerto"
      /\ Usa(s, u)
  BY DEF Enviar, Morir, InvTipos, TypeOK
<1>2. c # 0 /\ c \notin enredadas' /\ pc'[t] # "libre"
  BY <1>1 DEF Limpia
<1>3. c \notin enredadas /\ (u = c => s = t) /\ (s = t => u = c)
  BY <1>1, <1>2, UsaLimpia
<1>4. Limpia(t)
  BY <1>1, <1>2, <1>3 DEF Limpia, InvTipos, TypeOK
<1>5. Propia(t)
  BY <1>4 DEF InvPropia
<1>6. c \in 1 .. Len(con)
  BY <1>2, MiaPropia
<1>7. Pendiente(c)' <=> Pendiente(c)
  BY <1>1 DEF Pendiente
<1>8. CASE s # t
  <2>1. con'[c] = con[c]
    BY <1>3, <1>6, <1>8, HaceEnviar DEF EnCanal
  <2>2. en' = [en EXCEPT ![s] = en'[s]] /\ leida' = [leida EXCEPT ![s] = leida'[s]]
    BY <1>1 DEF InvTipos, TypeOK
  <2> HIDE DEF c, u
  <2> QED
    BY <1>1, <1>2, <1>5, <1>7, <1>8, <2>1, <2>2, OtraPropia DEF c
<1>9. CASE s = t
  <2>0. /\ \E f \in Descriptores : tabla'[f] = c
        /\ \A r \in Hilos \ {t} : pc'[r] \in {"saludo", "espera"} => en'[r] # c
        /\ pc'[t] = "llamar"
    <3>1. \A r \in Hilos \ {t} : pc'[r] = pc[r]
      BY <1>1, <1>9 DEF InvTipos, TypeOK
    <3> QED
      BY <1>1, <1>5, <1>9, <3>1 DEF Propia
  <2>1. /\ con[c].aMemoria = <<>> /\ ~con[c].fin /\ SinLeer(c)
        /\ con[c].aKernel = <<>> /\ (memoria = "viva" => ~Pendiente(c))
    BY <1>1, <1>5, <1>9 DEF Propia, Trafico
  <2>2. SinLeer(c)'
    BY <1>1, <2>1 DEF SinLeer
  <2>3. \A h \in DOMAIN peticiones : peticiones[h].arg = c => peticiones[h].estado # "contesta"
    BY <2>1 DEF SinLeer
  <2>4. CASE con' = con
    BY <1>1, <1>7, <2>0, <2>1, <2>3, <2>4 DEF Propia, Trafico
  <2>5. CASE con' # con
    <3>1. EnCanal(c, [con[c] EXCEPT !.aMemoria = Append(@, mia[t])])
      BY <1>3, <1>9, <2>5, HaceEnviar
    <3>2. /\ con'[c].aKernel = <<>> /\ con'[c].aMemoria = <<c>> /\ ~con'[c].fin
      <4>1. con[c] \in Canal /\ con'[c] = [con[c] EXCEPT !.aMemoria = Append(@, mia[t])]
        BY <1>6, <3>1, Hechos DEF EnCanal
      <4>2. con'[c].aMemoria = Append(con[c].aMemoria, mia[t])
            /\ con'[c].aKernel = con[c].aKernel /\ con'[c].fin = con[c].fin
        BY <4>1 DEF Canal
      <4> QED
        BY <1>6, <2>1, <4>2, SeqUno
    <3>3. Trafico(t, c)'
      BY <1>1, <1>7, <2>0, <2>1, <2>2, <2>3, <3>2 DEF Trafico
    <3> QED
      BY <1>1, <2>0, <3>3 DEF Propia
  <2> QED
    BY <2>4, <2>5
<1> QED
  BY <1>8, <1>9

LEMMA PropiaLlamar ==
  ASSUME InvTipos, InvColas, InvPropia, kernel = "vivo", NEW s \in Hilos, Llamar(s),
         NEW t \in Hilos, Limpia(t)'
  PROVE  Propia(t)'
<1> DEFINE c == mia[t]
           u == Refiere(socket_memoria)
<1>1. /\ pc[s] = "llamar" /\ pc'[s] = "espera" /\ pc' = [pc EXCEPT ![s] = pc'[s]]
      /\ UNCHANGED <<kernel, mia, conexion, leida, socket_memoria, tabla, con, pendientes, memoria,
                     saludoEn, fd_cliente, peticiones>>
      /\ Usa(s, u) /\ en'[s] = u /\ en' = [en EXCEPT ![s] = en'[s]]
  BY DEF Llamar, InvTipos, TypeOK
<1>2. c # 0 /\ c \notin enredadas' /\ pc'[t] # "libre"
  BY <1>1 DEF Limpia
<1>3. c \notin enredadas /\ (u = c => s = t) /\ (s = t => u = c)
  BY <1>1, <1>2, UsaLimpia
<1>4. Limpia(t)
  BY <1>1, <1>2, <1>3 DEF Limpia, InvTipos, TypeOK
<1>5. Propia(t)
  BY <1>4 DEF InvPropia
<1>7. Pendiente(c)' <=> Pendiente(c)
  BY <1>1 DEF Pendiente
<1> HIDE DEF u
<1>8. CASE s # t
  <2>1. leida' = [leida EXCEPT ![s] = leida'[s]]
    BY <1>1 DEF InvTipos, TypeOK
  <2> HIDE DEF c
  <2> QED
    BY <1>1, <1>2, <1>3, <1>5, <1>7, <1>8, <2>1, OtraPropia DEF c
<1>9. CASE s = t
  <2>0. /\ \E f \in Descriptores : tabla'[f] = c
        /\ \A r \in Hilos \ {t} : pc'[r] \in {"saludo", "espera"} => en'[r] # c
        /\ pc'[t] = "espera" /\ en'[t] = c
    <3>1. \A r \in Hilos \ {t} : pc'[r] = pc[r] /\ en'[r] = en[r]
      BY <1>1, <1>9 DEF InvTipos, TypeOK
    <3> QED
      BY <1>1, <1>3, <1>5, <1>9, <3>1 DEF Propia
  <2>1. SinLeer(c)' <=> SinLeer(c)
    BY <1>1 DEF SinLeer
  <2>2. Trafico(t, c) => Trafico(t, c)'
    <3>1. pc[t] = "llamar" /\ pc'[t] = "espera"
      BY <1>1, <1>9
    <3> QED
      BY <1>1, <1>7, <2>1, <3>1 DEF Trafico
  <2> QED
    BY <1>1, <1>5, <2>0, <2>2 DEF Propia
<1> QED
  BY <1>8, <1>9

LEMMA PropiaRecibir ==
  ASSUME InvTipos, InvColas, InvPropia, kernel = "vivo", NEW s \in Hilos, Recibir(s),
         NEW t \in Hilos, Limpia(t)'
  PROVE  Propia(t)'
<1> DEFINE c == mia[t]
<1>1. /\ pc[s] = "espera" /\ pc'[s] \in {"libre", "cerrar"} /\ pc' = [pc EXCEPT ![s] = pc'[s]]
      /\ UNCHANGED <<mia, conexion, en, socket_memoria, tabla, pendientes, memoria, saludoEn,
                     fd_cliente, peticiones, enredadas>>
      /\ kernel' = kernel \/ kernel' = "muerto"
      /\ leida' = [leida EXCEPT ![s] = leida'[s]]
  BY DEF Recibir, LeerRespuesta, LeerNada, Seguir, Morir, InvTipos, TypeOK
<1>2. c # 0 /\ c \notin enredadas /\ pc'[t] # "libre"
  BY <1>1 DEF Limpia
<1>3. Limpia(t)
  BY <1>1, <1>2 DEF Limpia, InvTipos, TypeOK
<1>4. Propia(t)
  BY <1>3 DEF InvPropia
<1>5. c \in 1 .. Len(con)
  BY <1>2, MiaPropia
<1>6. Pendiente(c)' <=> Pendiente(c)
  BY <1>1 DEF Pendiente
<1>7. CASE s # t
  <2>1. en[s] # c
    BY <1>1, <1>4, <1>7 DEF Propia
  <2>2. con'[c] = con[c]
    <3>1. CASE LeerRespuesta(s)
      BY <1>5, <2>1, <3>1, HaceLeerRespuesta DEF EnCanal
    <3>2. CASE LeerNada(s)
      BY <3>2 DEF LeerNada
    <3> QED
      BY <3>1, <3>2 DEF Recibir
  <2>3. en' = [en EXCEPT ![s] = en'[s]]
    BY <1>1 DEF InvTipos, TypeOK
  <2> HIDE DEF c
  <2> QED
    BY <1>1, <1>2, <1>4, <1>6, <1>7, <2>2, <2>3, OtraPropia DEF c
<1>8. CASE s = t
  <2>0. /\ \E f \in Descriptores : tabla'[f] = c
        /\ \A r \in Hilos \ {t} : pc'[r] \in {"saludo", "espera"} => en'[r] # c
        /\ pc'[t] = "cerrar" /\ en[t] = c
    <3>1. \A r \in Hilos \ {t} : pc'[r] = pc[r]
      BY <1>1, <1>8 DEF InvTipos, TypeOK
    <3> QED
      BY <1>1, <1>2, <1>4, <1>8, <3>1 DEF Propia
  <2>1. /\ con[c].aKernel \in {<<>>, <<c>>}
        /\ con[c].fin => con[c].aKernel = <<c>>
    BY <1>1, <1>4, <1>8 DEF Propia, Trafico
  <2>2. leida'[t] = c \/ (leida'[t] = Basura /\ memoria = "muerta")
    <3>1. CASE LeerRespuesta(t)
      <4>1. leida'[t] = Head(con[c].aKernel) /\ con[c].aKernel # <<>>
        BY <2>0, <3>1 DEF LeerRespuesta, InvTipos, TypeOK
      <4> QED
        BY <2>1, <4>1, SeqUno
    <3>2. CASE LeerNada(t)
      <4>1. leida'[t] = Basura /\ c \notin Abiertas /\ con[c].aKernel = <<>>
        BY <1>2, <2>0, <3>2 DEF LeerNada, InvTipos, TypeOK
      <4>2. ~con[c].fin
        BY <2>1, <4>1, SeqUno
      <4>3. memoria # "viva" /\ memoria \in {"viva", "muerta"}
        BY <1>5, <4>1, <4>2, Hechos DEF Abiertas, InvTipos, TypeOK
      <4> QED
        BY <4>1, <4>3
    <3> QED
      BY <1>8, <3>1, <3>2 DEF Recibir
  <2>3. Trafico(t, c)'
    BY <2>0 DEF Trafico
  <2> QED
    BY <1>1, <2>0, <2>2, <2>3 DEF Propia
<1> QED
  BY <1>7, <1>8

LEMMA PropiaCerrar ==
  ASSUME InvTipos, InvColas, InvPropia, kernel = "vivo", NEW s \in Hilos, Cerrar(s),
         NEW t \in Hilos, Limpia(t)'
  PROVE  Propia(t)'
<1> DEFINE c == mia[t]
           u == Refiere(socket_memoria)
<1>1. /\ pc'[s] = "libre" /\ pc' = [pc EXCEPT ![s] = pc'[s]]
      /\ UNCHANGED <<kernel, mia, conexion, en, leida, socket_memoria, con, pendientes, memoria,
                     saludoEn, fd_cliente, peticiones>>
      /\ Usa(s, u)
      /\ tabla' = [f \in Descriptores |-> IF f = socket_memoria THEN 0 ELSE tabla[f]]
  BY DEF Cerrar, InvTipos, TypeOK
<1>2. c # 0 /\ c \notin enredadas' /\ pc'[t] # "libre"
  BY <1>1 DEF Limpia
<1>3. c \notin enredadas /\ (u = c => s = t) /\ s # t
  BY <1>1, <1>2, UsaLimpia
<1>4. Limpia(t)
  BY <1>1, <1>2, <1>3 DEF Limpia, InvTipos, TypeOK
<1>5. Propia(t)
  BY <1>4 DEF InvPropia
<1>6. Pendiente(c)' <=> Pendiente(c)
  BY <1>1 DEF Pendiente
<1>7. \E f \in Descriptores : tabla'[f] = c
  <2>1. PICK f \in Descriptores : tabla[f] = c
    BY <1>5 DEF Propia
  <2>2. f # socket_memoria
    <3>1. f # 0
      BY Hechos DEF Descriptores
    <3> QED
      BY <1>3, <2>1, <3>1 DEF Refiere
  <2> QED
    BY <1>1, <2>1, <2>2
<1>8. en' = [en EXCEPT ![s] = en'[s]] /\ leida' = [leida EXCEPT ![s] = leida'[s]]
  BY <1>1 DEF InvTipos, TypeOK
<1> HIDE DEF c, u
<1> QED
  BY <1>1, <1>2, <1>3, <1>5, <1>6, <1>7, <1>8, OtraPropia DEF c


LEMMA PropiaConectar ==
  ASSUME InvTipos, InvColas, InvPropia, NEW s \in Hilos, Conectar(s),
         NEW t \in Hilos, Limpia(t)'
  PROVE  Propia(t)'
<1> DEFINE n == Len(con) + 1
<1>0. PICK f \in Descriptores : tabla[f] = 0 /\ tabla' = [tabla EXCEPT ![f] = n]
  BY HaceConectar
<1>1. /\ pc[s] = "libre" /\ pc' = [pc EXCEPT ![s] = "saludo"]
      /\ mia' = [mia EXCEPT ![s] = n] /\ en' = [en EXCEPT ![s] = n]
      /\ UNCHANGED <<kernel, leida, memoria, peticiones, enredadas>>
  BY DEF Conectar
<1>2. /\ con'[n] = [duenio |-> s, aMemoria |-> <<>>, aKernel |-> <<>>, fin |-> FALSE]
      /\ \A d \in 1 .. Len(con) : con'[d] = con[d]
  BY HaceConectar
<1>3. /\ Len(pendientes') = Len(pendientes) + 1
      /\ pendientes'[Len(pendientes) + 1] = n
      /\ \A i \in 1 .. Len(pendientes) : pendientes'[i] = pendientes[i]
      /\ pendientes' \in Seq(Conexiones)
  BY HaceConectar
<1>4. /\ Len(con) \in Nat /\ n \in Nat /\ n # 0 /\ n \notin 0 .. Len(con)
      /\ Len(pendientes) \in Nat
      /\ DOMAIN pendientes = 1 .. Len(pendientes)
      /\ DOMAIN pendientes' = 1 .. Len(pendientes) + 1
  BY <1>3, Hechos, LenProperties
<1> HIDE DEF n
<1>5. CASE s # t
  <2> DEFINE c == mia[t]
  <2>1. mia'[t] = c /\ Limpia(t) /\ c # 0
    BY <1>1, <1>5 DEF Limpia, InvTipos, TypeOK
  <2>2. Propia(t) /\ c \in 1 .. Len(con)
    BY <2>1, MiaPropia DEF InvPropia
  <2>3. c # n
    BY <1>4, <2>2
  <2>4. Pendiente(c)' => Pendiente(c)
    <3>1. \A i \in 1 .. Len(pendientes) + 1 : i \in 1 .. Len(pendientes) \/ i = Len(pendientes) + 1
      BY <1>4
    <3>2. mia'[t] = mia[t]
      BY <2>1
    <3> QED
      BY <1>3, <1>4, <2>3, <3>1, <3>2 DEF Pendiente
  <2>5. \E g \in Descriptores : tabla'[g] = c
    <3>1. PICK g \in Descriptores : tabla[g] = c
      BY <2>2 DEF Propia
    <3> QED
      BY <1>0, <2>1, <3>1 DEF InvTipos, TypeOK
  <2>6. /\ pc' = [pc EXCEPT ![s] = pc'[s]] /\ en' = [en EXCEPT ![s] = en'[s]]
        /\ leida' = [leida EXCEPT ![s] = leida'[s]] /\ en'[s] = n
    BY <1>1 DEF InvTipos, TypeOK
  <2> HIDE DEF c
  <2> QED
    BY <1>1, <1>2, <1>5, <2>1, <2>2, <2>3, <2>4, <2>5, <2>6, OtraPropia DEF c
<1>6. CASE s = t
  <2>1. mia'[t] = n /\ pc'[t] = "saludo"
    BY <1>1, <1>6 DEF InvTipos, TypeOK
  <2>2. tabla'[f] = n
    BY <1>0 DEF InvTipos, TypeOK
  <2>3. \A r \in Hilos \ {t} : en'[r] # n
    BY <1>1, <1>4, <1>6 DEF InvTipos, TypeOK
  <2>4. \A h \in DOMAIN peticiones' : peticiones'[h].arg # n
    <3>1. \A h \in DOMAIN peticiones : peticiones[h] \in Peticion /\ peticiones[h].arg <= Len(con)
      BY Hechos DEF InvColas
    <3>2. Conexiones \subseteq Nat \ {0}
      BY Hechos DEF Conexiones
    <3>3. \A h \in DOMAIN peticiones : peticiones[h].arg \in 0 .. Len(con)
      <4>1. \A h \in DOMAIN peticiones : peticiones[h].arg \in Conexiones
        BY <3>1 DEF Peticion
      <4>2. \A a \in Conexiones : a <= Len(con) => a \in 0 .. Len(con)
        BY <1>4, <3>2
      <4> QED
        BY <3>1, <4>1, <4>2
    <3> QED
      BY <1>1, <1>4, <3>3
  <2>5. Trafico(t, mia[t])'
    BY <1>2, <2>1, <2>4 DEF Trafico, SinLeer
  <2> QED
    BY <2>1, <2>2, <2>3, <2>5 DEF Propia
<1> QED
  BY <1>5, <1>6

LEMMA PropiaAceptar ==
  ASSUME InvTipos, InvColas, InvPropia, gestionar_kernel,
         NEW t \in Hilos, Limpia(t)'
  PROVE  Propia(t)'
<1> DEFINE c == mia[t]
           p == Head(pendientes)
           m == Len(peticiones)
<1>1. /\ UNCHANGED <<kernel, pc, mia, conexion, en, leida, socket_memoria, tabla, saludoEn,
                     enredadas>>
      /\ pendientes # <<>> /\ pendientes' = Tail(pendientes) /\ memoria = "viva"
  BY DEF gestionar_kernel, kern, AceptarYSaludar, AceptarYCaer, Aceptada
<1>2. Limpia(t) /\ c # 0
  BY <1>1 DEF Limpia
<1>3. Propia(t) /\ c \in 1 .. Len(con)
  BY <1>2, MiaPropia DEF InvPropia
<1>4. /\ p = pendientes[1] /\ pendientes' \in Seq(Conexiones)
      /\ Len(pendientes') = Len(pendientes) - 1 /\ Len(pendientes) - 1 \in Nat
      /\ Len(pendientes) \in Nat
      /\ \A i \in 1 .. Len(pendientes) - 1 : pendientes'[i] = pendientes[i + 1]
  BY <1>1, Hechos, HaceAceptar
<1>5. /\ DOMAIN pendientes = 1 .. Len(pendientes) /\ 1 \in DOMAIN pendientes
      /\ DOMAIN pendientes' = 1 .. Len(pendientes) - 1
      /\ \A i \in 1 .. Len(pendientes) - 1 : i + 1 \in 1 .. Len(pendientes) /\ i + 1 # 1
  BY <1>4, Hechos, LenProperties
<1>6. ASSUME NEW d, \E i \in DOMAIN pendientes' : pendientes'[i] = d
      PROVE  Pendiente(d) /\ d # p
  <2>1. PICK i \in 1 .. Len(pendientes) - 1 : pendientes'[i] = d
    BY <1>5, <1>6
  <2>2. pendientes[i + 1] = d /\ i + 1 \in DOMAIN pendientes /\ i + 1 # 1
    BY <1>4, <1>5, <2>1
  <2>3. d # pendientes[1]
    BY <1>5, <2>2 DEF InvColas
  <2> QED
    BY <1>4, <2>2, <2>3 DEF Pendiente
<1>7. Pendiente(c)' => Pendiente(c) /\ c # p
  BY <1>1, <1>6 DEF Pendiente
<1>8. Pendiente(p)
  BY <1>4, <1>5 DEF Pendiente
<1>9. /\ \E f \in Descriptores : tabla'[f] = c
      /\ \A s \in Hilos \ {t} : pc'[s] \in {"saludo", "espera"} => en'[s] # c
  BY <1>1, <1>3 DEF Propia
<1> HIDE DEF p
<1>10. CASE AceptarYCaer
  <2>1. UNCHANGED <<con, peticiones>> /\ memoria' = "muerta"
    BY <1>10 DEF AceptarYCaer
  <2> QED
    BY <1>1, <1>3, <1>7, <1>9, <2>1, Quieta
<1>11. CASE AceptarYSaludar
  <2>1. /\ p \in 1 .. Len(con)
        /\ EnCanal(p, [con[p] EXCEPT !.aKernel = Append(@, Saludo)])
        /\ peticiones' \in Seq(Peticion) /\ Len(peticiones') = m + 1
        /\ peticiones'[m + 1] = [arg |-> p, fd |-> 0, tiene |-> Basura, estado |-> "nace"]
        /\ \A h \in 1 .. m : peticiones'[h] = peticiones[h]
    BY <1>1, <1>11, HaceAceptarYSaludar DEF p
  <2>2. /\ DOMAIN peticiones = 1 .. m /\ DOMAIN peticiones' = 1 .. m + 1
        /\ \A h \in 1 .. m + 1 : h \in 1 .. m \/ h = m + 1
    BY <2>1, Hechos, LenProperties
  <2>3. memoria' = memoria
    BY <1>11 DEF AceptarYSaludar
  <2> HIDE DEF m
  <2>4. CASE c # p
    <3>1. con'[c] = con[c]
      BY <1>3, <2>1, <2>4 DEF EnCanal
    <3>2. \A h \in DOMAIN peticiones' :
            peticiones'[h].arg = c => h \in DOMAIN peticiones /\ peticiones'[h] = peticiones[h]
      BY <2>1, <2>2, <2>4
    <3> QED
      BY <1>1, <1>3, <1>7, <1>9, <2>3, <3>1, <3>2, Quieta
  <2>5. CASE c = p
    <3>1. ~Pendiente(c)'
      BY <1>7, <2>5
    <3>2. ASSUME kernel' = "vivo" PROVE Trafico(t, c)'
      <4>1. Trafico(t, c) /\ Pendiente(c)
        BY <1>1, <1>3, <1>8, <2>5, <3>2 DEF Propia
      <4>2. pc[t] \notin {"enviar", "llamar", "espera"}
        BY <1>1, <4>1 DEF Trafico
      <4>3. CASE pc[t] = "saludo"
        <5>1. /\ con[c].aMemoria = <<>> /\ ~con[c].fin /\ SinLeer(c) /\ con[c].aKernel = <<>>
          BY <4>1, <4>3 DEF Trafico
        <5>2. con'[c].aMemoria = <<>> /\ ~con'[c].fin /\ con'[c].aKernel = <<Saludo>>
          <6>1. con'[c] = [con[c] EXCEPT !.aKernel = Append(@, Saludo)] /\ con[c] \in Canal
            BY <1>3, <2>1, <2>5, Hechos DEF EnCanal
          <6>2. Append(con[c].aKernel, Saludo) = <<Saludo>>
            BY <5>1, SeqUno
          <6> QED
            BY <5>1, <6>1, <6>2 DEF Canal
        <5>3. SinLeer(c)'
          BY <1>1, <2>1, <2>2, <5>1 DEF SinLeer
        <5> QED
          BY <1>1, <3>1, <4>3, <5>2, <5>3 DEF Trafico
      <4>4. CASE pc[t] \notin {"saludo", "enviar", "llamar", "espera"}
        BY <1>1, <4>4 DEF Trafico
      <4> QED
        BY <4>2, <4>3, <4>4
    <3> QED
      BY <1>1, <1>3, <1>9, <2>3, <3>2 DEF Propia
  <2> QED
    BY <2>4, <2>5
<1> QED
  BY <1>10, <1>11 DEF gestionar_kernel


LEMMA PropiaMemoria ==
  ASSUME InvTipos, InvColas, InvPropia, NEW h \in Conexiones, manejar_peticion(h),
         NEW t \in Hilos, Limpia(t)'
  PROVE  Propia(t)'
<1> DEFINE c == mia[t]
<1>1. /\ UNCHANGED <<kernel, pc, mia, conexion, en, leida, socket_memoria, tabla, pendientes,
                     saludoEn, enredadas>>
      /\ memoria = "viva" /\ h \in 1 .. Len(peticiones)
      /\ LeerArgumento(h) \/ RecibirPaquete(h) \/ RecibirNada(h) \/ Contestar(h)
  BY Hechos DEF manejar_peticion, kern
<1>2. Limpia(t) /\ c # 0
  BY <1>1 DEF Limpia
<1>3. Propia(t) /\ c \in 1 .. Len(con) /\ con[c] \in Canal
  BY <1>2, MiaPropia, Hechos DEF InvPropia
<1>4. /\ \E f \in Descriptores : tabla'[f] = c
      /\ \A s \in Hilos \ {t} : pc'[s] \in {"saludo", "espera"} => en'[s] # c
  BY <1>1, <1>3 DEF Propia
<1>5. Pendiente(c)' <=> Pendiente(c)
  BY <1>1 DEF Pendiente
<1>6. peticiones[h] \in Peticion /\ DOMAIN peticiones = 1 .. Len(peticiones)
  BY <1>1, Hechos
\* The thread serves another connection.
<1>7. ASSUME con'[c] = con[c], memoria' = memoria \/ memoria' = "muerta",
             NEW r, EnPeticion(h, r), r.arg # c
      PROVE  Propia(t)'
  <2>1. DOMAIN peticiones' = DOMAIN peticiones
    BY <1>6, <1>7, LenProperties DEF EnPeticion
  <2>2. \A g \in DOMAIN peticiones' :
          peticiones'[g].arg = c => g \in DOMAIN peticiones /\ peticiones'[g] = peticiones[g]
    BY <1>6, <1>7, <2>1 DEF EnPeticion
  <2> QED
    BY <1>1, <1>3, <1>4, <1>5, <1>7, <2>2, Quieta
\* The thread serves this one.
<1>8. ASSUME NEW r, EnPeticion(h, r), peticiones[h].arg = c
      PROVE  /\ DOMAIN peticiones' = DOMAIN peticiones
             /\ \A g \in DOMAIN peticiones : g # h => peticiones[g].arg # c /\ peticiones'[g].arg # c
             /\ peticiones'[h] = r
  <2>1. DOMAIN peticiones' = DOMAIN peticiones
    BY <1>6, <1>8, LenProperties DEF EnPeticion
  <2>2. \A g \in DOMAIN peticiones : g # h => peticiones[g].arg # c
    BY <1>1, <1>6, <1>8 DEF InvColas
  <2> QED
    BY <1>6, <1>8, <2>1, <2>2 DEF EnPeticion
<1>9. ASSUME kernel' = "vivo" => Trafico(t, c)', memoria' = memoria
      PROVE  Propia(t)'
  BY <1>1, <1>3, <1>4, <1>9 DEF Propia
<1>10. kernel' = "vivo" => Trafico(t, c)
  BY <1>1, <1>3 DEF Propia
<1>11. CASE LeerArgumento(h)
  <2> DEFINE r == [peticiones[h] EXCEPT !.fd = peticiones[h].arg, !.estado = "recibe"]
  <2>1. /\ EnPeticion(h, r) /\ con' = con /\ memoria' = memoria
        /\ peticiones[h].estado = "nace"
    BY <1>1, <1>11, HaceLeerArgumento DEF LeerArgumento
  <2>2. r.arg = peticiones[h].arg /\ r.estado = "recibe"
    BY <1>6 DEF Peticion
  <2> HIDE DEF r
  <2>3. CASE peticiones[h].arg # c
    BY <1>7, <2>1, <2>2, <2>3
  <2>4. CASE peticiones[h].arg = c
    <3>1. /\ DOMAIN peticiones' = DOMAIN peticiones
          /\ \A g \in DOMAIN peticiones : peticiones'[g].arg = c => g = h
          /\ peticiones'[h] = r
      BY <1>8, <2>1, <2>4
    <3>2. SinLeer(c)'
      BY <1>1, <2>2, <3>1 DEF SinLeer
    <3>3. \A g \in DOMAIN peticiones' : peticiones'[g].arg = c => peticiones'[g].estado # "contesta"
      BY <2>2, <3>1
    <3>4. ASSUME Trafico(t, c) PROVE Trafico(t, c)'
      <4> HIDE DEF SinLeer, Pendiente
      <4> QED
        BY <1>1, <1>5, <2>1, <3>2, <3>3, <3>4 DEF Trafico
    <3> QED
      BY <1>9, <1>10, <2>1, <3>4
  <2> QED
    BY <2>3, <2>4
<1>12. CASE RecibirPaquete(h)
  <2> DEFINE x == peticiones[h].fd
             m == Head(con[x].aMemoria)
             r == [peticiones[h] EXCEPT !.tiene = m, !.estado = "contesta"]
  <2>1. /\ x = peticiones[h].arg
        /\ EnCanal(x, [con[x] EXCEPT !.aMemoria = Tail(@)])
        /\ EnPeticion(h, r)
    BY <1>1, <1>12, HaceRecibirPaquete
  <2>2. /\ memoria' = memoria /\ peticiones[h].estado = "recibe"
        /\ con[x].aMemoria # <<>>
    BY <1>12 DEF RecibirPaquete
  <2>3. r.arg = peticiones[h].arg /\ r.estado = "contesta" /\ r.tiene = m
    BY <1>6 DEF Peticion
  <2> HIDE DEF r, m
  <2>4. CASE peticiones[h].arg # c
    BY <1>3, <1>7, <2>1, <2>2, <2>3, <2>4 DEF EnCanal
  <2>5. CASE peticiones[h].arg = c
    <3>1. /\ DOMAIN peticiones' = DOMAIN peticiones
          /\ \A g \in DOMAIN peticiones : peticiones'[g].arg = c => g = h
          /\ peticiones'[h] = r
      BY <1>8, <2>1, <2>5
    <3>2. ASSUME Trafico(t, c) PROVE Trafico(t, c)'
      <4>1. pc[t] \notin {"saludo", "enviar"}
        BY <2>1, <2>2, <2>5, <3>2 DEF Trafico
      <4>2. CASE pc[t] \in {"llamar", "espera"}
        <5>1. con[c].aMemoria = <<c>> /\ con[c].aKernel = <<>> /\ ~Pendiente(c)
          BY <1>1, <2>1, <2>2, <2>5, <3>2, <4>2 DEF Trafico
        <5>2. m = c /\ Tail(con[c].aMemoria) = <<>>
          BY <2>1, <2>5, <5>1, SeqUno DEF m
        <5>3. /\ con'[c].aMemoria = <<>> /\ con'[c].aKernel = <<>>
              /\ con'[c].fin = con[c].fin
          <6>1. con'[c] = [con[c] EXCEPT !.aMemoria = Tail(@)]
            BY <2>1, <2>5 DEF EnCanal
          <6> QED
            BY <1>3, <5>1, <5>2, <6>1 DEF Canal
        <5>4. ~con[c].fin
          BY <3>2, <4>2, <5>1, SeqUno DEF Trafico
        <5>5. \A g \in DOMAIN peticiones' :
                peticiones'[g].arg = c => peticiones'[g].tiene = c
          BY <2>3, <3>1, <5>2
        <5> QED
          BY <1>1, <1>5, <4>2, <5>1, <5>3, <5>4, <5>5 DEF Trafico
      <4>3. CASE pc[t] \notin {"saludo", "enviar", "llamar", "espera"}
        BY <1>1, <4>3 DEF Trafico
      <4> QED
        BY <4>1, <4>2, <4>3
    <3> QED
      BY <1>9, <1>10, <2>2, <3>2
  <2> QED
    BY <2>4, <2>5
<1>13. CASE RecibirNada(h)
  <2> DEFINE x == peticiones[h].fd
             r == [peticiones[h] EXCEPT !.estado = "fin"]
  <2>1. /\ x = peticiones[h].arg
        /\ \/ memoria' = "muerta" /\ UNCHANGED <<con, peticiones>>
           \/ /\ memoria' = memoria
              /\ EnCanal(x, [con[x] EXCEPT !.fin = TRUE])
              /\ EnPeticion(h, r)
    BY <1>1, <1>13, HaceRecibirNada
  <2>2. SinKernel(x)
    BY <1>13 DEF RecibirNada
  <2>3. r.arg = peticiones[h].arg
    BY <1>6 DEF Peticion
  <2> HIDE DEF r
  <2>4. CASE memoria' = "muerta" /\ UNCHANGED <<con, peticiones>>
    BY <1>1, <1>3, <1>4, <1>5, <2>4, Quieta
  <2>5. CASE /\ memoria' = memoria
             /\ EnCanal(x, [con[x] EXCEPT !.fin = TRUE])
             /\ EnPeticion(h, r)
    <3>1. CASE peticiones[h].arg # c
      BY <1>3, <1>7, <2>1, <2>3, <2>5, <3>1 DEF EnCanal
    <3>2. CASE peticiones[h].arg = c
      <4>1. kernel' # "vivo"
        BY <1>1, <1>4, <2>1, <2>2, <3>2 DEF SinKernel
      <4> QED
        BY <1>9, <2>5, <4>1
    <3> QED
      BY <3>1, <3>2
  <2> QED
    BY <2>1, <2>4, <2>5
<1>14. CASE Contestar(h)
  <2> DEFINE x == peticiones[h].fd
             m == peticiones[h].tiene
             r == [peticiones[h] EXCEPT !.estado = "fin"]
  <2>0. CASE memoria' = "muerta" /\ UNCHANGED <<con, peticiones>>
    BY <1>1, <1>3, <1>4, <1>5, <2>0, Quieta
  <2>a. SUFFICES ASSUME /\ memoria' = memoria
                        /\ x = peticiones[h].arg
                        /\ EnCanal(x, [con[x] EXCEPT !.aKernel = Append(@, m), !.fin = TRUE])
                        /\ EnPeticion(h, r)
                 PROVE  Propia(t)'
    BY <1>1, <1>14, <2>0, HaceContestar
  <2>1. /\ x = peticiones[h].arg
        /\ EnCanal(x, [con[x] EXCEPT !.aKernel = Append(@, m), !.fin = TRUE])
        /\ EnPeticion(h, r)
    BY <2>a
  <2>2. memoria' = memoria /\ peticiones[h].estado = "contesta"
    BY <2>a, <1>14 DEF Contestar
  <2>3. r.arg = peticiones[h].arg /\ r.estado = "fin"
    BY <1>6 DEF Peticion
  <2> HIDE DEF r
  <2>4. CASE peticiones[h].arg # c
    BY <1>3, <1>7, <2>1, <2>2, <2>3, <2>4 DEF EnCanal
  <2>5. CASE peticiones[h].arg = c
    <3>1. /\ DOMAIN peticiones' = DOMAIN peticiones
          /\ \A g \in DOMAIN peticiones : peticiones'[g].arg = c => g = h
          /\ peticiones'[h] = r
      BY <1>8, <2>1, <2>5
    <3>2. ASSUME Trafico(t, c) PROVE Trafico(t, c)'
      <4>1. ~SinLeer(c)
        BY <1>1, <1>6, <2>2, <2>5 DEF SinLeer
      <4>2. pc[t] \notin {"saludo", "enviar"}
        BY <3>2, <4>1 DEF Trafico
      <4>3. CASE pc[t] \in {"llamar", "espera"}
        <5>1. /\ m = c /\ con[c].aKernel = <<>> /\ con[c].aMemoria = <<>> /\ ~Pendiente(c)
          BY <1>1, <1>6, <2>2, <2>5, <3>2, <4>1, <4>3 DEF Trafico
        <5>2. Append(con[c].aKernel, m) = <<c>>
          BY <5>1, SeqUno
        <5>3. con'[c].aKernel = <<c>> /\ con'[c].aMemoria = <<>>
          <6>1. con'[c] = [con[c] EXCEPT !.aKernel = Append(@, m), !.fin = TRUE]
            BY <2>1, <2>5 DEF EnCanal
          <6> QED
            BY <1>3, <5>1, <5>2, <6>1 DEF Canal
        <5>4. \A g \in DOMAIN peticiones' :
                peticiones'[g].arg = c => peticiones'[g].estado # "contesta"
          BY <2>3, <3>1
        <5> QED
          BY <1>1, <1>5, <4>3, <5>1, <5>3, <5>4 DEF Trafico
      <4>4. CASE pc[t] \notin {"saludo", "enviar", "llamar", "espera"}
        BY <1>1, <4>4 DEF Trafico
      <4> QED
        BY <4>2, <4>3, <4>4
    <3> QED
      BY <1>9, <1>10, <2>2, <3>2
  <2> QED
    BY <2>4, <2>5
<1> QED
  BY <1>1, <1>11, <1>12, <1>13, <1>14


LEMMA PropiaPaso ==
  ASSUME InvTipos, InvColas, InvPropia, [Next]_vars
  PROVE  InvPropia'
<1>1. SUFFICES ASSUME NEW t \in Hilos, Limpia(t)' PROVE Propia(t)'
  BY DEF InvPropia
\* Steps that leave everything about t but the health of the Kernel.
<1>2. ASSUME UNCHANGED <<pc, mia, conexion, en, leida, tabla, con, pendientes, memoria, peticiones,
                         enredadas>>,
             kernel' = kernel \/ kernel' = "muerto"
      PROVE  Propia(t)'
  <2>1. Limpia(t)
    BY <1>1, <1>2 DEF Limpia
  <2>2. Propia(t)
    BY <2>1 DEF InvPropia
  <2>3. Pendiente(mia[t])' => Pendiente(mia[t])
    BY <1>2 DEF Pendiente
  <2>4. /\ \E f \in Descriptores : tabla'[f] = mia[t]
        /\ \A s \in Hilos \ {t} : pc'[s] \in {"saludo", "espera"} => en'[s] # mia[t]
    BY <1>2, <2>2 DEF Propia
  <2> QED
    BY <1>2, <2>2, <2>3, <2>4, Quieta
<1>3. CASE UNCHANGED vars
  BY <1>2, <1>3 DEF vars
<1>4. ASSUME NEW s \in Hilos, ConectarSinMemoria(s) PROVE Propia(t)'
  BY <1>2, <1>4 DEF ConectarSinMemoria, Morir
<1>5. ASSUME NEW s \in Hilos, Volcar(s) PROVE Propia(t)'
  <2>1. /\ pc' = [pc EXCEPT ![s] = "enviar"] /\ mia' = [mia EXCEPT ![s] = 0]
        /\ UNCHANGED <<kernel, conexion, en, leida, socket_memoria, tabla, con, pendientes, memoria,
                       peticiones, enredadas>>
    BY <1>5 DEF Volcar
  <2>2. s # t
    BY <1>1, <2>1 DEF Limpia, InvTipos, TypeOK
  <2>3. mia'[t] = mia[t] /\ mia[t] # 0 /\ Limpia(t)
    BY <1>1, <2>1, <2>2 DEF Limpia, InvTipos, TypeOK
  <2>4. Propia(t)
    BY <2>3 DEF InvPropia
  <2>5. Pendiente(mia[t])' => Pendiente(mia[t])
    BY <2>1, <2>3 DEF Pendiente
  <2>6. /\ pc' = [pc EXCEPT ![s] = pc'[s]] /\ pc'[s] = "enviar"
        /\ leida' = [leida EXCEPT ![s] = leida'[s]] /\ en' = [en EXCEPT ![s] = en'[s]]
    BY <2>1 DEF InvTipos, TypeOK
  <2> QED
    BY <2>1, <2>2, <2>3, <2>4, <2>5, <2>6, OtraPropia
<1> QED
  BY <1>1, <1>3, <1>4, <1>5, PropiaConectar, PropiaSaludar, PropiaEnviar, PropiaLlamar,
     PropiaRecibir, PropiaCerrar, PropiaAceptar, PropiaMemoria DEF Next, Empezar, Avanzar

---------------------------------------------------------------------------
(* No descriptor is left open *)

LEMMA FugasPaso ==
  ASSUME InvTipos, InvColas, SinFugas, [Next]_vars
  PROVE  SinFugas'
\* The descriptor was open before, and its thread has not left.
<1>1. ASSUME NEW f \in Descriptores, tabla[f] # 0, tabla[f] \notin enredadas, tabla'[f] = tabla[f],
             \A c \in 1 .. Len(con) : con'[c].duenio = con[c].duenio,
             NEW s \in Hilos,
             mia' = [mia EXCEPT ![s] = mia'[s]], pc' = [pc EXCEPT ![s] = pc'[s]],
             pc[s] # "libre" /\ mia[s] = tabla[f] => pc'[s] # "libre" /\ mia'[s] = mia[s]
      PROVE  LET d == con'[tabla'[f]].duenio IN mia'[d] = tabla'[f] /\ pc'[d] # "libre"
  <2>1. tabla[f] \in 1 .. Len(con)
    BY <1>1, Hechos DEF InvTipos, TypeOK
  <2> DEFINE d == con[tabla[f]].duenio
  <2>2. d \in Hilos
    BY <2>1, Hechos DEF Canal
  <2>3. mia[d] = tabla[f] /\ pc[d] # "libre"
    BY <1>1 DEF SinFugas
  <2>4. con'[tabla'[f]].duenio = d
    BY <1>1, <2>1
  <2> HIDE DEF d
  <2>5. CASE d = s
    BY <1>1, <2>3, <2>4, <2>5
  <2>6. CASE d # s
    BY <1>1, <2>2, <2>3, <2>4, <2>6 DEF InvTipos, TypeOK
  <2> QED
    BY <2>5, <2>6
<1>2. SUFFICES ASSUME NEW f \in Descriptores, tabla'[f] # 0, tabla'[f] \notin enredadas'
               PROVE  LET d == con'[tabla'[f]].duenio IN mia'[d] = tabla'[f] /\ pc'[d] # "libre"
  BY DEF SinFugas
<1>3. ASSUME UNCHANGED <<pc, mia, tabla, enredadas>>,
             \A c \in 1 .. Len(con) : con'[c].duenio = con[c].duenio
      PROVE  LET d == con'[tabla'[f]].duenio IN mia'[d] = tabla'[f] /\ pc'[d] # "libre"
  <2>1. tabla[f] \in 1 .. Len(con)
    BY <1>2, <1>3, Hechos DEF InvTipos, TypeOK
  <2> QED
    BY <1>2, <1>3, <2>1 DEF SinFugas
<1>4. CASE UNCHANGED vars
  BY <1>3, <1>4 DEF vars
<1>5. ASSUME NEW s \in Hilos, Conectar(s)
      PROVE  LET d == con'[tabla'[f]].duenio IN mia'[d] = tabla'[f] /\ pc'[d] # "libre"
  <2> DEFINE n == Len(con) + 1
  <2>1. PICK g \in Descriptores : tabla[g] = 0 /\ tabla' = [tabla EXCEPT ![g] = n]
    BY <1>5, HaceConectar
  <2>2. /\ con'[n] = [duenio |-> s, aMemoria |-> <<>>, aKernel |-> <<>>, fin |-> FALSE]
        /\ \A d \in 1 .. Len(con) : con'[d] = con[d]
    BY <1>5, HaceConectar
  <2>3. /\ pc[s] = "libre" /\ pc' = [pc EXCEPT ![s] = "saludo"]
        /\ mia' = [mia EXCEPT ![s] = n] /\ enredadas' = enredadas
    BY <1>5 DEF Conectar
  <2> HIDE DEF n
  <2>4. mia'[s] = n /\ pc'[s] = "saludo"
    BY <2>3 DEF InvTipos, TypeOK
  <2>5. CASE f = g
    <3>1. tabla'[f] = n
      BY <2>1, <2>5 DEF InvTipos, TypeOK
    <3> QED
      BY <2>2, <2>4, <3>1
  <2>6. CASE f # g
    <3>1. tabla'[f] = tabla[f]
      BY <2>1, <2>6 DEF InvTipos, TypeOK
    <3> QED
      BY <1>1, <1>2, <2>2, <2>3, <2>4, <3>1
  <2> QED
    BY <2>5, <2>6
<1>6. ASSUME NEW s \in Hilos, ConectarSinMemoria(s)
      PROVE  LET d == con'[tabla'[f]].duenio IN mia'[d] = tabla'[f] /\ pc'[d] # "libre"
  BY <1>3, <1>6 DEF ConectarSinMemoria
<1>7. ASSUME NEW s \in Hilos, Volcar(s)
      PROVE  LET d == con'[tabla'[f]].duenio IN mia'[d] = tabla'[f] /\ pc'[d] # "libre"
  <2>1. /\ pc[s] = "libre" /\ UNCHANGED <<tabla, con, enredadas>>
        /\ pc' = [pc EXCEPT ![s] = pc'[s]] /\ mia' = [mia EXCEPT ![s] = mia'[s]]
    BY <1>7 DEF Volcar, InvTipos, TypeOK
  <2> QED
    BY <1>1, <1>2, <2>1
<1>8. ASSUME NEW s \in Hilos, Saludar(s)
      PROVE  LET d == con'[tabla'[f]].duenio IN mia'[d] = tabla'[f] /\ pc'[d] # "libre"
  <2>1. /\ pc[s] = "saludo" /\ pc'[s] \in {"saludo", "enviar"} /\ pc' = [pc EXCEPT ![s] = pc'[s]]
        /\ mia' = [mia EXCEPT ![s] = mia'[s]] /\ UNCHANGED <<mia, tabla, enredadas>>
    BY <1>8 DEF Saludar, LeerSaludo, LeerSaludoCortado, Asignar, NoAsignar, InvTipos, TypeOK
  <2>2. \A c \in 1 .. Len(con) : con'[c].duenio = con[c].duenio
    <3>1. CASE LeerSaludo(s)
      BY <2>1, <3>1, HaceLeerSaludo, EnCanalDuenios
    <3>2. CASE LeerSaludoCortado(s)
      BY <3>2 DEF LeerSaludoCortado
    <3> QED
      BY <1>8, <3>1, <3>2 DEF Saludar
  <2> QED
    BY <1>1, <1>2, <2>1, <2>2
<1>9. ASSUME NEW s \in Hilos, Enviar(s) \/ Llamar(s)
      PROVE  LET d == con'[tabla'[f]].duenio IN mia'[d] = tabla'[f] /\ pc'[d] # "libre"
  <2>1. /\ pc'[s] \in {"llamar", "espera"} /\ pc' = [pc EXCEPT ![s] = pc'[s]]
        /\ mia' = [mia EXCEPT ![s] = mia'[s]] /\ UNCHANGED <<mia, tabla>>
        /\ enredadas \subseteq enredadas'
    BY <1>9 DEF Enviar, Llamar, Usa, InvTipos, TypeOK
  <2>2. \A c \in 1 .. Len(con) : con'[c].duenio = con[c].duenio
    <3>1. CASE con' = con
      BY <3>1
    <3>2. CASE con' # con
      BY <1>9, <3>2, HaceEnviar, EnCanalDuenios DEF Llamar
    <3> QED
      BY <3>1, <3>2
  <2> QED
    BY <1>1, <1>2, <2>1, <2>2
<1>10. ASSUME NEW s \in Hilos, Recibir(s)
       PROVE  LET d == con'[tabla'[f]].duenio IN mia'[d] = tabla'[f] /\ pc'[d] # "libre"
  <2>1. /\ pc' = [pc EXCEPT ![s] = pc'[s]]
        /\ mia[s] # 0 => pc'[s] = "cerrar"
        /\ mia' = [mia EXCEPT ![s] = mia'[s]] /\ UNCHANGED <<mia, tabla, enredadas>>
    BY <1>10 DEF Recibir, LeerRespuesta, LeerNada, Seguir, InvTipos, TypeOK
  <2>2. \A c \in 1 .. Len(con) : con'[c].duenio = con[c].duenio
    BY <1>10, HaceLeerRespuesta, EnCanalDuenios DEF Recibir, LeerNada
  <2> QED
    BY <1>1, <1>2, <2>1, <2>2
<1>11. ASSUME NEW s \in Hilos, Cerrar(s)
       PROVE  LET d == con'[tabla'[f]].duenio IN mia'[d] = tabla'[f] /\ pc'[d] # "libre"
  <2>1. /\ pc' = [pc EXCEPT ![s] = pc'[s]] /\ mia' = [mia EXCEPT ![s] = mia'[s]]
        /\ UNCHANGED <<mia, con, socket_memoria>>
        /\ Usa(s, Refiere(socket_memoria))
        /\ tabla' = [g \in Descriptores |-> IF g = socket_memoria THEN 0 ELSE tabla[g]]
    BY <1>11 DEF Cerrar, InvTipos, TypeOK
  <2>2. f # socket_memoria /\ tabla'[f] = tabla[f] /\ tabla[f] # 0
    BY <1>2, <2>1
  <2>3. tabla[f] \notin enredadas
    BY <1>2, <2>1, <2>2 DEF Usa
  <2>4. mia[s] # tabla[f]
    <3>1. SUFFICES ASSUME mia[s] = tabla[f] PROVE FALSE
      OBVIOUS
    <3>2. Refiere(socket_memoria) = tabla[f]
      BY <1>2, <2>1, <2>2, <3>1 DEF Usa
    <3>3. socket_memoria \in Descriptores /\ tabla[socket_memoria] = tabla[f]
      BY <2>2, <3>2 DEF Refiere, InvTipos, TypeOK
    <3> QED
      BY <2>2, <3>3 DEF InvTipos
  <2> QED
    BY <1>1, <2>1, <2>2, <2>3, <2>4
<1>12. CASE gestionar_kernel
  <2>1. UNCHANGED <<pc, mia, tabla, enredadas>> /\ pendientes # <<>>
    BY <1>12 DEF gestionar_kernel, kern
  <2>2. \A c \in 1 .. Len(con) : con'[c].duenio = con[c].duenio
    <3>1. CASE AceptarYSaludar
      BY <2>1, <3>1, HaceAceptarYSaludar, EnCanalDuenios
    <3>2. CASE AceptarYCaer
      BY <3>2 DEF AceptarYCaer
    <3> QED
      BY <1>12, <3>1, <3>2 DEF gestionar_kernel
  <2> QED
    BY <1>3, <2>1, <2>2
<1>13. ASSUME NEW h \in Conexiones, manejar_peticion(h)
       PROVE  LET d == con'[tabla'[f]].duenio IN mia'[d] = tabla'[f] /\ pc'[d] # "libre"
  <2>1. UNCHANGED <<pc, mia, tabla, enredadas>> /\ h \in 1 .. Len(peticiones)
    BY <1>13, Hechos DEF manejar_peticion, kern
  <2>2. \A c \in 1 .. Len(con) : con'[c].duenio = con[c].duenio
    <3>1. CASE LeerArgumento(h)
      BY <3>1 DEF LeerArgumento
    <3>2. CASE RecibirPaquete(h)
      BY <2>1, <3>2, HaceRecibirPaquete, EnCanalDuenios
    <3>3. CASE RecibirNada(h)
      BY <2>1, <3>3, HaceRecibirNada, EnCanalDuenios
    <3>4. CASE Contestar(h)
      BY <2>1, <3>4, HaceContestar, EnCanalDuenios
    <3> QED
      BY <1>13, <3>1, <3>2, <3>3, <3>4 DEF manejar_peticion
  <2> QED
    BY <1>3, <2>1, <2>2
<1> QED
  BY <1>4, <1>5, <1>6, <1>7, <1>8, <1>9, <1>10, <1>11, <1>12, <1>13 DEF Next, Empezar, Avanzar

---------------------------------------------------------------------------
(* Theorems *)

Inv == InvTipos /\ InvColas /\ InvPropia /\ SinFugas

LEMMA Inicio ==
  ASSUME Init
  PROVE  Inv
<1>1. InvTipos
  BY ConexionAssumption, EmptySeq
     DEF Init, InvTipos, TypeOK, Descriptores, Conexiones, Mensajes, Basura, Saludo
<1>2. DOMAIN pendientes = {} /\ DOMAIN peticiones = {}
  BY DEF Init
<1>3. InvColas
  BY <1>2 DEF InvColas
<1>4. InvPropia
  BY DEF Init, InvPropia, Limpia
<1>5. SinFugas
  BY DEF Init, SinFugas
<1> QED
  BY <1>1, <1>3, <1>4, <1>5 DEF Inv

LEMMA EsInv == Spec => []Inv
<1>1. Inv /\ [Next]_vars => Inv'
  BY TiposPaso, ColasPaso, PropiaPaso, FugasPaso DEF Inv
<1> QED
  BY <1>1, Inicio, PTL DEF Spec

\* Types, with descriptors enough for the connections: conectar always finds one.
THEOREM Tipos == Spec => []TypeOK
<1>1. Inv => TypeOK
  BY DEF Inv, InvTipos
<1> QED
  BY <1>1, EsInv, PTL

\* A thread that kept its connection to itself reads its own answer, for any
\* number of threads, requests and dumps in between.
THEOREM LeeSuRespuesta == Spec => []RespuestaPropia
<1>1. Inv => RespuestaPropia
  BY DEF Inv, InvTipos, InvPropia, Propia, Limpia, RespuestaPropia
<1> QED
  BY <1>1, EsInv, PTL

\* Only a connection that another thread crossed stays open behind its request.
THEOREM NadaQuedaAbierto == Spec => []SinFugas
<1>1. Inv => SinFugas
  BY DEF Inv
<1> QED
  BY <1>1, EsInv, PTL

\* One thread of manejar_peticion for each connection accepted.
THEOREM UnHilo == Spec => []UnHiloPorConexion
<1>1. Inv => UnHiloPorConexion
  BY DEF Inv, InvColas, UnHiloPorConexion
<1> QED
  BY <1>1, EsInv, PTL

=============================================================================
