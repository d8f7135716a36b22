--------------------------- MODULE ProtocoloProofs ---------------------------
(***************************************************************************)
(* Proofs about Protocolo: on the two sockets of the Kernel with the CPU   *)
(* no byte is read out of place before a recv() is cut, for any TCBs, any  *)
(* size that malloc leaves and any number of operations.                   *)
(***************************************************************************)
EXTENDS Protocolo, SecuenciasProofs

\* The sizes fit in the four bytes they are sent in, as any uint32_t does.
TamaniosDe32 == \A n \in Tamanios : n < 256 * 256 * 256 * 256

Octeto == 0 .. 255
Tira == Seq(Octeto)

---------------------------------------------------------------------------
(* Integers and their bytes                                                *)

LEMMA PotenciaValor ==
  Potencia(1) = 1 /\ Potencia(2) = 256 /\ Potencia(3) = 256 * 256 /\ Potencia(4) = 256 * 256 * 256
BY DEF Potencia

\* The byte of n that is worth p.
Parte(n, p) == (n \div p) % 256

LEMMA BytesTipo ==
  ASSUME NEW n \in Nat
  PROVE  /\ Bytes(n) \in Tira /\ Len(Bytes(n)) = 4
         /\ \A i \in 1 .. 4 : Bytes(n)[i] = Parte(n, Potencia(i))
<1>1. \A i \in 1 .. 4 : Potencia(i) \in {1, 256, 256 * 256, 256 * 256 * 256}
  BY PotenciaValor
<1>2. \A i \in 1 .. 4 : (n \div Potencia(i)) % 256 \in Octeto
  <2>1. \A m \in Int : m % 256 \in Octeto
    BY DEF Octeto
  <2>2. \A p \in {1, 256, 256 * 256, 256 * 256 * 256} : n \div p \in Int
    OBVIOUS
  <2> QED
    BY <1>1, <2>1, <2>2
<1>3. Bytes(n) \in [1 .. 4 -> Octeto]
  BY <1>2 DEF Bytes
<1>4. Bytes(n) \in Tira /\ Len(Bytes(n)) = 4
  <2>1. Bytes(n) \in Seq(Octeto)
    BY <1>3, SeqDef
  <2> QED
    BY <1>3, <2>1, LenProperties DEF Tira
<1>5. \A i \in 1 .. 4 : Bytes(n)[i] = Parte(n, Potencia(i))
  BY DEF Bytes, Parte
<1> QED
  BY <1>4, <1>5

\* An integer of 32 bits is read back from its bytes.
LEMMA ValorBytes ==
  ASSUME NEW n \in Nat, n < 256 * 256 * 256 * 256
  PROVE  Valor(Bytes(n)) = n
<1>1. n = 256 * (n \div 256) + (n % 256)
  OBVIOUS
<1>2. n \div 256 = 256 * (n \div (256 * 256)) + ((n \div 256) % 256)
  OBVIOUS
<1>3. n \div (256 * 256) = 256 * (n \div (256 * 256 * 256)) + ((n \div (256 * 256)) % 256)
  OBVIOUS
<1>4. (n \div (256 * 256 * 256)) % 256 = n \div (256 * 256 * 256)
  OBVIOUS
<1> DEFINE b1 == Parte(n, 1)
           b2 == Parte(n, 256)
           b3 == Parte(n, 256 * 256)
           b4 == Parte(n, 256 * 256 * 256)
<1>5. Valor(Bytes(n)) = b1 + b2 * 256 + b3 * (256 * 256) + b4 * (256 * 256 * 256)
  <2>1. Bytes(n)[1] = b1 /\ Bytes(n)[2] = b2 /\ Bytes(n)[3] = b3 /\ Bytes(n)[4] = b4
    BY BytesTipo, PotenciaValor
  <2> HIDE DEF b1, b2, b3, b4
  <2> QED
    BY <2>1, PotenciaValor DEF Valor
<1>6. b1 + b2 * 256 + b3 * (256 * 256) + b4 * (256 * 256 * 256) = n
  <2>1. n \div 1 = n
    OBVIOUS
  <2> QED
    BY <1>1, <1>2, <1>3, <1>4, <2>1 DEF Parte
<1> QED
  BY <1>5, <1>6

LEMMA Constantes ==
  /\ Valor(Bytes(0)) = 0 /\ Valor(Bytes(1)) = 1 /\ Valor(Bytes(2)) = 2 /\ Valor(Bytes(4)) = 4
BY ValorBytes

\* What was written first is read first, and the rest is left.
LEMMA Frente ==
  ASSUME NEW a \in Tira, NEW r \in Tira, Len(a) = 4
  PROVE  /\ a \o r \in Tira /\ Len(a \o r) >= 4 /\ a \o r # <<>>
         /\ SubSeq(a \o r, 1, 4) = a
         /\ SubSeq(a \o r, 5, Len(a \o r)) = r
<1>0. Len(r) \in Nat /\ a \in Seq(Octeto) /\ r \in Seq(Octeto)
  BY LenProperties DEF Tira
<1>1. /\ a \o r \in Seq(Octeto) /\ Len(a \o r) = 4 + Len(r)
  <2>1. a \o r \in Seq(Octeto) /\ Len(a \o r) = Len(a) + Len(r)
    BY <1>0, ConcatProperties
  <2> QED
    BY <2>1
<1>2. SubSeq(a \o r, 1, 4) = a
  <2>1. SubSeq(a \o r, 1, 4) = SubSeq(a, 1, 4)
    BY <1>0, SubSeqOfConcat1
  <2> QED
    BY <2>1, <1>0, SubSeqFull
<1>3. SubSeq(a \o r, 5, Len(a \o r)) = r
  <2>1. CASE r = <<>>
    <3>1. SubSeq(a \o r, 5, 4) = <<>>
      BY SubSeqEmpty
    <3>2. Len(a \o r) = 4
      BY <1>1, <2>1
    <3> QED
      BY <2>1, <3>1, <3>2
  <2>2. CASE r # <<>>
    <3>1. Len(r) \in Nat \ {0}
      BY <1>0, <2>2, EmptySeq
    <3>2. SubSeq(a \o r, 5, 4 + Len(r)) = SubSeq(r, 1, Len(r))
      <4> DEFINE m == Len(a) + 1
                 n == Len(a) + Len(r)
      <4>1. m \in Len(a) + 1 .. Len(a) + Len(r) /\ n \in Len(a) + 1 .. Len(a) + Len(r)
        BY <1>0, <3>1
      <4>2. m = 5 /\ n = 4 + Len(r) /\ m - Len(a) = 1 /\ n - Len(a) = Len(r)
        BY <1>0
      <4> HIDE DEF m, n
      <4>3. SubSeq(a \o r, m, n) = SubSeq(r, m - Len(a), n - Len(a))
        BY <1>0, <4>1, SubSeqOfConcat2
      <4> QED
        BY <4>2, <4>3
    <3>3. SubSeq(r, 1, Len(r)) = r
      BY <1>0, SubSeqFull
    <3> QED
      BY <1>0, <1>1, <3>2, <3>3
  <2> QED
    BY <2>1, <2>2
<1>4. Len(a \o r) >= 4
  BY <1>0, <1>1
<1>5. a \o r # <<>>
  <2>1. Len(<<>>) = 0
    OBVIOUS
  <2> QED
    BY <1>4, <2>1
<1> QED
  BY <1>1, <1>2, <1>3, <1>4, <1>5 DEF Tira

---------------------------------------------------------------------------
(* Where the bytes are *)

C0 == Bytes(0)

\* The handshake: two integers there, one back.
Saludo ==
  /\ escritas = <<>> /\ leidas = <<>>
  /\ \/ /\ servidor = "operacion" /\ vuelta = <<>>
        /\ \/ envios = <<C0, C0>> /\ ida = <<>>
           \/ envios = <<C0>> /\ ida = C0
           \/ envios = <<>> /\ ida = C0 \o C0
     \/ /\ servidor = "modulo" /\ vuelta = <<>>
        /\ \/ envios = <<C0>> /\ ida = <<>>
           \/ envios = <<>> /\ ida = C0
     \/ servidor = "operacion" /\ vuelta = C0 /\ envios = <<>> /\ ida = <<>>

\* What enviarTCBCPU writes: three sends, and what the server should make of them.
C1 == Bytes(CONTEXTO)
C3(t, n, x) == Stream(SerializarTCB(t), n, x)
RegistroTCB(t, n) ==
  LET b == SerializarTCB(t)
  IN [op |-> CONTEXTO, campos |-> IF n < Len(b) THEN FUERA ELSE Leer(b, Len(b) \div 4)]

\* A TCB on its way: how much of it was sent, and how much of that was read.
EnViaje(c2, c3) ==
  \/ /\ servidor = "operacion"
     /\ \/ envios = <<C1, c2, c3>> /\ ida = <<>>
        \/ envios = <<c2, c3>> /\ ida = C1
        \/ envios = <<c3>> /\ ida = C1 \o c2
        \/ envios = <<>> /\ ida = C1 \o (c2 \o c3)
  \/ /\ servidor = "tamanio" /\ op = CONTEXTO
     /\ \/ envios = <<c2, c3>> /\ ida = <<>>
        \/ envios = <<c3>> /\ ida = c2
        \/ envios = <<>> /\ ida = c2 \o c3
  \/ /\ servidor = "datos" /\ op = CONTEXTO
     /\ \/ envios = <<c3>> /\ ida = <<>>
        \/ envios = <<>> /\ ida = c3

Pendiente ==
  /\ vuelta = <<>>
  /\ cliente \in {"envia", "espera"}
  /\ cliente = "espera" => envios = <<>>
  /\ \E t \in Tcbs, size \in Tamanios, x \in Basura : \E n \in Enviables(size) :
       /\ escritas = Append(leidas, RegistroTCB(t, n))
       /\ servidor = "datos" => tamanio = size
       /\ EnViaje(Bytes(size), C3(t, n, x))

\* Every TCB was read.
AlDia ==
  /\ leidas = escritas /\ servidor = "operacion" /\ ida = <<>> /\ envios = <<>>
  /\ \/ cliente \in {"listo", "espera datos"} /\ vuelta = <<>>
     \/ cliente \in {"envia", "espera"} /\ vuelta = C0

Registrados == {RegistroTCB(t, n) : t \in Tcbs, n \in Nat}

\* The server fell with a TCB it had no room for.
Caida ==
  /\ servidor = "segv" /\ vuelta = <<>> /\ cliente \in {"envia", "espera"}
  /\ \E r \in Registrados : escritas = Append(leidas, r)

Rafaga == leidas \in Seq(Registrados) /\ (Pendiente \/ AlDia \/ Caida)

\* What InterrumpirCPU writes, always the same three integers, and the place of
\* the server in them.
Palabra(k) == IF k = 0 THEN Bytes(INTERRUPCION) ELSE IF k = 1 THEN Bytes(4) ELSE C0
Fase == IF servidor = "operacion" THEN 0 ELSE IF servidor = "tamanio" THEN 1 ELSE 2
RegistroInt == [op |-> INTERRUPCION, campos |-> Leer(C0, 1)]

\* The bytes s are those of n integers, from the place f on.
Fluye(s, f, n) ==
  /\ Len(s) = 4 * n
  /\ \A j \in 0 .. n - 1, i \in 1 .. 4 : s[4 * j + i] = Palabra((f + j) % 3)[i]

Corriente ==
  /\ escritas \in Seq({RegistroInt}) /\ leidas \in Seq({RegistroInt})
  /\ ida \in Tira
  /\ servidor \in {"operacion", "tamanio", "datos"}
  /\ servidor # "operacion" => op = INTERRUPCION
  /\ servidor = "datos" => tamanio = 4
  /\ cliente \in {"listo", "envia"}
  /\ cliente = "listo" => envios = <<>>
  /\ envios \in {<<>>, <<Palabra(2)>>, <<Palabra(1), Palabra(2)>>,
                 <<Palabra(0), Palabra(1), Palabra(2)>>}
  /\ \E n \in Nat : /\ n = 3 * (Len(escritas) - Len(leidas)) - Fase - Len(envios)
                    /\ Fluye(ida, Fase, n)

InvFlujo ==
  enlace # "memoria" =>
    \/ cliente = "saluda" /\ Saludo
    \/ enlace = "dispatch" /\ Rafaga
    \/ enlace = "interrupt" /\ Corriente

\* The bytes of every socket.
InvTiras ==
  /\ ida \in Tira /\ llegaron \in 0 .. Len(ida)
  /\ envios \in Seq(Tira)
  /\ tamanio \in Nat

---------------------------------------------------------------------------
(* What is read of what was sent *)

LEMMA Vacias ==
  <<>> \in Tira /\ Len(<<>>) = 0 /\ \A s \in Tira : s \o <<>> = s /\ <<>> \o s = s
BY ConcatEmptySeq, EmptySeq DEF Tira

LEMMA Solo ==
  ASSUME NEW a \in Tira, Len(a) = 4
  PROVE  /\ a # <<>>
         /\ SubSeq(a, 1, 4) = a
         /\ SubSeq(a, 5, Len(a)) = <<>>
<1>1. a \o <<>> = a /\ <<>> \in Tira
  BY Vacias
<1>2. /\ a \o <<>> # <<>>
      /\ SubSeq(a \o <<>>, 1, 4) = a
      /\ SubSeq(a \o <<>>, 5, Len(a \o <<>>)) = <<>>
  BY <1>1, Frente
<1> QED
  BY <1>1, <1>2

\* The bytes a begin what is on its way, and r comes after them.
Empieza(s, a, r) ==
  /\ Len(s) >= 4 /\ s # <<>>
  /\ SubSeq(s, 1, 4) = a
  /\ SubSeq(s, 5, Len(s)) = r

LEMMA EmpiezaCon ==
  ASSUME NEW a \in Tira, Len(a) = 4
  PROVE  /\ Empieza(a, a, <<>>)
         /\ \A r \in Tira : Empieza(a \o r, a, r)
BY Solo, Frente DEF Empieza

\* The value of four bytes is that of the four bytes it is read from.
LEMMA ValorDelFrente ==
  ASSUME NEW s \in Tira, NEW a \in Tira, NEW r, Empieza(s, a, r), NEW x
  PROVE  Valor(Stream(s, 4, x)) = Valor(a)
<1>0. Len(s) \in Nat /\ s \in Seq(Octeto)
  BY LenProperties DEF Tira
<1>1. \A i \in 1 .. 4 : SubSeq(s, 1, 4)[i] = s[i]
  <2>1. \A i \in 1 .. 4 : s[i] \in Octeto
    BY <1>0, ElementOfSeq DEF Empieza
  <2>2. \A i \in 1 .. 4 - 1 + 1 : SubSeq(s, 1, 4)[i] = s[1 + i - 1]
    BY <2>1, SubSeqProperties
  <2> QED
    BY <2>2
<1>2. \A i \in 1 .. 4 : Stream(s, 4, x)[i] = s[i]
  BY <1>0 DEF Stream, Empieza
<1> QED
  BY <1>1, <1>2 DEF Valor, Empieza

\* What the stream of size bytes over b is.
EsStream(s, b, size, x) ==
  /\ s \in Tira /\ Len(s) = size
  /\ \A i \in 1 .. size : s[i] = IF i <= Len(b) THEN b[i] ELSE x

LEMMA StreamTipo ==
  ASSUME NEW b \in Tira, NEW size \in Nat, NEW x \in Octeto
  PROVE  EsStream(Stream(b, size, x), b, size, x)
<1>0. Len(b) \in Nat /\ b \in Seq(Octeto)
  BY LenProperties DEF Tira
<1>1. \A i \in 1 .. size : (IF i <= Len(b) THEN b[i] ELSE x) \in Octeto
  BY <1>0, ElementOfSeq
<1>2. Stream(b, size, x) \in [1 .. size -> Octeto]
  BY <1>1 DEF Stream
<1>3. Stream(b, size, x) \in Seq(Octeto)
  BY <1>2, SeqDef
<1>4. Len(Stream(b, size, x)) = size
  BY <1>2, <1>3, LenProperties
<1> QED
  BY <1>3, <1>4 DEF Tira, Stream, EsStream

\* Two streams with the same first integers are read alike.
LEMMA LeerIgual ==
  ASSUME NEW b \in Tira, NEW c \in Tira, NEW n \in Nat,
         Len(b) >= 4 * n, Len(c) >= 4 * n, \A i \in 1 .. 4 * n : b[i] = c[i]
  PROVE  Leer(b, n) = Leer(c, n)
<1>0. Len(b) \in Nat /\ Len(c) \in Nat /\ b \in Seq(Octeto) /\ c \in Seq(Octeto)
  BY LenProperties DEF Tira
<1>1. ASSUME NEW k \in 1 .. n
      PROVE  Valor(SubSeq(b, 4 * k - 3, 4 * k)) = Valor(SubSeq(c, 4 * k - 3, 4 * k))
  <2> DEFINE p == 4 * k - 3
             q == 4 * k
  <2>1. /\ p \in Int /\ q \in Int /\ q - p + 1 = 4
        /\ p .. q \subseteq 1 .. Len(b) /\ p .. q \subseteq 1 .. Len(c)
        /\ p .. q \subseteq 1 .. 4 * n
        /\ \A i \in 1 .. 4 : p + i - 1 \in p .. q
    BY <1>0, <1>1
  <2> HIDE DEF p, q
  <2>2. \A i \in 1 .. q - p + 1 : SubSeq(b, p, q)[i] = b[p + i - 1]
    <3>1. \A i \in p .. q : b[i] \in Octeto
      BY <1>0, <2>1, ElementOfSeq
    <3> QED
      BY <2>1, <3>1, SubSeqProperties
  <2>3. \A i \in 1 .. q - p + 1 : SubSeq(c, p, q)[i] = c[p + i - 1]
    <3>1. \A i \in p .. q : c[i] \in Octeto
      BY <1>0, <2>1, ElementOfSeq
    <3> QED
      BY <2>1, <3>1, SubSeqProperties
  <2>4. \A i \in 1 .. 4 : SubSeq(b, p, q)[i] = SubSeq(c, p, q)[i]
    BY <2>1, <2>2, <2>3
  <2> QED
    BY <2>4 DEF Valor, p, q
<1> QED
  BY <1>1 DEF Leer

---------------------------------------------------------------------------
(* The server reads the integer that comes first *)

Cabe(v) == v \in Nat /\ v < 256 * 256 * 256 * 256

\* recv() takes all it asks for, of what was sent, if it is not cut.
LEMMA RecvEntero ==
  ASSUME InvTiras, NEW n \in Nat, Quitar(n), ~cortada' \/ n <= llegaron
  PROVE  /\ Hay(n) = IF n < Len(ida) THEN n ELSE Len(ida)
         /\ ida' = SubSeq(ida, Hay(n) + 1, Len(ida))
<1> DEFINE m == Len(ida)
<1>1. m \in Nat /\ llegaron \in 0 .. m
  BY LenProperties DEF InvTiras, Tira
<1>2. ida' = SubSeq(ida, Hay(n) + 1, m) /\ (cortada' \/ ~ (Hay(n) < n /\ llegaron < m))
  BY DEF Quitar
<1> HIDE DEF m
<1>3. Hay(n) = IF n < m THEN n ELSE m
  BY <1>1, <1>2 DEF Hay
<1> QED
  BY <1>2, <1>3 DEF m

\* The first four bytes.
LEMMA RecvCuatro ==
  ASSUME InvTiras, NEW a, NEW r, Empieza(ida, a, r), Quitar(4), ~cortada' \/ 4 <= llegaron
  PROVE  Hay(4) = 4 /\ ida' = r
<1>1. Len(ida) >= 4 /\ SubSeq(ida, 5, Len(ida)) = r /\ Len(ida) \in Nat
  BY LenProperties DEF Empieza, InvTiras, Tira
<1>2. Hay(4) = (IF 4 < Len(ida) THEN 4 ELSE Len(ida)) /\ ida' = SubSeq(ida, Hay(4) + 1, Len(ida))
  BY RecvEntero
<1>3. Hay(4) = 4
  BY <1>1, <1>2
<1>4. Hay(4) + 1 = 5
  BY <1>3
<1> QED
  BY <1>1, <1>2, <1>3, <1>4

LEMMA LeeOperacion ==
  ASSUME InvTiras, NEW v, Cabe(v), NEW r, Empieza(ida, Bytes(v), r), recibir_operacion
  PROVE  /\ op' = v /\ ida' = r
         /\ servidor' = IF v = HANDSHAKE THEN "modulo"
                        ELSE IF v \in {CONTEXTO, INTERRUPCION} THEN "tamanio" ELSE "operacion"
         /\ UNCHANGED <<enlace, vuelta, salida, tamanio, leidas>>
<1>1. Valor(SubSeq(ida, 1, 4)) = v
  BY ValorBytes DEF Empieza, Cabe
<1>2. ida' = r
  BY RecvCuatro DEF recibir_operacion
<1> QED
  BY <1>1, <1>2 DEF recibir_operacion

LEMMA LeeTamanio ==
  ASSUME InvTiras, NEW v, Cabe(v), NEW r, Empieza(ida, Bytes(v), r), RecibirTamanio, ~cortada'
  PROVE  /\ tamanio' = v /\ ida' = r /\ servidor' = "datos"
         /\ UNCHANGED <<enlace, vuelta, salida, op, leidas>>
<1>1. Bytes(v) \in Tira /\ Len(Bytes(v)) = 4
  BY BytesTipo DEF Cabe
<1>2. \A x : Valor(Stream(Bytes(v), 4, x)) = v
  <2>1. Empieza(Bytes(v), Bytes(v), <<>>)
    BY <1>1, EmpiezaCon
  <2> QED
    BY <1>1, <2>1, ValorBytes, ValorDelFrente DEF Cabe
<1>3. Hay(4) = 4 /\ ida' = r
  BY RecvCuatro DEF RecibirTamanio
<1>4. SubSeq(ida, 1, Hay(4)) = Bytes(v)
  BY <1>3 DEF Empieza
<1> QED
  BY <1>2, <1>3, <1>4 DEF RecibirTamanio

LEMMA LeeModulo ==
  ASSUME InvTiras, NEW r, Empieza(ida, C0, r), SaludarEnCPU
  PROVE  /\ ida' = r /\ vuelta' = vuelta \o C0 /\ servidor' = "operacion"
         /\ UNCHANGED <<enlace, salida, op, tamanio, leidas>>
<1>1. Valor(SubSeq(ida, 1, 4)) = 0
  BY Constantes DEF Empieza, C0
<1>2. ida' = r
  BY RecvCuatro DEF SaludarEnCPU, handshake_Server
<1> QED
  BY <1>1, <1>2 DEF SaludarEnCPU, handshake_Server, KERNEL, C0

\* Nothing is read of nothing.
LEMMA NadaQueLeer ==
  ASSUME InvTiras, ida = <<>>
  PROVE  /\ ~recibir_operacion /\ ~RecibirTamanio /\ ~SaludarEnCPU
         /\ ~SaludarEnMemoria /\ ~recibir_paquete /\ ~RecibirDatos /\ ~SinLugar
<1>1. Len(ida) = 0
  BY Vacias
<1>2. llegaron = 0
  BY <1>1 DEF InvTiras
<1> QED
  BY <1>2 DEF recibir_operacion, RecibirTamanio, SaludarEnCPU, SaludarEnMemoria, recibir_paquete,
              RecibirDatos, SinLugar, handshake_Server

LEMMA TiposFijos ==
  /\ C0 \in Tira /\ Len(C0) = 4 /\ C1 \in Tira /\ Len(C1) = 4
  /\ Cabe(0) /\ Cabe(1) /\ Cabe(2) /\ Cabe(4)
  /\ <<>> # <<C0>> /\ <<>> # <<C0, C0>>
BY BytesTipo DEF C0, C1, CONTEXTO, Cabe

---------------------------------------------------------------------------
(* The handshake *)

\* Nobody changes the socket.
LEMMA MismoEnlace ==
  ASSUME Next
  PROVE  enlace' = enlace
BY DEF Next, Cliente, Servidor, Red, Pedir, Send, Llegar, TerminarSaludo, TerminarEnvio,
       RecibirRespuesta, enviarTCBCPU, InterrumpirCPU, solicitar_contexto, EnviarOperacion,
       SaludarEnMemoria, SaludarEnCPU, handshake_Server, recibir_operacion, recibir_paquete,
       RecibirTamanio, RecibirDatos, SinLugar

LEMMA SaludoStep ==
  ASSUME InvTiras, enlace \in {"dispatch", "interrupt"}, cliente = "saluda", Saludo, Next
  PROVE  InvFlujo'
<1> USE TiposFijos, Vacias
<1>0. C0 \o C0 \in Tira /\ Empieza(C0, C0, <<>>) /\ Empieza(C0 \o C0, C0, C0)
  BY EmpiezaCon, Frente
<1>1. enlace' = enlace
  BY MismoEnlace
<1>2. CASE Send
  <2>1. Head(<<C0, C0>>) = C0 /\ Tail(<<C0, C0>>) = <<C0>>
        /\ Head(<<C0>>) = C0 /\ Tail(<<C0>>) = <<>>
    OBVIOUS
  <2>2. cliente' = "saluda" /\ UNCHANGED <<vuelta, escritas, servidor, leidas>>
        /\ envios # <<>> /\ ida' = ida \o Head(envios) /\ envios' = Tail(envios)
    BY <1>2 DEF Send, entrada
  <2>3. Saludo'
    BY <2>1, <2>2 DEF Saludo
  <2> QED
    BY <2>2, <2>3 DEF InvFlujo
<1>3. CASE TerminarSaludo
  <2>1. vuelta = C0 /\ escritas = <<>> /\ leidas = <<>> /\ servidor = "operacion"
        /\ envios = <<>> /\ ida = <<>>
    <3>1. Len(vuelta) >= 4
      BY <1>3 DEF TerminarSaludo
    <3> QED
      BY <3>1 DEF Saludo
  <2>2. Valor(SubSeq(vuelta, 1, 4)) = 0 /\ SubSeq(vuelta, 5, Len(vuelta)) = <<>>
    BY <2>1, Solo, Constantes DEF C0
  <2>3. /\ cliente' = "listo" /\ vuelta' = <<>> /\ escritas' = <<>> /\ leidas' = <<>>
        /\ servidor' = "operacion" /\ envios' = <<>> /\ ida' = <<>>
    BY <1>3, <2>1, <2>2 DEF TerminarSaludo, entrada
  <2>4. CASE enlace = "dispatch"
    BY <1>1, <2>3, <2>4, EmptySeq DEF InvFlujo, Rafaga, AlDia
  <2>5. CASE enlace = "interrupt"
    <3>1. Fase' = 0
      BY <2>3 DEF Fase
    <3>2. Fluye(ida', Fase', 0)
      BY <2>3 DEF Fluye
    <3>3. 0 = 3 * (Len(escritas') - Len(leidas')) - Fase' - Len(envios')
      <4>1. Len(escritas') = 0 /\ Len(leidas') = 0 /\ Len(envios') = 0
        BY <2>3
      <4> QED
        BY <3>1, <4>1
    <3>4. Corriente'
      BY <2>3, <3>2, <3>3, EmptySeq DEF Corriente
    <3> QED
      BY <1>1, <2>5, <3>4 DEF InvFlujo
  <2> QED
    BY <2>4, <2>5
<1>4. CASE recibir_operacion
  <2>1. PICK r \in {<<>>, C0} : /\ Empieza(ida, C0, r) /\ vuelta = <<>>
                                /\ escritas = <<>> /\ leidas = <<>>
                                /\ \/ r = <<>> /\ envios = <<C0>>
                                   \/ r = C0 /\ envios = <<>>
    <3>1. servidor = "operacion" /\ ida # <<>>
      BY <1>4, NadaQueLeer DEF recibir_operacion
    <3> QED
      BY <1>0, <3>1 DEF Saludo
  <2>2. /\ ida' = r /\ servidor' = "modulo"
        /\ UNCHANGED <<vuelta, cliente, envios, escritas, leidas>>
    BY <1>4, <2>1, LeeOperacion DEF C0, HANDSHAKE, salida
  <2>3. Saludo'
    BY <2>1, <2>2 DEF Saludo
  <2> QED
    BY <2>2, <2>3 DEF InvFlujo
<1>5. CASE SaludarEnCPU
  <2>1. /\ ida = C0 /\ envios = <<>> /\ vuelta = <<>> /\ escritas = <<>> /\ leidas = <<>>
    <3>1. servidor = "modulo" /\ ida # <<>>
      BY <1>5, NadaQueLeer DEF SaludarEnCPU
    <3> QED
      BY <3>1 DEF Saludo
  <2>2. /\ ida' = <<>> /\ vuelta' = C0 /\ servidor' = "operacion"
        /\ UNCHANGED <<cliente, envios, escritas, leidas>>
    BY <1>0, <1>5, <2>1, LeeModulo DEF salida
  <2>3. Saludo'
    BY <2>1, <2>2 DEF Saludo
  <2> QED
    BY <2>2, <2>3 DEF InvFlujo
<1>6. servidor \in {"operacion", "modulo"}
  BY DEF Saludo
<1>7. CASE Llegar
  <2>1. UNCHANGED <<ida, vuelta, cliente, envios, escritas, servidor, leidas>>
    BY <1>7 DEF Llegar, salida, entrada
  <2>2. Saludo'
    BY <2>1 DEF Saludo
  <2> QED
    BY <2>1, <2>2 DEF InvFlujo
<1> QED
  BY <1>2, <1>3, <1>4, <1>5, <1>6, <1>7
  DEF Next, Cliente, Servidor, Red, Pedir, TerminarEnvio, RecibirRespuesta, enviarTCBCPU,
      InterrumpirCPU, solicitar_contexto, EnviarOperacion, SaludarEnMemoria, recibir_paquete,
      RecibirTamanio, RecibirDatos, SinLugar

---------------------------------------------------------------------------
(* A TCB at a time *)

LEMMA Pega ==
  ASSUME NEW a \in Tira, NEW b \in Tira
  PROVE  a \o b \in Tira /\ Len(a \o b) = Len(a) + Len(b)
BY ConcatProperties DEF Tira

LEMMA TcbTipo ==
  ASSUME NEW t \in Tcbs
  PROVE  SerializarTCB(t) \in Tira /\ Len(SerializarTCB(t)) = 16
<1> DEFINE p1 == Bytes(t[1])
           p2 == Bytes(t[2])
           p3 == Bytes(t[3])
           p4 == Bytes(t[4])
<1>1. \A k \in 1 .. 4 : t[k] \in Nat
  BY ProtocoloAssumption
<1>2. p1 \in Tira /\ p2 \in Tira /\ p3 \in Tira /\ p4 \in Tira
  BY <1>1, BytesTipo
<1>3. Len(p1) = 4 /\ Len(p2) = 4 /\ Len(p3) = 4 /\ Len(p4) = 4
  BY <1>1, BytesTipo
<1>4. SerializarTCB(t) = ((p1 \o p2) \o p3) \o p4
  BY DEF SerializarTCB
<1> HIDE DEF p1, p2, p3, p4
<1>5. p1 \o p2 \in Tira /\ Len(p1 \o p2) = Len(p1) + Len(p2)
  BY <1>2, Pega
<1>6. (p1 \o p2) \o p3 \in Tira /\ Len((p1 \o p2) \o p3) = Len(p1 \o p2) + Len(p3)
  BY <1>2, <1>5, Pega
<1>7. /\ ((p1 \o p2) \o p3) \o p4 \in Tira
      /\ Len(((p1 \o p2) \o p3) \o p4) = Len((p1 \o p2) \o p3) + Len(p4)
  BY <1>2, <1>6, Pega
<1>8. Len(SerializarTCB(t)) = 16
  BY <1>3, <1>4, <1>5, <1>6, <1>7
<1> QED
  BY <1>4, <1>7, <1>8

LEMMA EnviablesTipo ==
  ASSUME NEW size \in Nat, NEW n \in Enviables(size)
  PROVE  n \in Nat /\ n <= size
BY ProtocoloAssumption DEF Enviables

LEMMA C3Tipo ==
  ASSUME NEW t \in Tcbs, NEW n \in Nat, NEW x \in Basura
  PROVE  /\ C3(t, n, x) \in Tira /\ Len(C3(t, n, x)) = n
         /\ \A i \in 1 .. n : C3(t, n, x)[i] = IF i <= 16 THEN SerializarTCB(t)[i] ELSE x
<1>1. x \in Octeto
  BY ProtocoloAssumption DEF Octeto
<1> DEFINE b == SerializarTCB(t)
<1>2. b \in Tira /\ Len(b) = 16
  BY TcbTipo
<1> HIDE DEF b
<1>3. EsStream(Stream(b, n, x), b, n, x)
  BY <1>1, <1>2, StreamTipo
<1> QED
  BY <1>1, <1>2, <1>3 DEF C3, b, EsStream

\* The server sees the fields that were sent, if enough of them was.
LEMMA CamposTCB ==
  ASSUME NEW t \in Tcbs, NEW n \in Nat, NEW x \in Basura
  PROVE  Campos(C3(t, n, x), 4) = RegistroTCB(t, n).campos
<1> DEFINE b == SerializarTCB(t)
           c == C3(t, n, x)
<1>1. b \in Tira /\ Len(b) = 16 /\ 16 \div 4 = 4
  BY TcbTipo
<1>2. /\ c \in Tira /\ Len(c) = n
      /\ \A i \in 1 .. n : c[i] = IF i <= 16 THEN b[i] ELSE x
  BY C3Tipo
<1>3. RegistroTCB(t, n).campos = IF n < 16 THEN FUERA ELSE Leer(b, 4)
  <2>1. RegistroTCB(t, n).campos = IF n < Len(b) THEN FUERA ELSE Leer(b, Len(b) \div 4)
    BY DEF RegistroTCB
  <2> HIDE DEF b
  <2> QED
    BY <1>1, <2>1
<1>4. Campos(c, 4) = IF n >= 16 THEN Leer(c, 4) ELSE FUERA
  BY <1>2 DEF Campos
<1> HIDE DEF b, c
<1>5. CASE n >= 16
  <2>0. 4 * 4 = 16 /\ \A i \in 1 .. 16 : i \in 1 .. n /\ i <= 16
    BY <1>5
  <2>1. Len(b) >= 4 * 4 /\ Len(c) >= 4 * 4
    BY <1>1, <1>2, <1>5, <2>0
  <2>a. \A i \in 1 .. 4 * 4 : c[i] = b[i]
    BY <1>2, <2>0
  <2>b. b \in Tira /\ c \in Tira /\ 4 \in Nat
    BY <1>1, <1>2
  <2>2. Leer(c, 4) = Leer(b, 4)
    BY <2>1, <2>a, <2>b, LeerIgual
  <2> QED
    BY <1>3, <1>4, <1>5, <2>2 DEF c
<1>6. CASE n < 16
  BY <1>3, <1>4, <1>6 DEF c
<1> QED
  BY <1>5, <1>6

LEMMA RegistrarTCB ==
  ASSUME leidas \in Seq(Registrados), NEW t \in Tcbs, NEW n \in Nat
  PROVE  RegistroTCB(t, n) \in Registrados /\ Append(leidas, RegistroTCB(t, n)) \in Seq(Registrados)
<1>1. RegistroTCB(t, n) \in Registrados
  BY DEF Registrados
<1> QED
  BY <1>1, AppendProperties

\* The Kernel sends the next hilo, or finishes with the last one.
LEMMA AlDiaStep ==
  ASSUME InvTiras, enlace = "dispatch", leidas \in Seq(Registrados), AlDia, Next, ~cortada'
  PROVE  Rafaga'
<1>1. CASE enviarTCBCPU
  <2>1. PICK t \in Tcbs, size \in Tamanios, x \in Basura :
          EnviarOperacion(CONTEXTO, size, SerializarTCB(t), x)
    BY <1>1 DEF enviarTCBCPU
  <2>2. PICK n \in Enviables(size) :
          /\ envios' = <<C1, Bytes(size), C3(t, n, x)>>
          /\ escritas' = Append(escritas, RegistroTCB(t, n))
    BY <2>1 DEF EnviarOperacion, C1, C3, RegistroTCB
  <2>3. /\ cliente' = "envia" /\ ida' = <<>> /\ vuelta' = <<>>
        /\ servidor' = "operacion" /\ leidas' = leidas
        /\ escritas' = Append(leidas', RegistroTCB(t, n))
    BY <2>1, <2>2 DEF EnviarOperacion, AlDia, entrada
  <2>4. EnViaje(Bytes(size), C3(t, n, x))'
    BY <2>2, <2>3 DEF EnViaje
  <2>5. Pendiente'
    BY <2>3, <2>4 DEF Pendiente
  <2> QED
    BY <2>3, <2>5 DEF Rafaga
<1>2. CASE TerminarEnvio
  <2>1. /\ cliente' = "espera" /\ vuelta = C0
        /\ UNCHANGED <<enlace, ida, vuelta, envios, escritas, servidor, leidas>>
    BY <1>2 DEF TerminarEnvio, AlDia, entrada
  <2> QED
    BY <2>1 DEF AlDia, Rafaga
<1>3. CASE RecibirRespuesta
  <2>1. vuelta = C0
    BY <1>3 DEF RecibirRespuesta, AlDia
  <2>2. PICK n \in 1 .. 4 : vuelta' = SubSeq(vuelta, n + 1, Len(vuelta)) /\ ~ (n < 4)
    BY <1>3 DEF RecibirRespuesta
  <2>3. vuelta' = <<>>
    <3>1. n + 1 = 5
      BY <2>2
    <3> QED
      BY <2>1, <2>2, <3>1, TiposFijos, Solo
  <2>4. /\ cliente' = "espera datos"
        /\ UNCHANGED <<enlace, ida, envios, escritas, servidor, leidas>>
    BY <1>3 DEF RecibirRespuesta, entrada
  <2> QED
    BY <2>3, <2>4 DEF AlDia, Rafaga
<1>4. CASE Llegar
  BY <1>4 DEF Llegar, salida, entrada, AlDia, Rafaga
<1>5. ~Servidor
  BY NadaQueLeer DEF Servidor, AlDia
<1>6. ~Send /\ ~TerminarSaludo /\ ~InterrumpirCPU /\ ~solicitar_contexto
  BY DEF Send, TerminarSaludo, InterrumpirCPU, solicitar_contexto, AlDia
<1> QED
  BY <1>1, <1>2, <1>3, <1>4, <1>5, <1>6 DEF Next, Cliente, Red, Pedir

\* Nothing more is read once the server fell.
LEMMA CaidaStep ==
  ASSUME enlace = "dispatch", leidas \in Seq(Registrados), Caida, Next
  PROVE  Rafaga'
<1>1. CASE Send \/ Llegar \/ TerminarEnvio
  <2>1. /\ UNCHANGED <<vuelta, escritas, servidor, leidas>> /\ cliente' \in {"envia", "espera"}
    BY <1>1 DEF Send, Llegar, TerminarEnvio, salida, entrada, Caida
  <2> QED
    BY <2>1 DEF Caida, Rafaga
<1>2. ~RecibirRespuesta
  <2>1. Len(<<>>) = 0
    BY Vacias
  <2> QED
    BY <2>1 DEF RecibirRespuesta, Caida
<1>3. ~TerminarSaludo /\ ~enviarTCBCPU /\ ~InterrumpirCPU /\ ~solicitar_contexto
  BY DEF TerminarSaludo, enviarTCBCPU, InterrumpirCPU, solicitar_contexto, EnviarOperacion, Caida
<1>4. ~Servidor
  BY DEF Servidor, SaludarEnMemoria, SaludarEnCPU, recibir_operacion, recibir_paquete,
         RecibirTamanio, RecibirDatos, SinLugar, Caida
<1> QED
  BY <1>1, <1>2, <1>3, <1>4 DEF Next, Cliente, Red, Pedir

\* A TCB on its way goes on: a send, or a read of what was sent.
LEMMA PendienteStep ==
  ASSUME TamaniosDe32, InvTiras, enlace = "dispatch", leidas \in Seq(Registrados), Pendiente, Next,
         ~cortada'
  PROVE  Rafaga'
<1>0. PICK t \in Tcbs, size \in Tamanios, x \in Basura : \E n \in Enviables(size) :
        /\ escritas = Append(leidas, RegistroTCB(t, n))
        /\ servidor = "datos" => tamanio = size
        /\ EnViaje(Bytes(size), C3(t, n, x))
  BY DEF Pendiente
<1>n. PICK n \in Enviables(size) :
        /\ escritas = Append(leidas, RegistroTCB(t, n))
        /\ servidor = "datos" => tamanio = size
        /\ EnViaje(Bytes(size), C3(t, n, x))
  BY <1>0
<1> DEFINE c2 == Bytes(size)
           c3 == C3(t, n, x)
           R == RegistroTCB(t, n)
           \* What is left to prove of the steps that do not take the TCB.
           Sigue == /\ vuelta' = <<>> /\ cliente' \in {"envia", "espera"}
                    /\ cliente' = "espera" => envios' = <<>>
                    /\ UNCHANGED <<escritas, leidas>>
                    /\ servidor' = "datos" => tamanio' = size
<1>m. size \in Nat /\ n \in Nat /\ n <= size
  BY EnviablesTipo, ProtocoloAssumption
<1>a. /\ c2 \in Tira /\ Len(c2) = 4 /\ c3 \in Tira /\ Len(c3) = n
      /\ Cabe(size) /\ C1 \in Tira /\ Len(C1) = 4
  BY <1>m, C3Tipo, BytesTipo, TiposFijos DEF TamaniosDe32, Cabe
<1>b. R \in Registrados /\ Append(leidas, R) \in Seq(Registrados)
      /\ R = [op |-> CONTEXTO, campos |-> R.campos] /\ Campos(c3, 4) = R.campos
  <2>1. R \in Registrados /\ Append(leidas, R) \in Seq(Registrados)
    BY <1>m, RegistrarTCB
  <2>2. Campos(c3, 4) = R.campos
    BY <1>m, CamposTCB
  <2> QED
    BY <2>1, <2>2 DEF RegistroTCB
<1>c. ASSUME Sigue, EnViaje(c2, c3)'
      PROVE  Rafaga'
  BY <1>n, <1>c DEF Pendiente, Rafaga
<1>d. EnViaje(c2, c3) /\ escritas = Append(leidas, R) /\ (servidor = "datos" => tamanio = size)
  BY <1>n
<1>e. vuelta = <<>> /\ cliente \in {"envia", "espera"} /\ (cliente = "espera" => envios = <<>>)
  BY DEF Pendiente
<1> HIDE DEF c2, c3, R
<1>1. CASE Send
  <2>1. /\ envios # <<>> /\ ida' = ida \o Head(envios) /\ envios' = Tail(envios)
        /\ UNCHANGED <<enlace, vuelta, cliente, escritas, servidor, op, tamanio, leidas>>
    BY <1>1 DEF Send, entrada
  <2>2. cliente' = "envia"
    BY <1>e, <2>1
  <2>3. /\ <<>> \o C1 = C1 /\ <<>> \o c2 = c2 /\ <<>> \o c3 = c3
        /\ (C1 \o c2) \o c3 = C1 \o (c2 \o c3)
    <3>1. C1 \in Seq(Octeto) /\ c2 \in Seq(Octeto) /\ c3 \in Seq(Octeto)
      BY <1>a DEF Tira
    <3>2. (C1 \o c2) \o c3 = C1 \o (c2 \o c3)
      BY <3>1, ConcatAssociative
    <3> QED
      BY <1>a, <3>2, Vacias
  <2>4. /\ Head(<<C1, c2, c3>>) = C1 /\ Tail(<<C1, c2, c3>>) = <<c2, c3>>
        /\ Head(<<c2, c3>>) = c2 /\ Tail(<<c2, c3>>) = <<c3>>
        /\ Head(<<c3>>) = c3 /\ Tail(<<c3>>) = <<>>
    OBVIOUS
  <2>5. EnViaje(c2, c3)'
    <3>1. CASE servidor = "operacion"
      BY <1>d, <2>1, <2>3, <2>4, <3>1 DEF EnViaje
    <3>2. CASE servidor = "tamanio"
      BY <1>d, <2>1, <2>3, <2>4, <3>2 DEF EnViaje
    <3>3. CASE servidor = "datos"
      BY <1>d, <2>1, <2>3, <2>4, <3>3 DEF EnViaje
    <3> QED
      BY <1>d, <3>1, <3>2, <3>3 DEF EnViaje
  <2> QED
    BY <1>c, <1>d, <1>e, <2>1, <2>2, <2>5
<1>2. CASE TerminarEnvio
  <2>1. /\ envios = <<>> /\ cliente' = "espera"
        /\ UNCHANGED <<enlace, ida, vuelta, envios, escritas, servidor, op, tamanio, leidas>>
    BY <1>2 DEF TerminarEnvio, entrada
  <2>2. EnViaje(c2, c3)'
    BY <1>d, <2>1 DEF EnViaje
  <2> QED
    BY <1>c, <1>d, <1>e, <2>1, <2>2
<1>3. CASE recibir_operacion
  <2>1. PICK r \in {<<>>, c2, c2 \o c3} :
          /\ Empieza(ida, C1, r)
          /\ \/ envios = <<c2, c3>> /\ r = <<>>
             \/ envios = <<c3>> /\ r = c2
             \/ envios = <<>> /\ r = c2 \o c3
    <3>1. servidor = "operacion" /\ ida # <<>>
      BY <1>3, NadaQueLeer DEF recibir_operacion
    <3>2. c2 \o c3 \in Tira
      BY <1>a, Pega
    <3>3. /\ Empieza(C1, C1, <<>>) /\ Empieza(C1 \o c2, C1, c2)
          /\ Empieza(C1 \o (c2 \o c3), C1, c2 \o c3)
      BY <1>a, <3>2, EmpiezaCon
    <3> QED
      BY <1>d, <3>1, <3>3 DEF EnViaje
  <2>2. /\ op' = CONTEXTO /\ ida' = r /\ servidor' = "tamanio"
        /\ UNCHANGED <<enlace, vuelta, cliente, envios, escritas, tamanio, leidas>>
    BY <1>3, <2>1, TiposFijos, LeeOperacion DEF C1, CONTEXTO, HANDSHAKE, salida
  <2>3. EnViaje(c2, c3)'
    BY <2>1, <2>2 DEF EnViaje
  <2> QED
    BY <1>c, <1>e, <2>2, <2>3
<1>4. CASE RecibirTamanio
  <2>1. PICK r \in {<<>>, c3} :
          /\ Empieza(ida, c2, r) /\ ida \in Tira /\ op = CONTEXTO
          /\ \/ envios = <<c3>> /\ r = <<>>
             \/ envios = <<>> /\ r = c3
    <3>1. servidor = "tamanio" /\ ida # <<>>
      BY <1>4, NadaQueLeer DEF RecibirTamanio
    <3>2. c2 \o c3 \in Tira
      BY <1>a, Pega
    <3>3. Empieza(c2, c2, <<>>) /\ Empieza(c2 \o c3, c2, c3)
      BY <1>a, EmpiezaCon
    <3> QED
      BY <1>a, <1>d, <3>1, <3>2, <3>3 DEF EnViaje
  <2>2. /\ tamanio' = size /\ ida' = r /\ servidor' = "datos"
        /\ UNCHANGED <<enlace, vuelta, cliente, envios, escritas, op, leidas>>
    BY <1>4, <1>a, <2>1, LeeTamanio DEF c2, salida
  <2>3. EnViaje(c2, c3)'
    BY <2>1, <2>2 DEF EnViaje
  <2> QED
    BY <1>c, <1>e, <2>2, <2>3
<1>5. CASE RecibirDatos
  <2>1. op = CONTEXTO /\ tamanio = size /\ envios = <<>> /\ ida = c3
    <3>1. servidor = "datos" /\ ida # <<>>
      BY <1>5, NadaQueLeer DEF RecibirDatos
    <3> QED
      BY <1>d, <3>1 DEF EnViaje
  <2>2. Hay(size) = n /\ ida' = SubSeq(c3, n + 1, n)
    <3>1. Quitar(size)
      BY <1>5, <2>1 DEF RecibirDatos
    <3>2. /\ Hay(size) = IF size < Len(ida) THEN size ELSE Len(ida)
          /\ ida' = SubSeq(ida, Hay(size) + 1, Len(ida))
      BY <1>m, <3>1, RecvEntero
    <3>3. Len(ida) = n
      BY <1>a, <2>1
    <3>4. Hay(size) = n
      BY <1>m, <3>2, <3>3
    <3> QED
      BY <2>1, <3>2, <3>3, <3>4
  <2>3. SubSeq(ida, 1, Hay(tamanio)) = c3
    <3>1. SubSeq(c3, 1, Len(c3)) = c3
      BY <1>a, SubSeqFull DEF Tira
    <3> QED
      BY <1>a, <2>1, <2>2, <3>1
  <2>4. ida' = <<>>
    <3>1. n + 1 \in Int /\ n \in Int /\ n < n + 1
      BY <1>m
    <3>2. SubSeq(c3, n + 1, n) = <<>>
      BY <3>1, SubSeqEmpty
    <3> QED
      BY <2>2, <3>2
  <2>5. /\ leidas' = Append(leidas, R) /\ servidor' = "operacion"
        /\ UNCHANGED <<enlace, cliente, envios, escritas>>
    BY <1>5, <1>b, <2>1, <2>3 DEF RecibirDatos, Esperados, salida
  <2>6. vuelta' = C0
    <3>1. <<>> \o C0 = C0
      BY TiposFijos, Vacias
    <3> QED
      BY <1>5, <1>e, <3>1 DEF RecibirDatos, Atender, C0
  <2>7. AlDia'
    BY <1>d, <1>e, <2>1, <2>4, <2>5, <2>6 DEF AlDia
  <2> QED
    BY <1>b, <2>5, <2>7 DEF Rafaga
<1>6. CASE SinLugar
  <2>1. servidor' = "segv" /\ UNCHANGED <<vuelta, cliente, escritas, leidas>>
    BY <1>6 DEF SinLugar, salida
  <2>2. Caida'
    BY <1>b, <1>d, <1>e, <2>1 DEF Caida
  <2> QED
    BY <2>1, <2>2 DEF Rafaga
<1>7. CASE Llegar
  <2>1. UNCHANGED <<ida, vuelta, cliente, envios, escritas, servidor, op, tamanio, leidas>>
    BY <1>7 DEF Llegar, salida, entrada
  <2>2. EnViaje(c2, c3)'
    BY <1>d, <2>1 DEF EnViaje
  <2> QED
    BY <1>c, <1>d, <1>e, <2>1, <2>2
<1>8. ~TerminarSaludo /\ ~enviarTCBCPU /\ ~InterrumpirCPU /\ ~solicitar_contexto
  BY <1>e DEF TerminarSaludo, enviarTCBCPU, InterrumpirCPU, solicitar_contexto, EnviarOperacion
<1>9. ~RecibirRespuesta /\ ~SaludarEnMemoria /\ ~SaludarEnCPU /\ ~recibir_paquete
  <2>1. Len(<<>>) = 0
    BY Vacias
  <2> QED
    BY <1>d, <1>e, <2>1
    DEF RecibirRespuesta, SaludarEnMemoria, SaludarEnCPU, recibir_paquete, EnViaje
<1> QED
  BY <1>1, <1>2, <1>3, <1>4, <1>5, <1>6, <1>7, <1>8, <1>9 DEF Next, Cliente, Servidor, Red, Pedir

---------------------------------------------------------------------------
(* Interruptions, any number of them on their way *)

LEMMA PalabraTipo ==
  /\ \A k \in 0 .. 2 : Palabra(k) \in Tira /\ Len(Palabra(k)) = 4
  /\ Palabra(0) = Bytes(2) /\ Palabra(1) = Bytes(4) /\ Palabra(2) = C0
BY BytesTipo DEF Palabra, C0, INTERRUPCION

\* Two runs of four bytes that are equal byte by byte.
LEMMA MismosCuatro ==
  ASSUME NEW a \in Tira, NEW b \in Tira, Len(a) = 4, Len(b) = 4,
         \A i \in 1 .. 4 : a[i] = b[i]
  PROVE  a = b
BY SeqEqual DEF Tira

\* The integer that comes first is the one at the place of the server; the others
\* follow it.
LEMMA FluyeFrente ==
  ASSUME NEW s \in Tira, NEW f \in 0 .. 2, NEW n \in Nat, n # 0, Fluye(s, f, n)
  PROVE  \E r \in Tira : /\ Empieza(s, Palabra(f), r)
                         /\ Fluye(r, (f + 1) % 3, n - 1)
<1> DEFINE a == SubSeq(s, 1, 4)
           r == SubSeq(s, 5, Len(s))
<1>0. s \in Seq(Octeto) /\ Len(s) = 4 * n /\ 4 * n \in Nat /\ 4 * n >= 4
  BY DEF Tira, Fluye
<1>1. \A i \in 1 .. 4 * n : s[i] \in Octeto
  BY <1>0, ElementOfSeq
<1>2. a \in Tira /\ Len(a) = 4 /\ \A i \in 1 .. 4 : a[i] = s[i]
  <2>1. \A i \in 1 .. 4 : s[i] \in Octeto
    BY <1>0, <1>1
  <2>2. /\ a \in Seq(Octeto) /\ Len(a) = IF 1 <= 4 THEN 4 - 1 + 1 ELSE 0
        /\ \A i \in 1 .. 4 - 1 + 1 : a[i] = s[1 + i - 1]
    BY <2>1, SubSeqProperties
  <2> HIDE DEF a
  <2> QED
    BY <2>2 DEF Tira
<1>3. r \in Tira /\ Len(r) = 4 * (n - 1) /\ \A i \in 1 .. 4 * (n - 1) : r[i] = s[i + 4]
  <2> DEFINE q == 4 * n
  <2>1. q \in Int /\ 5 \in Int /\ \A i \in 5 .. q : s[i] \in Octeto
    BY <1>0, <1>1
  <2>2. r = SubSeq(s, 5, q)
    BY <1>0
  <2>3. (5 <= q => q - 5 + 1 = 4 * (n - 1)) /\ (~(5 <= q) => 4 * (n - 1) = 0)
    BY <1>0
  <2> HIDE DEF q, r
  <2>4. /\ SubSeq(s, 5, q) \in Seq(Octeto)
        /\ Len(SubSeq(s, 5, q)) = IF 5 <= q THEN q - 5 + 1 ELSE 0
        /\ \A i \in 1 .. q - 5 + 1 : SubSeq(s, 5, q)[i] = s[5 + i - 1]
    BY <2>1, SubSeqProperties
  <2>5. \A i \in 1 .. 4 * (n - 1) : i \in 1 .. q - 5 + 1 /\ 5 + i - 1 = i + 4
    BY <2>1, <2>3
  <2> QED
    BY <2>2, <2>3, <2>4, <2>5 DEF Tira
<1> HIDE DEF a, r
<1>4. a = Palabra(f)
  <2>1. ASSUME NEW i \in 1 .. 4
        PROVE  s[i] = Palabra(f)[i]
    <3>1. 0 \in 0 .. n - 1 /\ 4 * 0 + i = i /\ (f + 0) % 3 = f
      OBVIOUS
    <3>2. s[4 * 0 + i] = Palabra((f + 0) % 3)[i]
      BY <3>1 DEF Fluye
    <3> QED
      BY <3>1, <3>2
  <2> QED
    BY <1>2, <2>1, PalabraTipo, MismosCuatro
<1>5. Fluye(r, (f + 1) % 3, n - 1)
  <2>1. ASSUME NEW j \in 0 .. n - 1 - 1, NEW i \in 1 .. 4
        PROVE  r[4 * j + i] = Palabra((((f + 1) % 3) + j) % 3)[i]
    <3>1. 4 * j + i \in 1 .. 4 * (n - 1) /\ 4 * j + i + 4 = 4 * (j + 1) + i
      OBVIOUS
    <3>2. j + 1 \in 0 .. n - 1 /\ (f + (j + 1)) % 3 = (((f + 1) % 3) + j) % 3
      OBVIOUS
    <3>3. s[4 * (j + 1) + i] = Palabra((f + (j + 1)) % 3)[i]
      BY <3>2 DEF Fluye
    <3> QED
      BY <1>3, <3>1, <3>2, <3>3
  <2> QED
    BY <1>3, <2>1 DEF Fluye
<1>6. Empieza(s, Palabra(f), r)
  <2>1. s # <<>>
    BY <1>0, Vacias
  <2> QED
    BY <1>0, <1>4, <2>1 DEF Empieza, a, r
<1> QED
  BY <1>3, <1>5, <1>6

\* An integer is sent after the ones on their way.
LEMMA FluyeMas ==
  ASSUME NEW s \in Tira, NEW f \in 0 .. 2, NEW n \in Nat, Fluye(s, f, n),
         NEW k \in 0 .. 2, k = (f + n) % 3
  PROVE  s \o Palabra(k) \in Tira /\ Fluye(s \o Palabra(k), f, n + 1)
<1> DEFINE a == Palabra(k)
           t == s \o a
<1>0. s \in Seq(Octeto) /\ Len(s) = 4 * n /\ a \in Seq(Octeto) /\ Len(a) = 4
  BY PalabraTipo DEF Tira, Fluye
<1> HIDE DEF a
<1>1. /\ t \in Seq(Octeto) /\ Len(t) = Len(s) + Len(a)
      /\ \A i \in 1 .. Len(s) + Len(a) : t[i] = IF i <= Len(s) THEN s[i] ELSE a[i - Len(s)]
  BY <1>0, ConcatProperties
<1> HIDE DEF t
<1>2. /\ Len(t) = 4 * (n + 1)
      /\ \A i \in 1 .. 4 * n : t[i] = s[i]
      /\ \A i \in 1 .. 4 : t[4 * n + i] = a[i]
  <2>1. Len(s) + Len(a) = 4 * (n + 1) /\ 4 * n \in Nat
    BY <1>0
  <2>2. \A i \in 1 .. 4 * n : i \in 1 .. Len(s) + Len(a) /\ i <= Len(s)
    BY <1>0
  <2>3. \A i \in 1 .. 4 : /\ 4 * n + i \in 1 .. Len(s) + Len(a) /\ ~(4 * n + i <= Len(s))
                          /\ 4 * n + i - Len(s) = i
    BY <1>0
  <2>4. ASSUME NEW i \in 1 .. 4 * n
        PROVE  t[i] = s[i]
    BY <1>1, <2>2
  <2>5. ASSUME NEW i \in 1 .. 4
        PROVE  t[4 * n + i] = a[i]
    <3> DEFINE h == 4 * n + i
    <3>1. h \in 1 .. Len(s) + Len(a) /\ ~(h <= Len(s)) /\ h - Len(s) = i
      BY <2>3
    <3> HIDE DEF h
    <3>2. t[h] = a[h - Len(s)]
      BY <1>1, <3>1
    <3> QED
      BY <3>1, <3>2 DEF h
  <2> QED
    BY <1>1, <2>1, <2>4, <2>5
<1>3. ASSUME NEW j \in 0 .. n + 1 - 1, NEW i \in 1 .. 4
      PROVE  t[4 * j + i] = Palabra((f + j) % 3)[i]
  <2>1. CASE j = n
    BY <1>2, <2>1 DEF a
  <2>2. CASE j # n
    <3>1. j \in 0 .. n - 1 /\ 4 * j + i \in 1 .. 4 * n
      BY <2>2
    <3> QED
      BY <1>2, <3>1 DEF Fluye
  <2> QED
    BY <2>1, <2>2
<1>4. Fluye(t, f, n + 1)
  BY <1>2, <1>3 DEF Fluye
<1> QED
  BY <1>1, <1>4 DEF Tira, t, a

LEMMA AnotaInterrupcion ==
  ASSUME NEW q \in Seq({RegistroInt})
  PROVE  /\ Append(q, RegistroInt) \in Seq({RegistroInt})
         /\ Len(Append(q, RegistroInt)) = Len(q) + 1
<1> DEFINE S == {RegistroInt}
<1>1. RegistroInt \in S /\ q \in Seq(S)
  OBVIOUS
<1> HIDE DEF S
<1>2. Append(q, RegistroInt) \in Seq(S) /\ Len(Append(q, RegistroInt)) = Len(q) + 1
  BY <1>1, AppendProperties
<1> QED
  BY <1>2 DEF S

\* The operation that InterrumpirCPU writes.
LEMMA MensajeInterrupcion ==
  ASSUME InterrumpirCPU
  PROVE  /\ cliente = "listo" /\ cliente' = "envia"
         /\ envios' = <<Palabra(0), Palabra(1), Palabra(2)>>
         /\ escritas' = Append(escritas, RegistroInt)
         /\ UNCHANGED <<enlace, ida, servidor, op, tamanio, leidas>>
<1>1. C0 \in Tira /\ Len(C0) = 4
  BY TiposFijos
<1>2. Stream(C0, 4, 0) = C0
  <2>1. 0 \in Octeto /\ 4 \in Nat
    BY DEF Octeto
  <2>2. EsStream(Stream(C0, 4, 0), C0, 4, 0)
    BY <1>1, <2>1, StreamTipo
  <2>3. /\ Stream(C0, 4, 0) \in Tira /\ Len(Stream(C0, 4, 0)) = 4
        /\ \A i \in 1 .. 4 : Stream(C0, 4, 0)[i] = C0[i]
    BY <1>1, <2>2 DEF EsStream
  <2> QED
    BY <1>1, <2>2, <2>3, MismosCuatro
<1>3. EnviarOperacion(INTERRUPCION, 4, C0, 0)
  BY DEF InterrumpirCPU, C0
<1>4. (IF 4 < Len(C0) THEN FUERA ELSE Leer(C0, Len(C0) \div 4)) = Leer(C0, 1)
  <2>1. Len(C0) \div 4 = 1 /\ ~(4 < Len(C0))
    BY <1>1
  <2> QED
    BY <2>1
<1>6. Enviables(4) = {4}
  BY ProtocoloAssumption DEF Enviables
<1>5. /\ cliente = "listo" /\ cliente' = "envia"
      /\ envios' = <<Bytes(INTERRUPCION), Bytes(4), Stream(C0, 4, 0)>>
      /\ escritas' = Append(escritas, [op |-> INTERRUPCION,
                                       campos |-> IF 4 < Len(C0) THEN FUERA
                                                  ELSE Leer(C0, Len(C0) \div 4)])
      /\ UNCHANGED <<enlace, ida, servidor, op, tamanio, leidas>>
  BY <1>3, <1>6 DEF EnviarOperacion, entrada
<1> QED
  BY <1>2, <1>4, <1>5, PalabraTipo DEF RegistroInt, INTERRUPCION

\* A step of either end keeps the server in its place.
LEMMA CorrienteStep ==
  ASSUME InvTiras, enlace = "interrupt", Corriente, Next, ~cortada'
  PROVE  Corriente'
<1> DEFINE d == Len(escritas) - Len(leidas)
           f == Fase
           e == Len(envios)
           Tandas == {<<>>, <<Palabra(2)>>, <<Palabra(1), Palabra(2)>>,
                      <<Palabra(0), Palabra(1), Palabra(2)>>}
<1>0. /\ Len(escritas) \in Nat /\ Len(leidas) \in Nat /\ d \in Int /\ f \in 0 .. 2
      /\ ida \in Tira
  <2>1. Len(escritas) \in Nat /\ Len(leidas) \in Nat
    BY LenProperties DEF Corriente
  <2> QED
    BY <2>1 DEF Corriente, Fase
<1>a. PICK n \in Nat : n = 3 * d - f - e /\ Fluye(ida, f, n)
  BY DEF Corriente
<1>b. envios \in Tandas /\ cliente \in {"listo", "envia"} /\ (cliente = "listo" => envios = <<>>)
      /\ escritas \in Seq({RegistroInt}) /\ leidas \in Seq({RegistroInt})
      /\ servidor \in {"operacion", "tamanio", "datos"}
      /\ (servidor # "operacion" => op = INTERRUPCION) /\ (servidor = "datos" => tamanio = 4)
  BY DEF Corriente
<1>c. e \in 0 .. 3 /\ (envios = <<>> <=> e = 0)
  BY <1>b
<1>d. ida # <<>> => n # 0
  <2>1. Len(ida) = 4 * n /\ ida \in Seq(Octeto)
    BY <1>0, <1>a DEF Fluye, Tira
  <2>2. ida # <<>> => Len(ida) # 0
    BY <2>1, EmptySeq
  <2> QED
    BY <2>1, <2>2
<1> HIDE DEF d, e, f, Tandas
<1>1. CASE Send
  <2>1. /\ envios # <<>> /\ ida' = ida \o Head(envios) /\ envios' = Tail(envios)
        /\ UNCHANGED <<enlace, cliente, escritas, servidor, op, tamanio, leidas>>
    BY <1>1 DEF Send, entrada
  <2>2. Head(envios) = Palabra(3 - e) /\ Tail(envios) \in Tandas /\ Len(Tail(envios)) = e - 1
    <3>1. CASE envios = <<Palabra(2)>>
      BY <3>1 DEF e, Tandas
    <3>2. CASE envios = <<Palabra(1), Palabra(2)>>
      BY <3>2 DEF e, Tandas
    <3>3. CASE envios = <<Palabra(0), Palabra(1), Palabra(2)>>
      BY <3>3 DEF e, Tandas
    <3> QED
      BY <1>b, <2>1, <3>1, <3>2, <3>3 DEF Tandas
  <2>3. 3 - e \in 0 .. 2 /\ 3 - e = (f + n) % 3 /\ n + 1 = 3 * d - f - (e - 1) /\ n + 1 \in Nat
    BY <1>0, <1>a, <1>c, <2>1
  <2>4. ida' \in Tira /\ Fluye(ida', f, n + 1)
    BY <1>0, <1>a, <2>1, <2>2, <2>3, FluyeMas
  <2>5. Fase' = f
    BY <2>1 DEF Fase, f
  <2>6. n + 1 = 3 * (Len(escritas') - Len(leidas')) - Fase' - Len(envios')
    BY <2>1, <2>2, <2>3, <2>5 DEF d
  <2> QED
    BY <1>b, <2>1, <2>2, <2>3, <2>4, <2>5, <2>6 DEF Corriente, Tandas
<1>2. CASE InterrumpirCPU
  <2>1. /\ cliente = "listo" /\ cliente' = "envia"
        /\ envios' = <<Palabra(0), Palabra(1), Palabra(2)>>
        /\ escritas' = Append(escritas, RegistroInt)
        /\ UNCHANGED <<enlace, ida, servidor, op, tamanio, leidas>>
    BY <1>2, MensajeInterrupcion
  <2>2. Len(envios') = 3 /\ e = 0
    BY <1>b, <1>c, <2>1
  <2>3. escritas' \in Seq({RegistroInt}) /\ Len(escritas') = Len(escritas) + 1
    BY <1>b, <2>1, AnotaInterrupcion
  <2>4. Fase' = f
    BY <2>1 DEF Fase, f
  <2>5. n = 3 * (Len(escritas') - Len(leidas')) - Fase' - Len(envios')
    BY <1>0, <1>a, <2>1, <2>2, <2>3, <2>4 DEF d
  <2> QED
    BY <1>0, <1>a, <1>b, <2>1, <2>3, <2>4, <2>5 DEF Corriente
<1>3. CASE TerminarEnvio
  <2>1. /\ envios = <<>> /\ cliente' = "listo"
        /\ UNCHANGED <<enlace, ida, envios, escritas, servidor, op, tamanio, leidas>>
    BY <1>3 DEF TerminarEnvio, entrada
  <2>2. Fase' = f
    BY <2>1 DEF Fase, f
  <2>3. n = 3 * (Len(escritas') - Len(leidas')) - Fase' - Len(envios')
    BY <1>a, <2>1, <2>2 DEF d, e
  <2> QED
    BY <1>0, <1>a, <1>b, <2>1, <2>2, <2>3 DEF Corriente, Tandas
<1>4. ASSUME ida # <<>>
      PROVE  \E r \in Tira : Empieza(ida, Palabra(f), r) /\ Fluye(r, (f + 1) % 3, n - 1)
  BY <1>0, <1>a, <1>d, <1>4, FluyeFrente
<1>5. CASE recibir_operacion
  <2>1. servidor = "operacion" /\ f = 0 /\ ida # <<>>
    BY <1>5, NadaQueLeer DEF recibir_operacion, f, Fase
  <2>2. PICK r \in Tira : Empieza(ida, Palabra(f), r) /\ Fluye(r, (f + 1) % 3, n - 1)
    BY <1>4, <2>1
  <2>3. /\ op' = INTERRUPCION /\ ida' = r /\ servidor' = "tamanio"
        /\ UNCHANGED <<enlace, cliente, envios, escritas, leidas>>
    BY <1>5, <2>1, <2>2, PalabraTipo, TiposFijos, LeeOperacion
    DEF INTERRUPCION, CONTEXTO, HANDSHAKE, salida
  <2>4. Fase' = 1 /\ (f + 1) % 3 = 1
    BY <2>1, <2>3 DEF Fase
  <2>5. n - 1 \in Nat /\ n - 1 = 3 * (Len(escritas') - Len(leidas')) - Fase' - Len(envios')
    BY <1>0, <1>a, <1>c, <1>d, <2>1, <2>3, <2>4 DEF d, e
  <2> QED
    BY <1>b, <2>2, <2>3, <2>4, <2>5 DEF Corriente, Tandas
<1>6. CASE RecibirTamanio
  <2>1. servidor = "tamanio" /\ f = 1 /\ ida # <<>>
    BY <1>6, NadaQueLeer DEF RecibirTamanio, f, Fase
  <2>2. PICK r \in Tira : Empieza(ida, Palabra(f), r) /\ Fluye(r, (f + 1) % 3, n - 1)
    BY <1>4, <2>1
  <2>3. /\ tamanio' = 4 /\ ida' = r /\ servidor' = "datos"
        /\ UNCHANGED <<enlace, cliente, envios, op, escritas, leidas>>
    BY <1>0, <1>6, <2>1, <2>2, PalabraTipo, TiposFijos, LeeTamanio DEF salida
  <2>4. Fase' = 2 /\ (f + 1) % 3 = 2
    BY <2>1, <2>3 DEF Fase
  <2>5. n - 1 \in Nat /\ n - 1 = 3 * (Len(escritas') - Len(leidas')) - Fase' - Len(envios')
    BY <1>0, <1>a, <1>c, <1>d, <2>1, <2>3, <2>4 DEF d, e
  <2> QED
    BY <1>b, <2>1, <2>2, <2>3, <2>4, <2>5 DEF Corriente, Tandas
<1>7. CASE RecibirDatos
  <2>1. servidor = "datos" /\ f = 2 /\ ida # <<>> /\ tamanio = 4 /\ op = INTERRUPCION
    BY <1>7, <1>b, NadaQueLeer DEF RecibirDatos, f, Fase
  <2>2. PICK r \in Tira : Empieza(ida, Palabra(f), r) /\ Fluye(r, (f + 1) % 3, n - 1)
    BY <1>4, <2>1
  <2>3. SubSeq(ida, 1, Hay(4)) = C0 /\ ida' = r
    <3>1. Palabra(f) = C0
      BY <2>1, PalabraTipo
    <3>2. Hay(4) = 4 /\ ida' = r
      BY <1>7, <2>1, <2>2, RecvCuatro DEF RecibirDatos
    <3> QED
      BY <2>2, <3>1, <3>2 DEF Empieza
  <2>4. Campos(C0, 1) = Leer(C0, 1)
    BY TiposFijos DEF Campos
  <2>5. /\ leidas' = Append(leidas, RegistroInt) /\ ida' = r /\ servidor' = "operacion"
        /\ UNCHANGED <<enlace, cliente, envios, escritas>>
    BY <1>7, <2>1, <2>3, <2>4 DEF RecibirDatos, Esperados, salida, RegistroInt
  <2>6. leidas' \in Seq({RegistroInt}) /\ Len(leidas') = Len(leidas) + 1
    BY <1>b, <2>5, AnotaInterrupcion
  <2>7. Fase' = 0 /\ (f + 1) % 3 = 0
    BY <2>1, <2>5 DEF Fase
  <2>8. n - 1 \in Nat /\ n - 1 = 3 * (Len(escritas') - Len(leidas')) - Fase' - Len(envios')
    BY <1>0, <1>a, <1>c, <1>d, <2>1, <2>5, <2>6, <2>7 DEF d, e
  <2> QED
    BY <1>b, <2>2, <2>5, <2>6, <2>7, <2>8 DEF Corriente, Tandas
<1>8. /\ ~TerminarSaludo /\ ~RecibirRespuesta /\ ~enviarTCBCPU /\ ~solicitar_contexto
      /\ ~SaludarEnMemoria /\ ~SaludarEnCPU /\ ~recibir_paquete /\ ~SinLugar
  <2>1. servidor = "datos" => ~ (tamanio > Legible)
    BY <1>b, ProtocoloAssumption
  <2> QED
    BY <1>b, <2>1
    DEF TerminarSaludo, RecibirRespuesta, enviarTCBCPU, solicitar_contexto, SaludarEnMemoria,
        SaludarEnCPU, recibir_paquete, SinLugar
<1>9. CASE Llegar
  <2>1. UNCHANGED <<ida, cliente, envios, escritas, servidor, op, tamanio, leidas>>
    BY <1>9 DEF Llegar, salida, entrada
  <2>2. Fase' = Fase
    BY <2>1 DEF Fase
  <2> QED
    BY <2>1, <2>2 DEF Corriente
<1> QED
  BY <1>1, <1>2, <1>3, <1>5, <1>6, <1>7, <1>8, <1>9 DEF Next, Cliente, Servidor, Red, Pedir

---------------------------------------------------------------------------
(* What was read is a prefix of what was sent *)

LEMMA PrefijoIgual ==
  ASSUME NEW S, NEW s \in Seq(S)
  PROVE  IsPrefix(s, s) /\ \A x \in S : IsPrefix(s, Append(s, x))
<1>0. Len(s) \in Nat /\ SubSeq(s, 1, Len(s)) = s
  BY LenProperties, SubSeqFull
<1>1. IsPrefix(s, s)
  BY <1>0 DEF IsPrefix
<1>2. ASSUME NEW x \in S
      PROVE  IsPrefix(s, Append(s, x))
  <2> DEFINE t == Append(s, x)
             m == Len(s)
  <2>1. t \in Seq(S) /\ Len(t) = m + 1 /\ \A i \in 1 .. m : t[i] = s[i]
    BY AppendProperties
  <2>2. m \in Nat /\ \A i \in 1 .. m : s[i] \in S
    BY <1>0, ElementOfSeq
  <2> HIDE DEF t, m
  <2>3. /\ SubSeq(t, 1, m) \in Seq(S)
        /\ Len(SubSeq(t, 1, m)) = IF 1 <= m THEN m - 1 + 1 ELSE 0
        /\ \A i \in 1 .. m - 1 + 1 : SubSeq(t, 1, m)[i] = t[1 + i - 1]
    <3>1. \A i \in 1 .. m : t[i] \in S
      BY <2>1, <2>2
    <3> QED
      BY <2>2, <3>1, SubSeqProperties
  <2> DEFINE r == SubSeq(t, 1, m)
  <2>4. r \in Seq(S) /\ Len(r) = m /\ \A i \in 1 .. m : r[i] = s[i]
    BY <2>1, <2>2, <2>3
  <2> HIDE DEF r
  <2>5. r = s
    BY <2>4, SeqEqual DEF m
  <2> QED
    BY <1>0, <2>1, <2>2, <2>5 DEF IsPrefix, r, m, t
<1> QED
  BY <1>1, <1>2

\* Of two sequences of one and the same thing the shorter is a prefix.
LEMMA PrefijoDeUno ==
  ASSUME NEW c, NEW s \in Seq({c}), NEW t \in Seq({c}), Len(s) <= Len(t)
  PROVE  IsPrefix(s, t)
<1> DEFINE S == {c}
           m == Len(s)
           r == SubSeq(t, 1, m)
<1>0. s \in Seq(S) /\ t \in Seq(S) /\ \A x \in S, y \in S : x = y
  OBVIOUS
<1> HIDE DEF S
<1>1. m \in Nat /\ Len(t) \in Nat
  BY <1>0, LenProperties
<1>2. /\ \A i \in 1 .. m : s[i] \in S
      /\ \A i \in 1 .. m : t[i] \in S
  BY <1>0, <1>1, ElementOfSeq
<1>3. r \in Seq(S) /\ Len(r) = m /\ \A i \in 1 .. m : r[i] = t[i]
  <2> HIDE DEF m
  <2>1. /\ SubSeq(t, 1, m) \in Seq(S)
        /\ Len(SubSeq(t, 1, m)) = IF 1 <= m THEN m - 1 + 1 ELSE 0
        /\ \A i \in 1 .. m - 1 + 1 : SubSeq(t, 1, m)[i] = t[1 + i - 1]
    BY <1>1, <1>2, SubSeqProperties
  <2> QED
    BY <1>1, <2>1
<1> HIDE DEF r
<1>4. \A i \in 1 .. m : r[i] = s[i]
  BY <1>0, <1>2, <1>3
<1>5. r = s
  BY <1>0, <1>3, <1>4, SeqEqual
<1> QED
  BY <1>1, <1>5 DEF IsPrefix, r

LEMMA InvFlujoDa ==
  ASSUME enlace \in Enlaces, InvFlujo
  PROVE  LoEnviadoEsLoLeido
<1>1. CASE Saludo
  <2>1. escritas = <<>> /\ leidas = <<>> /\ <<>> \in Seq(Octeto)
    BY <1>1, EmptySeq DEF Saludo
  <2> QED
    BY <2>1, PrefijoIgual DEF LoEnviadoEsLoLeido
<1>2. CASE Rafaga
  <2>1. CASE Pendiente \/ Caida
    <3>1. PICK r \in Registrados : escritas = Append(leidas, r)
      <4>1. CASE Pendiente
        <5>1. PICK t \in Tcbs, size \in Tamanios : \E n \in Enviables(size) :
                escritas = Append(leidas, RegistroTCB(t, n))
          BY <4>1 DEF Pendiente
        <5>2. PICK n \in Enviables(size) : escritas = Append(leidas, RegistroTCB(t, n))
          BY <5>1
        <5>3. n \in Nat
          BY EnviablesTipo, ProtocoloAssumption
        <5> QED
          BY <5>2, <5>3 DEF Registrados
      <4> QED
        BY <2>1, <4>1 DEF Caida
    <3> QED
      BY <1>2, <3>1, PrefijoIgual DEF Rafaga, LoEnviadoEsLoLeido
  <2>2. CASE AlDia
    BY <1>2, <2>2, PrefijoIgual DEF Rafaga, AlDia, LoEnviadoEsLoLeido
  <2> QED
    BY <1>2, <2>1, <2>2 DEF Rafaga
<1>3. CASE Corriente
  <2>1. escritas \in Seq({RegistroInt}) /\ leidas \in Seq({RegistroInt})
    BY <1>3 DEF Corriente
  <2>2. Len(leidas) <= Len(escritas)
    <3>1. Len(escritas) \in Nat /\ Len(leidas) \in Nat
      BY <2>1, LenProperties
    <3>2. Fase \in Nat /\ Len(envios) \in Nat
      BY <1>3 DEF Corriente, Fase
    <3>3. 3 * (Len(escritas) - Len(leidas)) - Fase - Len(envios) \in Nat
      BY <1>3 DEF Corriente
    <3> QED
      BY <3>1, <3>2, <3>3
  <2> QED
    BY <2>1, <2>2, PrefijoDeUno DEF LoEnviadoEsLoLeido
<1> QED
  BY <1>1, <1>2, <1>3 DEF InvFlujo, LoEnviadoEsLoLeido

---------------------------------------------------------------------------
(* The bytes *)

LEMMA QuitarTiras ==
  ASSUME InvTiras, NEW n \in Nat, Quitar(n)
  PROVE  ida' \in Tira /\ llegaron' \in 0 .. Len(ida')
<1> DEFINE m == Len(ida)
           h == Hay(n)
<1>1. ida \in Seq(Octeto) /\ m \in Nat /\ llegaron \in 0 .. m
  BY LenProperties DEF InvTiras, Tira
<1>2. ida' = SubSeq(ida, h + 1, m) /\ llegaron' = llegaron - h
  BY DEF Quitar
<1>3. \A i \in 1 .. m : ida[i] \in Octeto
  BY <1>1, ElementOfSeq
<1> HIDE DEF m
<1>4. h \in 0 .. llegaron
  BY <1>1 DEF Hay
<1> HIDE DEF h
<1>5. h + 1 \in Int /\ m \in Int /\ \A i \in h + 1 .. m : ida[i] \in Octeto
  BY <1>1, <1>3, <1>4
<1>6. /\ SubSeq(ida, h + 1, m) \in Seq(Octeto)
      /\ Len(SubSeq(ida, h + 1, m)) = IF h + 1 <= m THEN m - (h + 1) + 1 ELSE 0
  BY <1>5, SubSeqProperties
<1>7. Len(ida') = m - h
  BY <1>1, <1>2, <1>4, <1>6
<1> QED
  BY <1>1, <1>2, <1>4, <1>6, <1>7 DEF Tira

\* Four bytes are worth a natural number.
LEMMA ValorTipo ==
  ASSUME NEW b \in Tira, NEW x \in Octeto
  PROVE  Valor(Stream(b, 4, x)) \in Nat
<1>1. EsStream(Stream(b, 4, x), b, 4, x)
  BY StreamTipo
<1> DEFINE c == Stream(b, 4, x)
<1>2. c \in Seq(Octeto) /\ Len(c) = 4
  BY <1>1 DEF EsStream, Tira
<1> HIDE DEF c
<1>3. \A i \in 1 .. 4 : c[i] \in Octeto
  BY <1>2, ElementOfSeq
<1>4. c[1] \in Nat /\ c[2] \in Nat /\ c[3] \in Nat /\ c[4] \in Nat
  BY <1>3 DEF Octeto
<1>5. Valor(c) \in Nat
  BY <1>4, PotenciaValor DEF Valor
<1> QED
  BY <1>5 DEF c

\* What EnviarOperacion leaves to send.
LEMMA EnviosTipo ==
  ASSUME NEW cod \in Nat, NEW size \in Nat, NEW b \in Tira, NEW x \in Octeto,
         EnviarOperacion(cod, size, b, x)
  PROVE  envios' \in Seq(Tira) /\ UNCHANGED <<ida, llegaron, tamanio>>
<1>1. PICK n \in Enviables(size) : envios' = <<Bytes(cod), Bytes(size), Stream(b, n, x)>>
  BY DEF EnviarOperacion
<1>2. n \in Nat
  BY EnviablesTipo
<1>3. Stream(b, n, x) \in Tira /\ Bytes(cod) \in Tira /\ Bytes(size) \in Tira
  BY <1>2, StreamTipo, BytesTipo DEF EsStream
<1> QED
  BY <1>1, <1>3 DEF EnviarOperacion, entrada

LEMMA TirasStep ==
  ASSUME InvTiras, [Next]_vars
  PROVE  InvTiras'
<1>a. ida \in Tira /\ llegaron \in 0 .. Len(ida) /\ envios \in Seq(Tira) /\ tamanio \in Nat
      /\ Len(ida) \in Nat
  BY LenProperties DEF InvTiras, Tira
<1>1. CASE Send
  <2>1. /\ envios # <<>> /\ ida' = ida \o Head(envios) /\ envios' = Tail(envios)
        /\ UNCHANGED <<llegaron, tamanio>>
    BY <1>1 DEF Send, entrada
  <2>2. Head(envios) \in Tira /\ Tail(envios) \in Seq(Tira)
    BY <1>a, <2>1, HeadTailProperties
  <2>3. ida' \in Tira /\ Len(ida') = Len(ida) + Len(Head(envios)) /\ Len(Head(envios)) \in Nat
    BY <1>a, <2>1, <2>2, Pega, LenProperties DEF Tira
  <2>4. llegaron' \in 0 .. Len(ida')
    BY <1>a, <2>1, <2>3
  <2> QED
    BY <1>a, <2>1, <2>2, <2>3, <2>4 DEF InvTiras
<1>2. CASE Llegar
  <2>1. llegaron' \in 0 .. Len(ida) /\ UNCHANGED <<ida, envios, tamanio>>
    BY <1>a, <1>2 DEF Llegar, salida, entrada
  <2> QED
    BY <1>a, <2>1 DEF InvTiras
<1>3. CASE UNCHANGED <<ida, llegaron, envios, tamanio>>
  BY <1>a, <1>3 DEF InvTiras
<1>4. CASE UNCHANGED <<ida, llegaron, tamanio>> /\ envios' \in Seq(Tira)
  BY <1>a, <1>4 DEF InvTiras
<1>5. CASE Pedir
  <2>1. CASE enviarTCBCPU
    <3>1. PICK t \in Tcbs, size \in Tamanios, x \in Basura :
            EnviarOperacion(CONTEXTO, size, SerializarTCB(t), x)
      BY <2>1 DEF enviarTCBCPU
    <3>2. size \in Nat /\ x \in Octeto /\ CONTEXTO \in Nat /\ SerializarTCB(t) \in Tira
      BY TcbTipo, ProtocoloAssumption DEF Octeto, CONTEXTO
    <3> QED
      BY <1>4, <3>1, <3>2, EnviosTipo
  <2>2. CASE InterrumpirCPU
    <3>1. EnviarOperacion(INTERRUPCION, 4, Bytes(0), 0)
      BY <2>2 DEF InterrumpirCPU
    <3>2. INTERRUPCION \in Nat /\ 0 \in Octeto /\ Bytes(0) \in Tira
      BY BytesTipo DEF INTERRUPCION, Octeto
    <3> QED
      BY <1>4, <3>1, <3>2, EnviosTipo
  <2>3. CASE solicitar_contexto
    <3>1. PICK t \in Tcbs : EnviarOperacion(OBTENER_CONTEXTO, 8, Bytes(t[1]) \o Bytes(t[2]), 0)
      BY <2>3 DEF solicitar_contexto
    <3>2. t[1] \in Nat /\ t[2] \in Nat
      BY ProtocoloAssumption
    <3>3. OBTENER_CONTEXTO \in Nat /\ 0 \in Octeto /\ Bytes(t[1]) \o Bytes(t[2]) \in Tira
      BY <3>2, BytesTipo, Pega DEF OBTENER_CONTEXTO, Octeto
    <3> QED
      BY <1>4, <3>1, <3>3, EnviosTipo
  <2> QED
    BY <1>5, <2>1, <2>2, <2>3 DEF Pedir
<1>6. ASSUME NEW n \in Nat, Quitar(n), UNCHANGED <<envios, tamanio>>
      PROVE  InvTiras'
  BY <1>a, <1>6, QuitarTiras DEF InvTiras
<1>7. CASE RecibirTamanio
  <2>1. PICK x \in Octeto : tamanio' = Valor(Stream(SubSeq(ida, 1, Hay(4)), 4, x))
    BY <1>7, ProtocoloAssumption DEF RecibirTamanio, Octeto
  <2>2. SubSeq(ida, 1, Hay(4)) \in Tira
    <3> DEFINE h == Hay(4)
               m == Len(ida)
    <3>1. h \in 0 .. m
      BY <1>a DEF Hay
    <3>2. \A i \in 1 .. m : ida[i] \in Octeto
      BY <1>a, ElementOfSeq DEF Tira
    <3> HIDE DEF h, m
    <3>3. h \in Int /\ \A i \in 1 .. h : ida[i] \in Octeto
      BY <3>1, <3>2 DEF m
    <3> QED
      BY <3>3, SubSeqProperties DEF h, Tira
  <2>3. tamanio' \in Nat
    BY <2>1, <2>2, ValorTipo
  <2>4. UNCHANGED envios /\ Quitar(4)
    BY <1>7 DEF RecibirTamanio, salida
  <2> QED
    BY <1>a, <2>3, <2>4, QuitarTiras DEF InvTiras
<1>8. CASE SaludarEnMemoria \/ SaludarEnCPU \/ recibir_operacion
  <2>1. Quitar(4) /\ UNCHANGED <<envios, tamanio>>
    BY <1>8 DEF SaludarEnMemoria, SaludarEnCPU, handshake_Server, recibir_operacion, salida
  <2> QED
    BY <1>6, <2>1
<1>9. CASE recibir_paquete
  <2>1. Quitar(1) /\ UNCHANGED <<envios, tamanio>>
    BY <1>9 DEF recibir_paquete, salida
  <2> QED
    BY <1>6, <2>1
<1>10. CASE RecibirDatos
  <2>1. Quitar(tamanio) /\ UNCHANGED <<envios, tamanio>>
    BY <1>10 DEF RecibirDatos, salida
  <2> QED
    BY <1>6, <1>a, <2>1
<1>11. CASE TerminarSaludo \/ TerminarEnvio \/ RecibirRespuesta \/ SinLugar
  BY <1>3, <1>11 DEF TerminarSaludo, TerminarEnvio, RecibirRespuesta, SinLugar, salida, entrada
<1>12. CASE UNCHANGED vars
  BY <1>3, <1>12 DEF vars, salida, entrada
<1> QED
  BY <1>1, <1>2, <1>5, <1>7, <1>8, <1>9, <1>10, <1>11, <1>12 DEF Next, Cliente, Servidor, Red

---------------------------------------------------------------------------
(* The theorem *)

LEMMA InitFlujo == Init => enlace \in Enlaces /\ InvFlujo /\ InvTiras
<1>1. CPU = 3 /\ KERNEL = 0
  BY DEF CPU, KERNEL
<1>2. Init => enlace \in Enlaces /\ InvFlujo
  BY <1>1 DEF Init, InvFlujo, Saludo, C0
<1>3. Init => InvTiras
  <2> SUFFICES ASSUME Init
               PROVE  InvTiras
    OBVIOUS
  <2>1. Bytes(0) \in Tira /\ Bytes(IF enlace = "memoria" THEN CPU ELSE KERNEL) \in Tira
    BY <1>1, BytesTipo
  <2>2. envios \in Seq(Tira)
    BY <2>1 DEF Init
  <2> QED
    BY <2>2, Vacias DEF Init, InvTiras
<1> QED
  BY <1>2, <1>3

\* History does not forget.
LEMMA CortadaQueda ==
  ASSUME [Next]_vars, ~cortada'
  PROVE  ~cortada
BY DEF Next, Cliente, Servidor, Red, Pedir, vars

LEMMA NextFlujo ==
  ASSUME TamaniosDe32, InvTiras, enlace \in Enlaces, InvFlujo, [Next]_vars, ~cortada'
  PROVE  InvFlujo'
<1>1. CASE Next
  <2>0. enlace' = enlace
    BY <1>1, MismoEnlace
  <2>1. CASE enlace = "memoria"
    BY <2>0, <2>1 DEF InvFlujo
  <2>2. CASE enlace # "memoria" /\ cliente = "saluda" /\ Saludo
    <3>1. enlace \in {"dispatch", "interrupt"}
      BY <2>2, ProtocoloAssumption
    <3> QED
      BY <1>1, <2>0, <2>2, <3>1, SaludoStep
  <2>3. CASE enlace = "dispatch" /\ Rafaga
    <3>1. leidas \in Seq(Registrados) /\ (Pendiente \/ AlDia \/ Caida)
      BY <2>3 DEF Rafaga
    <3>2. Rafaga'
      BY <1>1, <2>3, <3>1, AlDiaStep, PendienteStep, CaidaStep
    <3> QED
      BY <2>0, <2>3, <3>2 DEF InvFlujo
  <2>4. CASE enlace = "interrupt" /\ Corriente
    <3>1. Corriente'
      BY <1>1, <2>4, CorrienteStep
    <3> QED
      BY <2>0, <2>4, <3>1 DEF InvFlujo
  <2> QED
    BY <2>1, <2>2, <2>3, <2>4 DEF InvFlujo
<1>2. CASE UNCHANGED vars
  <2>1. /\ enlace' = enlace /\ ida' = ida /\ vuelta' = vuelta /\ cliente' = cliente
        /\ envios' = envios /\ escritas' = escritas /\ leidas' = leidas
        /\ servidor' = servidor /\ op' = op /\ tamanio' = tamanio
    BY <1>2 DEF vars, salida, entrada
  <2>2. (Saludo <=> Saludo') /\ (AlDia <=> AlDia') /\ (Caida <=> Caida') /\ Fase' = Fase
    BY <2>1 DEF Saludo, AlDia, Caida, Fase
  <2>3. Pendiente <=> Pendiente'
    BY <2>1 DEF Pendiente, EnViaje
  <2>4. Corriente <=> Corriente'
    BY <2>1, <2>2 DEF Corriente
  <2> QED
    BY <2>1, <2>2, <2>3, <2>4 DEF InvFlujo, Rafaga
<1> QED
  BY <1>1, <1>2

\* On both sockets of the Kernel with the CPU, ServerCPU takes the operations that
\* were sent, in order, with their fields if they were sent whole, for any TCBs, any
\* sizes of 32 bits and any number of operations, however the bytes arrive: only a
\* recv() that is cut short can put the server out of place.
THEOREM LoLeidoEsLoEnviado ==
  ASSUME TamaniosDe32
  PROVE  Spec => []LoEnviadoEsLoLeido
<1> DEFINE Ind == enlace \in Enlaces /\ InvTiras /\ (~cortada => InvFlujo)
<1>1. Init => Ind
  BY InitFlujo
<1>2. Ind /\ [Next]_vars => Ind'
  <2> SUFFICES ASSUME Ind, [Next]_vars
               PROVE  Ind'
    OBVIOUS
  <2>1. enlace' = enlace
    BY MismoEnlace DEF vars
  <2>2. InvTiras'
    BY TirasStep
  <2>3. ~cortada' => InvFlujo'
    BY TamaniosDe32, CortadaQueda, NextFlujo
  <2> QED
    BY <2>1, <2>2, <2>3
<1>3. Ind => LoEnviadoEsLoLeido
  BY InvFlujoDa DEF LoEnviadoEsLoLeido
<1> QED
  BY <1>1, <1>2, <1>3, PTL DEF Spec

=============================================================================
