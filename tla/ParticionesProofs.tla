------------------------- MODULE ParticionesProofs -------------------------
(***************************************************************************)
(* Proofs about Particiones, for every list of sizes, every memory size,   *)
(* every set of requests and both outcomes of free().                      *)
(***************************************************************************)
EXTENDS Particiones, SecuenciasProofs

(***************************************************************************)
(* The fields of the elements of a list of partitions.                     *)
(***************************************************************************)
LEMMA Campos ==
  ASSUME NEW s \in Seq(Particion)
  PROVE  /\ Len(s) \in Nat
         /\ DOMAIN s = 1 .. Len(s)
         /\ \A i \in 1 .. Len(s) :
              s[i].base \in Nat /\ s[i].tamanio \in Nat /\ s[i].estado \in {0, 1}
<1>1. Len(s) \in Nat /\ DOMAIN s = 1 .. Len(s)
  BY LenProperties
<1>2. \A i \in 1 .. Len(s) : s[i] \in Particion
  BY ElementOfSeq
<1>3. \A p \in Particion :
        p.base \in Nat /\ p.tamanio \in Nat /\ p.estado \in {0, 1}
  BY DEF Particion
<1> QED
  BY <1>1, <1>2, <1>3

(***************************************************************************)
(* A join of positions k and k + 1: k keeps its base and gets the size n.  *)
(***************************************************************************)
Junta(s, k, n) == RemoveAt([s EXCEPT ![k].tamanio = n], k + 1)

\* The position in the old list of what stands at position i of the new one.
Previa(i, k) == IF i <= k THEN i ELSE i + 1

LEMMA JuntaElements ==
  ASSUME NEW s \in Seq(Particion), NEW k \in 1 .. Len(s) - 1, NEW n \in Nat,
         n >= s[k].tamanio
  PROVE  /\ Junta(s, k, n) \in Seq(Particion)
         /\ Len(Junta(s, k, n)) = Len(s) - 1
         /\ \A i \in 1 .. Len(s) - 1 :
              /\ Junta(s, k, n)[i].base = s[Previa(i, k)].base
              /\ Junta(s, k, n)[i].estado = s[Previa(i, k)].estado
              /\ Junta(s, k, n)[i].tamanio =
                   IF i = k THEN n ELSE s[Previa(i, k)].tamanio
<1> DEFINE t == [s EXCEPT ![k].tamanio = n]
<1>0. Len(s) \in Nat
  BY LenProperties
<1>1. t \in Seq(Particion) /\ Len(t) = Len(s)
  <2>1. k \in 1 .. Len(s) /\ s[k] \in Particion
    BY <1>0, ElementOfSeq
  <2>2. [s[k] EXCEPT !.tamanio = n] \in Particion
    BY <2>1 DEF Particion
  <2> QED
    BY <2>1, <2>2, ExceptSeq
<1>2. \A i \in 1 .. Len(s) :
        /\ t[i].base = s[i].base
        /\ t[i].estado = s[i].estado
        /\ t[i].tamanio = IF i = k THEN n ELSE s[i].tamanio
  BY SMTT(30) DEF Particion
<1>3. k + 1 \in 1 .. Len(t)
  BY <1>0, <1>1
<1> HIDE DEF t
<1>4. /\ RemoveAt(t, k + 1) \in Seq(Particion)
      /\ Len(RemoveAt(t, k + 1)) = Len(t) - 1
      /\ \A i \in 1 .. Len(t) - 1 :
           RemoveAt(t, k + 1)[i] = IF i < k + 1 THEN t[i] ELSE t[i + 1]
  BY <1>1, <1>3, RemoveAtElements
<1>5. Junta(s, k, n) = RemoveAt(t, k + 1)
  BY DEF Junta, t
<1>6. ASSUME NEW i \in 1 .. Len(s) - 1
      PROVE  /\ Junta(s, k, n)[i] = t[Previa(i, k)]
             /\ Previa(i, k) \in 1 .. Len(s)
             /\ Previa(i, k) = k <=> i = k
  BY <1>0, <1>1, <1>4, <1>5 DEF Previa
<1>7. ASSUME NEW i \in 1 .. Len(s) - 1
      PROVE  /\ Junta(s, k, n)[i].base = s[Previa(i, k)].base
             /\ Junta(s, k, n)[i].estado = s[Previa(i, k)].estado
             /\ Junta(s, k, n)[i].tamanio =
                  IF i = k THEN n ELSE s[Previa(i, k)].tamanio
  BY <1>2, <1>6
<1> QED
  BY <1>1, <1>4, <1>5, <1>7

Tiene(s, p) == \E j \in DOMAIN s : s[j] = p

\* A join of two free partitions leaves the occupied ones as they were.
LEMMA JuntaRespeta ==
  ASSUME NEW s \in Seq(Particion), NEW k \in 1 .. Len(s) - 1, NEW n \in Nat,
         n >= s[k].tamanio, s[k].estado = 0, s[k + 1].estado = 0,
         NEW p, p.estado = 1, Tiene(s, p)
  PROVE  Tiene(Junta(s, k, n), p)
<1> DEFINE q == Junta(s, k, n)
<1>0. Len(s) \in Nat /\ DOMAIN s = 1 .. Len(s)
  BY LenProperties
<1>1. PICK h \in 1 .. Len(s) : s[h] = p
  BY <1>0 DEF Tiene
<1>2. h # k /\ h # k + 1
  BY <1>1
<1>3. PICK j \in 1 .. Len(s) - 1 : Previa(j, k) = h /\ j # k
  <2>1. CASE h < k
    BY <1>0, <2>1 DEF Previa
  <2>2. CASE h > k + 1
    <3>1. h - 1 \in 1 .. Len(s) - 1 /\ Previa(h - 1, k) = h /\ h - 1 # k
      BY <1>0, <2>2 DEF Previa
    <3> QED
      BY <3>1
  <2> QED
    BY <1>0, <1>2, <2>1, <2>2
<1>4. /\ q \in Seq(Particion) /\ Len(q) = Len(s) - 1
      /\ q[j].base = s[h].base /\ q[j].estado = s[h].estado /\ q[j].tamanio = s[h].tamanio
  <2>1. /\ q \in Seq(Particion) /\ Len(q) = Len(s) - 1
        /\ \A i \in 1 .. Len(s) - 1 :
             /\ q[i].base = s[Previa(i, k)].base
             /\ q[i].estado = s[Previa(i, k)].estado
             /\ q[i].tamanio = IF i = k THEN n ELSE s[Previa(i, k)].tamanio
    BY JuntaElements
  <2> HIDE DEF q
  <2> QED
    BY <2>1, <1>3
<1> HIDE DEF q
<1>5. q[j] \in Particion /\ s[h] \in Particion /\ j \in DOMAIN q
  BY <1>4, ElementOfSeq, LenProperties
<1>6. q[j] = s[h]
  <2>1. \A x \in Particion : x = [base |-> x.base, tamanio |-> x.tamanio, estado |-> x.estado]
    BY DEF Particion
  <2> QED
    BY <1>4, <1>5, <2>1, Zenon
<1> QED
  BY <1>1, <1>5, <1>6 DEF Tiene, q

(***************************************************************************)
(* The parts of InvFijas that speak of a list and of grants.               *)
(***************************************************************************)
Bien(s, C) == EnOrden(s) /\ EnMemoria(s) /\ ConDuenio(s, C)

(***************************************************************************)
(* Joining two free neighbours, with the sizes added or (when the code     *)
(* writes to freed memory) not, leaves list and grants in agreement.       *)
(***************************************************************************)
LEMMA JuntaBien ==
  ASSUME NEW s \in Seq(Particion), NEW C, NEW k \in 1 .. Len(s) - 1,
         Bien(s, C), s[k].estado = 0, s[k + 1].estado = 0,
         NEW n \in Nat, n >= s[k].tamanio,
         n <= s[k].tamanio + s[k + 1].tamanio
  PROVE  Junta(s, k, n) \in Seq(Particion) /\ Bien(Junta(s, k, n), C)
<1>0. /\ Len(s) \in Nat
      /\ DOMAIN s = 1 .. Len(s)
      /\ \A i \in 1 .. Len(s) : s[i].base \in Nat /\ s[i].tamanio \in Nat
  BY Campos
<1> DEFINE q == Junta(s, k, n)
<1>2. /\ q \in Seq(Particion)
      /\ Len(q) = Len(s) - 1
      /\ \A i \in 1 .. Len(s) - 1 :
           /\ q[i].base = s[Previa(i, k)].base
           /\ q[i].estado = s[Previa(i, k)].estado
           /\ q[i].tamanio = IF i = k THEN n ELSE s[Previa(i, k)].tamanio
  <2> HIDE DEF Particion
  <2>1. /\ q \in Seq(Particion)
        /\ Len(q) = Len(s) - 1
    BY JuntaElements
  <2>2. ASSUME NEW i \in 1 .. Len(s) - 1
        PROVE  /\ q[i].base = s[Previa(i, k)].base
               /\ q[i].estado = s[Previa(i, k)].estado
               /\ q[i].tamanio = IF i = k THEN n ELSE s[Previa(i, k)].tamanio
    BY JuntaElements
  <2> QED
    BY <2>1, <2>2
<1>3. DOMAIN q = 1 .. Len(s) - 1
  BY <1>2
<1> HIDE DEF q
<1>a. k \in 1 .. Len(s) /\ k + 1 \in 1 .. Len(s)
  BY <1>0
<1>b. s[k].base + n <= s[k + 1].base + s[k + 1].tamanio
  <2>1. Hasta(s[k]) <= s[k + 1].base
    BY <1>0, <1>a, SMTT(30) DEF Bien, EnOrden
  <2>2. s[k].base \in Nat /\ s[k].tamanio \in Nat
        /\ s[k + 1].base \in Nat /\ s[k + 1].tamanio \in Nat
    BY <1>0, <1>a
  <2>3. n <= s[k].tamanio + s[k + 1].tamanio
    BY <1>0
  <2> QED
    BY <2>1, <2>2, <2>3, SMTT(30) DEF Hasta
<1>c. ASSUME NEW i \in DOMAIN q
      PROVE  /\ Previa(i, k) \in 1 .. Len(s)
             /\ i = k => Previa(i, k) = k
             /\ \A m \in DOMAIN q : i < m =>
                  /\ Previa(i, k) < Previa(m, k)
                  /\ i = k => k + 1 < Previa(m, k)
  BY <1>0, <1>3 DEF Previa
<1>4. EnOrden(q)
  <2> SUFFICES ASSUME NEW i \in DOMAIN q, NEW m \in DOMAIN q, i < m
               PROVE  Hasta(q[i]) <= q[m].base /\ q[i].base < q[m].base
    BY DEF EnOrden
  <2>1. Previa(i, k) \in 1 .. Len(s) /\ Previa(m, k) \in 1 .. Len(s)
        /\ Previa(i, k) < Previa(m, k)
    BY <1>c
  <2>2. Hasta(s[Previa(i, k)]) <= s[Previa(m, k)].base
        /\ s[Previa(i, k)].base < s[Previa(m, k)].base
    BY <2>1, <1>0 DEF Bien, EnOrden
  <2>3. q[i].base = s[Previa(i, k)].base /\ q[m].base = s[Previa(m, k)].base
    BY <1>2, <1>3
  <2>4. CASE i = k
    <3>1. k + 1 < Previa(m, k)
      BY <2>4, <1>c
    <3>2. Hasta(s[k + 1]) <= s[Previa(m, k)].base
      BY <3>1, <2>1, <1>0, <1>a DEF Bien, EnOrden
    <3>3. Hasta(q[i]) = s[k].base + n
      BY <2>4, <2>3, <1>c, <1>2, <1>3 DEF Hasta
    <3>4. s[k].base + n \in Nat /\ s[k + 1].base + s[k + 1].tamanio \in Nat
          /\ s[Previa(m, k)].base \in Nat
      BY <1>0, <1>a, <2>1, SMTT(30)
    <3> QED
      BY <2>2, <2>3, <3>2, <3>3, <3>4, <1>b DEF Hasta
  <2>5. CASE i # k
    <3>1. Hasta(q[i]) = Hasta(s[Previa(i, k)])
      BY <2>5, <2>3, <1>2, <1>3 DEF Hasta
    <3> QED
      BY <2>2, <2>3, <3>1
  <2> QED
    BY <2>4, <2>5
<1>5. EnMemoria(q)
  <2> SUFFICES ASSUME NEW i \in DOMAIN q
               PROVE  Hasta(q[i]) <= TamTotal
    BY DEF EnMemoria
  <2>1. Previa(i, k) \in 1 .. Len(s)
    BY <1>c
  <2>2. Hasta(s[Previa(i, k)]) <= TamTotal /\ Hasta(s[k + 1]) <= TamTotal
    BY <2>1, <1>0, <1>a DEF Bien, EnMemoria
  <2>3. CASE i = k
    <3>1. Hasta(q[i]) = s[k].base + n
      BY <2>3, <1>c, <1>2, <1>3 DEF Hasta
    <3>2. s[k].base + n \in Nat /\ s[k + 1].base + s[k + 1].tamanio \in Nat
      BY <1>0, <1>a
    <3> QED
      BY <2>2, <3>1, <3>2, <1>b, ConfigAssumption DEF Hasta
  <2>4. CASE i # k
    BY <2>4, <2>2, <1>2, <1>3 DEF Hasta
  <2> QED
    BY <2>3, <2>4
<1>6. ConDuenio(q, C)
  <2>1. ASSUME NEW c \in C
        PROVE  \E i \in DOMAIN q :
                 q[i].estado = 1 /\ q[i].base = c.base /\ q[i].tamanio >= c.limite
    <3>1. PICK j \in DOMAIN s :
            s[j].estado = 1 /\ s[j].base = c.base /\ s[j].tamanio >= c.limite
      BY DEF Bien, ConDuenio
    <3>2. j # k /\ j # k + 1
      BY <3>1
    <3>3. PICK i \in DOMAIN q : i # k /\ Previa(i, k) = j
      <4>1. CASE j < k
        BY <4>1, <1>0, <1>3, SMTT(30) DEF Previa
      <4>2. CASE j > k + 1
        <5>1. j - 1 \in DOMAIN q /\ j - 1 # k /\ Previa(j - 1, k) = j
          BY <4>2, <1>0, <1>3 DEF Previa
        <5> QED
          BY <5>1
      <4> QED
        BY <3>2, <4>1, <4>2, <1>0
    <3> QED
      BY <3>1, <3>3, <1>2, <1>3
  <2>2. ASSUME NEW i \in DOMAIN q, q[i].estado = 1
        PROVE  \E c \in C : c.base = q[i].base
    <3>1. Previa(i, k) \in DOMAIN s /\ s[Previa(i, k)].estado = 1 /\ s[Previa(i, k)].base = q[i].base
      BY <2>2, <1>0, <1>2, <1>3, <1>c
    <3> QED
      BY <3>1 DEF Bien, ConDuenio
  <2> QED
    BY <2>1, <2>2 DEF Bien, ConDuenio
<1> QED
  BY <1>2, <1>4, <1>5, <1>6 DEF Bien, q

(***************************************************************************)
(* Marking a free partition as occupied by the new grant (asignar_memoria).*)
(***************************************************************************)
LEMMA OcuparBien ==
  ASSUME NEW s \in Seq(Particion), NEW C, NEW i \in 1 .. Len(s), NEW n \in Nat,
         Bien(s, C), s[i].estado = 0, s[i].tamanio >= n
  PROVE  /\ [s EXCEPT ![i].estado = 1] \in Seq(Particion)
         /\ Bien([s EXCEPT ![i].estado = 1],
                 C \cup {[base |-> s[i].base, limite |-> n]})
<1> DEFINE q == [s EXCEPT ![i].estado = 1]
           nueva == [base |-> s[i].base, limite |-> n]
<1>0. /\ Len(s) \in Nat
      /\ DOMAIN s = 1 .. Len(s)
      /\ \A k \in 1 .. Len(s) :
           s[k].base \in Nat /\ s[k].tamanio \in Nat /\ s[k].estado \in {0, 1}
  BY Campos
<1>1. q \in Seq(Particion) /\ Len(q) = Len(s)
  <2>1. s[i] \in Particion
    BY ElementOfSeq
  <2>2. [s[i] EXCEPT !.estado = 1] \in Particion
    BY <2>1 DEF Particion
  <2> QED
    BY <2>2, ExceptSeq
<1>2. \A k \in 1 .. Len(s) :
        /\ q[k].base = s[k].base
        /\ q[k].tamanio = s[k].tamanio
        /\ q[k].estado = IF k = i THEN 1 ELSE s[k].estado
  BY DEF Particion
<1>3. DOMAIN q = 1 .. Len(s)
  BY <1>1
<1>4. nueva.base = s[i].base /\ nueva.limite = n
  OBVIOUS
<1> HIDE DEF q, nueva
<1>5. EnOrden(q) /\ EnMemoria(q)
  BY <1>0, <1>2, <1>3 DEF Bien, EnOrden, EnMemoria, Hasta
<1>6. ASSUME NEW c \in C
      PROVE  c.base # s[i].base
  <2>1. PICK k \in DOMAIN s : s[k].estado = 1 /\ s[k].base = c.base
    BY DEF Bien, ConDuenio
  <2>2. k # i
    BY <2>1
  <2> QED
    BY <2>1, <2>2, <1>0 DEF Bien, EnOrden
<1>7. ConDuenio(q, C \cup {nueva})
  <2>1. ASSUME NEW c \in C \cup {nueva}
        PROVE  \E k \in DOMAIN q :
                 q[k].estado = 1 /\ q[k].base = c.base /\ q[k].tamanio >= c.limite
    <3>1. CASE c = nueva
      BY <3>1, <1>0, <1>2, <1>3, <1>4
    <3>2. CASE c \in C
      <4>1. PICK k \in DOMAIN s :
              s[k].estado = 1 /\ s[k].base = c.base /\ s[k].tamanio >= c.limite
        BY <3>2 DEF Bien, ConDuenio
      <4> QED
        BY <4>1, <1>0, <1>2, <1>3
    <3> QED
      BY <3>1, <3>2
  <2>2. ASSUME NEW k \in DOMAIN q, q[k].estado = 1
        PROVE  \E c \in C \cup {nueva} : c.base = q[k].base
    <3>1. CASE k = i
      BY <3>1, <1>2, <1>4
    <3>2. CASE k # i
      BY <3>2, <2>2, <1>0, <1>2, <1>3 DEF Bien, ConDuenio
    <3> QED
      BY <3>1, <3>2
  <2>3. \A c, d \in C \cup {nueva} : c.base = d.base => c = d
    BY <1>4, <1>6 DEF Bien, ConDuenio
  <2> QED
    BY <2>1, <2>2, <2>3 DEF ConDuenio
<1> QED
  BY <1>1, <1>5, <1>7 DEF Bien, q, nueva

(***************************************************************************)
(* Marking the partition of a grant as free and dropping the grant: the    *)
(* first step of liberar_memoria.                                          *)
(***************************************************************************)
LEMMA LiberarBien ==
  ASSUME NEW s \in Seq(Particion), NEW C, NEW c \in C, NEW i \in 1 .. Len(s),
         Bien(s, C), s[i].base = c.base
  PROVE  /\ [s EXCEPT ![i].estado = 0] \in Seq(Particion)
         /\ Bien([s EXCEPT ![i].estado = 0], C \ {c})
<1> DEFINE q == [s EXCEPT ![i].estado = 0]
<1>0. /\ Len(s) \in Nat
      /\ DOMAIN s = 1 .. Len(s)
      /\ \A k \in 1 .. Len(s) :
           s[k].base \in Nat /\ s[k].tamanio \in Nat /\ s[k].estado \in {0, 1}
  BY Campos
<1>1. q \in Seq(Particion) /\ Len(q) = Len(s)
  <2>1. s[i] \in Particion
    BY ElementOfSeq
  <2>2. [s[i] EXCEPT !.estado = 0] \in Particion
    BY <2>1 DEF Particion
  <2> QED
    BY <2>2, ExceptSeq
<1>2. \A k \in 1 .. Len(s) :
        /\ q[k].base = s[k].base
        /\ q[k].tamanio = s[k].tamanio
        /\ q[k].estado = IF k = i THEN 0 ELSE s[k].estado
  BY DEF Particion
<1>3. DOMAIN q = 1 .. Len(s)
  BY <1>1
<1> HIDE DEF q
<1>5. EnOrden(q) /\ EnMemoria(q)
  BY <1>0, <1>2, <1>3 DEF Bien, EnOrden, EnMemoria, Hasta
<1>6. \A k \in DOMAIN s : s[k].base = s[i].base => k = i
  BY <1>0 DEF Bien, EnOrden
<1>7. ConDuenio(q, C \ {c})
  <2>1. ASSUME NEW d \in C \ {c}
        PROVE  \E k \in DOMAIN q :
                 q[k].estado = 1 /\ q[k].base = d.base /\ q[k].tamanio >= d.limite
    <3>1. PICK k \in DOMAIN s :
            s[k].estado = 1 /\ s[k].base = d.base /\ s[k].tamanio >= d.limite
      BY DEF Bien, ConDuenio
    <3>2. k # i
      BY <3>1 DEF Bien, ConDuenio
    <3> QED
      BY <3>1, <3>2, <1>0, <1>2, <1>3
  <2>2. ASSUME NEW k \in DOMAIN q, q[k].estado = 1
        PROVE  \E d \in C \ {c} : d.base = q[k].base
    <3>1. k # i /\ s[k].estado = 1 /\ q[k].base = s[k].base
      BY <2>2, <1>2, <1>3
    <3>2. PICK d \in C : d.base = s[k].base
      BY <3>1, <1>0, <1>3 DEF Bien, ConDuenio
    <3>3. d # c
      BY <3>1, <3>2, <1>0, <1>3, <1>6
    <3> QED
      BY <3>1, <3>2, <3>3
  <2> QED
    BY <2>1, <2>2 DEF Bien, ConDuenio
<1> QED
  BY <1>1, <1>5, <1>7 DEF Bien, q

---------------------------------------------------------------------------
(***************************************************************************)
(* The loops of the searches.  a[k] is what a loop keeps after position k, *)
(* when it moves on to a position of C only for a smaller weight.          *)
(***************************************************************************)
MejorHasta(x, k, C, w) ==
  IF x = NINGUNA THEN \A j \in C : j > k
  ELSE /\ x \in C /\ x <= k
       /\ \A j \in C : j <= k => w[x] < w[j] \/ (w[x] = w[j] /\ x <= j)

LEMMA Recorre ==
  ASSUME NEW L \in Nat, NEW C \in SUBSET (1 .. L), NEW w \in [1 .. L -> Int],
         NEW a, a[0] = NINGUNA,
         \A k \in 1 .. L :
           a[k] = IF k \in C /\ (a[k - 1] = NINGUNA \/ w[k] < w[a[k - 1]])
                  THEN k ELSE a[k - 1]
  PROVE  MejorHasta(a[L], L, C, w)
<1> DEFINE S == {k \in Nat : k <= L => MejorHasta(a[k], k, C, w)}
<1>1. 0 \in S
  BY DEF MejorHasta
<1>2. ASSUME NEW k \in S
      PROVE  k + 1 \in S
  <2> SUFFICES ASSUME k + 1 <= L
               PROVE  MejorHasta(a[k + 1], k + 1, C, w)
    OBVIOUS
  <2> DEFINE x == a[k]
             m == k + 1
  <2>1. k \in Nat /\ m \in 1 .. L /\ m - 1 = k /\ MejorHasta(x, k, C, w)
    OBVIOUS
  <2>2. a[m] = IF m \in C /\ (x = NINGUNA \/ w[m] < w[x]) THEN m ELSE x
    BY <2>1
  <2>3. \A j \in C : j <= m => j = m \/ j <= k
    BY <2>1
  <2>4. \A j \in C : j > k => j = m \/ j > m
    BY <2>1
  <2>5. m # NINGUNA
    BY <2>1 DEF NINGUNA
  <2>7. m = k + 1
    OBVIOUS
  <2> HIDE DEF x, m
  <2>6. CASE x = NINGUNA
    <3>1. \A j \in C : j > k
      BY <2>1, <2>6 DEF MejorHasta
    <3>2. CASE m \in C
      <4>1. a[m] = m
        BY <2>2, <2>6, <3>2
      <4>2. \A j \in C : j <= m => j = m
        BY <2>1, <2>3, <3>1
      <4> QED
        BY <4>1, <4>2, <2>1, <2>5, <2>7, <3>2 DEF MejorHasta
    <3>3. CASE m \notin C
      <4>1. a[m] = NINGUNA /\ \A j \in C : j > m
        BY <2>2, <2>4, <2>6, <3>1, <3>3
      <4> QED
        BY <4>1, <2>7 DEF MejorHasta
    <3> QED
      BY <3>2, <3>3
  <2>8. CASE x # NINGUNA
    <3>1. /\ x \in C /\ x <= k
          /\ \A j \in C : j <= k => w[x] < w[j] \/ (w[x] = w[j] /\ x <= j)
      BY <2>1, <2>8 DEF MejorHasta
    <3>2. w[x] \in Int /\ (\A j \in C : w[j] \in Int) /\ C \subseteq 1 .. L
      BY <3>1
    <3>3. CASE m \in C /\ w[m] < w[x]
      <4>1. a[m] = m
        BY <2>2, <3>3
      <4>2. ASSUME NEW j \in C, j <= m
            PROVE  w[m] < w[j] \/ (w[m] = w[j] /\ m <= j)
        <5>1. j = m \/ w[x] <= w[j]
          BY <2>3, <3>1, <3>2, <4>2
        <5>2. w[m] \in Int /\ w[x] \in Int /\ w[j] \in Int /\ m \in Int
          BY <2>1, <3>2, <3>3
        <5> QED
          BY <3>3, <5>1, <5>2
      <4> QED
        BY <4>1, <4>2, <2>5, <2>7, <3>3 DEF MejorHasta
    <3>5. CASE ~(m \in C /\ w[m] < w[x])
      <4>1. a[m] = x
        BY <2>2, <2>8, <3>5
      <4>2. m \in C => w[x] <= w[m]
        BY <3>2, <3>5
      <4>3. x <= m
        BY <2>1, <2>7, <3>1, <3>2
      <4>4. \A j \in C : j <= m => w[x] < w[j] \/ (w[x] = w[j] /\ x <= j)
        BY <2>3, <3>1, <3>2, <4>2, <4>3
      <4> QED
        BY <4>1, <4>4, <2>7, <2>8, <3>1 DEF MejorHasta
    <3> QED
      BY <3>3, <3>5
  <2> QED
    BY <2>6, <2>8, <2>7
<1>3. S = Nat
  <2> HIDE DEF S
  <2>1. S \in SUBSET Nat
    BY DEF S
  <2> QED
    BY <1>1, <1>2, <2>1, InduccionNat
<1> QED
  BY <1>3

(***************************************************************************)
(* best_fit, and worst_fit with worst_fit_din: the same loop, which weighs *)
(* the leftovers or their opposites.                                       *)
(***************************************************************************)
Pesos(n) == [i \in DOMAIN particiones |-> Sobrante(i, n)]
Contrapesos(n) == [i \in DOMAIN particiones |-> 0 - Sobrante(i, n)]

LEMMA MejorAjusteBien ==
  ASSUME particiones \in Seq(Particion), NEW n \in Nat
  PROVE  MejorHasta(MejorAjuste(n), Len(particiones), EntranEn(n), Pesos(n))
<1> DEFINE L == Len(particiones)
           T == {SinAjuste} \cup {Ajuste(i, n) : i \in EntranEn(n)}
           b == SinAjuste
           w == Pesos(n)
           paso(m, k) == Mejorar(m, k, n)
           def(g) == [k \in 0 .. L |-> IF k = 0 THEN b ELSE paso(g[k - 1], k)]
           tras == CHOOSE g : g = def(g)
<1>1. MejorAjuste(n) = tras[L].ajuste
  BY DEF MejorAjuste
<1>2. L \in Nat /\ EntranEn(n) \in SUBSET (1 .. L) /\ w \in [1 .. L -> Int]
  BY Campos DEF EntranEn, Pesos, Sobrante
<1>w. \A i \in EntranEn(n) : w[i] = Sobrante(i, n) /\ i # NINGUNA /\ Sobrante(i, n) \in Int
  BY <1>2, Campos DEF Pesos, NINGUNA, Sobrante
<1>8. b \in T
  OBVIOUS
<1>3. ASSUME NEW k \in 1 .. L, NEW m \in T
      PROVE  /\ paso(m, k) \in T
             /\ paso(m, k).ajuste =
                  IF k \in EntranEn(n) /\ (m.ajuste = NINGUNA \/ w[k] < w[m.ajuste])
                  THEN k ELSE m.ajuste
  <2>1. CASE m = SinAjuste
    BY <2>1 DEF Mejorar, SinAjuste, Ajuste
  <2>2. CASE m # SinAjuste
    <3>1. PICK i \in EntranEn(n) : m = Ajuste(i, n)
      BY <2>2
    <3>2. m.ajuste = i /\ m.sobrante = Sobrante(i, n) /\ m.ajuste # NINGUNA
      BY <3>1, <1>w DEF Ajuste
    <3>3. ASSUME k \in EntranEn(n)
          PROVE  w[k] < w[i] <=> Sobrante(k, n) < m.sobrante
      BY <1>w, <3>2, <3>3
    <3>4. Ajuste(k, n).ajuste = k
      BY DEF Ajuste
    <3> QED
      BY <3>1, <3>2, <3>3, <3>4 DEF Mejorar
  <2> QED
    BY <2>1, <2>2
<1>0. b.ajuste = NINGUNA
  BY DEF SinAjuste
<1> HIDE DEF L, T, b, paso, w
<1>4. \E g : g = def(g)
  <2> DEFINE F == [k \in 1 .. L |-> [m \in T |-> paso(m, k)]]
  <2>1. F \in [1 .. L -> [T -> T]]
    BY <1>3
  <2> HIDE DEF F
  <2>2. PICK g \in [0 .. L -> T] : Itera(g, L, b, F)
    BY <1>2, <1>8, <2>1, RecursionExiste
  <2>3. ASSUME NEW k \in 1 .. L
        PROVE  g[k] = paso(g[k - 1], k)
    <3>1. g[k - 1] \in T /\ g[k] = F[k][g[k - 1]]
      BY <1>2, <2>2 DEF Itera
    <3>2. F[k] = [m \in T |-> paso(m, k)]
      BY DEF F
    <3> QED
      BY <3>1, <3>2
  <2>4. g = def(g)
    BY <1>2, <2>2, <2>3 DEF Itera
  <2> QED
    BY <2>4
<1>5. tras = def(tras)
  BY <1>4
<1> HIDE DEF tras
<1>6. tras[0] = b /\ \A k \in 1 .. L : tras[k] = paso(tras[k - 1], k)
  <2>1. PICK f : f = def(tras)
    OBVIOUS
  <2>2. f[0] = b /\ \A k \in 1 .. L : f[k] = paso(tras[k - 1], k)
    BY <1>2, <2>1
  <2> QED
    BY <1>5, <2>1, <2>2
<1>7. \A k \in 0 .. L : tras[k] \in T
  <2>1. Hereda(tras, L, T)
    BY <1>3, <1>6, <1>8 DEF Hereda
  <2> QED
    BY <1>2, <2>1, RecursionEnTipo
<1> DEFINE a == [k \in 0 .. L |-> tras[k].ajuste]
<1>9. MejorHasta(a[L], L, EntranEn(n), w)
  <2>1. a[0] = NINGUNA
    BY <1>0, <1>2, <1>6
  <2>2. ASSUME NEW k \in 1 .. L
        PROVE  a[k] = IF k \in EntranEn(n) /\ (a[k - 1] = NINGUNA \/ w[k] < w[a[k - 1]])
                      THEN k ELSE a[k - 1]
    <3>1. tras[k - 1] \in T /\ k - 1 \in 0 .. L /\ k \in 0 .. L
      BY <1>2, <1>7
    <3>2. /\ a[k] = paso(tras[k - 1], k).ajuste
          /\ a[k - 1] = tras[k - 1].ajuste
      BY <1>6, <3>1
    <3> QED
      BY <1>3, <3>1, <3>2
  <2> HIDE DEF a
  <2> QED
    BY <1>2, <2>1, <2>2, Recorre
<1> QED
  BY <1>1, <1>2, <1>9 DEF L, w

LEMMA PeorAjusteBien ==
  ASSUME particiones \in Seq(Particion), NEW n \in Nat, NEW C \in SUBSET EntranEn(n)
  PROVE  MejorHasta(PeorAjuste(n, C), Len(particiones), C, Contrapesos(n))
<1> DEFINE L == Len(particiones)
           T == {SinAjuste} \cup {Ajuste(i, n) : i \in C}
           b == SinAjuste
           w == Contrapesos(n)
           paso(m, k) == Empeorar(m, k, n, C)
           def(g) == [k \in 0 .. L |-> IF k = 0 THEN b ELSE paso(g[k - 1], k)]
           tras == CHOOSE g : g = def(g)
<1>1. PeorAjuste(n, C) = tras[L].ajuste
  BY DEF PeorAjuste
<1>2. L \in Nat /\ C \in SUBSET (1 .. L) /\ w \in [1 .. L -> Int]
  BY Campos DEF EntranEn, Contrapesos, Sobrante
<1>w. \A i \in C : w[i] = 0 - Sobrante(i, n) /\ i # NINGUNA /\ Sobrante(i, n) \in Int
  BY <1>2, Campos DEF Contrapesos, NINGUNA, Sobrante
<1>8. b \in T
  OBVIOUS
<1>3. ASSUME NEW k \in 1 .. L, NEW m \in T
      PROVE  /\ paso(m, k) \in T
             /\ paso(m, k).ajuste =
                  IF k \in C /\ (m.ajuste = NINGUNA \/ w[k] < w[m.ajuste])
                  THEN k ELSE m.ajuste
  <2>1. CASE m = SinAjuste
    BY <2>1 DEF Empeorar, SinAjuste, Ajuste
  <2>2. CASE m # SinAjuste
    <3>1. PICK i \in C : m = Ajuste(i, n)
      BY <2>2
    <3>2. m.ajuste = i /\ m.sobrante = Sobrante(i, n) /\ m.ajuste # NINGUNA
      BY <3>1, <1>w DEF Ajuste
    <3>3. ASSUME k \in C
          PROVE  w[k] < w[i] <=> Sobrante(k, n) > m.sobrante
      BY <1>w, <3>2, <3>3
    <3>4. Ajuste(k, n).ajuste = k
      BY DEF Ajuste
    <3> QED
      BY <3>1, <3>2, <3>3, <3>4 DEF Empeorar
  <2> QED
    BY <2>1, <2>2
<1>0. b.ajuste = NINGUNA
  BY DEF SinAjuste
<1> HIDE DEF L, T, b, paso, w
<1>4. \E g : g = def(g)
  <2> DEFINE F == [k \in 1 .. L |-> [m \in T |-> paso(m, k)]]
  <2>1. F \in [1 .. L -> [T -> T]]
    BY <1>3
  <2> HIDE DEF F
  <2>2. PICK g \in [0 .. L -> T] : Itera(g, L, b, F)
    BY <1>2, <1>8, <2>1, RecursionExiste
  <2>3. ASSUME NEW k \in 1 .. L
        PROVE  g[k] = paso(g[k - 1], k)
    <3>1. g[k - 1] \in T /\ g[k] = F[k][g[k - 1]]
      BY <1>2, <2>2 DEF Itera
    <3>2. F[k] = [m \in T |-> paso(m, k)]
      BY DEF F
    <3> QED
      BY <3>1, <3>2
  <2>4. g = def(g)
    BY <1>2, <2>2, <2>3 DEF Itera
  <2> QED
    BY <2>4
<1>5. tras = def(tras)
  BY <1>4
<1> HIDE DEF tras
<1>6. tras[0] = b /\ \A k \in 1 .. L : tras[k] = paso(tras[k - 1], k)
  <2>1. PICK f : f = def(tras)
    OBVIOUS
  <2>2. f[0] = b /\ \A k \in 1 .. L : f[k] = paso(tras[k - 1], k)
    BY <1>2, <2>1
  <2> QED
    BY <1>5, <2>1, <2>2
<1>7. \A k \in 0 .. L : tras[k] \in T
  <2>1. Hereda(tras, L, T)
    BY <1>3, <1>6, <1>8 DEF Hereda
  <2> QED
    BY <1>2, <2>1, RecursionEnTipo
<1> DEFINE a == [k \in 0 .. L |-> tras[k].ajuste]
<1>9. MejorHasta(a[L], L, C, w)
  <2>1. a[0] = NINGUNA
    BY <1>0, <1>2, <1>6
  <2>2. ASSUME NEW k \in 1 .. L
        PROVE  a[k] = IF k \in C /\ (a[k - 1] = NINGUNA \/ w[k] < w[a[k - 1]])
                      THEN k ELSE a[k - 1]
    <3>1. tras[k - 1] \in T /\ k - 1 \in 0 .. L /\ k \in 0 .. L
      BY <1>2, <1>7
    <3>2. /\ a[k] = paso(tras[k - 1], k).ajuste
          /\ a[k - 1] = tras[k - 1].ajuste
      BY <1>6, <3>1
    <3> QED
      BY <1>3, <3>1, <3>2
  <2> HIDE DEF a
  <2> QED
    BY <1>2, <2>1, <2>2, Recorre
<1> QED
  BY <1>1, <1>2, <1>9 DEF L, w

(***************************************************************************)
(* Each search, read from its loop: it takes the best of its candidates.   *)
(***************************************************************************)
LEMMA PrimeraDe ==
  ASSUME NEW S \in SUBSET Nat
  PROVE  /\ Primera(S) = {} => S = {}
         /\ \A i \in Primera(S) : i \in S /\ \A j \in S : i <= j
<1>1. S # {} => Primera(S) # {}
  <2> SUFFICES ASSUME S # {} PROVE Primera(S) # {}
    OBVIOUS
  <2>1. Min(S) \in S /\ \A j \in S : Min(S) <= j
    BY MinNat
  <2> QED
    BY <2>1 DEF Primera
<1> QED
  BY <1>1 DEF Primera

LEMMA LazoElige ==
  ASSUME NEW x, NEW L \in Nat, NEW C \in SUBSET (1 .. L), NEW w, MejorHasta(x, L, C, w)
  PROVE  /\ {x} \ {NINGUNA} = {} => C = {}
         /\ \A i \in {x} \ {NINGUNA} :
              i \in C /\ \A j \in C : w[i] < w[j] \/ (w[i] = w[j] /\ i <= j)
<1>1. \A j \in C : j <= L
  OBVIOUS
<1>2. CASE x = NINGUNA
  BY <1>1, <1>2 DEF MejorHasta
<1>3. CASE x # NINGUNA
  BY <1>1, <1>3 DEF MejorHasta
<1> QED
  BY <1>2, <1>3

LEMMA BusquedasEligen ==
  ASSUME particiones \in Seq(Particion), config \in Configs, NEW n \in Nat,
         Busqueda # "stub"
  PROVE  /\ Elegidas(n) = {} => Candidatas(n) = {}
         /\ \A i \in Elegidas(n) :
              i \in Candidatas(n) /\ \A j \in Candidatas(n) : Prefiere(i, j, n)
<1> DEFINE L == Len(particiones)
<1>0. /\ L \in Nat /\ DOMAIN particiones = 1 .. L
      /\ EntranEn(n) \in SUBSET (1 .. L) /\ Holgadas(n) \in SUBSET EntranEn(n)
      /\ \A i \in 1 .. L : Sobrante(i, n) \in Int
  BY Campos DEF EntranEn, Holgadas, Sobrante
<1>1. Busqueda \in {"first_fit", "best_fit", "worst_fit",
                    "first_fit_din", "best_fit_din", "worst_fit_din"}
  BY ConfigAssumption DEF Busqueda, Busquedas, BusquedasFijas, BusquedasDinamicas
<1>p. \A i \in 1 .. L : Pesos(n)[i] = Sobrante(i, n) /\ Contrapesos(n)[i] = 0 - Sobrante(i, n)
  BY <1>0 DEF Pesos, Contrapesos
<1> HIDE DEF L
<1>2. CASE Busqueda \in {"first_fit", "first_fit_din"}
  <2>1. Elegidas(n) = Primera(EntranEn(n)) /\ Candidatas(n) = EntranEn(n)
    BY <1>2 DEF Elegidas, first_fit, Candidatas
  <2>2. \A i, j : i <= j => Prefiere(i, j, n)
    BY <1>2 DEF Prefiere
  <2>3. EntranEn(n) \in SUBSET Nat
    BY <1>0
  <2> QED
    BY <2>1, <2>2, <2>3, PrimeraDe
<1>3. CASE Busqueda \in {"best_fit", "best_fit_din"}
  <2>1. Elegidas(n) = {MejorAjuste(n)} \ {NINGUNA} /\ Candidatas(n) = EntranEn(n)
    BY <1>3 DEF Elegidas, best_fit, Candidatas
  <2>2. MejorHasta(MejorAjuste(n), L, EntranEn(n), Pesos(n))
    BY MejorAjusteBien DEF L
  <2>3. /\ Elegidas(n) = {} => EntranEn(n) = {}
        /\ \A i \in Elegidas(n) :
             i \in EntranEn(n) /\ \A j \in EntranEn(n) :
               Pesos(n)[i] < Pesos(n)[j] \/ (Pesos(n)[i] = Pesos(n)[j] /\ i <= j)
    BY <2>1, <2>2, <1>0, LazoElige
  <2>4. ASSUME NEW i \in EntranEn(n), NEW j \in EntranEn(n),
               Pesos(n)[i] < Pesos(n)[j] \/ (Pesos(n)[i] = Pesos(n)[j] /\ i <= j)
        PROVE  Prefiere(i, j, n)
    BY <1>0, <1>3, <1>p, <2>4 DEF Prefiere
  <2> QED
    BY <2>1, <2>3, <2>4
<1>4. CASE Busqueda \in {"worst_fit", "worst_fit_din"}
  <2> DEFINE C == Candidatas(n)
  <2>1. Elegidas(n) = {PeorAjuste(n, C)} \ {NINGUNA} /\ C \in SUBSET EntranEn(n)
    BY <1>0, <1>4 DEF Elegidas, worst_fit, worst_fit_din, Candidatas
  <2> HIDE DEF C
  <2>2. MejorHasta(PeorAjuste(n, C), L, C, Contrapesos(n))
    BY <2>1, PeorAjusteBien DEF L
  <2>0. C \in SUBSET (1 .. L)
    BY <1>0, <2>1
  <2>3. /\ Elegidas(n) = {} => C = {}
        /\ \A i \in Elegidas(n) :
             i \in C /\ \A j \in C :
               \/ Contrapesos(n)[i] < Contrapesos(n)[j]
               \/ Contrapesos(n)[i] = Contrapesos(n)[j] /\ i <= j
    BY <2>0, <2>1, <2>2, <1>0, LazoElige
  <2>4. ASSUME NEW i \in C, NEW j \in C,
               \/ Contrapesos(n)[i] < Contrapesos(n)[j]
               \/ Contrapesos(n)[i] = Contrapesos(n)[j] /\ i <= j
        PROVE  Prefiere(i, j, n)
    <3>1. Sobrante(i, n) > Sobrante(j, n) \/ (Sobrante(i, n) = Sobrante(j, n) /\ i <= j)
      BY <1>0, <1>p, <2>0, <2>4
    <3> QED
      BY <1>4, <3>1 DEF Prefiere
  <2> QED
    BY <2>3, <2>4 DEF C
<1> QED
  BY <1>1, <1>2, <1>3, <1>4

LEMMA ElegidasEntran ==
  ASSUME particiones \in Seq(Particion), config \in Configs,
         NEW n \in Nat, NEW i \in Elegidas(n)
  PROVE  /\ i \in DOMAIN particiones
         /\ particiones[i].estado = 0
         /\ particiones[i].tamanio >= n
<1>1. Busqueda # "stub"
  BY DEF Elegidas
<1>2. i \in Candidatas(n)
  BY <1>1, BusquedasEligen
<1> QED
  BY <1>2 DEF Candidatas, Holgadas, EntranEn

(***************************************************************************)
(* What the two joins of liberar_memoria do, said with Junta.              *)
(***************************************************************************)
Marcada(i) == [particiones EXCEPT ![i].estado = 0]

LEMMA FormaAnterior ==
  ASSUME particiones \in Seq(Particion), NEW i \in DOMAIN particiones
  PROVE  TrasAnterior(i) =
           IF FusionaAnterior(i)
           THEN Junta(Marcada(i), i - 1,
                      Marcada(i)[i - 1].tamanio + Marcada(i)[i].tamanio)
           ELSE Marcada(i)
<1>1. i \in Nat /\ i - 1 + 1 = i
  BY Campos
<1> QED
  BY <1>1 DEF TrasAnterior, Junta, Marcada

LEMMA FormaSiguiente ==
  ASSUME NEW i, NEW k, k = IndiceTras(i),
         TrasAnterior(i) \in Seq(Particion),
         k \in 1 .. Len(TrasAnterior(i)) - 1
  PROVE  TrasSiguiente(i) =
           Junta(TrasAnterior(i), k,
                 IF FusionaAnterior(i)
                 THEN TrasAnterior(i)[k].tamanio
                 ELSE TrasAnterior(i)[k].tamanio + TrasAnterior(i)[k + 1].tamanio)
<1> DEFINE s == TrasAnterior(i)
<1>1. CASE FusionaAnterior(i)
  <2>1. s[k] \in Particion /\ k \in 1 .. Len(s)
    BY ElementOfSeq, LenProperties
  <2>2. [s[k] EXCEPT !.tamanio = s[k].tamanio] = s[k]
    BY <2>1 DEF Particion
  <2>3. [s EXCEPT ![k].tamanio = s[k].tamanio] = s
    BY <2>1, <2>2
  <2>4. TrasSiguiente(i) = RemoveAt(s, k + 1)
    BY <1>1 DEF TrasSiguiente
  <2> QED
    BY <1>1, <2>3, <2>4 DEF Junta
<1>2. CASE ~FusionaAnterior(i)
  BY <1>2 DEF TrasSiguiente, Junta
<1> QED
  BY <1>1, <1>2

---------------------------------------------------------------------------
(***************************************************************************)
(* Whatever join liberar_memoria makes, the list stays a list; when list   *)
(* and grants agreed, they still agree; and the other partitions that are  *)
(* occupied stay as they were.                                             *)
(***************************************************************************)
LEMMA LiberarEnTipos ==
  ASSUME TypeOK, NEW c \in concedidas, NEW i \in DOMAIN particiones,
         LiberarEn(i, c)
  PROVE  /\ particiones' \in Seq(Particion)
         /\ Bien(particiones, concedidas) /\ particiones[i].base = c.base =>
              Bien(particiones', concedidas')
         /\ \A h \in DOMAIN particiones : h # i /\ particiones[h].estado = 1 =>
              Tiene(particiones', particiones[h])
<1> DEFINE m == Marcada(i)
           a == TrasAnterior(i)
           k == IndiceTras(i)
           C == concedidas \ {c}
           Antes == Bien(particiones, concedidas) /\ particiones[i].base = c.base
           Otra(p) == p.estado = 1 /\ \E h \in DOMAIN particiones : h # i /\ particiones[h] = p
<1>0. /\ particiones \in Seq(Particion)
      /\ Len(particiones) \in Nat
      /\ i \in 1 .. Len(particiones)
  BY Campos DEF TypeOK
<1>1. /\ m \in Seq(Particion)
      /\ Len(m) = Len(particiones)
      /\ m[i].estado = 0
      /\ i > 1 => m[i - 1].estado = particiones[i - 1].estado
  <2>1. particiones[i] \in Particion
    BY <1>0, ElementOfSeq
  <2>2. [particiones[i] EXCEPT !.estado = 0] \in Particion
    BY <2>1 DEF Particion
  <2>3. m \in Seq(Particion) /\ Len(m) = Len(particiones)
    BY <1>0, <2>2, ExceptSeq DEF Marcada
  <2> QED
    BY <1>0, <2>3 DEF Marcada, Particion
<1>2. Antes => Bien(m, C)
  BY <1>0, LiberarBien DEF Marcada
<1>o. ASSUME NEW p, Otra(p)
      PROVE  Tiene(m, p)
  <2>1. PICK h \in DOMAIN particiones : h # i /\ particiones[h] = p
    BY <1>o
  <2>2. h \in DOMAIN m /\ m[h] = particiones[h]
    BY <2>1 DEF Marcada
  <2> QED
    BY <2>1, <2>2 DEF Tiene
<1> HIDE DEF m
<1>3. a \in Seq(Particion) /\ (Antes => Bien(a, C)) /\ (\A p : Otra(p) => Tiene(a, p))
      /\ k \in 1 .. Len(a) /\ a[k].estado = 0
  <2>1. CASE FusionaAnterior(i)
    <3> DEFINE n == m[i - 1].tamanio + m[i].tamanio
    <3>1. /\ i - 1 \in 1 .. Len(m) - 1 /\ i - 1 + 1 = i
          /\ m[i - 1].estado = 0
      BY <2>1, <1>0, <1>1 DEF FusionaAnterior
    <3>2. m[i - 1].tamanio \in Nat /\ m[i].tamanio \in Nat
      BY <3>1, <1>0, <1>1, Campos
    <3>3. n \in Nat /\ n >= m[i - 1].tamanio
      BY <3>2
    <3>4. a = Junta(m, i - 1, n) /\ k = i - 1
      BY <2>1, <1>0, FormaAnterior DEF IndiceTras, m
    <3> HIDE DEF n
    <3>5. /\ a \in Seq(Particion)
          /\ Len(a) = Len(m) - 1
          /\ a[i - 1].estado = m[Previa(i - 1, i - 1)].estado
      <4> DEFINE h == i - 1
      <4>1. h \in 1 .. Len(m) - 1 /\ n >= m[h].tamanio /\ a = Junta(m, h, n)
        BY <3>1, <3>3, <3>4
      <4> HIDE DEF h, a
      <4>2. /\ a \in Seq(Particion)
            /\ Len(a) = Len(m) - 1
            /\ a[h].estado = m[Previa(h, h)].estado
        <5>1. /\ Junta(m, h, n) \in Seq(Particion)
              /\ Len(Junta(m, h, n)) = Len(m) - 1
              /\ \A j \in 1 .. Len(m) - 1 : Junta(m, h, n)[j].estado = m[Previa(j, h)].estado
          <6>1. /\ m \in Seq(Particion) /\ h \in 1 .. Len(m) - 1
                /\ n \in Nat /\ n >= m[h].tamanio
            BY <4>1, <3>3, <1>1
          <6> QED
            BY <6>1, JuntaElements
        <5> QED
          BY <4>1, <5>1
      <4> QED
        BY <4>2 DEF h
    <3>6. ASSUME Antes
          PROVE  Bien(a, C)
      <4>1. Bien(m, C)
        BY <3>6, <1>2
      <4>2. n <= m[i - 1].tamanio + m[i - 1 + 1].tamanio
        BY <3>1, <3>2 DEF n
      <4>3. m[i - 1 + 1].estado = 0
        BY <3>1, <1>1
      <4> HIDE DEF a, C, k
      <4> QED
        BY <4>1, <4>2, <4>3, <3>1, <3>3, <3>4, <1>1, JuntaBien
    <3>7. ASSUME NEW p, Otra(p)
          PROVE  Tiene(a, p)
      <4>1. m[i - 1 + 1].estado = 0 /\ p.estado = 1 /\ Tiene(m, p)
        BY <3>1, <3>7, <1>1, <1>o
      <4> HIDE DEF a, k, Otra
      <4> QED
        BY <4>1, <3>1, <3>3, <3>4, <1>1, JuntaRespeta
    <3> HIDE DEF Otra
    <3> QED
      BY <3>1, <3>4, <3>5, <3>6, <3>7, <1>0, <1>1 DEF Previa
  <2>2. CASE ~FusionaAnterior(i)
    <3>1. a = m /\ k = i
      BY <2>2, <1>0, FormaAnterior DEF IndiceTras, m
    <3> HIDE DEF Otra
    <3> QED
      BY <3>1, <1>0, <1>1, <1>2, <1>o
  <2> QED
    BY <2>1, <2>2
<1>4. concedidas' = C
  BY DEF LiberarEn
<1> HIDE DEF a, k, C
<1>r. ASSUME \A p : Otra(p) => Tiene(particiones', p)
      PROVE  \A h \in DOMAIN particiones : h # i /\ particiones[h].estado = 1 =>
               Tiene(particiones', particiones[h])
  BY <1>r
<1> HIDE DEF Otra
<1>5. CASE ~FusionaSiguiente(i)
  <2>1. particiones' = a
    BY <1>5 DEF LiberarEn, a
  <2> QED
    BY <2>1, <1>3, <1>4, <1>r
<1>6. CASE FusionaSiguiente(i)
  <2> DEFINE n == IF FusionaAnterior(i)
                  THEN a[k].tamanio
                  ELSE a[k].tamanio + a[k + 1].tamanio
  <2>1. /\ k \in 1 .. Len(a) - 1
        /\ a[k + 1].estado = 0
    BY <1>6, <1>3, LenProperties DEF FusionaSiguiente, HaySiguiente, a, k
  <2>2. a[k].tamanio \in Nat /\ a[k + 1].tamanio \in Nat
    BY <2>1, <1>3, Campos
  <2>3. n \in Nat /\ n >= a[k].tamanio /\ n <= a[k].tamanio + a[k + 1].tamanio
    BY <2>2
  <2>4. particiones' = Junta(a, k, n)
    <3>1. particiones' = TrasSiguiente(i)
      BY <1>6 DEF LiberarEn
    <3> QED
      BY <3>1, <2>1, <1>3, FormaSiguiente DEF a, k
  <2> HIDE DEF n
  <2>5. Junta(a, k, n) \in Seq(Particion)
    BY <2>1, <2>3, <1>3, JuntaElements
  <2>6. ASSUME Antes
        PROVE  Bien(Junta(a, k, n), C)
    BY <2>6, <2>1, <2>3, <1>3, JuntaBien
  <2>7. ASSUME NEW p, Otra(p)
        PROVE  Tiene(Junta(a, k, n), p)
    <3>1. p.estado = 1 /\ Tiene(a, p)
      BY <2>7, <1>3 DEF Otra
    <3> QED
      BY <3>1, <2>1, <2>3, <1>3, JuntaRespeta
  <2> QED
    BY <2>4, <2>5, <2>6, <2>7, <1>4, <1>r
<1> QED
  BY <1>5, <1>6

---------------------------------------------------------------------------
(***************************************************************************)
(* Partition list, grants and process state keep their types along every   *)
(* behaviour, for every search, split and join (all of Particiones).       *)
(***************************************************************************)
LEMMA TiposStep == TypeOK /\ [Next]_vars => TypeOK'
<1> SUFFICES ASSUME TypeOK, [Next]_vars
             PROVE  TypeOK'
  OBVIOUS
<1>0. /\ particiones \in Seq(Particion)
      /\ Len(particiones) \in Nat
      /\ DOMAIN particiones = 1 .. Len(particiones)
      /\ \A k \in DOMAIN particiones :
           /\ particiones[k] \in Particion
           /\ particiones[k].base \in Nat /\ particiones[k].tamanio \in Nat
  BY Campos, ElementOfSeq DEF TypeOK
<1>c. config' \in Configs
  BY DEF TypeOK, Next, vars
<1> USE <1>c
<1>1. CASE GestionarParticiones
  <2>1. CASE AgregarFija
    <3>1. BaseSiguiente \in Nat
      BY <1>0 DEF BaseSiguiente, Last, Hasta
    <3>2. PICK p : /\ p = [base    |-> BaseSiguiente,
                           tamanio |-> config.lista[Len(particiones) + 1],
                           estado  |-> 0]
                   /\ \/ /\ particiones' = Append(particiones, p)
                         /\ proceso' = proceso
                      \/ /\ particiones' = particiones
                         /\ proceso' = "salio"
      BY <2>1 DEF AgregarFija
    <3>3. config.lista[Len(particiones) + 1] \in Nat
      BY <2>1, <1>0, ConfigAssumption DEF AgregarFija, TypeOK
    <3>4. p \in Particion
      BY <3>1, <3>2, <3>3 DEF Particion
    <3>5. particiones' \in Seq(Particion)
      BY <3>2, <3>4, <1>0, AppendProperties
    <3> QED
      BY <3>2, <3>5, <1>1 DEF TypeOK, GestionarParticiones, Finales
  <2>2. CASE TerminarFijas
    BY <1>1, <2>2 DEF TypeOK, GestionarParticiones, TerminarFijas
  <2>3. CASE CrearUnica
    <3>1. UnaSolaParticion \in Seq(Particion)
      <4>1. [base |-> 0, tamanio |-> TamTotal, estado |-> 0] \in Particion
        BY ConfigAssumption DEF Particion
      <4> QED
        BY <4>1 DEF UnaSolaParticion
    <3> QED
      BY <3>1, <1>1, <2>3 DEF TypeOK, GestionarParticiones, CrearUnica
  <2>4. CASE SalirPorEsquema
    BY <1>1, <2>4 DEF TypeOK, GestionarParticiones, SalirPorEsquema, Finales
  <2> QED
    BY <1>1, <2>1, <2>2, <2>3, <2>4 DEF GestionarParticiones
<1>2. ASSUME NEW n \in Pedidos, AsignarMemoria(n)
      PROVE  TypeOK'
  <2>0. n \in Nat
    BY ConfigAssumption
  <2>1. ASSUME NEW i \in Elegidas(n)
        PROVE  /\ i \in DOMAIN particiones
               /\ Otorgada(i, n) \in Concesion
               /\ particiones[i].tamanio >= n
    BY <2>0, <1>0, ElegidasEntran DEF TypeOK, Otorgada, Concesion
  <2>2. CASE AsignarFija(n)
    <3>1. PICK i \in Elegidas(n) :
            /\ particiones' = [particiones EXCEPT ![i].estado = 1]
            /\ concedidas' = concedidas \cup {Otorgada(i, n)}
      BY <2>2 DEF AsignarFija
    <3>2. [particiones[i] EXCEPT !.estado = 1] \in Particion
      BY <2>1, <1>0 DEF Particion
    <3>3. particiones' \in Seq(Particion)
      BY <3>1, <3>2, <2>1, <1>0, ExceptSeq
    <3> QED
      BY <3>1, <3>3, <2>1, <1>2 DEF TypeOK, AsignarMemoria
  <2>3. CASE AsignarDinamica(n)
    <3>1. PICK i \in Elegidas(n) :
            /\ particiones' =
                 [particiones EXCEPT ![i].estado = 1, ![i].tamanio = n] \o Resto(i, n)
            /\ concedidas' = concedidas \cup {Otorgada(i, n)}
      BY <2>3 DEF AsignarDinamica, Partida
    <3> DEFINE p == [[particiones[i] EXCEPT !.estado = 1] EXCEPT !.tamanio = n]
               q == [particiones EXCEPT ![i] = p]
    <3>2. p \in Particion
      BY <2>0, <2>1, <1>0 DEF Particion
    <3>3. q = [particiones EXCEPT ![i].estado = 1, ![i].tamanio = n]
      BY <2>1, <1>0
    <3>4. q \in Seq(Particion)
      BY <3>2, <2>1, <1>0, ExceptSeq
    <3>5. Resto(i, n) \in Seq(Particion)
      <4>1. CASE particiones[i].tamanio > n
        <5>1. [base    |-> particiones[i].base + n,
               tamanio |-> particiones[i].tamanio - n,
               estado  |-> 0] \in Particion
          BY <4>1, <2>0, <2>1, <1>0 DEF Particion
        <5> QED
          BY <4>1, <5>1 DEF Resto
      <4>2. CASE ~(particiones[i].tamanio > n)
        BY <4>2 DEF Resto
      <4> QED
        BY <4>1, <4>2
    <3> HIDE DEF p, q
    <3>6. particiones' \in Seq(Particion)
      BY <3>1, <3>3, <3>4, <3>5, ConcatProperties
    <3> QED
      BY <3>1, <3>6, <2>1, <1>2 DEF TypeOK, AsignarMemoria
  <2>4. CASE Rechazar(n)
    BY <2>4, <1>2 DEF TypeOK, AsignarMemoria, Rechazar
  <2> QED
    BY <1>2, <2>2, <2>3, <2>4 DEF AsignarMemoria
<1>3. ASSUME NEW c \in concedidas, LiberarMemoria(c)
      PROVE  TypeOK'
  <2>1. PICK i \in DOMAIN particiones :
          LiberarUltima(i) \/ AbortarEnFree(i) \/ AbortarEnBase(i, c) \/ LiberarEn(i, c)
    BY <1>3 DEF LiberarMemoria, Primera
  <2>2. CASE LiberarUltima(i) \/ AbortarEnFree(i) \/ AbortarEnBase(i, c)
    BY <2>2 DEF LiberarUltima, AbortarEnFree, AbortarEnBase, Caer, TypeOK, Finales
  <2>3. CASE LiberarEn(i, c)
    <3>1. particiones' \in Seq(Particion)
      BY <2>3, LiberarEnTipos
    <3> QED
      BY <3>1, <2>3 DEF TypeOK, LiberarEn
  <2> QED
    BY <2>1, <2>2, <2>3
<1>4. CASE UNCHANGED vars
  BY <1>4 DEF TypeOK, vars
<1> QED
  BY <1>1, <1>2, <1>3, <1>4 DEF Next

\* TypeOK for every configuration and search, whatever free() does: no split and no
\* join leaves a partition with a negative size or outside its types.
THEOREM Tipos == Spec => []TypeOK
<1>1. Init => TypeOK
  BY DEF Init, TypeOK
<1> QED
  BY <1>1, TiposStep, PTL DEF Spec

---------------------------------------------------------------------------
\* The configurations whose search never splits a partition.
SoloFijas == \A c \in Configs : c.busqueda \notin BusquedasDinamicas

(***************************************************************************)
(* InvFijas is inductive when the search never splits a partition.         *)
(***************************************************************************)
LEMMA FijasStep ==
  ASSUME SoloFijas
  PROVE  TypeOK /\ InvFijas /\ [Next]_vars => InvFijas'
<1> SUFFICES ASSUME TypeOK, InvFijas, [Next]_vars
             PROVE  InvFijas'
  OBVIOUS
<1>0. /\ particiones \in Seq(Particion)
      /\ Len(particiones) \in Nat
      /\ DOMAIN particiones = 1 .. Len(particiones)
      /\ \A k \in DOMAIN particiones :
           particiones[k].base \in Nat /\ particiones[k].tamanio \in Nat
  BY Campos DEF TypeOK
<1>b. Bien(particiones, concedidas)
  BY DEF InvFijas, Bien
<1>s. ASSUME Bien(particiones', concedidas'), proceso' # "arrancando"
      PROVE  InvFijas'
  BY <1>s DEF InvFijas, Bien, EnOrden, EnMemoria, ConDuenio
<1>1. CASE GestionarParticiones
  <2>1. CASE AgregarFija
    <3> DEFINE p == [base    |-> BaseSiguiente,
                     tamanio |-> config.lista[Len(particiones) + 1],
                     estado  |-> 0]
               L == Len(particiones)
    <3>1. CASE /\ Hasta(p) <= TamTotal
               /\ particiones' = Append(particiones, p)
               /\ UNCHANGED proceso
      <4>1. config.lista[L + 1] \in Nat \ {0}
        BY <2>1, <1>0, ConfigAssumption DEF AgregarFija, TypeOK
      <4>2. BaseSiguiente \in Nat
            /\ \A k \in 1 .. L : /\ Hasta(particiones[k]) <= BaseSiguiente
                                 /\ particiones[k].base < BaseSiguiente
        <5>1. CASE particiones = <<>>
          BY <5>1, <1>0 DEF BaseSiguiente
        <5>2. CASE particiones # <<>>
          <6>1. L \in 1 .. L /\ BaseSiguiente = Hasta(particiones[L])
            BY <5>2, <1>0 DEF BaseSiguiente, Last
          <6>2. particiones[L].tamanio > 0
            BY <6>1, <1>0, <1>1 DEF InvFijas, GestionarParticiones
          <6>3. \A k \in 1 .. L : k < L =>
                  /\ Hasta(particiones[k]) <= particiones[L].base
                  /\ particiones[k].base < particiones[L].base
            BY <6>1, <1>0 DEF InvFijas, EnOrden
          <6>4. /\ Hasta(particiones[L]) \in Nat
                /\ particiones[L].base < Hasta(particiones[L])
            BY <6>1, <6>2, <1>0 DEF Hasta
          <6>5. ASSUME NEW k \in 1 .. L
                PROVE  /\ Hasta(particiones[k]) <= BaseSiguiente
                       /\ particiones[k].base < BaseSiguiente
            <7>1. CASE k = L
              BY <7>1, <6>1, <6>4
            <7>2. CASE k < L
              <8>1. /\ Hasta(particiones[k]) <= particiones[L].base
                    /\ particiones[k].base < particiones[L].base
                BY <7>2, <6>3
              <8>2. /\ Hasta(particiones[k]) \in Nat
                    /\ particiones[k].base \in Nat /\ particiones[L].base \in Nat
                BY <6>1, <1>0 DEF Hasta
              <8> QED
                BY <8>1, <8>2, <6>1, <6>4
            <7>3. k = L \/ k < L
              <8>1. Len(particiones) \in Nat
                BY <1>0
              <8> QED
                BY <8>1
            <7> QED
              BY <7>1, <7>2, <7>3
          <6> QED
            BY <6>1, <6>4, <6>5
        <5> QED
          BY <5>1, <5>2
      <4>3. /\ p.base = BaseSiguiente
            /\ p.tamanio \in Nat /\ p.tamanio > 0
            /\ p.estado = 0
        BY <4>1
      <4> HIDE DEF p
      <4>4. /\ DOMAIN particiones' = 1 .. L + 1
            /\ \A k \in 1 .. L : particiones'[k] = particiones[k]
            /\ particiones'[L + 1] = p
        BY <3>1, <1>0
      <4>5. EnOrden(particiones')
        BY <4>2, <4>3, <4>4, <1>0 DEF InvFijas, EnOrden
      <4>6. EnMemoria(particiones')
        BY <3>1, <4>4, <1>0 DEF InvFijas, EnMemoria
      <4>7. concedidas' = concedidas
        BY <1>1 DEF GestionarParticiones
      <4>8. ConDuenio(particiones', concedidas)
        BY <4>3, <4>4, <1>0, SMTT(30) DEF InvFijas, ConDuenio
      <4>9. \A k \in DOMAIN particiones' : particiones'[k].tamanio > 0
        BY <4>3, <4>4, <1>0, <1>1 DEF InvFijas, GestionarParticiones
      <4>10. ConDuenio(particiones', concedidas')
        BY <4>7, <4>8
      <4>11. concedidas' = {}
        BY <4>7, <1>1 DEF InvFijas, GestionarParticiones
      <4> QED
        BY <4>5, <4>6, <4>9, <4>10, <4>11 DEF InvFijas, EnOrden, EnMemoria, ConDuenio
    <3>2. CASE proceso' = "salio" /\ UNCHANGED particiones
      <4>1. particiones' = particiones /\ concedidas' = concedidas
        BY <3>2, <1>1 DEF GestionarParticiones
      <4> QED
        BY <4>1, <3>2, <1>b, <1>s
    <3> QED
      BY <2>1, <3>1, <3>2 DEF AgregarFija
  <2>2. CASE TerminarFijas
    <3>1. /\ particiones' = particiones /\ concedidas' = concedidas
          /\ proceso' # "arrancando"
      BY <2>2, <1>1 DEF GestionarParticiones, TerminarFijas
    <3> QED
      BY <3>1, <1>b, <1>s
  <2>3. CASE CrearUnica
    <3>1. /\ DOMAIN particiones' = {1}
          /\ particiones'[1] = [base |-> 0, tamanio |-> TamTotal, estado |-> 0]
      BY <2>3 DEF CrearUnica, UnaSolaParticion
    <3>2. concedidas' = concedidas /\ proceso' # "arrancando"
      BY <2>3, <1>1 DEF CrearUnica, GestionarParticiones
    <3>3. concedidas = {}
      BY <1>1 DEF InvFijas, GestionarParticiones
    <3>4. Bien(particiones', {})
      BY <3>1, ConfigAssumption DEF Bien, EnOrden, EnMemoria, ConDuenio, Hasta
    <3> QED
      BY <3>2, <3>3, <3>4, <1>s
  <2>4. CASE SalirPorEsquema
    <3>1. /\ particiones' = particiones /\ concedidas' = concedidas
          /\ proceso' # "arrancando"
      BY <2>4, <1>1 DEF GestionarParticiones, SalirPorEsquema
    <3> QED
      BY <3>1, <1>b, <1>s
  <2> QED
    BY <1>1, <2>1, <2>2, <2>3, <2>4 DEF GestionarParticiones
<1>2. ASSUME NEW n \in Pedidos, AsignarMemoria(n)
      PROVE  InvFijas'
  <2>0. n \in Nat /\ proceso' # "arrancando"
    BY <1>2, ConfigAssumption DEF AsignarMemoria
  <2>1. CASE AsignarFija(n)
    <3>1. PICK i \in Elegidas(n) :
            /\ particiones' = [particiones EXCEPT ![i].estado = 1]
            /\ concedidas' = concedidas \cup {Otorgada(i, n)}
      BY <2>1 DEF AsignarFija
    <3>2. /\ i \in 1 .. Len(particiones)
          /\ particiones[i].estado = 0 /\ particiones[i].tamanio >= n
      BY <2>0, <1>0, ElegidasEntran DEF TypeOK
    <3>3. Bien(particiones', concedidas')
      BY <3>1, <3>2, <2>0, <1>0, <1>b, OcuparBien DEF Otorgada
    <3> QED
      BY <3>3, <2>0, <1>s
  <2>2. CASE AsignarDinamica(n)
    BY <2>2 DEF AsignarDinamica, SoloFijas, Busqueda, TypeOK
  <2>3. CASE Rechazar(n)
    <3>1. particiones' = particiones /\ concedidas' = concedidas
      BY <2>3 DEF Rechazar
    <3> QED
      BY <3>1, <2>0, <1>b, <1>s
  <2> QED
    BY <1>2, <2>1, <2>2, <2>3 DEF AsignarMemoria
<1>3. ASSUME NEW c \in concedidas, LiberarMemoria(c)
      PROVE  InvFijas'
  <2>1. PICK i \in DOMAIN particiones :
          /\ particiones[i].base = c.base
          /\ LiberarUltima(i) \/ AbortarEnFree(i) \/ AbortarEnBase(i, c) \/ LiberarEn(i, c)
    BY <1>3 DEF LiberarMemoria, Primera
  <2>2. CASE LiberarUltima(i) \/ AbortarEnFree(i) \/ AbortarEnBase(i, c)
    <3>1. /\ particiones' = particiones /\ concedidas' = concedidas
          /\ proceso' # "arrancando"
      BY <2>2 DEF LiberarUltima, AbortarEnFree, AbortarEnBase, Caer
    <3> QED
      BY <3>1, <1>b, <1>s
  <2>3. CASE LiberarEn(i, c)
    <3>1. Bien(particiones', concedidas')
      BY <2>1, <2>3, <1>b, LiberarEnTipos
    <3>2. proceso' # "arrancando"
      BY <2>3, <1>3 DEF LiberarEn, LiberarMemoria
    <3> QED
      BY <3>1, <3>2, <1>s
  <2> QED
    BY <2>1, <2>2, <2>3
<1>4. CASE UNCHANGED vars
  BY <1>4 DEF vars, InvFijas, EnOrden, EnMemoria, ConDuenio
<1> QED
  BY <1>1, <1>2, <1>3, <1>4 DEF Next

(***************************************************************************)
(* With a search that never splits, the list of lista_particiones stays in *)
(* address order, inside memory, and matched one to one with the live      *)
(* processes, even when free() on an interior address lets a join pass.    *)
(***************************************************************************)
THEOREM FijasInvariante ==
  ASSUME SoloFijas
  PROVE  Spec => []InvFijas
<1>1. Init => InvFijas
  BY DEF Init, InvFijas, EnOrden, EnMemoria, ConDuenio
<1>2. TypeOK /\ InvFijas /\ [Next]_vars => InvFijas'
  BY FijasStep
<1> QED
  BY <1>1, <1>2, Tipos, PTL DEF Spec

(***************************************************************************)
(* With a search that never splits, no byte is in two occupied partitions. *)
(***************************************************************************)
THEOREM FijasOcupadasDisjuntas ==
  ASSUME SoloFijas
  PROVE  Spec => []OcupadasDisjuntas
<1>1. TypeOK /\ InvFijas => OcupadasDisjuntas
  <2> SUFFICES ASSUME TypeOK, InvFijas,
                      NEW i \in Ocupadas, NEW j \in Ocupadas, i # j
               PROVE  Separadas(particiones[i], particiones[j])
    BY DEF OcupadasDisjuntas
  <2>1. /\ i \in DOMAIN particiones /\ j \in DOMAIN particiones
        /\ i \in Nat /\ j \in Nat
    BY Campos DEF TypeOK, Ocupadas
  <2> QED
    BY <2>1 DEF InvFijas, EnOrden, Separadas
<1> QED
  BY <1>1, Tipos, FijasInvariante, PTL

(***************************************************************************)
(* With a search that never splits, every live process has its own         *)
(* occupied partition and every occupied partition has a live owner, so    *)
(* the "not found" branch of liberar_memoria is never taken.               *)
(***************************************************************************)
THEOREM FijasConcesionVigente ==
  ASSUME SoloFijas
  PROVE  Spec => []ConcesionVigente
<1>1. TypeOK /\ InvFijas => ConcesionVigente
  BY DEF TypeOK, InvFijas, ConDuenio, ConcesionVigente, Ocupadas
<1> QED
  BY <1>1, Tipos, FijasInvariante, PTL

---------------------------------------------------------------------------
(***************************************************************************)
(* What Asignador sees of the allocator, and the steps that take nothing   *)
(* new: once memoria_usuario is gone it sees nothing more.                 *)
(***************************************************************************)
VistaPromesa ==
  <<IF arena = "reservada" THEN concedidas ELSE {},
    arena = "reservada" /\ proceso \in {"arrancando", "en_marcha"}>>

LEMMA PromesaQuieta ==
  ASSUME arena = "reservada", arena' = arena, concedidas' = concedidas,
         proceso \in {"arrancando", "en_marcha"}
  PROVE  [Promesa!Next]_VistaPromesa
<1>1. CASE proceso' \in {"arrancando", "en_marcha"}
  BY <1>1 DEF VistaPromesa
<1>2. CASE proceso' \notin {"arrancando", "en_marcha"}
  BY <1>2 DEF Promesa!Next, Promesa!Caer
<1> QED
  BY <1>1, <1>2

LEMMA PromesaLibera ==
  ASSUME arena = "reservada", NEW c \in concedidas, LiberarMemoria(c)
  PROVE  [Promesa!Next]_VistaPromesa
<1>0. proceso = "en_marcha"
  BY DEF LiberarMemoria
<1>1. PICK i \in DOMAIN particiones :
        LiberarUltima(i) \/ AbortarEnFree(i) \/ AbortarEnBase(i, c) \/ LiberarEn(i, c)
  BY DEF LiberarMemoria, Primera
<1>2. CASE LiberarUltima(i) \/ AbortarEnFree(i) \/ AbortarEnBase(i, c)
  BY <1>0, <1>2, PromesaQuieta DEF LiberarUltima, AbortarEnFree, AbortarEnBase, Caer
<1>3. CASE LiberarEn(i, c)
  <2>1. concedidas' = concedidas \ {c} /\ proceso' = proceso
    BY <1>3 DEF LiberarEn
  <2>2. CASE c.base = 0
    <3>1. arena' = "liberada"
      BY <1>3, <2>2 DEF LiberarEn, EsArena
    <3>2. Promesa!DevolverTodo
      BY <1>0, <2>2, <3>1 DEF Promesa!DevolverTodo
    <3> QED
      BY <3>2 DEF Promesa!Next
  <2>3. CASE c.base # 0
    <3>1. arena' = arena
      BY <1>3, <2>3 DEF LiberarEn, EsArena
    <3>2. Promesa!Devolver
      BY <1>0, <2>1, <3>1 DEF Promesa!Devolver
    <3> QED
      BY <3>2 DEF Promesa!Next
  <2> QED
    BY <2>2, <2>3
<1> QED
  BY <1>1, <1>2, <1>3

LEMMA PromesaSinArena ==
  ASSUME TypeOK, arena # "reservada", [Next]_vars
  PROVE  UNCHANGED VistaPromesa
<1>1. arena' # "reservada"
  <2>1. ASSUME NEW c \in concedidas, LiberarMemoria(c)
        PROVE  arena' # "reservada"
    BY <2>1 DEF LiberarMemoria, LiberarUltima, AbortarEnFree, AbortarEnBase, Caer,
                LiberarEn, EsArena
  <2> QED
    BY <2>1 DEF Next, vars, GestionarParticiones, AsignarMemoria
<1> QED
  BY <1>1 DEF VistaPromesa

(***************************************************************************)
(* With a search that never splits, the partition list implements the      *)
(* abstract allocator: each grant is a block inside memory that overlaps   *)
(* no block in use.                                                        *)
(***************************************************************************)
LEMMA PromesaStep ==
  ASSUME SoloFijas, TypeOK, InvFijas, arena = "reservada", [Next]_vars
  PROVE  [Promesa!Next]_VistaPromesa
<1>0. /\ particiones \in Seq(Particion)
      /\ DOMAIN particiones = 1 .. Len(particiones)
      /\ Len(particiones) \in Nat
      /\ \A k \in DOMAIN particiones :
           particiones[k].base \in Nat /\ particiones[k].tamanio \in Nat
  BY Campos DEF TypeOK
<1>1. ASSUME GestionarParticiones
      PROVE  [Promesa!Next]_VistaPromesa
  BY <1>1, PromesaQuieta DEF GestionarParticiones
<1>2. ASSUME NEW n \in Pedidos, AsignarMemoria(n)
      PROVE  [Promesa!Next]_VistaPromesa
  <2>0. /\ n \in Nat /\ proceso = "en_marcha" /\ arena' = arena
        /\ proceso' = proceso
    BY <1>2, ConfigAssumption DEF AsignarMemoria
  <2>1. CASE AsignarFija(n)
    <3>1. PICK i \in Elegidas(n) : concedidas' = concedidas \cup {Otorgada(i, n)}
      BY <2>1 DEF AsignarFija
    <3>2. /\ i \in 1 .. Len(particiones)
          /\ particiones[i].estado = 0 /\ particiones[i].tamanio >= n
      BY <2>0, <1>0, ElegidasEntran DEF TypeOK
    <3> DEFINE base == particiones[i].base
    <3>3. base \in 0 .. TamTotal /\ base + n <= TamTotal
      <4>1. Hasta(particiones[i]) <= TamTotal
        BY <3>2, <1>0 DEF InvFijas, EnMemoria
      <4> QED
        BY <4>1, <3>2, <2>0, <1>0, ConfigAssumption DEF Hasta
    <3>4. ASSUME NEW c \in concedidas
          PROVE  Promesa!Ajenos(Otorgada(i, n), c)
      <4>1. PICK j \in DOMAIN particiones :
              /\ particiones[j].estado = 1 /\ particiones[j].base = c.base
              /\ particiones[j].tamanio >= c.limite
        BY DEF InvFijas, ConDuenio
      <4>2. c.base \in Nat /\ c.limite \in Nat
        BY DEF TypeOK, Concesion
      <4>3. i < j \/ j < i
        BY <4>1, <3>2, <1>0
      <4>4. Hasta(particiones[i]) <= particiones[j].base
            \/ Hasta(particiones[j]) <= particiones[i].base
        BY <4>3, <4>1, <3>2, <1>0 DEF InvFijas, EnOrden
      <4> DEFINE o == Otorgada(i, n)
      <4>5. o.base = base /\ o.limite = n
        BY DEF Otorgada
      <4>6. base \in Nat /\ particiones[i].tamanio \in Nat /\ particiones[j].tamanio \in Nat
        BY <4>1, <3>2, <1>0
      <4> DEFINE ti == particiones[i].tamanio
                 bj == particiones[j].base
                 tj == particiones[j].tamanio
      <4>7. /\ base \in Nat /\ ti \in Nat /\ bj \in Nat /\ tj \in Nat /\ n \in Nat
            /\ ti >= n /\ tj >= c.limite /\ bj = c.base
            /\ base + ti <= bj \/ bj + tj <= base
        BY <4>1, <4>2, <4>4, <4>6, <3>2, <2>0 DEF Hasta
      <4> HIDE DEF o, base, ti, bj, tj
      <4>8. o.base + o.limite <= c.base \/ c.base + c.limite <= o.base
        BY <4>2, <4>5, <4>7
      <4> QED
        BY <4>8 DEF Promesa!Ajenos, o
    <3>5. Promesa!Otorgar
      BY <3>1, <3>3, <3>4, <2>0 DEF Promesa!Otorgar, Otorgada
    <3> QED
      BY <3>5 DEF Promesa!Next
  <2>2. CASE AsignarDinamica(n)
    BY <2>2 DEF AsignarDinamica, SoloFijas, Busqueda, TypeOK
  <2>3. CASE Rechazar(n)
    BY <2>3, <2>0, PromesaQuieta DEF Rechazar
  <2> QED
    BY <1>2, <2>1, <2>2, <2>3 DEF AsignarMemoria
<1>3. ASSUME NEW c \in concedidas, LiberarMemoria(c)
      PROVE  [Promesa!Next]_VistaPromesa
  BY <1>3, PromesaLibera
<1>4. CASE UNCHANGED vars
  BY <1>4 DEF vars, VistaPromesa
<1> QED
  BY <1>1, <1>2, <1>3, <1>4 DEF Next

\* With a search that never splits, every step of Memoria is a step of Asignador
\* or none: grants are apart from the live ones and only their owner gives them back.
THEOREM FijasCumplePromesa ==
  ASSUME SoloFijas
  PROVE  Spec => CumplePromesa
<1>1. Init => Promesa!Init
  BY DEF Init, Promesa!Init
<1>2. TypeOK /\ InvFijas /\ [Next]_vars =>
        [Promesa!Next]_VistaPromesa
  BY PromesaStep, PromesaSinArena
<1> QED
  BY <1>1, <1>2, Tipos, FijasInvariante, PTL DEF Spec, CumplePromesa, Promesa!Spec, VistaPromesa

---------------------------------------------------------------------------
(***************************************************************************)
(* Splitting one hole: the part that is granted and the rest overlap       *)
(* nothing else (first_fit_din, best_fit_din, worst_fit_din).              *)
(***************************************************************************)
LEMMA DividirDisjunta ==
  ASSUME TypeOK, ParticionesDisjuntas, NEW n \in Nat, NEW i \in Elegidas(n),
         particiones' = Partida(i, n)
  PROVE  ParticionesDisjuntas'
<1> DEFINE L == Len(particiones)
           q == [particiones EXCEPT ![i].estado = 1, ![i].tamanio = n]
<1>0. /\ L \in Nat
      /\ DOMAIN particiones = 1 .. L
      /\ \A k \in 1 .. L :
           particiones[k].base \in Nat /\ particiones[k].tamanio \in Nat
  BY Campos DEF TypeOK
<1>1. i \in 1 .. L /\ particiones[i].tamanio >= n
  BY <1>0, ElegidasEntran DEF TypeOK
<1>2. /\ q \in Seq(Particion) /\ Len(q) = L
      /\ \A k \in 1 .. L :
           /\ q[k].base = particiones[k].base
           /\ q[k].tamanio = IF k = i THEN n ELSE particiones[k].tamanio
  <2> DEFINE p == [[particiones[i] EXCEPT !.estado = 1] EXCEPT !.tamanio = n]
  <2>1. particiones[i] \in Particion /\ particiones \in Seq(Particion)
    BY <1>1, ElementOfSeq DEF TypeOK
  <2>2. /\ p \in Particion
        /\ p.base = particiones[i].base /\ p.tamanio = n
    BY <2>1 DEF Particion
  <2> HIDE DEF p
  <2>3. q = [particiones EXCEPT ![i] = p]
    BY <1>1, <2>1 DEF p
  <2> QED
    <3>1. /\ q \in Seq(Particion) /\ Len(q) = L
          /\ \A k \in 1 .. L : q[k] = IF k = i THEN p ELSE particiones[k]
      <4> HIDE DEF q
      <4> QED
        BY <1>0, <1>1, <2>1, <2>2, <2>3, ExceptSeq
    <3> QED
      BY <1>1, <2>2, <3>1
<1>3. Resto(i, n) = <<>> \/
      \E r \in Particion : /\ Resto(i, n) = <<r>>
                           /\ particiones[i].tamanio > n
                           /\ r.base = particiones[i].base + n
                           /\ r.tamanio = particiones[i].tamanio - n
  <2> DEFINE r == [base    |-> particiones[i].base + n,
                   tamanio |-> particiones[i].tamanio - n,
                   estado  |-> 0]
  <2>1. CASE particiones[i].tamanio > n
    <3>1. r \in Particion /\ r.base = particiones[i].base + n
          /\ r.tamanio = particiones[i].tamanio - n
      BY <2>1, <1>0, <1>1 DEF Particion
    <3> QED
      BY <2>1, <3>1 DEF Resto
  <2>2. CASE ~(particiones[i].tamanio > n)
    BY <2>2 DEF Resto
  <2> QED
    BY <2>1, <2>2
<1> HIDE DEF q
<1>4. particiones' = q \o Resto(i, n)
  BY DEF q, Partida
<1>5. ASSUME NEW j \in 1 .. L, NEW k \in 1 .. L, j # k
      PROVE  Separadas(q[j], q[k])
  <2>1. Separadas(particiones[j], particiones[k])
    BY <1>0, <1>5 DEF ParticionesDisjuntas
  <2>2. /\ q[j].base = particiones[j].base /\ q[j].tamanio <= particiones[j].tamanio
        /\ q[k].base = particiones[k].base /\ q[k].tamanio <= particiones[k].tamanio
        /\ q[j].tamanio \in Nat /\ q[k].tamanio \in Nat
    BY <1>0, <1>1, <1>2
  <2>3. /\ particiones[j].base \in Nat /\ particiones[j].tamanio \in Nat
        /\ particiones[k].base \in Nat /\ particiones[k].tamanio \in Nat
    BY <1>0
  <2> DEFINE bj == particiones[j].base
             tj == particiones[j].tamanio
             uj == q[j].tamanio
             bk == particiones[k].base
             tk == particiones[k].tamanio
             uk == q[k].tamanio
  <2>4. /\ bj \in Nat /\ tj \in Nat /\ uj \in Nat /\ uj <= tj
        /\ bk \in Nat /\ tk \in Nat /\ uk \in Nat /\ uk <= tk
    BY <2>2, <2>3
  <2>5. bj + tj <= bk \/ bk + tk <= bj
    BY <2>1 DEF Separadas, Hasta
  <2> HIDE DEF bj, tj, uj, bk, tk, uk
  <2>6. bj + uj <= bk \/ bk + uk <= bj
    BY <2>4, <2>5
  <2> QED
    BY <2>2, <2>6 DEF Separadas, Hasta, bj, bk, uj, uk
<1>6. CASE Resto(i, n) = <<>>
  <2>1. particiones' = q
    BY <1>2, <1>4, <1>6, ConcatEmptySeq
  <2> QED
    BY <2>1, <1>2, <1>5, LenProperties DEF ParticionesDisjuntas, Separadas, Hasta
<1>7. ASSUME NEW r \in Particion, Resto(i, n) = <<r>>,
             particiones[i].tamanio > n,
             r.base = particiones[i].base + n,
             r.tamanio = particiones[i].tamanio - n
      PROVE  ParticionesDisjuntas'
  <2>1. <<r>> \in Seq(Particion) /\ Len(<<r>>) = 1 /\ <<r>>[1] = r
    OBVIOUS
  <2>2. /\ particiones' \in Seq(Particion)
        /\ Len(particiones') = L + 1
        /\ \A k \in 1 .. L : particiones'[k] = q[k]
        /\ particiones'[L + 1] = r
    <3> DEFINE t == <<r>>
    <3>1. t \in Seq(Particion) /\ Len(t) = 1 /\ t[1] = r
      BY <2>1
    <3>2. particiones' = q \o t
      BY <1>4, <1>7
    <3> HIDE DEF t
    <3>3. /\ q \o t \in Seq(Particion)
          /\ Len(q \o t) = Len(q) + Len(t)
          /\ \A k \in 1 .. Len(q) + Len(t) :
               (q \o t)[k] = IF k <= Len(q) THEN q[k] ELSE t[k - Len(q)]
      BY <3>1, <1>2, ConcatProperties
    <3> QED
      BY <3>1, <3>2, <3>3, <1>0, <1>2
  <2>3. ASSUME NEW k \in 1 .. L
        PROVE  Separadas(q[k], r) /\ Separadas(r, q[k])
    <3>1. CASE k = i
      BY <3>1, <1>7, <1>2, <1>0, <1>1 DEF Separadas, Hasta
    <3>2. CASE k # i
      <4>1. Separadas(particiones[k], particiones[i])
        BY <3>2, <1>0, <1>1 DEF ParticionesDisjuntas
      <4> QED
        BY <4>1, <3>2, <1>7, <1>2, <1>0, <1>1 DEF Separadas, Hasta
    <3> QED
      BY <3>1, <3>2
  <2>4. DOMAIN particiones' = 1 .. L + 1
    BY <2>2, LenProperties
  <2>5. ASSUME NEW j \in 1 .. L + 1, NEW k \in 1 .. L + 1, j # k
        PROVE  Separadas(particiones'[j], particiones'[k])
    <3>1. CASE j \in 1 .. L /\ k \in 1 .. L
      BY <3>1, <2>2, <2>5, <1>5
    <3>2. CASE j = L + 1
      BY <3>2, <2>2, <2>3, <2>5, <1>0
    <3>3. CASE k = L + 1
      BY <3>3, <2>2, <2>3, <2>5, <1>0
    <3> QED
      BY <3>1, <3>2, <3>3, <1>0
  <2> QED
    BY <2>4, <2>5 DEF ParticionesDisjuntas, Separadas, Hasta
<1> QED
  BY <1>3, <1>6, <1>7

(***************************************************************************)
(* InvSinJuntas is inductive for every search, dynamic ones included, when *)
(* the free() of a join always aborts.                                     *)
(***************************************************************************)
LEMMA SinJuntasStep ==
  ASSUME "sigue" \notin EfectosFree
  PROVE  TypeOK /\ InvSinJuntas /\ [Next]_vars => InvSinJuntas'
<1> SUFFICES ASSUME TypeOK, InvSinJuntas, [Next]_vars
             PROVE  InvSinJuntas'
  OBVIOUS
<1>0. /\ particiones \in Seq(Particion)
      /\ Len(particiones) \in Nat
      /\ DOMAIN particiones = 1 .. Len(particiones)
      /\ \A k \in DOMAIN particiones :
           particiones[k].base \in Nat /\ particiones[k].tamanio \in Nat
  BY Campos DEF TypeOK
<1>s. ASSUME /\ DOMAIN particiones' = DOMAIN particiones
             /\ \A k \in DOMAIN particiones :
                  /\ particiones'[k].base = particiones[k].base
                  /\ particiones'[k].tamanio = particiones[k].tamanio,
             proceso' # "arrancando"
      PROVE  InvSinJuntas'
  BY <1>s DEF InvSinJuntas, ParticionesDisjuntas, Separadas, Hasta
<1>1. CASE GestionarParticiones
  <2>1. CASE AgregarFija
    <3> DEFINE p == [base    |-> BaseSiguiente,
                     tamanio |-> config.lista[Len(particiones) + 1],
                     estado  |-> 0]
               L == Len(particiones)
    <3>1. CASE particiones' = Append(particiones, p)
      <4>1. config.lista[L + 1] \in Nat
        BY <2>1, <1>0, ConfigAssumption DEF AgregarFija, TypeOK
      <4>2. BaseSiguiente \in Nat
        BY <1>0 DEF BaseSiguiente, Last, Hasta
      <4>3. \A k \in 1 .. L : Hasta(particiones[k]) <= BaseSiguiente
        BY <1>0, <1>1 DEF InvSinJuntas, GestionarParticiones
      <4>4. p.base = BaseSiguiente /\ p.tamanio \in Nat
        BY <4>1
      <4> HIDE DEF p
      <4>5. /\ DOMAIN particiones' = 1 .. L + 1
            /\ Len(particiones') = L + 1
            /\ \A k \in 1 .. L : particiones'[k] = particiones[k]
            /\ particiones'[L + 1] = p
        BY <3>1, <1>0
      <4>6. BaseSiguiente' = Hasta(p)
        BY <4>5, <1>0 DEF BaseSiguiente, Last, Hasta
      <4>7. Hasta(p) >= BaseSiguiente /\ Hasta(p) \in Nat
        BY <4>2, <4>4 DEF Hasta
      <4>8. ASSUME NEW j \in 1 .. L + 1, NEW k \in 1 .. L + 1, j # k
            PROVE  Separadas(particiones'[j], particiones'[k])
        <5>1. CASE j \in 1 .. L /\ k \in 1 .. L
          BY <5>1, <4>5, <4>8, <1>0 DEF InvSinJuntas, ParticionesDisjuntas
        <5>2. CASE j = L + 1
          BY <5>2, <4>3, <4>4, <4>5, <4>8, <1>0 DEF Separadas
        <5>3. CASE k = L + 1
          BY <5>3, <4>3, <4>4, <4>5, <4>8, <1>0 DEF Separadas
        <5> QED
          BY <5>1, <5>2, <5>3, <1>0
      <4>9. ParticionesDisjuntas'
        BY <4>5, <4>8 DEF ParticionesDisjuntas, Separadas, Hasta
      <4>10. ASSUME NEW k \in 1 .. L + 1
             PROVE  Hasta(particiones'[k]) <= Hasta(p)
        <5>1. CASE k = L + 1
          BY <5>1, <4>5, <4>7
        <5>2. CASE k \in 1 .. L
          <6>1. Hasta(particiones[k]) \in Nat
            BY <5>2, <1>0 DEF Hasta
          <6> QED
            BY <5>2, <6>1, <4>2, <4>3, <4>5, <4>7
        <5> QED
          BY <5>1, <5>2, <1>0
      <4> QED
        BY <4>5, <4>6, <4>9, <4>10 DEF InvSinJuntas, Hasta
    <3>2. CASE proceso' = "salio" /\ UNCHANGED particiones
      BY <3>2, <1>s
    <3> QED
      BY <2>1, <3>1, <3>2 DEF AgregarFija
  <2>2. CASE TerminarFijas
    BY <2>2, <1>s DEF TerminarFijas
  <2>3. CASE CrearUnica
    <3>1. DOMAIN particiones' = {1} /\ proceso' # "arrancando"
      BY <2>3 DEF CrearUnica, UnaSolaParticion
    <3> QED
      BY <3>1 DEF InvSinJuntas, ParticionesDisjuntas
  <2>4. CASE SalirPorEsquema
    BY <2>4, <1>s DEF SalirPorEsquema
  <2> QED
    BY <1>1, <2>1, <2>2, <2>3, <2>4 DEF GestionarParticiones
<1>2. ASSUME NEW n \in Pedidos, AsignarMemoria(n)
      PROVE  InvSinJuntas'
  <2>0. n \in Nat /\ proceso' # "arrancando"
    BY <1>2, ConfigAssumption DEF AsignarMemoria
  <2>1. CASE AsignarFija(n)
    <3>1. PICK i \in Elegidas(n) :
            particiones' = [particiones EXCEPT ![i].estado = 1]
      BY <2>1 DEF AsignarFija
    <3>2. /\ DOMAIN particiones' = DOMAIN particiones
          /\ \A k \in DOMAIN particiones :
               /\ particiones'[k].base = particiones[k].base
               /\ particiones'[k].tamanio = particiones[k].tamanio
      BY <3>1, <1>0 DEF Particion
    <3> QED
      BY <3>2, <2>0, <1>s
  <2>2. CASE AsignarDinamica(n)
    <3>1. PICK i \in Elegidas(n) :
            particiones' = Partida(i, n)
      BY <2>2 DEF AsignarDinamica
    <3>2. ParticionesDisjuntas'
      BY <3>1, <2>0, DividirDisjunta DEF InvSinJuntas
    <3> QED
      BY <3>2, <2>0 DEF InvSinJuntas
  <2>3. CASE Rechazar(n)
    BY <2>0, <2>3, <1>s DEF Rechazar
  <2> QED
    BY <1>2, <2>1, <2>2, <2>3 DEF AsignarMemoria
<1>3. ASSUME NEW c \in concedidas, LiberarMemoria(c)
      PROVE  InvSinJuntas'
  <2>1. PICK i \in DOMAIN particiones :
          LiberarUltima(i) \/ AbortarEnFree(i) \/ AbortarEnBase(i, c) \/ LiberarEn(i, c)
    BY <1>3 DEF LiberarMemoria, Primera
  <2>2. CASE LiberarUltima(i) \/ AbortarEnFree(i) \/ AbortarEnBase(i, c)
    BY <2>2, <1>s DEF LiberarUltima, AbortarEnFree, AbortarEnBase, Caer
  <2>3. CASE LiberarEn(i, c)
    <3>1. particiones' = Marcada(i)
      BY <2>3, <1>0, FormaAnterior DEF LiberarEn
    <3>2. /\ DOMAIN particiones' = DOMAIN particiones
          /\ \A k \in DOMAIN particiones :
               /\ particiones'[k].base = particiones[k].base
               /\ particiones'[k].tamanio = particiones[k].tamanio
      BY <3>1, <1>0 DEF Particion, Marcada
    <3>3. proceso' # "arrancando"
      BY <2>3, <1>3 DEF LiberarEn, LiberarMemoria
    <3> QED
      BY <3>2, <3>3, <1>s
  <2> QED
    BY <2>1, <2>2, <2>3
<1>4. CASE UNCHANGED vars
  <2>1. particiones' = particiones /\ proceso' = proceso
    BY <1>4 DEF vars
  <2> QED
    BY <2>1 DEF InvSinJuntas, ParticionesDisjuntas, Separadas, Hasta, BaseSiguiente
<1> QED
  BY <1>1, <1>2, <1>3, <1>4 DEF Next

(***************************************************************************)
(* When free() on an interior address aborts, as glibc does, the inductive *)
(* invariant of the list holds whichever search is in use: partitions are  *)
(* only added or split, never joined.                                      *)
(***************************************************************************)
THEOREM SinJuntasInvariante ==
  ASSUME "sigue" \notin EfectosFree
  PROVE  Spec => []InvSinJuntas
<1>1. Init => InvSinJuntas
  BY DEF Init, InvSinJuntas, ParticionesDisjuntas
<1>2. TypeOK /\ InvSinJuntas /\ [Next]_vars => InvSinJuntas'
  BY SinJuntasStep
<1> QED
  BY <1>1, <1>2, Tipos, PTL DEF Spec

(***************************************************************************)
(* Under the same assumption no two partitions of the list ever overlap.   *)
(***************************************************************************)
THEOREM SinJuntasDisjuntas ==
  ASSUME "sigue" \notin EfectosFree
  PROVE  Spec => []ParticionesDisjuntas
<1>1. InvSinJuntas => ParticionesDisjuntas
  BY DEF InvSinJuntas
<1> QED
  BY <1>1, SinJuntasInvariante, PTL

---------------------------------------------------------------------------
\* EligeBien for every list and request: the loop of each search, with its -1 and its
\* running best, ends at the candidate it should take, and at NULL only without one.
THEOREM EligeLaMejor == Spec => []EligeBien
<1>1. TypeOK => EligeBien
  BY BusquedasEligen, ConfigAssumption DEF EligeBien, TypeOK
<1> QED
  BY <1>1, Tipos, PTL

---------------------------------------------------------------------------
(***************************************************************************)
(* Any search, when free() aborts the joins and no process asks for size   *)
(* 0.  The list is no longer in address order, since the rest of a split   *)
(* goes to its end; what relates it to the grants is that no two           *)
(* partitions have one base, which a grant of size 0 would break.          *)
(***************************************************************************)
SinSigue == "sigue" \notin EfectosFree /\ 0 \notin Pedidos

Distintas(s) == \A i, j \in DOMAIN s : s[i].base = s[j].base => i = j

InvAborta ==
  /\ EnMemoria(particiones)
  /\ Distintas(particiones)
  /\ ConDuenio(particiones, concedidas)
  /\ proceso = "arrancando" =>
       /\ concedidas = {}
       /\ \A i \in DOMAIN particiones : particiones[i].tamanio > 0

\* What a search and its split do to the list: position i is granted, the others
\* stay, and what is left over comes after them.
Reparte(i, n) ==
  LET L == Len(particiones)
  IN  /\ i \in 1 .. L
      /\ particiones[i].estado = 0 /\ particiones[i].tamanio >= n
      /\ particiones' \in Seq(Particion)
      /\ Len(particiones') \in {L, L + 1}
      /\ \A k \in 1 .. L : k # i => particiones'[k] = particiones[k]
      /\ particiones'[i].base = particiones[i].base
      /\ particiones'[i].estado = 1
      /\ particiones'[i].tamanio \in n .. particiones[i].tamanio
      /\ Len(particiones') = L + 1 =>
           /\ particiones'[L + 1].base = particiones[i].base + n
           /\ particiones'[L + 1].tamanio = particiones[i].tamanio - n
           /\ particiones'[L + 1].estado = 0
           /\ particiones[i].tamanio > n
      /\ concedidas' = concedidas \cup {Otorgada(i, n)}

LEMMA AsignarReparte ==
  ASSUME TypeOK, NEW n \in Nat, AsignarFija(n) \/ AsignarDinamica(n)
  PROVE  \E i : Reparte(i, n)
<1> DEFINE L == Len(particiones)
<1>0. /\ particiones \in Seq(Particion)
      /\ L \in Nat
      /\ DOMAIN particiones = 1 .. L
      /\ \A k \in 1 .. L : particiones[k].base \in Nat /\ particiones[k].tamanio \in Nat
  BY Campos DEF TypeOK
<1>a. L # L + 1
  <2>1. L \in Nat
    BY <1>0
  <2> QED
    BY <2>1
<1>1. CASE AsignarFija(n)
  <2>1. PICK i \in Elegidas(n) :
          /\ particiones' = [particiones EXCEPT ![i].estado = 1]
          /\ concedidas' = concedidas \cup {Otorgada(i, n)}
    BY <1>1 DEF AsignarFija
  <2>2. /\ i \in 1 .. L /\ particiones[i].estado = 0 /\ particiones[i].tamanio >= n
        /\ particiones[i] \in Particion
    BY <1>0, ElegidasEntran, ElementOfSeq DEF TypeOK
  <2> DEFINE p == [particiones[i] EXCEPT !.estado = 1]
  <2>3. /\ p \in Particion /\ p.base = particiones[i].base
        /\ p.tamanio = particiones[i].tamanio /\ p.estado = 1
    BY <2>2 DEF Particion
  <2>4. particiones' = [particiones EXCEPT ![i] = p]
    BY <2>1
  <2> HIDE DEF p
  <2>5. /\ particiones' \in Seq(Particion) /\ Len(particiones') = L
        /\ \A k \in 1 .. L : particiones'[k] = IF k = i THEN p ELSE particiones[k]
    BY <1>0, <2>2, <2>3, <2>4, ExceptSeq
  <2>6. particiones'[i] = p /\ p.tamanio \in n .. particiones[i].tamanio
    BY <1>0, <2>2, <2>3, <2>5
  <2> QED
    BY <1>a, <2>1, <2>2, <2>3, <2>5, <2>6 DEF Reparte
<1>2. CASE AsignarDinamica(n)
  <2>1. PICK i \in Elegidas(n) :
          /\ particiones' = Partida(i, n)
          /\ concedidas' = concedidas \cup {Otorgada(i, n)}
    BY <1>2 DEF AsignarDinamica
  <2>2. /\ i \in 1 .. L /\ particiones[i].estado = 0 /\ particiones[i].tamanio >= n
        /\ particiones[i] \in Particion
    BY <1>0, ElegidasEntran, ElementOfSeq DEF TypeOK
  <2> DEFINE p == [[particiones[i] EXCEPT !.estado = 1] EXCEPT !.tamanio = n]
             q == [particiones EXCEPT ![i].estado = 1, ![i].tamanio = n]
             r == [base    |-> particiones[i].base + n,
                   tamanio |-> particiones[i].tamanio - n,
                   estado  |-> 0]
             t == Resto(i, n)
  <2>3. /\ p \in Particion /\ p.base = particiones[i].base
        /\ p.tamanio = n /\ p.estado = 1
    BY <2>2 DEF Particion
  <2>4. q = [particiones EXCEPT ![i] = p]
    BY <1>0, <2>2
  <2>5. particiones' = q \o t
    BY <2>1 DEF Partida
  <2>6. /\ t = <<>> \/ (t = <<r>> /\ particiones[i].tamanio > n /\ r \in Particion)
        /\ r.base = particiones[i].base + n /\ r.tamanio = particiones[i].tamanio - n
        /\ r.estado = 0
    BY <1>0, <2>2 DEF Resto, Particion
  <2> HIDE DEF p, q, r, t
  <2>7. /\ q \in Seq(Particion) /\ Len(q) = L
        /\ \A k \in 1 .. L : q[k] = IF k = i THEN p ELSE particiones[k]
    BY <1>0, <2>2, <2>3, <2>4, ExceptSeq
  <2>8. n \in n .. particiones[i].tamanio /\ i \in 1 .. L
    BY <1>0, <2>2
  <2>9. CASE t = <<>>
    <3>1. q \in Seq(Particion)
      BY <2>7
    <3>2. particiones' = q
      BY <2>5, <2>9, <3>1, ConcatEmptySeq
    <3> QED
      BY <1>a, <2>1, <2>2, <2>3, <2>7, <2>8, <3>2 DEF Reparte
  <2>10. CASE t = <<r>> /\ particiones[i].tamanio > n /\ r \in Particion
    <3>1. t \in Seq(Particion) /\ Len(t) = 1 /\ t[1] = r
      BY <2>10
    <3>2. /\ q \o t \in Seq(Particion)
          /\ Len(q \o t) = Len(q) + Len(t)
          /\ \A k \in 1 .. Len(q) + Len(t) :
               (q \o t)[k] = IF k <= Len(q) THEN q[k] ELSE t[k - Len(q)]
      <4>1. q \in Seq(Particion)
        BY <2>7
      <4> QED
        BY <3>1, <4>1, ConcatProperties
    <3>3. /\ particiones' \in Seq(Particion) /\ Len(particiones') = L + 1
          /\ \A k \in 1 .. L : particiones'[k] = q[k]
          /\ particiones'[L + 1] = r
      BY <1>0, <2>5, <2>7, <3>1, <3>2
    <3> QED
      BY <2>1, <2>2, <2>3, <2>6, <2>7, <2>8, <2>10, <3>3 DEF Reparte
  <2> QED
    BY <2>6, <2>9, <2>10
<1> QED
  BY <1>1, <1>2

\* A release without joins only marks one partition as free.
LEMMA LiberarMarca ==
  ASSUME TypeOK, "sigue" \notin EfectosFree, NEW c \in concedidas,
         NEW i \in DOMAIN particiones, LiberarEn(i, c)
  PROVE  /\ particiones' \in Seq(Particion)
         /\ Len(particiones') = Len(particiones)
         /\ \A k \in 1 .. Len(particiones) : k # i => particiones'[k] = particiones[k]
         /\ particiones'[i].base = particiones[i].base
         /\ particiones'[i].tamanio = particiones[i].tamanio
         /\ particiones'[i].estado = 0
         /\ concedidas' = concedidas \ {c} /\ proceso' = proceso
<1>0. particiones \in Seq(Particion) /\ particiones[i] \in Particion /\ i \in 1 .. Len(particiones)
  BY Campos, ElementOfSeq DEF TypeOK
<1> DEFINE p == [particiones[i] EXCEPT !.estado = 0]
<1>1. /\ p \in Particion /\ p.base = particiones[i].base
      /\ p.tamanio = particiones[i].tamanio /\ p.estado = 0
  BY <1>0 DEF Particion
<1>2. particiones' = Marcada(i)
  BY <1>0, FormaAnterior DEF LiberarEn
<1>3. particiones' = [particiones EXCEPT ![i] = p]
  BY <1>2 DEF Marcada
<1> HIDE DEF p
<1>4. /\ particiones' \in Seq(Particion) /\ Len(particiones') = Len(particiones)
      /\ \A k \in 1 .. Len(particiones) :
           particiones'[k] = IF k = i THEN p ELSE particiones[k]
  BY <1>0, <1>1, <1>3, ExceptSeq
<1>5. particiones'[i] = p
  BY <1>0, <1>4
<1> QED
  BY <1>1, <1>4, <1>5 DEF LiberarEn

\* The bytes between two partitions that do not overlap.
LEMMA Aparte ==
  ASSUME TypeOK, ParticionesDisjuntas,
         NEW i \in DOMAIN particiones, NEW j \in DOMAIN particiones, i # j
  PROVE  \/ particiones[i].base + particiones[i].tamanio <= particiones[j].base
         \/ particiones[j].base + particiones[j].tamanio <= particiones[i].base
BY DEF ParticionesDisjuntas, Separadas, Hasta

LEMMA ReparteBien ==
  ASSUME TypeOK, InvAborta, ParticionesDisjuntas, NEW n \in Nat, n # 0,
         NEW i, Reparte(i, n)
  PROVE  /\ EnMemoria(particiones')
         /\ Distintas(particiones')
         /\ ConDuenio(particiones', concedidas')
<1> DEFINE L == Len(particiones)
           s == particiones'
           b == particiones[i].base
           m == particiones[i].tamanio
<1>0. /\ particiones \in Seq(Particion)
      /\ L \in Nat
      /\ DOMAIN particiones = 1 .. L
      /\ \A k \in 1 .. L : /\ particiones[k].base \in Nat /\ particiones[k].tamanio \in Nat
                           /\ particiones[k].estado \in {0, 1}
  BY Campos DEF TypeOK
<1>1. i \in 1 .. L /\ b \in Nat /\ m \in Nat /\ m >= n /\ particiones[i].estado = 0
  BY <1>0 DEF Reparte
<1>2. /\ \A k \in 1 .. L : k # i => s[k] = particiones[k]
      /\ s[i].base = b /\ s[i].estado = 1 /\ s[i].tamanio \in n .. m
  BY DEF Reparte
<1>3. \/ DOMAIN s = 1 .. L
      \/ /\ DOMAIN s = 1 .. L + 1 /\ m > n
         /\ s[L + 1].base = b + n /\ s[L + 1].tamanio = m - n /\ s[L + 1].estado = 0
  BY LenProperties DEF Reparte
<1>4. concedidas' = concedidas \cup {Otorgada(i, n)}
      /\ Otorgada(i, n).base = b /\ Otorgada(i, n).limite = n
  BY DEF Reparte, Otorgada
<1>5. 1 .. L \subseteq DOMAIN s
  BY <1>0, <1>3
<1>6. \A k \in 1 .. L : Hasta(particiones[k]) <= TamTotal
  BY <1>0 DEF InvAborta, EnMemoria
<1>7. EnMemoria(s)
  <2> SUFFICES ASSUME NEW k \in DOMAIN s
               PROVE  Hasta(s[k]) <= TamTotal
    BY DEF EnMemoria
  <2>1. b + m <= TamTotal
    BY <1>1, <1>6 DEF Hasta
  <2>2. CASE k = i
    BY <1>1, <1>2, <2>1, <2>2, ConfigAssumption DEF Hasta
  <2>3. CASE k \in 1 .. L /\ k # i
    BY <1>2, <1>6, <2>3
  <2>4. CASE k = L + 1 /\ s[k].base = b + n /\ s[k].tamanio = m - n
    BY <1>1, <2>1, <2>4, ConfigAssumption DEF Hasta
  <2> QED
    BY <1>0, <1>3, <2>2, <2>3, <2>4
<1>8. ASSUME NEW k \in 1 .. L, m > n
      PROVE  particiones[k].base # b + n
  <2>1. CASE k = i
    BY <1>1, <2>1
  <2>2. CASE k # i
    <3>1. \/ particiones[k].base + particiones[k].tamanio <= b
          \/ b + m <= particiones[k].base
      BY <1>0, <1>1, <2>2, Aparte
    <3> QED
      BY <1>0, <1>1, <1>8, <3>1
  <2> QED
    BY <2>1, <2>2
<1>9. Distintas(s)
  <2> SUFFICES ASSUME NEW j \in DOMAIN s, NEW k \in DOMAIN s, s[j].base = s[k].base
               PROVE  j = k
    BY DEF Distintas
  <2>1. \A h \in 1 .. L : s[h].base = particiones[h].base
    BY <1>2
  <2>2. CASE j \in 1 .. L /\ k \in 1 .. L
    BY <1>0, <2>1, <2>2 DEF InvAborta, Distintas
  <2>3. CASE j \notin 1 .. L \/ k \notin 1 .. L
    <3>1. CASE j \in 1 .. L /\ k = L + 1
      BY <1>3, <1>8, <2>1, <3>1
    <3>2. CASE j = L + 1 /\ k \in 1 .. L
      BY <1>3, <1>8, <2>1, <3>2
    <3>3. CASE j = L + 1 /\ k = L + 1
      BY <3>3
    <3>4. j \in 1 .. L \cup {L + 1} /\ k \in 1 .. L \cup {L + 1}
      BY <1>0, <1>3
    <3> QED
      BY <2>3, <3>1, <3>2, <3>3, <3>4
  <2> QED
    BY <2>2, <2>3
<1>10. ASSUME NEW c \in concedidas
       PROVE  /\ c.base # b
              /\ \E k \in 1 .. L : /\ k # i /\ particiones[k].estado = 1
                                   /\ particiones[k].base = c.base
                                   /\ particiones[k].tamanio >= c.limite
  <2>1. PICK k \in 1 .. L : /\ particiones[k].estado = 1 /\ particiones[k].base = c.base
                            /\ particiones[k].tamanio >= c.limite
    BY <1>0 DEF InvAborta, ConDuenio
  <2>2. k # i
    BY <1>1, <2>1
  <2>3. c.base # b
    BY <1>0, <1>1, <2>1, <2>2 DEF InvAborta, Distintas
  <2> QED
    BY <2>1, <2>2, <2>3
<1>11. ConDuenio(s, concedidas')
  <2>1. ASSUME NEW c \in concedidas'
        PROVE  \E k \in DOMAIN s :
                 s[k].estado = 1 /\ s[k].base = c.base /\ s[k].tamanio >= c.limite
    <3>1. CASE c \in concedidas
      BY <1>2, <1>5, <1>10, <3>1
    <3>2. CASE c = Otorgada(i, n)
      <4>1. s[i].tamanio >= n
        BY <1>1, <1>2
      <4> QED
        BY <1>1, <1>2, <1>4, <1>5, <3>2, <4>1
    <3> QED
      BY <1>4, <3>1, <3>2
  <2>2. ASSUME NEW k \in DOMAIN s, s[k].estado = 1
        PROVE  \E c \in concedidas' : c.base = s[k].base
    <3>1. CASE k = i
      BY <1>2, <1>4, <3>1
    <3>2. CASE k \in 1 .. L /\ k # i
      BY <1>0, <1>2, <1>4, <2>2, <3>2 DEF InvAborta, ConDuenio
    <3> QED
      BY <1>0, <1>3, <2>2, <3>1, <3>2
  <2>3. \A c, d \in concedidas' : c.base = d.base => c = d
    BY <1>4, <1>10 DEF InvAborta, ConDuenio
  <2> QED
    BY <2>1, <2>2, <2>3 DEF ConDuenio
<1> QED
  BY <1>7, <1>9, <1>11

LEMMA MarcaBien ==
  ASSUME TypeOK, InvAborta, "sigue" \notin EfectosFree, NEW c \in concedidas,
         NEW i \in DOMAIN particiones, particiones[i].base = c.base, LiberarEn(i, c)
  PROVE  /\ EnMemoria(particiones')
         /\ Distintas(particiones')
         /\ ConDuenio(particiones', concedidas')
<1> DEFINE L == Len(particiones)
           s == particiones'
<1>0. DOMAIN particiones = 1 .. L /\ i \in 1 .. L
  BY Campos DEF TypeOK
<1>1. /\ DOMAIN s = 1 .. L
      /\ \A k \in 1 .. L : k # i => s[k] = particiones[k]
      /\ s[i].base = particiones[i].base /\ s[i].tamanio = particiones[i].tamanio
      /\ s[i].estado = 0
      /\ concedidas' = concedidas \ {c}
  BY LiberarMarca, LenProperties
<1>2. \A k \in 1 .. L : s[k].base = particiones[k].base /\ s[k].tamanio = particiones[k].tamanio
  BY <1>1
<1>3. EnMemoria(s) /\ Distintas(s)
  BY <1>0, <1>1, <1>2 DEF InvAborta, EnMemoria, Distintas, Hasta
<1>4. ASSUME NEW d \in concedidas, d # c
      PROVE  \E k \in DOMAIN s : s[k].estado = 1 /\ s[k].base = d.base /\ s[k].tamanio >= d.limite
  <2>1. PICK k \in 1 .. L : /\ particiones[k].estado = 1 /\ particiones[k].base = d.base
                            /\ particiones[k].tamanio >= d.limite
    BY <1>0 DEF InvAborta, ConDuenio
  <2>2. k # i
    BY <1>4, <2>1 DEF InvAborta, ConDuenio
  <2> QED
    BY <1>1, <2>1, <2>2
<1>5. ASSUME NEW k \in DOMAIN s, s[k].estado = 1
      PROVE  \E d \in concedidas \ {c} : d.base = s[k].base
  <2>1. k # i /\ k \in 1 .. L /\ s[k] = particiones[k]
    BY <1>1, <1>5
  <2>2. PICK d \in concedidas : d.base = particiones[k].base
    BY <1>0, <1>5, <2>1 DEF InvAborta, ConDuenio
  <2>3. d # c
    BY <1>0, <2>1, <2>2 DEF InvAborta, Distintas
  <2> QED
    BY <2>1, <2>2, <2>3
<1>6. ConDuenio(s, concedidas')
  BY <1>1, <1>4, <1>5 DEF InvAborta, ConDuenio
<1> QED
  BY <1>3, <1>6

LEMMA AbortaStep ==
  ASSUME SinSigue, TypeOK, InvSinJuntas, InvAborta, [Next]_vars
  PROVE  InvAborta'
<1>0. /\ particiones \in Seq(Particion)
      /\ Len(particiones) \in Nat
      /\ DOMAIN particiones = 1 .. Len(particiones)
      /\ \A k \in DOMAIN particiones :
           particiones[k].base \in Nat /\ particiones[k].tamanio \in Nat
  BY Campos DEF TypeOK
<1>s. ASSUME EnMemoria(particiones'), Distintas(particiones'),
             ConDuenio(particiones', concedidas'), proceso' # "arrancando"
      PROVE  InvAborta'
  BY <1>s DEF InvAborta, EnMemoria, Distintas, ConDuenio
<1>q. ASSUME UNCHANGED <<particiones, concedidas>>, proceso' \in {proceso} \cup Finales \cup {"en_marcha"}
      PROVE  InvAborta'
  BY <1>q DEF InvAborta, EnMemoria, Distintas, ConDuenio, Finales
<1>1. CASE GestionarParticiones
  <2>0. /\ concedidas' = concedidas /\ concedidas = {}
        /\ \A k \in DOMAIN particiones : particiones[k].tamanio > 0
    BY <1>1 DEF GestionarParticiones, InvAborta
  <2>1. CASE AgregarFija
    <3> DEFINE p == [base    |-> BaseSiguiente,
                     tamanio |-> config.lista[Len(particiones) + 1],
                     estado  |-> 0]
               L == Len(particiones)
    <3>1. CASE Hasta(p) <= TamTotal /\ particiones' = Append(particiones, p)
      <4>1. config.lista[L + 1] \in Nat \ {0}
        BY <2>1, <1>0, ConfigAssumption DEF AgregarFija, TypeOK
      <4>2. \A k \in 1 .. L : Hasta(particiones[k]) <= BaseSiguiente
        BY <1>0, <1>1 DEF InvSinJuntas, GestionarParticiones
      <4>3. BaseSiguiente \in Nat
        BY <1>0 DEF BaseSiguiente, Last, Hasta
      <4>4. \A k \in 1 .. L : particiones[k].base < BaseSiguiente
        BY <1>0, <2>0, <4>2, <4>3 DEF Hasta
      <4>5. p.base = BaseSiguiente /\ p.tamanio \in Nat /\ p.tamanio > 0 /\ p.estado = 0
        BY <4>1
      <4> HIDE DEF p
      <4>6. /\ DOMAIN particiones' = 1 .. L + 1
            /\ \A k \in 1 .. L : particiones'[k] = particiones[k]
            /\ particiones'[L + 1] = p
        BY <3>1, <1>0
      <4>7. EnMemoria(particiones') /\ \A k \in DOMAIN particiones' : particiones'[k].tamanio > 0
        BY <1>0, <2>0, <3>1, <4>5, <4>6 DEF InvAborta, EnMemoria
      <4>8. Distintas(particiones')
        BY <1>0, <4>3, <4>4, <4>5, <4>6 DEF InvAborta, Distintas
      <4>9. ConDuenio(particiones', concedidas')
        BY <1>0, <2>0, <4>5, <4>6 DEF InvAborta, ConDuenio
      <4> QED
        BY <2>0, <4>7, <4>8, <4>9 DEF InvAborta, EnMemoria, Distintas, ConDuenio
    <3>2. CASE proceso' = "salio" /\ UNCHANGED particiones
      BY <1>q, <2>0, <3>2 DEF Finales
    <3> QED
      BY <2>1, <3>1, <3>2 DEF AgregarFija
  <2>2. CASE TerminarFijas \/ SalirPorEsquema
    BY <1>q, <2>0, <2>2 DEF TerminarFijas, SalirPorEsquema, Finales
  <2>3. CASE CrearUnica
    <3>1. /\ DOMAIN particiones' = {1} /\ proceso' # "arrancando"
          /\ particiones'[1] = [base |-> 0, tamanio |-> TamTotal, estado |-> 0]
      BY <2>3 DEF CrearUnica, UnaSolaParticion
    <3>2. /\ EnMemoria(particiones') /\ Distintas(particiones')
          /\ ConDuenio(particiones', concedidas')
      BY <2>0, <3>1, ConfigAssumption DEF EnMemoria, Distintas, ConDuenio, Hasta
    <3> QED
      BY <1>s, <3>1, <3>2
  <2> QED
    BY <1>1, <2>1, <2>2, <2>3 DEF GestionarParticiones
<1>2. ASSUME NEW n \in Pedidos, AsignarMemoria(n)
      PROVE  InvAborta'
  <2>0. n \in Nat /\ n # 0 /\ proceso' = proceso /\ proceso # "arrancando"
    BY <1>2, ConfigAssumption DEF AsignarMemoria, SinSigue
  <2>1. CASE Rechazar(n)
    BY <1>q, <2>0, <2>1 DEF Rechazar
  <2>2. CASE AsignarFija(n) \/ AsignarDinamica(n)
    <3>1. PICK i : Reparte(i, n)
      BY <2>0, <2>2, AsignarReparte
    <3> QED
      BY <1>s, <2>0, <3>1, ReparteBien DEF InvSinJuntas
  <2> QED
    BY <1>2, <2>1, <2>2 DEF AsignarMemoria
<1>3. ASSUME NEW c \in concedidas, LiberarMemoria(c)
      PROVE  InvAborta'
  <2>1. PICK i \in DOMAIN particiones :
          /\ particiones[i].base = c.base
          /\ LiberarUltima(i) \/ AbortarEnFree(i) \/ AbortarEnBase(i, c) \/ LiberarEn(i, c)
    BY <1>3 DEF LiberarMemoria, Primera
  <2>2. CASE LiberarUltima(i) \/ AbortarEnFree(i) \/ AbortarEnBase(i, c)
    BY <1>q, <2>2 DEF LiberarUltima, AbortarEnFree, AbortarEnBase, Caer, Finales
  <2>3. CASE LiberarEn(i, c)
    <3>1. proceso' # "arrancando"
      BY <1>3, <2>3 DEF LiberarEn, LiberarMemoria
    <3> QED
      BY <1>s, <2>1, <2>3, <3>1, MarcaBien DEF SinSigue
  <2> QED
    BY <2>1, <2>2, <2>3
<1>4. CASE UNCHANGED vars
  BY <1>q, <1>4 DEF vars
<1> QED
  BY <1>1, <1>2, <1>3, <1>4 DEF Next

LEMMA AbortaInvariante ==
  ASSUME SinSigue
  PROVE  Spec => [](TypeOK /\ InvSinJuntas /\ InvAborta)
<1>1. Init => InvAborta
  BY DEF Init, InvAborta, EnMemoria, Distintas, ConDuenio
<1>2. TypeOK /\ InvSinJuntas /\ InvAborta /\ [Next]_vars => InvAborta'
  BY AbortaStep
<1>3. Spec => []InvSinJuntas
  BY SinJuntasInvariante DEF SinSigue
<1> QED
  BY <1>1, <1>2, <1>3, Tipos, PTL DEF Spec

\* ConcesionVigente for every search, dynamic ones included: the live processes and
\* the occupied partitions match, so liberar_memoria always finds its partition.
THEOREM AbortaConcesionVigente ==
  ASSUME SinSigue
  PROVE  Spec => []ConcesionVigente
<1>1. TypeOK /\ InvAborta => ConcesionVigente
  BY DEF TypeOK, InvAborta, ConDuenio, ConcesionVigente, Ocupadas
<1> QED
  BY <1>1, AbortaInvariante, PTL

---------------------------------------------------------------------------
(***************************************************************************)
(* Nobody is disturbed.  The only occupied partition a step touches is the *)
(* one that is released, and both invariants say that it is of one owner.  *)
(***************************************************************************)
EstablePaso ==
  proceso' = "en_marcha" /\ arena = "reservada" =>
    IF arena' = "liberada" THEN \E c \in concedidas \ concedidas' : c.base = 0
    ELSE \A c \in concedidas \cap concedidas' : \A i \in Ocupadas :
           particiones[i].base = c.base =>
             \E j \in DOMAIN particiones' : particiones'[j] = particiones[i]

LEMMA EstableStep ==
  ASSUME TypeOK, [Next]_vars, ConDuenio(particiones, concedidas),
         proceso = "arrancando" => concedidas = {}
  PROVE  [EstablePaso]_vars
<1>a. CASE arena = "reservada" /\ arena' = "liberada"
  <2>1. PICK c \in concedidas, i \in DOMAIN particiones : LiberarEn(i, c) /\ EsArena(c)
    BY <1>a DEF Next, vars, GestionarParticiones, AsignarMemoria, LiberarMemoria,
                LiberarUltima, AbortarEnFree, AbortarEnBase, Caer, LiberarEn, Primera
  <2> QED
    BY <1>a, <2>1 DEF EstablePaso, LiberarEn, EsArena
<1> SUFFICES ASSUME NEW c \in concedidas \cap concedidas', NEW i \in Ocupadas,
                    particiones[i].base = c.base, proceso' = "en_marcha"
             PROVE  Tiene(particiones', particiones[i])
  BY <1>a DEF EstablePaso, Tiene
<1>0. /\ i \in DOMAIN particiones /\ i \in 1 .. Len(particiones)
      /\ particiones[i].estado = 1 /\ DOMAIN particiones = 1 .. Len(particiones)
      /\ Len(particiones) \in Nat
  BY Campos DEF Ocupadas, TypeOK
<1>1. CASE UNCHANGED particiones
  BY <1>0, <1>1 DEF Tiene
<1>2. CASE GestionarParticiones
  BY <1>2 DEF GestionarParticiones
<1>3. ASSUME NEW n \in Pedidos, AsignarMemoria(n)
      PROVE  Tiene(particiones', particiones[i])
  <2>1. CASE Rechazar(n)
    BY <1>1, <2>1 DEF Rechazar
  <2>2. CASE AsignarFija(n) \/ AsignarDinamica(n)
    <3>1. PICK k : Reparte(k, n)
      BY <2>2, AsignarReparte, ConfigAssumption
    <3>2. /\ i # k /\ particiones'[i] = particiones[i]
          /\ DOMAIN particiones' = 1 .. Len(particiones')
          /\ Len(particiones') \in {Len(particiones), Len(particiones) + 1}
      BY <1>0, <3>1, LenProperties DEF Reparte
    <3>3. i \in DOMAIN particiones'
      <4> DEFINE L == Len(particiones)
                 m == Len(particiones')
      <4>1. L \in Nat /\ i \in 1 .. L /\ m \in {L, L + 1} /\ DOMAIN particiones' = 1 .. m
        BY <1>0, <3>2
      <4> HIDE DEF L, m
      <4> QED
        BY <4>1
    <3> QED
      BY <3>2, <3>3 DEF Tiene
  <2> QED
    BY <1>3, <2>1, <2>2 DEF AsignarMemoria
<1>4. ASSUME NEW d \in concedidas, LiberarMemoria(d)
      PROVE  Tiene(particiones', particiones[i])
  <2>1. PICK k \in DOMAIN particiones :
          /\ particiones[k].base = d.base
          /\ LiberarUltima(k) \/ AbortarEnFree(k) \/ AbortarEnBase(k, d) \/ LiberarEn(k, d)
    BY <1>4 DEF LiberarMemoria, Primera
  <2>2. CASE LiberarUltima(k) \/ AbortarEnFree(k) \/ AbortarEnBase(k, d)
    BY <1>1, <2>2 DEF LiberarUltima, AbortarEnFree, AbortarEnBase, Caer
  <2>3. CASE LiberarEn(k, d)
    <3>1. c # d
      BY <2>3 DEF LiberarEn
    <3>2. i # k
      BY <2>1, <3>1 DEF ConDuenio
    <3> QED
      BY <1>0, <2>3, <3>2, LiberarEnTipos
  <2> QED
    BY <2>1, <2>2, <2>3
<1>5. CASE UNCHANGED vars
  BY <1>1, <1>5 DEF vars
<1> QED
  BY <1>2, <1>3, <1>4, <1>5 DEF Next

\* ConcesionEstable for every search that never splits, and for every search when
\* free() aborts: no split and no join resizes or moves the partition of a process
\* that stays alive.
THEOREM NadieEstorba ==
  ASSUME SoloFijas \/ SinSigue
  PROVE  Spec => ConcesionEstable
<1> DEFINE Inv == /\ ConDuenio(particiones, concedidas)
                  /\ proceso = "arrancando" => concedidas = {}
<1>1. TypeOK /\ Inv /\ [Next]_vars => [EstablePaso]_vars
  BY EstableStep
<1>2. CASE SoloFijas
  <2>1. InvFijas => Inv
    BY DEF InvFijas
  <2>2. Spec => []InvFijas
    BY <1>2, FijasInvariante
  <2> QED
    BY <1>1, <2>1, <2>2, Tipos, PTL DEF Spec, ConcesionEstable, EstablePaso
<1>3. CASE SinSigue
  <2>1. InvAborta => Inv
    BY DEF InvAborta
  <2>2. Spec => [](TypeOK /\ InvSinJuntas /\ InvAborta)
    BY <1>3, AbortaInvariante
  <2> QED
    BY <1>1, <2>1, <2>2, PTL DEF Spec, ConcesionEstable, EstablePaso
<1> QED
  BY <1>2, <1>3

---------------------------------------------------------------------------
(***************************************************************************)
(* Asignador, for every search when free() aborts the joins: the position  *)
(* that is granted overlaps none of the partitions that hold a grant.      *)
(***************************************************************************)
LEMMA ReparteOtorga ==
  ASSUME TypeOK, InvSinJuntas, InvAborta, NEW n \in Pedidos,
         proceso = "en_marcha", proceso' = "en_marcha",
         arena = "reservada", arena' = arena,
         NEW i, Reparte(i, n)
  PROVE  [Promesa!Next]_VistaPromesa
<1> DEFINE base == particiones[i].base
<1>0. /\ DOMAIN particiones = 1 .. Len(particiones)
      /\ \A k \in DOMAIN particiones :
           particiones[k].base \in Nat /\ particiones[k].tamanio \in Nat
  BY Campos DEF TypeOK
<1>1. /\ i \in DOMAIN particiones /\ particiones[i].estado = 0
      /\ particiones[i].tamanio >= n /\ n \in Nat
      /\ concedidas' = concedidas \cup {Otorgada(i, n)}
  BY <1>0, ConfigAssumption DEF Reparte
<1>2. base \in 0 .. TamTotal /\ base + n <= TamTotal
  <2>1. Hasta(particiones[i]) <= TamTotal
    BY <1>1 DEF InvAborta, EnMemoria
  <2> QED
    BY <1>0, <1>1, <2>1, ConfigAssumption DEF Hasta
<1>3. ASSUME NEW c \in concedidas
      PROVE  Promesa!Ajenos(Otorgada(i, n), c)
  <2>1. PICK j \in DOMAIN particiones :
          /\ particiones[j].estado = 1 /\ particiones[j].base = c.base
          /\ particiones[j].tamanio >= c.limite
    BY DEF InvAborta, ConDuenio
  <2>2. c.base \in Nat /\ c.limite \in Nat
    BY DEF TypeOK, Concesion
  <2>3. i # j
    BY <1>1, <2>1
  <2>4. \/ base + particiones[i].tamanio <= particiones[j].base
        \/ particiones[j].base + particiones[j].tamanio <= base
    BY <1>1, <2>3, Aparte DEF InvSinJuntas
  <2> DEFINE o == Otorgada(i, n)
  <2>5. o.base = base /\ o.limite = n
    BY DEF Otorgada
  <2> DEFINE ti == particiones[i].tamanio
             bj == particiones[j].base
             tj == particiones[j].tamanio
  <2>6. /\ base \in Nat /\ ti \in Nat /\ bj \in Nat /\ tj \in Nat /\ n \in Nat
        /\ ti >= n /\ tj >= c.limite /\ bj = c.base
        /\ base + ti <= bj \/ bj + tj <= base
    BY <1>0, <1>1, <2>1, <2>4
  <2> HIDE DEF o, base, ti, bj, tj
  <2>7. o.base + o.limite <= c.base \/ c.base + c.limite <= o.base
    BY <2>2, <2>5, <2>6
  <2> QED
    BY <2>7 DEF Promesa!Ajenos, o
<1>4. Promesa!Otorgar
  BY <1>1, <1>2, <1>3 DEF Promesa!Otorgar, Otorgada
<1> QED
  BY <1>4 DEF Promesa!Next

LEMMA PromesaAborta ==
  ASSUME SinSigue, TypeOK, InvSinJuntas, InvAborta, arena = "reservada", [Next]_vars
  PROVE  [Promesa!Next]_VistaPromesa
<1>2. CASE GestionarParticiones
  BY <1>2, PromesaQuieta DEF GestionarParticiones
<1>3. ASSUME NEW n \in Pedidos, AsignarMemoria(n)
      PROVE  [Promesa!Next]_VistaPromesa
  <2>1. CASE Rechazar(n)
    BY <1>3, <2>1, PromesaQuieta DEF Rechazar, AsignarMemoria
  <2>2. CASE AsignarFija(n) \/ AsignarDinamica(n)
    <3>1. PICK i : Reparte(i, n)
      BY <2>2, AsignarReparte, ConfigAssumption
    <3> QED
      BY <1>3, <3>1, ReparteOtorga DEF AsignarMemoria
  <2> QED
    BY <1>3, <2>1, <2>2 DEF AsignarMemoria
<1>4. ASSUME NEW c \in concedidas, LiberarMemoria(c)
      PROVE  [Promesa!Next]_VistaPromesa
  BY <1>4, PromesaLibera
<1>5. CASE UNCHANGED vars
  BY <1>5 DEF vars, VistaPromesa
<1> QED
  BY <1>2, <1>3, <1>4, <1>5 DEF Next

\* CumplePromesa for every search, the dynamic ones and their splits included, when
\* free() aborts: what Memoria grants overlaps no block in use.
THEOREM AbortaCumplePromesa ==
  ASSUME SinSigue
  PROVE  Spec => CumplePromesa
<1>1. Init => Promesa!Init
  BY DEF Init, Promesa!Init
<1>2. TypeOK /\ InvSinJuntas /\ InvAborta /\ [Next]_vars =>
        [Promesa!Next]_VistaPromesa
  BY PromesaAborta, PromesaSinArena
<1> QED
  BY <1>1, <1>2, AbortaInvariante, PTL DEF Spec, CumplePromesa, Promesa!Spec, VistaPromesa

=============================================================================
