------------------------------ MODULE CpuProofs ------------------------------
(***************************************************************************)
(* Proofs about Cpu, for every set of programs, every width of a register, *)
(* any number of dispatches and interruptions, and whatever the replies    *)
(* read out of turn leave in the registers.                                *)
(***************************************************************************)
EXTENDS Cpu, SecuenciasProofs

Palabras == 0 .. Modulo - 1
Contextos == [Registros -> Palabras]
Lineas == UNION {{p[i] : i \in DOMAIN p} : p \in Programas}
Replicas ==
  [tipo : {"contexto"}, contexto : Contextos] \cup [tipo : {"instruccion"}, linea : Lineas]
    \cup [tipo : {"estado"}]
Codigos == Comunes \cup Syscalls

\* The type invariant, what may be waiting to be read from Memoria, and who has
\* the hilo: the CPU unless it waits on the dispatch socket.
InvTipos ==
  /\ TypeOK
  /\ rafagas \in Nat
  /\ pc # "libre" => rafagas = respondidas + 1
  /\ respuestas \in Seq(Replicas)

\* Only the last code of bufferRetorno may be a syscall, and then the cycle has
\* ended; only the two accesses to memory wait for their data.
InvCierra ==
  /\ pc = "memoria" => instr.instruccion \in {"READ_MEM", "WRITE_MEM"}
  /\ \A i \in 1 .. Len(retorno) :
       retorno[i] \in Syscalls =>
         i = Len(retorno) /\ pc \in {"devuelve", "libre", "contexto", "segv"}

---------------------------------------------------------------------------
(* bufferRetorno *)

\* At most one code is written at a time.
LEMMA CodigoTipo ==
  ASSUME NEW i
  PROVE  Codigo(i) = <<>> \/ \E c \in Codigos : Codigo(i) = <<c>>
<1>1. "SUM" \in Codigos
  BY DEF Codigos, Comunes
<1> QED
  BY <1>1 DEF Codigo, Codigos

\* Writing a code keeps the older ones in order, forgetting one from the middle
\* when there are too many, and leaves the new one at the end.
LEMMA AnotarUno ==
  ASSUME NEW c \in Codigos, retorno \in Seq(Codigos), Len(retorno) <= MaxRetorno
  PROVE  /\ Anotar(<<c>>) \in Seq(Codigos)
         /\ Len(Anotar(<<c>>)) \in 1 .. MaxRetorno
         /\ Anotar(<<c>>)[Len(Anotar(<<c>>))] = c
         /\ \A i \in 1 .. Len(Anotar(<<c>>)) - 1 :
              \E j \in 1 .. Len(retorno) : Anotar(<<c>>)[i] = retorno[j]
<1> DEFINE todo == retorno \o <<c>>
           n == Len(retorno)
<1>0. MaxRetorno \in Nat \ {0, 1} /\ n \in Nat
  BY CpuAssumption, LenProperties
<1>1. <<c>> \in Seq(Codigos) /\ Len(<<c>>) = 1 /\ <<c>>[1] = c
  OBVIOUS
<1>2. /\ todo \in Seq(Codigos) /\ Len(todo) = n + 1
      /\ \A i \in 1 .. n : todo[i] = retorno[i]
      /\ todo[n + 1] = c
  BY <1>0, <1>1, ConcatProperties
<1>3. CASE n + 1 <= MaxRetorno
  <2>1. Anotar(<<c>>) = todo
    BY <1>2, <1>3 DEF Anotar
  <2> HIDE DEF todo
  <2> QED
    BY <2>1, <1>0, <1>2, <1>3
<1>4. CASE n = MaxRetorno
  <2> DEFINE cola == SubSeq(todo, 3, n + 1)
             cabeza == <<Head(todo)>>
  <2>1. Anotar(<<c>>) = cabeza \o cola
    <3>1. Len(todo) - MaxRetorno + 2 = 3 /\ ~(Len(todo) <= MaxRetorno)
      BY <1>0, <1>2, <1>4
    <3> QED
      BY <3>1, <1>2 DEF Anotar
  <2>2. /\ cola \in Seq(Codigos) /\ Len(cola) = n - 1
        /\ \A i \in 1 .. n - 1 : cola[i] = todo[i + 2]
    <3>1. 3 \in Int /\ n + 1 \in Int /\ \A i \in 3 .. n + 1 : todo[i] \in Codigos
      BY <1>0, <1>2, ElementOfSeq
    <3> HIDE DEF todo
    <3>2. /\ cola \in Seq(Codigos)
          /\ Len(cola) = IF 3 <= n + 1 THEN (n + 1) - 3 + 1 ELSE 0
          /\ \A i \in 1 .. (n + 1) - 3 + 1 : cola[i] = todo[3 + i - 1]
      BY <3>1, SubSeqProperties
    <3> QED
      BY <3>2, <1>0, <1>4
  <2>3. cabeza \in Seq(Codigos) /\ Len(cabeza) = 1 /\ cabeza[1] = retorno[1]
    <3>1. todo # <<>> /\ todo[1] = retorno[1] /\ retorno[1] \in Codigos
      BY <1>0, <1>2, <1>4, ElementOfSeq
    <3>2. Head(todo) = todo[1]
      BY <3>1, <1>2, HeadTailProperties
    <3> QED
      BY <3>1, <3>2
  <2> HIDE DEF cabeza, cola, todo
  <2>4. /\ Anotar(<<c>>) \in Seq(Codigos)
        /\ Len(Anotar(<<c>>)) = n
        /\ Anotar(<<c>>)[1] = retorno[1]
        /\ \A i \in 2 .. n : Anotar(<<c>>)[i] = cola[i - 1]
    <3>1. /\ cabeza \o cola \in Seq(Codigos)
          /\ Len(cabeza \o cola) = Len(cabeza) + Len(cola)
          /\ \A i \in 1 .. Len(cabeza) + Len(cola) :
               (cabeza \o cola)[i] = IF i <= Len(cabeza) THEN cabeza[i]
                                    ELSE cola[i - Len(cabeza)]
      BY <2>2, <2>3, ConcatProperties
    <3>2. Len(cabeza) = 1 /\ Len(cola) = n - 1 /\ n \in Nat /\ n >= 2
      BY <2>2, <2>3, <1>0, <1>4
    <3> HIDE DEF n
    <3>3. Len(cabeza \o cola) = n /\ (cabeza \o cola)[1] = cabeza[1]
      BY <3>1, <3>2
    <3>4. \A i \in 2 .. n : (cabeza \o cola)[i] = cola[i - 1]
      BY <3>1, <3>2
    <3> QED
      BY <3>1, <3>2, <3>3, <3>4, <2>1, <2>3
  <2>5. \A i \in 2 .. n - 1 : cola[i - 1] = retorno[i + 1]
    BY <2>2, <1>0, <1>2, <1>4
  <2>6. cola[n - 1] = c
    BY <2>2, <1>0, <1>2, <1>4
  <2>7. ASSUME NEW i \in 1 .. n - 1
        PROVE  \E j \in 1 .. Len(retorno) : Anotar(<<c>>)[i] = retorno[j]
    <3>1. CASE i = 1
      BY <3>1, <2>4, <1>0, <1>4
    <3>2. CASE i \in 2 .. n - 1
      BY <3>2, <2>4, <2>5, <1>0, <1>4
    <3> QED
      BY <3>1, <3>2, <1>0
  <2>8. Len(Anotar(<<c>>)) = n /\ n \in 2 .. n
    BY <2>4, <1>0, <1>4
  <2>9. Anotar(<<c>>)[n] = c
    BY <2>4, <2>6, <2>8
  <2> HIDE DEF n
  <2>10. n \in 1 .. MaxRetorno
    BY <2>8, <1>0, <1>4
  <2> HIDE DEF n
  <2> QED
    BY <2>4, <2>7, <2>8, <2>9, <2>10
<1> QED
  BY <1>0, <1>3, <1>4

\* Writing nothing changes nothing.
LEMMA AnotarNada ==
  ASSUME retorno \in Seq(Codigos), Len(retorno) <= MaxRetorno
  PROVE  Anotar(<<>>) = retorno
<1>1. retorno \o <<>> = retorno
  BY ConcatEmptySeq
<1> QED
  BY <1>1 DEF Anotar

---------------------------------------------------------------------------
(* Decode and execute *)

LEMMA Resto ==
  ASSUME NEW M \in Nat \ {0}, NEW m \in Int
  PROVE  m % M \in 0 .. M - 1
<1>1. M > 0
  OBVIOUS
<1> QED
  BY <1>1

LEMMA AnotarUnCodigo ==
  ASSUME NEW i, retorno \in Seq(Codigos), Len(retorno) <= MaxRetorno
  PROVE  Anotar(Codigo(i)) \in Seq(Codigos) /\ Len(Anotar(Codigo(i))) <= MaxRetorno
<1>1. CASE Codigo(i) = <<>>
  BY <1>1, AnotarNada
<1>2. CASE \E c \in Codigos : Codigo(i) = <<c>>
  <2>1. PICK c \in Codigos : Codigo(i) = <<c>>
    BY <1>2
  <2>2. Len(Anotar(<<c>>)) \in 1 .. MaxRetorno /\ MaxRetorno \in Nat
    BY AnotarUno, CpuAssumption
  <2> QED
    BY <2>1, <2>2, AnotarUno
<1> QED
  BY <1>1, <1>2, CodigoTipo

\* The fields of a decoded line: registers or NULL, and a value of the width.
LEMMA ParsearTipo ==
  ASSUME NEW l, \A j \in DOMAIN l.ops : l.ops[j].numero \in Nat
  PROVE  LET d == parsearInstruccion(l)
         IN  /\ d.registro1 \in Registros \cup {NULO}
             /\ d.registro2 \in Registros \cup {NULO}
             /\ d.valor \in Palabras
<1>1. \A op : obtenerRegistro(op) \in Registros \cup {NULO}
  BY DEF obtenerRegistro
<1>2. Modulo \in Nat \ {0}
  BY CpuAssumption
<1>3. "PC" \in Registros
  BY DEF Registros
<1> DEFINE i == IF l.nombre = "" THEN "SET" ELSE obtenerInstruccion(l.nombre)
           Registro(n) == IF n \in DOMAIN l.ops THEN obtenerRegistro(l.ops[n]) ELSE NULO
           v == PosValor(i, Len(l.ops))
           valor == IF v \in DOMAIN l.ops THEN l.ops[v].numero % Modulo ELSE 0
<1>4. \A n : Registro(n) \in Registros \cup {NULO}
  BY <1>1
<1>5. valor \in Palabras
  <2>1. \A m \in Nat : m % Modulo \in Palabras
    BY <1>2, Resto DEF Palabras
  <2> HIDE DEF v
  <2> QED
    BY <2>1, <1>2 DEF Palabras
<1>6. parsearInstruccion(l) =
        [instruccion |-> i,
         registro1   |-> Registro(PosRegistro1(i)),
         registro2   |-> IF i = "JNZ" THEN "PC" ELSE Registro(PosRegistro2(i)),
         valor       |-> valor]
  BY DEF parsearInstruccion
<1> HIDE DEF i, Registro, v, valor
<1> QED
  BY <1>3, <1>4, <1>5, <1>6

\* No instruction takes a register out of its width.
LEMMA EfectoTipo ==
  ASSUME NEW d, NEW r \in Contextos,
         d.registro1 \in Registros \cup {NULO}, d.registro2 \in Registros \cup {NULO},
         d.valor \in Palabras, NULO \notin Desreferencia(d)
  PROVE  Efecto(d, r) \in Contextos
<1>1. Modulo \in Nat \ {0}
  BY CpuAssumption
<1>2. \A x, y \in Palabras : (x + y) % Modulo \in Palabras /\ (x - y) % Modulo \in Palabras
  <2> TAKE x, y \in Palabras
  <2>1. x + y \in Int /\ x - y \in Int
    BY <1>1 DEF Palabras
  <2> QED
    BY <2>1, <1>1, Resto DEF Palabras
<1>3. \A x \in Registros, p \in Palabras : [r EXCEPT ![x] = p] \in Contextos
  BY DEF Contextos
<1>4. \A x \in Registros : r[x] \in Palabras
  BY DEF Contextos
<1>5. CASE d.instruccion = "SET"
  <2>1. d.registro1 \in Registros
    BY <1>5 DEF Desreferencia
  <2> QED
    BY <2>1, <1>3, <1>5 DEF Efecto
<1>6. CASE d.instruccion = "SUM"
  <2>1. d.registro1 \in Registros /\ d.registro2 \in Registros
    BY <1>6 DEF Desreferencia
  <2>2. (r[d.registro1] + r[d.registro2]) % Modulo \in Palabras
    BY <2>1, <1>2, <1>4
  <2>3. Efecto(d, r) = [r EXCEPT ![d.registro1] = (r[d.registro1] + r[d.registro2]) % Modulo]
    BY <1>6 DEF Efecto
  <2> QED
    BY <2>1, <2>2, <2>3, <1>3
<1>7. CASE d.instruccion = "SUB" /\ NULO \notin {d.registro1, d.registro2}
  <2>1. d.registro1 \in Registros /\ d.registro2 \in Registros
    BY <1>7
  <2>2. (r[d.registro1] - r[d.registro2]) % Modulo \in Palabras
    BY <2>1, <1>2, <1>4
  <2>3. Efecto(d, r) = [r EXCEPT ![d.registro1] = (r[d.registro1] - r[d.registro2]) % Modulo]
    BY <1>7 DEF Efecto
  <2> QED
    BY <2>1, <2>2, <2>3, <1>3
<1>8. CASE d.instruccion = "JNZ"
  <2>1. "PC" \in Registros
    BY DEF Registros
  <2> QED
    BY <2>1, <1>3, <1>8 DEF Efecto
<1>9. CASE ~(d.instruccion \in {"SET", "SUM", "JNZ"})
           /\ ~(d.instruccion = "SUB" /\ NULO \notin {d.registro1, d.registro2})
  BY <1>9 DEF Efecto
<1> QED
  BY <1>5, <1>6, <1>7, <1>8, <1>9

---------------------------------------------------------------------------
(* Replies of Memoria *)

LEMMA Vacia == <<>> \in Seq(Codigos) /\ <<>> \in Seq(Replicas) /\ Len(<<>>) = 0
OBVIOUS

LEMMA Recibida ==
  ASSUME respuestas \in Seq(Replicas)
  PROVE  /\ Consumir => respuestas' \in Seq(Replicas)
         /\ Leida.tipo = "contexto" => Leida.contexto \in Contextos
         /\ Leida.tipo = "instruccion" => Leida.linea \in Lineas
<1>1. CASE respuestas = <<>>
  BY <1>1, Vacia DEF Consumir, Leida
<1>2. CASE respuestas # <<>>
  <2>1. Head(respuestas) \in Replicas /\ Tail(respuestas) \in Seq(Replicas)
    BY <1>2, HeadTailProperties
  <2>2. \A r \in Replicas :
          /\ r.tipo = "contexto" => r.contexto \in Contextos
          /\ r.tipo = "instruccion" => r.linea \in Lineas
    BY DEF Replicas
  <2> QED
    BY <1>2, <2>1, <2>2 DEF Consumir, Leida
<1> QED
  BY <1>1, <1>2

LEMMA OperandosDeLinea ==
  ASSUME NEW l, l \in Lineas \/ \E n : l = Linea(n, <<>>)
  PROVE  \A j \in DOMAIN l.ops : l.ops[j].numero \in Nat
<1>1. CASE l \in Lineas
  <2>1. PICK p \in Programas : \E i \in DOMAIN p : l = p[i]
    BY <1>1 DEF Lineas
  <2> QED
    BY <2>1, CpuAssumption
<1>2. CASE \E n : l = Linea(n, <<>>)
  <2>1. l.ops = <<>>
    BY <1>2 DEF Linea
  <2> QED
    BY <2>1
<1> QED
  BY <1>1, <1>2

\* What decode makes of anything received has registers, or NULL, and a value of the
\* width.
LEMMA DecodificadaTipo ==
  ASSUME TypeOK, respuestas \in Seq(Replicas), NEW d \in Decodificada
  PROVE  /\ d.registro1 \in Registros \cup {NULO}
         /\ d.registro2 \in Registros \cup {NULO}
         /\ d.valor \in Palabras
<1>1. CASE d = instr
  BY <1>1 DEF TypeOK, Palabras
<1>2. CASE \E l : (l \in Lineas \/ \E n : l = Linea(n, <<>>)) /\ d = parsearInstruccion(l)
  BY <1>2, OperandosDeLinea, ParsearTipo
<1>3. d = instr \/ \E l : (l \in Lineas \/ \E n : l = Linea(n, <<>>))
                           /\ d = parsearInstruccion(l)
  <2>1. Leida.tipo = "instruccion" => Leida.linea \in Lineas
    BY Recibida
  <2> QED
    BY <2>1 DEF Decodificada
<1> QED
  BY <1>1, <1>2, <1>3

LEMMA ContextoTipo ==
  /\ Cero \in Contextos
  /\ \A p, a \in Palabras : Contexto(p, a) \in Contextos
  /\ 0 \in Palabras
<1>1. 0 \in Palabras /\ Limite \in Palabras
  BY CpuAssumption DEF Palabras
<1>2. Cero \in Contextos
  BY <1>1 DEF Cero, Contextos
<1> QED
  BY <1>1, <1>2 DEF Contexto, Contextos, Registros

LEMMA ResponderTipo ==
  ASSUME respuestas \in Seq(Replicas), NEW r \in Replicas, Responder(r)
  PROVE  respuestas' \in Seq(Replicas)
BY AppendProperties DEF Responder

LEMMA InitTipos == Init => InvTipos
<1> SUFFICES ASSUME Init
             PROVE  InvTipos
  OBVIOUS
<1>1. registros \in Contextos /\ guardado \in Contextos /\ 0 \in Palabras
  BY ContextoTipo DEF Init
<1>2. retorno = <<>> /\ respuestas = <<>> /\ MaxRetorno \in Nat
  BY CpuAssumption DEF Init
<1>3. /\ instr.registro1 \in Registros \cup {NULO}
      /\ instr.registro2 \in Registros \cup {NULO}
      /\ instr.valor = 0
  BY DEF Init, SinInstruccion
<1>4. retorno \in Seq(Codigos) /\ Len(retorno) <= MaxRetorno /\ respuestas \in Seq(Replicas)
  BY <1>2, Vacia
<1> QED
  BY <1>1, <1>3, <1>4 DEF Init, InvTipos, TypeOK, Contextos, Palabras, Codigos

LEMMA NextTipos == InvTipos /\ [Next]_vars => InvTipos'
<1> SUFFICES ASSUME InvTipos, [Next]_vars
             PROVE  InvTipos'
  OBVIOUS
<1> USE DEF InvTipos
<1>0. /\ registros \in Contextos /\ guardado \in Contextos
      /\ retorno \in Seq(Codigos) /\ Len(retorno) <= MaxRetorno
      /\ respuestas \in Seq(Replicas)
      /\ instr.valor \in Palabras /\ 0 \in Palabras
      /\ MaxRetorno \in Nat
  BY ContextoTipo, CpuAssumption DEF TypeOK, Contextos, Palabras, Codigos
<1>1. CASE EnviarTCB
  BY <1>1 DEF EnviarTCB, TypeOK, dispatch
<1>2. CASE Interrumpir
  BY <1>2 DEF Interrumpir, TypeOK, dispatch
<1>3. CASE RecibirInterrupcion
  BY <1>3 DEF RecibirInterrupcion, TypeOK, dispatch, kernel
<1>4. CASE TomarTCB
  <2>1. respuestas' \in Seq(Replicas)
    <3>1. [tipo |-> "contexto", contexto |-> guardado] \in Replicas
      BY <1>0 DEF Replicas
    <3> QED
      BY <1>0, <1>4, <3>1, ResponderTipo DEF TomarTCB
  <2> QED
    BY <1>4, <2>1 DEF TomarTCB, TypeOK, SiFalla, dispatch, kernel
<1>5. CASE RecibirContexto
  <2>1. registros' \in Contextos
    <3>1. \A g \in RegistrosBasura : Contexto(g[1], g[2]) \in Contextos
      BY ContextoTipo, CpuAssumption DEF Palabras
    <3> QED
      BY <1>0, <1>5, <3>1, Recibida DEF RecibirContexto
  <2>2. respuestas' \in Seq(Replicas)
    BY <1>0, <1>5, Recibida DEF RecibirContexto
  <2>3. retorno' \in Seq(Codigos) /\ Len(retorno') <= MaxRetorno
    BY <1>0, <1>5, Vacia DEF RecibirContexto
  <2> QED
    BY <1>5, <2>1, <2>2, <2>3
    DEF RecibirContexto, TypeOK, SiFalla, kernel, Contextos, Palabras, Codigos
<1>6. CASE Fetch
  <2>1. respuestas' \in Seq(Replicas)
    <3>1. \A n : n \in DOMAIN programa =>
            [tipo |-> "instruccion", linea |-> programa[n]] \in Replicas
      <4>1. \A n : n \in DOMAIN programa => programa[n] \in Lineas
        BY DEF TypeOK, Lineas
      <4> QED
        BY <4>1 DEF Replicas
    <3>2. CASE memoria = "viva" /\ existe /\ registros["PC"] + 1 \in DOMAIN programa
      BY <1>0, <1>6, <3>1, <3>2, ResponderTipo DEF Fetch
    <3>3. CASE ~(memoria = "viva" /\ existe /\ registros["PC"] + 1 \in DOMAIN programa)
      BY <1>0, <1>6, <3>3 DEF Fetch
    <3> QED
      BY <3>2, <3>3
  <2>2. memoria' \in {"viva", "caida"} /\ pc' \in {"fetch", "segv"}
    BY <1>6 DEF Fetch, TypeOK, SiFalla
  <2> QED
    BY <1>6, <2>1, <2>2 DEF Fetch, TypeOK, kernel
<1>7. CASE Desalojar
  BY <1>7 DEF Desalojar, TypeOK, dispatch, kernel
<1>8. CASE Ejecutar
  <2>1. PICK d \in Decodificada :
          /\ instr' = d
          /\ IF NULO \in Desreferencia(d)
             THEN pc' = "segv" /\ UNCHANGED <<registros, retorno>>
             ELSE IF d.instruccion \in {"READ_MEM", "WRITE_MEM"}
             THEN pc' \in {"memoria", "segv"} /\ UNCHANGED <<registros, retorno>>
             ELSE /\ registros' = Efecto(d, registros)
                  /\ retorno' = Anotar(Codigo(d.instruccion))
                  /\ pc' = IF interrupcionInterna(d.instruccion) THEN "devuelve" ELSE "avanza"
    BY <1>8 DEF Ejecutar, SiFalla
  <2>2. /\ d.registro1 \in Registros \cup {NULO}
        /\ d.registro2 \in Registros \cup {NULO}
        /\ d.valor \in Palabras
    BY <1>0, DecodificadaTipo
  <2>3. registros' \in Contextos
    BY <1>0, <2>1, <2>2, EfectoTipo
  <2>4. retorno' \in Seq(Codigos) /\ Len(retorno') <= MaxRetorno
    BY <1>0, <2>1, AnotarUnCodigo
  <2>5. pc' \in {"segv", "memoria", "devuelve", "avanza"} /\ instr' = d
    BY <2>1
  <2>6. respuestas' \in Seq(Replicas)
    BY <1>0, <1>8, Recibida DEF Ejecutar
  <2>7. /\ pc # "libre"
        /\ UNCHANGED <<programa, interrupcionRecibida, kernel, guardado, memoria, existe>>
    BY <1>8 DEF Ejecutar
  <2> QED
    BY <2>2, <2>3, <2>4, <2>5, <2>6, <2>7
    DEF TypeOK, kernel, Contextos, Palabras, Codigos
<1>9. CASE RecibirDato
  <2>1. registros' \in Contextos
    <3>1. \A g \in RegistrosBasura : g[2] \in Palabras
      BY CpuAssumption DEF Palabras
    <3>2. CASE UNCHANGED registros
      BY <1>0, <3>2
    <3>3. CASE /\ instr.registro1 # NULO
               /\ \E g \in RegistrosBasura :
                    registros' = [registros EXCEPT ![instr.registro1] = g[2]]
      <4>1. instr.registro1 \in Registros
        BY <3>3 DEF TypeOK
      <4> QED
        BY <1>0, <3>1, <3>3, <4>1 DEF Contextos
    <3> QED
      BY <1>9, <3>2, <3>3 DEF RecibirDato
  <2>2. retorno' \in Seq(Codigos) /\ Len(retorno') <= MaxRetorno
    BY <1>0, <1>9, AnotarUnCodigo DEF RecibirDato
  <2>3. pc' \in {"segv", "devuelve", "avanza"}
    BY <1>9 DEF RecibirDato, SiFalla
  <2>4. respuestas' \in Seq(Replicas)
    BY <1>0, <1>9, Recibida DEF RecibirDato
  <2>5. /\ pc # "libre"
        /\ UNCHANGED <<programa, instr, interrupcionRecibida, kernel, guardado, memoria,
                    existe>>
    BY <1>9 DEF RecibirDato
  <2> QED
    BY <2>1, <2>2, <2>3, <2>4, <2>5 DEF TypeOK, kernel, Contextos, Palabras, Codigos
<1>10. CASE Avanzar
  <2>1. registros' \in Contextos
    <3>1. "PC" \in Registros
      BY DEF Registros
    <3>2. (registros["PC"] + 1) % Modulo \in Palabras
      <4>1. registros["PC"] + 1 \in Int /\ Modulo \in Nat \ {0}
        BY <1>0, <3>1, CpuAssumption DEF Contextos, Palabras
      <4> QED
        BY <4>1, Resto DEF Palabras
    <3> QED
      BY <1>0, <1>10, <3>1, <3>2 DEF Avanzar, Contextos
  <2> QED
    BY <1>10, <2>1 DEF Avanzar, TypeOK, kernel, Contextos, Palabras
<1>11. CASE Devolver
  <2>1. respuestas' \in Seq(Replicas)
    <3>1. [tipo |-> "estado"] \in Replicas
      BY DEF Replicas
    <3> QED
      BY <1>0, <1>11, <3>1, ResponderTipo DEF Devolver
  <2>2. guardado' \in Contextos
    BY <1>0, <1>11 DEF Devolver
  <2>3. \/ pc' = "libre" /\ respondidas' = respondidas + 1
        \/ pc' = "segv" /\ UNCHANGED respondidas
    BY <1>11 DEF Devolver
  <2> QED
    BY <1>11, <2>1, <2>2, <2>3 DEF Devolver, TypeOK, dispatch, Contextos, Palabras
<1>12. CASE UNCHANGED vars
  BY <1>12 DEF vars, TypeOK, dispatch, kernel
<1>13. CASE Olvidar
  BY <1>13 DEF Olvidar, TypeOK, dispatch, kernel
<1> QED
  BY <1>1, <1>2, <1>3, <1>4, <1>5, <1>6, <1>7, <1>8, <1>9, <1>10, <1>11, <1>12, <1>13
  DEF Next, Ciclo

\* The types of the CPU: the registers keep their width whatever the
\* program and the replies that are read out of turn, and the Kernel is owed one answer at
\* most (EjecutarProceso and ServerCPU).
THEOREM Tipos == Spec => []TypeOK
<1>1. InvTipos => TypeOK
  BY DEF InvTipos
<1> QED
  BY <1>1, InitTipos, NextTipos, PTL DEF Spec

---------------------------------------------------------------------------
(* A syscall ends its burst *)

LEMMA NextCierra == InvTipos /\ InvCierra /\ [Next]_vars => InvCierra'
<1> SUFFICES ASSUME InvTipos, InvCierra, [Next]_vars
             PROVE  InvCierra'
  OBVIOUS
<1> USE DEF InvCierra
<1>0. retorno \in Seq(Codigos) /\ Len(retorno) <= MaxRetorno
  BY DEF InvTipos, TypeOK, Codigos
\* Where the cycle runs, no code written so far is a syscall.
<1> DEFINE SinSyscalls == \A j \in 1 .. Len(retorno) : retorno[j] \notin Syscalls
<1>a. ASSUME NEW i, SinSyscalls,
             i \in Syscalls => pc' = "devuelve",
             retorno' = Anotar(Codigo(i))
      PROVE  \A j \in 1 .. Len(retorno') :
               retorno'[j] \in Syscalls => j = Len(retorno') /\ pc' = "devuelve"
  <2>1. CASE Codigo(i) = <<>>
    BY <1>0, <1>a, <2>1, AnotarNada
  <2>2. CASE \E c \in Codigos : Codigo(i) = <<c>>
    <3>1. PICK c \in Codigos : Codigo(i) = <<c>>
      BY <2>2
    <3>2. c \in Syscalls => pc' = "devuelve"
      <4>1. "SUM" \notin Syscalls
        BY DEF Syscalls
      <4>2. c = "SUM" \/ c = i
        BY <3>1 DEF Codigo
      <4> QED
        BY <1>a, <4>1, <4>2
    <3>3. /\ Len(retorno') \in Nat
          /\ retorno'[Len(retorno')] = c
          /\ \A j \in 1 .. Len(retorno') - 1 : retorno'[j] \notin Syscalls
      <4>1. Len(retorno') \in 1 .. MaxRetorno /\ MaxRetorno \in Nat
        <5>1. retorno' = Anotar(<<c>>)
          BY <1>a, <3>1
        <5>2. Len(Anotar(<<c>>)) \in 1 .. MaxRetorno /\ MaxRetorno \in Nat
          BY <1>0, AnotarUno, CpuAssumption
        <5> QED
          BY <5>1, <5>2
      <4>2. /\ retorno'[Len(retorno')] = c
            /\ \A j \in 1 .. Len(retorno') - 1 :
                 \E k \in 1 .. Len(retorno) : retorno'[j] = retorno[k]
        <5>1. retorno' = Anotar(<<c>>)
          BY <1>a, <3>1
        <5>2. /\ Anotar(<<c>>)[Len(Anotar(<<c>>))] = c
              /\ \A j \in 1 .. Len(Anotar(<<c>>)) - 1 :
                   \E k \in 1 .. Len(retorno) : Anotar(<<c>>)[j] = retorno[k]
          BY <1>0, AnotarUno
        <5> QED
          BY <5>1, <5>2
      <4> QED
        BY <1>a, <4>1, <4>2
    <3>4. \A j \in 1 .. Len(retorno') :
            j = Len(retorno') \/ j \in 1 .. Len(retorno') - 1
      BY <3>3
    <3> QED
      BY <3>2, <3>3, <3>4
  <2> QED
    BY <2>1, <2>2, CodigoTipo
<1>1. CASE EnviarTCB
  BY <1>1 DEF EnviarTCB, dispatch
<1>2. CASE Interrumpir
  BY <1>2 DEF Interrumpir, dispatch
<1>3. CASE RecibirInterrupcion
  BY <1>3 DEF RecibirInterrupcion, dispatch
<1>4. CASE TomarTCB
  BY <1>4 DEF TomarTCB, SiFalla, dispatch
<1>5. CASE RecibirContexto
  <2>1. Len(retorno') = 0 /\ pc' \in {"ciclo", "segv"}
    BY <1>5, Vacia DEF RecibirContexto, SiFalla
  <2> QED
    BY <2>1
<1>6. CASE Fetch
  BY <1>6 DEF Fetch, SiFalla
<1>7. CASE Desalojar
  BY <1>7 DEF Desalojar, dispatch
<1>8. CASE Ejecutar
  <2>1. PICK d \in Decodificada :
          /\ instr' = d
          /\ IF NULO \in Desreferencia(d)
             THEN pc' = "segv" /\ UNCHANGED <<registros, retorno>>
             ELSE IF d.instruccion \in {"READ_MEM", "WRITE_MEM"}
             THEN pc' \in {"memoria", "segv"} /\ UNCHANGED <<registros, retorno>>
             ELSE /\ registros' = Efecto(d, registros)
                  /\ retorno' = Anotar(Codigo(d.instruccion))
                  /\ pc' = IF interrupcionInterna(d.instruccion) THEN "devuelve" ELSE "avanza"
    BY <1>8 DEF Ejecutar, SiFalla
  <2>2. SinSyscalls
    BY <1>8 DEF Ejecutar
  <2> HIDE DEF SinSyscalls
  <2>3. CASE UNCHANGED retorno /\ pc' = "segv"
    BY <2>2, <2>3 DEF SinSyscalls
  <2>4. CASE UNCHANGED retorno /\ d.instruccion \in {"READ_MEM", "WRITE_MEM"} /\ instr' = d
    BY <2>2, <2>4 DEF SinSyscalls
  <2>5. CASE /\ retorno' = Anotar(Codigo(d.instruccion))
             /\ pc' = IF interrupcionInterna(d.instruccion) THEN "devuelve" ELSE "avanza"
    <3>1. d.instruccion \in Syscalls => pc' = "devuelve"
      BY <2>5 DEF interrupcionInterna
    <3>2. pc' # "memoria"
      BY <2>5
    <3> QED
      BY <1>a, <2>2, <2>5, <3>1, <3>2
  <2> QED
    BY <2>1, <2>3, <2>4, <2>5
<1>9. CASE RecibirDato
  <2>1. SinSyscalls
    BY <1>9 DEF RecibirDato
  <2>2. instr.instruccion \notin Syscalls
    BY <1>9 DEF RecibirDato, Syscalls
  <2>3. retorno' = Anotar(Codigo(instr.instruccion)) /\ pc' # "memoria"
    BY <1>9 DEF RecibirDato, SiFalla
  <2> HIDE DEF SinSyscalls
  <2> QED
    BY <1>a, <2>1, <2>2, <2>3
<1>10. CASE Avanzar
  BY <1>10 DEF Avanzar
<1>11. CASE Devolver
  BY <1>11 DEF Devolver, dispatch
<1>12. CASE UNCHANGED vars
  BY <1>12 DEF vars, dispatch
<1>13. CASE Olvidar
  BY <1>13 DEF Olvidar, dispatch
<1> QED
  BY <1>1, <1>2, <1>3, <1>4, <1>5, <1>6, <1>7, <1>8, <1>9, <1>10, <1>11, <1>12, <1>13
  DEF Next, Ciclo

\* After a syscall nothing is executed until the next dispatch, with any program, any
\* replies left unread and interruptions at any moment.
THEOREM UnaSyscallPorRafaga == Spec => []SyscallCierra
<1>1. Init => InvCierra
  <2> SUFFICES ASSUME Init
               PROVE  InvCierra
    OBVIOUS
  <2>1. Len(retorno) = 0 /\ pc = "libre"
    BY Vacia DEF Init
  <2> QED
    BY <2>1 DEF InvCierra
<1>2. InvTipos /\ InvCierra => SyscallCierra
  <2> SUFFICES ASSUME InvTipos, InvCierra
               PROVE  SyscallCierra
    OBVIOUS
  <2>1. Len(retorno) \in Nat
    BY LenProperties DEF InvTipos, TypeOK
  <2> QED
    BY <2>1 DEF InvCierra, SyscallCierra
<1> QED
  BY <1>1, <1>2, InitTipos, NextTipos, NextCierra, PTL DEF Spec

---------------------------------------------------------------------------
(* A program without jumps is executed in order *)

\* What a program without jumps must be for its first burst to be a walk: its
\* lines are known, none writes the PC, and bufferRetorno remembers them all.
Claro(p) ==
  /\ \E n \in 0 .. MaxRetorno : n < Modulo /\ DOMAIN p = 1 .. n
  /\ \A i \in DOMAIN p :
       /\ p[i].nombre \in Codigos
       /\ p[i].nombre \in {"SET", "SUM", "SUB"} => parsearInstruccion(p[i]).registro1 # "PC"

TodosClaros ==
  \A p \in Programas : (\A i \in DOMAIN p : p[i].nombre # "JNZ") => Claro(p)

SinEmpezar == respuestas = <<>> /\ retorno = <<>> /\ guardado = Contexto(0, 0)

\* The codes written are the lines executed, the PC is at the next one, or still
\* at the last one before PC++, and nothing waits to be read but what was asked for.
EnSuLinea ==
  /\ pc = "contexto" =>
       /\ retorno = <<>>
       /\ respuestas \in {<<>>, <<[tipo |-> "contexto", contexto |-> Contexto(0, 0)]>>}
  /\ pc \in {"ciclo", "fetch"} => registros["PC"] = Len(retorno)
  /\ pc = "avanza" => registros["PC"] + 1 = Len(retorno)
  /\ pc \in {"ciclo", "avanza", "memoria"} => respuestas = <<>>
  /\ pc = "fetch" /\ respuestas # <<>> =>
       /\ Len(retorno) + 1 \in DOMAIN programa
       /\ respuestas = <<[tipo |-> "instruccion", linea |-> programa[Len(retorno) + 1]]>>

Recorridas ==
  \A i \in 1 .. Len(retorno) : i \in DOMAIN programa /\ retorno[i] = programa[i].nombre

InvOrden ==
  SinSaltos /\ rafagas <= 1 /\ memoria = "viva" =>
    /\ rafagas = 0 => pc = "libre"
    /\ pc = "libre" /\ respondidas = 0 => SinEmpezar
    /\ Recorridas
    /\ EnSuLinea

\* While there is room, a code is written after the others.
LEMMA AnotarCabe ==
  ASSUME NEW c \in Codigos, retorno \in Seq(Codigos), Len(retorno) + 1 <= MaxRetorno
  PROVE  /\ Len(Anotar(<<c>>)) = Len(retorno) + 1
         /\ Anotar(<<c>>)[Len(retorno) + 1] = c
         /\ \A i \in 1 .. Len(retorno) : Anotar(<<c>>)[i] = retorno[i]
<1>1. <<c>> \in Seq(Codigos) /\ Len(<<c>>) = 1 /\ <<c>>[1] = c
  OBVIOUS
<1>2. Len(retorno) \in Nat
  BY LenProperties
<1> DEFINE todo == retorno \o <<c>>
<1>3. /\ Len(todo) = Len(retorno) + 1
      /\ \A i \in 1 .. Len(retorno) : todo[i] = retorno[i]
      /\ todo[Len(retorno) + 1] = c
  BY <1>1, <1>2, ConcatProperties
<1>4. Anotar(<<c>>) = todo
  BY <1>3 DEF Anotar
<1> HIDE DEF todo
<1> QED
  BY <1>3, <1>4

\* Only JNZ and what names PC as its first register change the PC.
LEMMA EfectoMantienePC ==
  ASSUME NEW d, NEW r \in Contextos, d.instruccion # "JNZ",
         d.instruccion \in {"SET", "SUM", "SUB"} => d.registro1 # "PC"
  PROVE  Efecto(d, r)["PC"] = r["PC"]
<1>1. "PC" \in DOMAIN r
  BY DEF Contextos, Registros
<1>2. CASE d.instruccion = "SET"
  BY <1>1, <1>2 DEF Efecto
<1>3. CASE d.instruccion = "SUM"
  BY <1>1, <1>3 DEF Efecto
<1>4. CASE d.instruccion = "SUB" /\ NULO \notin {d.registro1, d.registro2}
  BY <1>1, <1>4 DEF Efecto
<1>5. CASE d.instruccion \notin {"SET", "SUM"}
           /\ ~(d.instruccion = "SUB" /\ NULO \notin {d.registro1, d.registro2})
  BY <1>5 DEF Efecto
<1> QED
  BY <1>2, <1>3, <1>4, <1>5

\* A known name is decoded to itself, and writes itself.
LEMMA ParsearConocida ==
  ASSUME NEW l, l.nombre \in Codigos
  PROVE  /\ parsearInstruccion(l).instruccion = l.nombre
         /\ l.nombre # "WRITE_MEM" => Codigo(l.nombre) = <<l.nombre>>
<1>1. obtenerInstruccion(l.nombre) = l.nombre
  BY DEF obtenerInstruccion, Codigos
<1>2. parsearInstruccion(l).instruccion = obtenerInstruccion(l.nombre)
  <2>1. l.nombre # ""
    BY DEF Codigos, Comunes, Syscalls
  <2> QED
    BY <2>1 DEF parsearInstruccion
<1>3. l.nombre # "WRITE_MEM" => Codigo(l.nombre) = <<l.nombre>>
  BY DEF Codigo, Codigos
<1> QED
  BY <1>1, <1>2, <1>3

LEMMA ContextoInicial == Contexto(0, 0)["PC"] = 0
BY DEF Contexto, Cero, Registros

\* One reply, read, leaves none.
LEMMA UnaRespuesta ==
  ASSUME NEW r
  PROVE  Append(<<>>, r) = <<r>> /\ Head(<<r>>) = r /\ Tail(<<r>>) = <<>> /\ <<r>> # <<>>
OBVIOUS

\* The line fetched is executed: it becomes the last one of the walk.
LEMMA EjecutarOrden ==
  ASSUME InvTipos, TodosClaros, SinSaltos, Recorridas, EnSuLinea, Ejecutar,
         memoria = "viva"
  PROVE  Recorridas' /\ EnSuLinea'
<1> DEFINE L == Len(retorno)
           l == programa[L + 1]
           d == parsearInstruccion(l)
<1>0. /\ retorno \in Seq(Codigos) /\ L \in Nat /\ registros \in Contextos
      /\ programa \in Programas
  BY LenProperties DEF InvTipos, TypeOK, Codigos, Contextos, Palabras
<1>1. /\ L + 1 \in DOMAIN programa /\ registros["PC"] = L
      /\ respuestas = <<[tipo |-> "instruccion", linea |-> l]>>
  BY DEF Ejecutar, EnSuLinea, PuedeLeer
<1>2. Head(respuestas) = [tipo |-> "instruccion", linea |-> l] /\ Tail(respuestas) = <<>>
  BY <1>1, UnaRespuesta
<1>3. /\ respuestas' = <<>> /\ programa' = programa
      /\ instr' = d
      /\ IF NULO \in Desreferencia(d)
         THEN pc' = "segv" /\ UNCHANGED <<registros, retorno>>
         ELSE IF d.instruccion \in {"READ_MEM", "WRITE_MEM"}
         THEN pc' \in {"memoria", "segv"} /\ UNCHANGED <<registros, retorno>>
         ELSE /\ registros' = Efecto(d, registros)
              /\ retorno' = Anotar(Codigo(d.instruccion))
              /\ pc' = IF interrupcionInterna(d.instruccion) THEN "devuelve" ELSE "avanza"
  <2>1. respuestas # <<>> /\ Leida = [tipo |-> "instruccion", linea |-> l]
    BY <1>1, <1>2, UnaRespuesta DEF Leida
  <2>2. Decodificada = {d}
    BY <2>1 DEF Decodificada
  <2>3. respuestas' = <<>>
    BY <1>2, <2>1 DEF Ejecutar, Consumir
  <2> HIDE DEF d
  <2> QED
    BY <2>2, <2>3 DEF Ejecutar, SiFalla
<1>4. Claro(programa) /\ l.nombre # "JNZ"
  BY <1>0, <1>1 DEF TodosClaros, SinSaltos
<1>5. /\ l.nombre \in Codigos
      /\ l.nombre \in {"SET", "SUM", "SUB"} => d.registro1 # "PC"
  BY <1>1, <1>4 DEF Claro
<1>6. d.instruccion = l.nombre /\ (l.nombre # "WRITE_MEM" => Codigo(l.nombre) = <<l.nombre>>)
  BY <1>5, ParsearConocida
<1>7. L + 1 <= MaxRetorno
  BY <1>0, <1>1, <1>4, CpuAssumption DEF Claro
<1> HIDE DEF d
<1>8. CASE UNCHANGED <<registros, retorno>> /\ pc' \in {"segv", "memoria"}
  BY <1>3, <1>8 DEF Recorridas, EnSuLinea
<1>9. CASE /\ d.instruccion \notin {"READ_MEM", "WRITE_MEM"}
           /\ registros' = Efecto(d, registros)
           /\ retorno' = Anotar(Codigo(d.instruccion))
           /\ pc' \in {"devuelve", "avanza"}
  <2>1. retorno' = Anotar(<<l.nombre>>)
    BY <1>6, <1>9
  <2>2. /\ Len(retorno') = L + 1 /\ retorno'[L + 1] = l.nombre
        /\ \A i \in 1 .. L : retorno'[i] = retorno[i]
    BY <2>1, <1>0, <1>5, <1>7, AnotarCabe
  <2>3. registros'["PC"] = L
    BY <1>0, <1>1, <1>4, <1>5, <1>6, <1>9, EfectoMantienePC
  <2>4. Recorridas'
    <3> SUFFICES ASSUME NEW i \in 1 .. L + 1
                 PROVE  i \in DOMAIN programa /\ retorno'[i] = programa[i].nombre
      BY <2>2, <1>3 DEF Recorridas
    <3>1. CASE i = L + 1
      BY <3>1, <2>2, <1>1
    <3>2. CASE i \in 1 .. L
      BY <3>2, <2>2 DEF Recorridas
    <3> QED
      BY <1>0, <3>1, <3>2
  <2> QED
    BY <2>2, <2>3, <2>4, <1>3, <1>9 DEF EnSuLinea
<1> QED
  BY <1>3, <1>8, <1>9

\* PC++ takes the PC to the next line: the program ends before the register wraps.
LEMMA AvanzarOrden ==
  ASSUME InvTipos, TodosClaros, SinSaltos, Recorridas, EnSuLinea, Avanzar
  PROVE  Recorridas' /\ EnSuLinea'
<1>0. /\ registros \in Contextos /\ programa \in Programas /\ Len(retorno) \in Nat
      /\ "PC" \in Registros
  BY LenProperties DEF InvTipos, TypeOK, Contextos, Palabras, Registros
<1>1. registros["PC"] + 1 = Len(retorno) /\ respuestas = <<>>
  BY DEF Avanzar, EnSuLinea
<1>2. CASE interrupcionRecibida
  BY <1>2 DEF Avanzar, Recorridas, EnSuLinea
<1>3. CASE ~interrupcionRecibida
  <2>1. Len(retorno) < Modulo /\ Len(retorno) > 0
    <3>1. Len(retorno) \in DOMAIN programa
      <4>1. Len(retorno) \in 1 .. Len(retorno)
        BY <1>0, <1>1 DEF Contextos, Palabras
      <4> QED
        BY <4>1 DEF Recorridas
    <3>2. Claro(programa)
      BY <1>0 DEF TodosClaros, SinSaltos
    <3>3. PICK n \in 0 .. MaxRetorno : n < Modulo /\ DOMAIN programa = 1 .. n
      BY <3>2 DEF Claro
    <3> QED
      BY <1>0, <3>1, <3>3, CpuAssumption
  <2>2. registros'["PC"] = Len(retorno)
    <3>1. registros'["PC"] = (registros["PC"] + 1) % Modulo
      BY <1>0, <1>3 DEF Avanzar, Contextos
    <3>2. Modulo \in Nat /\ \A m, M \in Nat : m < M => m % M = m
      BY CpuAssumption
    <3> QED
      BY <1>0, <1>1, <2>1, <3>1, <3>2
  <2> QED
    BY <1>1, <1>3, <2>2 DEF Avanzar, Recorridas, EnSuLinea
<1> QED
  BY <1>2, <1>3

\* The context that Memoria kept for a hilo never run starts the walk.
LEMMA RecibirOrden ==
  ASSUME EnSuLinea, RecibirContexto, memoria = "viva"
  PROVE  Recorridas' /\ EnSuLinea'
<1>1. respuestas = <<[tipo |-> "contexto", contexto |-> Contexto(0, 0)]>>
  BY DEF RecibirContexto, EnSuLinea, PuedeLeer
<1>2. /\ Head(respuestas) = [tipo |-> "contexto", contexto |-> Contexto(0, 0)]
      /\ Tail(respuestas) = <<>> /\ respuestas # <<>>
  BY <1>1, UnaRespuesta
<1>3. /\ registros' = Contexto(0, 0) /\ respuestas' = <<>> /\ retorno' = <<>> /\ pc' = "ciclo"
  BY <1>2 DEF RecibirContexto, Consumir, Leida, SiFalla
<1>4. Len(retorno') = 0
  BY <1>3, Vacia
<1> QED
  BY <1>3, <1>4, ContextoInicial DEF Recorridas, EnSuLinea

\* Memoria is asked for the line at the PC, or dies.
LEMMA FetchOrden ==
  ASSUME Recorridas, EnSuLinea, Fetch, memoria = "viva"
  PROVE  Recorridas' /\ EnSuLinea'
<1>1. respuestas = <<>> /\ registros["PC"] = Len(retorno)
  BY DEF Fetch, EnSuLinea
<1>2. /\ pc' = "fetch" /\ UNCHANGED <<programa, registros, retorno>>
      /\ \/ respuestas' = <<>>
         \/ /\ Len(retorno) + 1 \in DOMAIN programa
            /\ respuestas' = <<[tipo |-> "instruccion",
                                linea |-> programa[Len(retorno) + 1]]>>
  BY <1>1, UnaRespuesta DEF Fetch, Responder, SiFalla
<1> QED
  BY <1>1, <1>2 DEF Recorridas, EnSuLinea

LEMMA NextOrden ==
  ASSUME TodosClaros
  PROVE  InvTipos /\ InvOrden /\ [Next]_vars => InvOrden'
<1> SUFFICES ASSUME InvTipos, InvOrden, [Next]_vars, SinSaltos', rafagas' <= 1,
                    memoria' = "viva"
             PROVE  /\ rafagas' = 0 => pc' = "libre"
                    /\ pc' = "libre" /\ respondidas' = 0 => SinEmpezar'
                    /\ Recorridas'
                    /\ EnSuLinea'
  BY DEF InvOrden
<1>0. rafagas \in Nat /\ respondidas \in {rafagas - 1, rafagas} \cap Nat
  BY DEF InvTipos, TypeOK
<1>a. /\ programa' = programa /\ rafagas' \in {rafagas, rafagas + 1}
      /\ memoria' # memoria => memoria' = "caida"
  BY <1>0 DEF Next, Ciclo, vars, kernel, dispatch, EnviarTCB, Interrumpir, Olvidar,
       RecibirInterrupcion, TomarTCB, RecibirContexto, Fetch, Desalojar, Ejecutar, RecibirDato,
       Avanzar, Devolver
<1>b. SinSaltos /\ rafagas <= 1 /\ memoria = "viva"
  BY <1>0, <1>a DEF SinSaltos
<1>c. /\ rafagas = 0 => pc = "libre"
      /\ pc = "libre" /\ respondidas = 0 => SinEmpezar
      /\ Recorridas
      /\ EnSuLinea
  BY <1>b DEF InvOrden
<1>d. pc # "libre" => rafagas # 0
  BY <1>c
<1>1. CASE EnviarTCB
  BY <1>0, <1>1, <1>c DEF EnviarTCB, dispatch, SinEmpezar, Recorridas, EnSuLinea
<1>2. CASE Interrumpir
  BY <1>2, <1>c DEF Interrumpir, dispatch, SinEmpezar, Recorridas, EnSuLinea
<1>3. CASE RecibirInterrupcion
  BY <1>3, <1>c DEF RecibirInterrupcion, dispatch, kernel, SinEmpezar, Recorridas, EnSuLinea
<1>4. CASE TomarTCB
  <2>1. rafagas # 0 /\ respondidas = 0
    BY <1>0, <1>4, <1>b DEF TomarTCB
  <2>2. SinEmpezar
    BY <1>4, <1>c, <2>1 DEF TomarTCB
  <2>3. /\ retorno' = <<>> /\ programa' = programa /\ pc' = "contexto"
        /\ rafagas' = rafagas
        /\ respuestas' \in {<<>>, <<[tipo |-> "contexto", contexto |-> Contexto(0, 0)]>>}
    BY <1>4, <1>b, <2>2, UnaRespuesta
    DEF TomarTCB, Responder, SiFalla, SinEmpezar, dispatch, kernel
  <2> QED
    BY <2>1, <2>3, Vacia DEF Recorridas, EnSuLinea
<1>5. CASE RecibirContexto
  BY <1>5, <1>b, <1>c, <1>d, RecibirOrden DEF RecibirContexto, SiFalla, kernel
<1>6. CASE Fetch
  BY <1>6, <1>b, <1>c, <1>d, FetchOrden DEF Fetch, SiFalla, kernel
<1>7. CASE Desalojar
  BY <1>7, <1>c, <1>d DEF Desalojar, dispatch, kernel, Recorridas, EnSuLinea
<1>8. CASE Ejecutar
  <2>1. pc' # "libre" /\ pc # "libre" /\ rafagas' = rafagas
    <3>1. pc' \in {"segv", "memoria", "devuelve", "avanza"}
      BY <1>8 DEF Ejecutar, SiFalla
    <3> QED
      BY <1>8, <3>1 DEF Ejecutar, kernel
  <2> QED
    BY <1>8, <1>b, <1>c, <1>d, <2>1, EjecutarOrden
<1>9. CASE RecibirDato
  BY <1>9, <1>b, <1>c DEF RecibirDato, PuedeLeer, EnSuLinea
<1>10. CASE Avanzar
  <2>1. pc' # "libre" /\ pc # "libre" /\ rafagas' = rafagas
    BY <1>10 DEF Avanzar, kernel
  <2> QED
    BY <1>10, <1>b, <1>c, <1>d, <2>1, AvanzarOrden
<1>11. CASE Devolver
  <2>1. respondidas' # 0 /\ pc' = "libre"
    BY <1>0, <1>11, <1>b DEF Devolver
  <2> QED
    BY <1>11, <1>c, <2>1 DEF Devolver, dispatch, Recorridas, EnSuLinea
<1>12. CASE UNCHANGED vars
  BY <1>12, <1>c DEF vars, dispatch, kernel, SinEmpezar, Recorridas, EnSuLinea
<1>13. CASE Olvidar
  BY <1>13, <1>c DEF Olvidar, dispatch, kernel, SinEmpezar, Recorridas, EnSuLinea
<1> QED
  BY <1>1, <1>2, <1>3, <1>4, <1>5, <1>6, <1>7, <1>8, <1>9, <1>10, <1>11, <1>12, <1>13
  DEF Next, Ciclo

\* In its first burst, and for as long as Memoria lives, a program without jumps is
\* executed line by line, interrupted or not: what bufferRetorno records is a prefix of
\* it, and the PC at the top of the cycle of EjecutarProceso is at its next line.
THEOREM EnOrden ==
  ASSUME TodosClaros
  PROVE  Spec => []RecorreEnOrden
<1>1. Init => InvOrden
  <2> SUFFICES ASSUME Init
               PROVE  InvOrden
    OBVIOUS
  <2>1. Len(retorno) = 0
    BY Vacia DEF Init
  <2> QED
    BY <2>1 DEF Init, InvOrden, SinEmpezar, Recorridas, EnSuLinea
<1>2. InvTipos /\ InvOrden => RecorreEnOrden
  <2> SUFFICES ASSUME InvTipos, InvOrden
               PROVE  RecorreEnOrden
    OBVIOUS
  <2>1. DOMAIN retorno = 1 .. Len(retorno)
    BY LenProperties DEF InvTipos, TypeOK
  <2> QED
    BY <2>1 DEF InvOrden, Recorridas, EnSuLinea, RecorreEnOrden
<1>3. InvTipos /\ InvOrden /\ [Next]_vars => InvOrden'
  BY NextOrden
<1> QED
  BY <1>1, <1>2, <1>3, InitTipos, NextTipos, PTL DEF Spec

=============================================================================
