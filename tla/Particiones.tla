---------------------------- MODULE Particiones ----------------------------
(***************************************************************************)
(* The user-memory allocator of the Memoria process: the partition list    *)
(* built by gestionar_particiones, the six searches (first_fit, ...,       *)
(* worst_fit_din) behind asignar_memoria, and liberar_memoria with its     *)
(* coalescing.                                                             *)
(*                                                                         *)
(* Addresses are offsets from memoria_usuario.  The list is a sequence, in *)
(* the order of lista_particiones: list position 0 of the code is 1 here.  *)
(*                                                                         *)
(* liberar_particion calls free() on an address inside memoria_usuario,    *)
(* which is undefined.  EfectosFree is the set of outcomes the C library   *)
(* may produce: "abort" (glibc's integrity checks) or "sigue" (the bytes   *)
(* before the address happened to look like a chunk, execution goes on).   *)
(* liberar_proceso does the same to the base of the process that ends;     *)
(* there the outcomes are EfectosBase.  Only the base 0 is an address that *)
(* malloc() gave: freeing it releases memoria_usuario, all of it.          *)
(***************************************************************************)
EXTENDS Integers, Sequences, SequencesExt

CONSTANTS
  Configs,           \* the esquema and lista_particiones memoria.config may hold,
                     \* and the search asignar_memoria uses with them
  TamTotal,          \* memoria_config->tam_total_memoria
  Pedidos,           \* the sizes processes ask for
  EfectosFree,       \* outcomes of free() when two partitions are joined
  EfectosBase        \* outcomes of free() on the base of the process that ends

BusquedasFijas == {"first_fit", "best_fit", "worst_fit"}
BusquedasDinamicas == {"first_fit_din", "best_fit_din", "worst_fit_din"}
\* "stub" is the body asignar_memoria has today: it calls none of them.
Busquedas == BusquedasFijas \cup BusquedasDinamicas \cup {"stub"}

ASSUME ConfigAssumption ==
  /\ \A c \in Configs : c.lista \in Seq(Nat \ {0}) /\ c.busqueda \in Busquedas
  /\ TamTotal \in Nat
  /\ Pedidos \subseteq Nat
  /\ EfectosFree \subseteq {"abort", "sigue"}
  /\ EfectosBase \subseteq {"abort", "sigue"}

VARIABLES
  config,        \* memoria_config, read once by cargar_memoria_config
  particiones,   \* lista_particiones
  concedidas,    \* (base, limite) in the contexto of the live processes
  arena,         \* memoria_usuario: "reservada" or "liberada"
  proceso        \* how the Memoria process stands

vars == <<config, particiones, concedidas, arena, proceso>>

Particion == [base : Nat, tamanio : Nat, estado : {0, 1}]
Concesion == [base : Nat, limite : Nat]
Finales == {"salio", "segv", "abort"}

(* Partition lists and grants are well formed; proceso is a known state. *)
TypeOK ==
  /\ config \in Configs
  /\ particiones \in Seq(Particion)
  /\ concedidas \subseteq Concesion
  /\ arena \in {"reservada", "liberada"}
  /\ proceso \in {"arrancando", "en_marcha"} \cup Finales

Hasta(p) == p.base + p.tamanio

Busqueda == config.busqueda

---------------------------------------------------------------------------
(* gestionar_particiones *)

Init ==
  /\ config \in Configs
  /\ particiones = <<>>
  /\ concedidas = {}
  /\ arena = "reservada"
  /\ proceso = "arrancando"

\* Mutant: the base is not advanced by the size of the partition just added.
BaseSiguienteMut == IF particiones = <<>> THEN 0 ELSE Last(particiones).base

\* ptr_base_particion: where the next fixed partition starts.
BaseSiguiente == IF particiones = <<>> THEN 0 ELSE Hasta(Last(particiones))

\* One turn of the loop over the configured sizes; a partition that does not
\* fit in memoria_usuario makes the process exit.
AgregarFija ==
  /\ config.esquema = "FIJAS"
  /\ Len(particiones) < Len(config.lista)
  /\ LET p == [base    |-> BaseSiguiente,
               tamanio |-> config.lista[Len(particiones) + 1],
               estado  |-> 0]
     IN  \/ /\ Hasta(p) <= TamTotal
            /\ particiones' = Append(particiones, p)
            /\ UNCHANGED proceso
         \/ /\ Hasta(p) > TamTotal
            /\ proceso' = "salio"
            /\ UNCHANGED particiones

TerminarFijas ==
  /\ config.esquema = "FIJAS"
  /\ Len(particiones) = Len(config.lista)
  /\ proceso' = "en_marcha"
  /\ UNCHANGED particiones

UnaSolaParticion == <<[base |-> 0, tamanio |-> TamTotal, estado |-> 0]>>

\* The test on "DINAMICAS" has no "== 0": every other string gets the single
\* big partition, and "DINAMICAS" itself makes the process exit.
CrearUnica ==
  /\ config.esquema \notin {"FIJAS", "DINAMICAS"}
  /\ particiones' = UnaSolaParticion
  /\ proceso' = "en_marcha"

SalirPorEsquema ==
  /\ config.esquema = "DINAMICAS"
  /\ proceso' = "salio"
  /\ UNCHANGED particiones

GestionarParticiones ==
  /\ proceso = "arrancando"
  /\ AgregarFija \/ TerminarFijas \/ CrearUnica \/ SalirPorEsquema
  /\ UNCHANGED <<concedidas, arena>>

---------------------------------------------------------------------------
(* The searches: the position each one gives, NINGUNA if none. *)

\* Mutants: the size test, then the state test, is missing.
EntranEnMutTam(n) == {i \in DOMAIN particiones : particiones[i].estado = 0}
EntranEnMutEstado(n) == {i \in DOMAIN particiones : particiones[i].tamanio >= n}

EntranEn(n) ==
  {i \in DOMAIN particiones :
    particiones[i].estado = 0 /\ particiones[i].tamanio >= n}

Sobrante(i, n) == particiones[i].tamanio - n

Primera(S) == {i \in S : \A j \in S : i <= j}

\* The -1 that mejor_ajuste, peor_ajuste and their leftovers start with.
NINGUNA == -1
SinAjuste == [ajuste |-> NINGUNA, sobrante |-> NINGUNA]
Ajuste(i, n) == [ajuste |-> i, sobrante |-> Sobrante(i, n)]

\* One turn of the loop of best_fit at position i, with m kept so far.
\* Mutant: only the leftover is compared, which starts at -1.
MejorarMut(m, i, n) ==
  IF i \in EntranEn(n) /\ Sobrante(i, n) < m.sobrante THEN Ajuste(i, n) ELSE m

Mejorar(m, i, n) ==
  IF i \in EntranEn(n) /\ (m.ajuste = NINGUNA \/ Sobrante(i, n) < m.sobrante)
  THEN Ajuste(i, n) ELSE m

\* The same of worst_fit, over the positions C that pass its test of the size.
\* Mutant: ">=", which moves on to the last of the largest.
EmpeorarMut(m, i, n, C) ==
  IF i \in C /\ (m.ajuste = NINGUNA \/ Sobrante(i, n) >= m.sobrante)
  THEN Ajuste(i, n) ELSE m

Empeorar(m, i, n, C) ==
  IF i \in C /\ (m.ajuste = NINGUNA \/ Sobrante(i, n) > m.sobrante)
  THEN Ajuste(i, n) ELSE m

\* best_fit and best_fit_din: the loop, over the first k positions.
MejorAjuste(n) ==
  LET tras[k \in 0 .. Len(particiones)] ==
        IF k = 0 THEN SinAjuste ELSE Mejorar(tras[k - 1], k, n)
  IN  tras[Len(particiones)].ajuste

PeorAjuste(n, C) ==
  LET tras[k \in 0 .. Len(particiones)] ==
        IF k = 0 THEN SinAjuste ELSE Empeorar(tras[k - 1], k, n, C)
  IN  tras[Len(particiones)].ajuste

\* first_fit and first_fit_din return inside the loop.
first_fit(n) == Primera(EntranEn(n))
best_fit(n) == {MejorAjuste(n)} \ {NINGUNA}

\* worst_fit compares the sizes with ">", worst_fit_din with ">=".
Holgadas(n) == {i \in EntranEn(n) : particiones[i].tamanio > n}
worst_fit(n) == {PeorAjuste(n, Holgadas(n))} \ {NINGUNA}
worst_fit_din(n) == {PeorAjuste(n, EntranEn(n))} \ {NINGUNA}

Elegidas(n) ==
  CASE Busqueda = "first_fit"     -> first_fit(n)
    [] Busqueda = "best_fit"      -> best_fit(n)
    [] Busqueda = "worst_fit"     -> worst_fit(n)
    [] Busqueda = "first_fit_din" -> first_fit(n)
    [] Busqueda = "best_fit_din"  -> best_fit(n)
    [] Busqueda = "worst_fit_din" -> worst_fit_din(n)
    [] Busqueda = "stub"          -> {}

---------------------------------------------------------------------------
(* asignar_memoria, as crear_proceso calls it *)

Otorgada(i, n) == [base |-> particiones[i].base, limite |-> n]

AsignarFija(n) ==
  /\ Busqueda \in BusquedasFijas
  /\ \E i \in Elegidas(n) :
       /\ particiones' = [particiones EXCEPT ![i].estado = 1]
       /\ concedidas' = concedidas \cup {Otorgada(i, n)}

\* Mutants: the rest starts where the hole started; its size is reversed.
RestoMutBase(i, n) ==
  IF particiones[i].tamanio > n
  THEN <<[base    |-> particiones[i].base,
          tamanio |-> particiones[i].tamanio - n,
          estado  |-> 0]>>
  ELSE <<>>
RestoMutSigno(i, n) ==
  IF particiones[i].tamanio > n
  THEN <<[base    |-> particiones[i].base + n,
          tamanio |-> n - particiones[i].tamanio,
          estado  |-> 0]>>
  ELSE <<>>

\* What is left of the hole goes to the end of the list.
Resto(i, n) ==
  IF particiones[i].tamanio > n
  THEN <<[base    |-> particiones[i].base + n,
          tamanio |-> particiones[i].tamanio - n,
          estado  |-> 0]>>
  ELSE <<>>

Partida(i, n) ==
  [particiones EXCEPT ![i].estado = 1, ![i].tamanio = n] \o Resto(i, n)

AsignarDinamica(n) ==
  /\ Busqueda \in BusquedasDinamicas
  /\ \E i \in Elegidas(n) :
       /\ particiones' = Partida(i, n)
       /\ concedidas' = concedidas \cup {Otorgada(i, n)}

\* No partition (or the stub): crear_proceso gets NULL and answers false.
Rechazar(n) ==
  /\ Elegidas(n) = {}
  /\ UNCHANGED <<particiones, concedidas>>

AsignarMemoria(n) ==
  /\ proceso = "en_marcha"
  /\ AsignarFija(n) \/ AsignarDinamica(n) \/ Rechazar(n)
  /\ UNCHANGED <<arena, proceso>>

---------------------------------------------------------------------------
(* liberar_memoria, as liberar_proceso calls it for a live process *)

Caer(final) ==
  /\ proceso' = final
  /\ UNCHANGED <<particiones, concedidas, arena>>

FusionaAnterior(i) == i > 1 /\ particiones[i - 1].estado = 0

\* Mutant: the partition is not marked as free before the joins.
TrasAnteriorMut(i) ==
  IF FusionaAnterior(i)
  THEN RemoveAt([particiones EXCEPT ![i - 1].tamanio = @ + particiones[i].tamanio], i)
  ELSE particiones

\* The list once position i is marked free and joined to the one before it.
TrasAnterior(i) ==
  LET marcada == [particiones EXCEPT ![i].estado = 0]
  IN  IF FusionaAnterior(i)
      THEN RemoveAt([marcada EXCEPT ![i - 1].tamanio = @ + marcada[i].tamanio], i)
      ELSE marcada

\* Where the code's index i stands after that (i-- when it joined).
IndiceTras(i) == IF FusionaAnterior(i) THEN i - 1 ELSE i

\* "particion->tamanio += siguiente->tamanio": after a join with the previous
\* one, particion is freed memory and the sum is lost.
TrasSiguiente(i) ==
  LET lista == TrasAnterior(i)
      k     == IndiceTras(i)
  IN  RemoveAt(IF FusionaAnterior(i)
               THEN lista
               ELSE [lista EXCEPT ![k].tamanio = @ + lista[k + 1].tamanio], k + 1)

\* Mutant: the next partition is joined without looking at its estado.
FusionaSiguienteMut(i) == IndiceTras(i) < Len(TrasAnterior(i))

HaySiguiente(i) == IndiceTras(i) < Len(TrasAnterior(i))

FusionaSiguiente(i) ==
  HaySiguiente(i) /\ TrasAnterior(i)[IndiceTras(i) + 1].estado = 0

\* The code tests i < cant_particiones, always true, so list_get(i + 1)
\* returns NULL for the last partition and "siguiente->estado" faults.
LiberarUltima(i) ==
  /\ FusionaAnterior(i) => "sigue" \in EfectosFree
  /\ ~HaySiguiente(i)
  /\ Caer("segv")

AbortarEnFree(i) ==
  /\ FusionaAnterior(i) \/ FusionaSiguiente(i)
  /\ "abort" \in EfectosFree
  /\ Caer("abort")

\* liberar_memoria came back, and liberar_proceso frees contexto.base: free() takes
\* memoria_usuario, once, and nothing else that a process may have for a base.
EsArena(c) == c.base = 0 /\ arena = "reservada"

AbortarEnBase(i, c) ==
  /\ FusionaAnterior(i) \/ FusionaSiguiente(i) => "sigue" \in EfectosFree
  /\ HaySiguiente(i)
  /\ ~EsArena(c) /\ "abort" \in EfectosBase
  /\ Caer("abort")

\* When it is memoria_usuario, the memory of every other process goes with it.
LiberarEn(i, c) ==
  /\ FusionaAnterior(i) \/ FusionaSiguiente(i) => "sigue" \in EfectosFree
  /\ HaySiguiente(i)
  /\ EsArena(c) \/ "sigue" \in EfectosBase
  /\ particiones' =
       IF FusionaSiguiente(i) THEN TrasSiguiente(i) ELSE TrasAnterior(i)
  /\ concedidas' = concedidas \ {c}
  /\ arena' = IF EsArena(c) THEN "liberada" ELSE arena
  /\ UNCHANGED proceso

\* The "not found" log line has no disjunct: ConcesionVigente says that the base
\* of a live process is always the base of some partition.
LiberarMemoria(c) ==
  /\ proceso = "en_marcha"
  /\ \E i \in Primera({j \in DOMAIN particiones : particiones[j].base = c.base}) :
       LiberarUltima(i) \/ AbortarEnFree(i) \/ AbortarEnBase(i, c) \/ LiberarEn(i, c)

Next ==
  /\ \/ GestionarParticiones
     \/ \E n \in Pedidos : AsignarMemoria(n)
     \/ \E c \in concedidas : LiberarMemoria(c)
  /\ UNCHANGED config

Spec == Init /\ [][Next]_vars

---------------------------------------------------------------------------
(* Properties *)

Ocupadas == {i \in DOMAIN particiones : particiones[i].estado = 1}

Separadas(p, q) == Hasta(p) <= q.base \/ Hasta(q) <= p.base

\* No byte of user memory is in two occupied partitions, whatever sequence of
\* searches, splits and joins led here (first_fit ... liberar_memoria).
OcupadasDisjuntas ==
  \A i, j \in Ocupadas : i # j => Separadas(particiones[i], particiones[j])

\* No two partitions of the list, free ones included, overlap: what
\* liberar_memoria joins must have been neighbours in memory.
ParticionesDisjuntas ==
  \A i, j \in DOMAIN particiones :
    i # j => Separadas(particiones[i], particiones[j])

\* The list that crear_proceso and liberar_proceso share agrees with what the
\* processes hold: every live process has one occupied partition at its base
\* that is large enough, and every occupied partition has a live owner.
ConcesionVigente ==
  proceso = "en_marcha" =>
    /\ \A c \in concedidas : \E i \in Ocupadas :
         particiones[i].base = c.base /\ particiones[i].tamanio >= c.limite
    /\ \A i \in Ocupadas : \E c \in concedidas : c.base = particiones[i].base

\* While memoria_usuario is there, freeing one process, or placing another, never
\* resizes, moves or drops the partition of a process that stays alive (the joins of
\* liberar_memoria), and it goes only with the process whose base it is.
ConcesionEstable ==
  [][proceso' = "en_marcha" /\ arena = "reservada" =>
      IF arena' = "liberada" THEN \E c \in concedidas \ concedidas' : c.base = 0
      ELSE \A c \in concedidas \cap concedidas' : \A i \in Ocupadas :
             particiones[i].base = c.base =>
               \E j \in DOMAIN particiones' : particiones'[j] = particiones[i]]_vars

\* The loops of best_fit, worst_fit and their _din versions, whose running best starts
\* at -1, give the free partition of at least the size asked for that leaves least
\* (most), the first of the list among equal ones, and NULL only when there is none;
\* worst_fit alone passes over a partition of exactly that size.
Candidatas(n) == IF Busqueda = "worst_fit" THEN Holgadas(n) ELSE EntranEn(n)

Prefiere(i, j, n) ==
  CASE Busqueda \in {"best_fit", "best_fit_din"} ->
         \/ Sobrante(i, n) < Sobrante(j, n)
         \/ Sobrante(i, n) = Sobrante(j, n) /\ i <= j
    [] Busqueda \in {"worst_fit", "worst_fit_din"} ->
         \/ Sobrante(i, n) > Sobrante(j, n)
         \/ Sobrante(i, n) = Sobrante(j, n) /\ i <= j
    [] OTHER -> i <= j

EligeBien ==
  Busqueda # "stub" =>
    \A n \in Pedidos :
      /\ Elegidas(n) = {} => Candidatas(n) = {}
      /\ \A i \in Elegidas(n) :
           i \in Candidatas(n) /\ \A j \in Candidatas(n) : Prefiere(i, j, n)

\* The inductive invariant of the searches that never split, for a list s and
\* a set C of grants: the list is in address order with no overlap (joins leave
\* gaps at most), inside memory, and matches the grants one to one.
EnOrden(s) ==
  \A i, j \in DOMAIN s :
    i < j => Hasta(s[i]) <= s[j].base /\ s[i].base < s[j].base

EnMemoria(s) == \A i \in DOMAIN s : Hasta(s[i]) <= TamTotal

ConDuenio(s, C) ==
  /\ \A c \in C : \E i \in DOMAIN s :
       s[i].estado = 1 /\ s[i].base = c.base /\ s[i].tamanio >= c.limite
  /\ \A i \in DOMAIN s :
       s[i].estado = 1 => \E c \in C : c.base = s[i].base
  /\ \A c, d \in C : c.base = d.base => c = d

\* With first_fit, best_fit or worst_fit the list of liberar_memoria stays in
\* address order and matched to its owners, even when free() lets a join pass.
InvFijas ==
  /\ EnOrden(particiones)
  /\ EnMemoria(particiones)
  /\ ConDuenio(particiones, concedidas)
  /\ proceso = "arrancando" =>
       /\ concedidas = {}
       /\ \A i \in DOMAIN particiones : particiones[i].tamanio > 0

\* What is inductive for every search when free() never lets a join pass: no
\* overlap, and while the fixed list is being built the next base is past it.
InvSinJuntas ==
  /\ ParticionesDisjuntas
  /\ proceso = "arrancando" =>
       \A i \in DOMAIN particiones : Hasta(particiones[i]) <= BaseSiguiente

\* What a memory allocator promises to its clients, as long as it has memory.
Promesa ==
  INSTANCE Asignador WITH
    bloques <- IF arena = "reservada" THEN concedidas ELSE {},
    vivo    <- arena = "reservada" /\ proceso \in {"arrancando", "en_marcha"}

\* The partition list implements the abstract allocator of Asignador: every
\* grant is a block inside memory, apart from all the live ones, and stays until it
\* is given back or all of memoria_usuario is, with the block at its base.
CumplePromesa == Promesa!Spec

=============================================================================
