--------------------------- MODULE MCParticiones ---------------------------
(* Small memories for TLC: five fixed partitions of unequal and of repeated *)
(* sizes, and a dynamic memory of a few units.                              *)
EXTENDS Particiones

ListaMC == <<2, 3, 1, 2, 2>>

\* A list that fits in the ten units and one that does not, with the searches
\* that keep a partition whole and with today's body.
ConfigsFijas ==
  [esquema : {"FIJAS"}, lista : {ListaMC, <<4, 4, 4>>},
   busqueda : BusquedasFijas \cup {"stub"}]

\* A string the code takes for the dynamic scheme and the one it documents, with
\* the searches that split a partition.
ConfigsDinamicas ==
  [esquema : {"UNICA", "DINAMICAS"}, lista : {ListaMC}, busqueda : BusquedasDinamicas]

\* Requests that fit exactly, with room to spare, and not at all.
PedidosMC == 1 .. 4

=============================================================================
