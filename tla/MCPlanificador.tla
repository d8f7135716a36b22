--------------------------- MODULE MCPlanificador ---------------------------
(* Values for the constants of Planificador. *)
EXTENDS Planificador

CONSTANTS t1, t2, t3, c1, c2

Todos == {t1, t2, t3}
TodosYNadie == Todos \cup {NULL}

SinDano == {"IO", "PROCESS_CREATE", "THREAD_CREATE", "THREAD_JOIN", "MUTEX",
            "THREAD_EXIT", "WRITE_MEM", "PROCESS_EXIT", "OTRA"}
=============================================================================
