----------------------------- MODULE MCConexion -----------------------------
(* Two threads of the Kernel, one of which also runs DUMP_MEMORY. *)
EXTENDS Conexion

CONSTANTS principal, largo

Dos == {principal, largo}
Principal == {principal}
Escuchas == {"fd_server_memoria", "fd_cliente"}
=============================================================================
