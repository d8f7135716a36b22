-------------------------------- MODULE MCCpu --------------------------------
(* Values for the constants of Cpu: small programs with the lines of interest. *)
EXTENDS Cpu

AX == Op("AX")
BX == Op("BX")
Set(r, n) == Linea("SET", <<r, Num(n)>>)

Suma  == <<Set(AX, 7), Set(BX, 2), Linea("SUM", <<AX, BX>>), Linea("IO", <<Num(1)>>)>>
Resta == <<Set(AX, 1), Set(BX, 2), Linea("SUB", <<AX, BX>>), Linea("LOG", <<AX>>),
           Linea("THREAD_EXIT", <<>>)>>
Bucle == <<Set(AX, 1), Linea("JNZ", <<AX, Num(0)>>)>>
Salto == <<Set(AX, 1), Linea("JNZ", <<AX, Num(2)>>), Set(BX, 1), Linea("PROCESS_EXIT", <<>>)>>
Lee   == <<Linea("IO", <<Num(1)>>), Linea("LOG", <<AX>>), Linea("READ_MEM", <<AX, BX>>), Linea("THREAD_EXIT", <<>>)>>
Escribe == <<Set(BX, 1), Linea("WRITE_MEM", <<BX, AX>>), Linea("PROCESS_EXIT", <<>>)>>
Crea  == <<Set(AX, 1), Linea("THREAD_CREATE", <<Op("hilo1"), Num(3)>>)>>
Mutex == <<Linea("MUTEX_CREATE", <<Op("RECURSO_1")>>)>>
Blanco == <<Set(AX, 1), Linea("", <<>>)>>

Varios == {Suma, Resta, Bucle, Salto, Lee, Escribe, Crea, Mutex, Blanco}

Basura == {<<0, 0>>, <<1, 3>>}
=============================================================================
