# TLA+ models of *The Last of C* (SO TP 2C2024)

The program simulates an operating system with four processes: **kernel**, **cpu**,
**memoria** and a **filesystem** that is still a stub. `utils` holds the wire format and
the connections. There are no tests; the reference beside the code is its comments and the
statement of the assignment, `src/The Last of C.docx`, cited below by paragraph
(`docx:212` is its paragraph 212).

Each module follows the source as it is at this commit, unfinished parts included. Where
the code does not do what a comment or the statement says, the model does what the code
does, and the disagreement is listed at the end.

## 1. Inventory

### Components

| Part | State | Operations | Hard behaviour |
|---|---|---|---|
| Memoria: user-memory allocator (`memoria/src/main.c`, `manejar_kernel.c`) | `lista_particiones`, the `(base, limite)` of each live process | `gestionar_particiones`; `first_fit`, `best_fit`, `worst_fit` and their `_din` versions; `crear_proceso`; `liberar_memoria` | long sequences of splits and joins, `free()` of an address inside `memoria_usuario`, boundary sizes |
| Memoria: requests of the Kernel (`manejar_kernel.c`) | `procesos` and the `hilos` of each one | create and end processes and hilos, dump | one detached thread per request, no locks, an end that takes several steps |
| Memoria: server of the CPU (`manejar_cpu.c`) | the t_hilo it found | get and update a context, get an instruction, read, write | a t_hilo that another thread frees, requests without an answer |
| Kernel: long-term scheduler (`k_largo_plazo.c`) | `cola_new`, `cola_ready`, `process_id`, `lista_thread_id`, `sem_nuevoProceso` | `crearProceso`, `finalizarProceso`, `crear_pcb`, `crear_tcb` | several threads in `crearProceso`, test before lock, retry after the semaphore |
| Kernel: short-term scheduler (`k_corto_plazo.c`, `main.c`) | `lista_exec_hilo`, `lista_bloq_hilo`, `cola_ready_fifo_prioridades`, `lista_dependencias`, a mutex | `atender_fifo`, `atender_prioridades`, `atender_cmn`, one handler per syscall in `interpretarCPU` | pushes without the mutex, a mutex left taken, freed TCBs that a list still holds |
| Kernel: connection with Memoria (`main.c`) | global `socket_memoria`, the descriptors | connect, send, receive, close; accept and serve on the other side | one socket variable, several threads, descriptors that are reused |
| CPU: cycle and interrupts (`cpu/src/main.c`, `cpu.c`, `conexion_memoria.c`) | registers, `interrupcionRecibida`, `bufferRetorno`, unread replies | receive a TCB, ask for the context, fetch, decode, execute, give the hilo back; receive an interruption | a flag shared by two threads, replies read in the wrong turn |
| CPU: MMU (`mmu.c`) | none | `obtener_direccion_fisica` | the limit itself |
| Wire format (`utils/src`) | the bytes under way | buffers, packets, handshakes | short `recv`, a size nobody sets, ends that disagree on the layout |
| Start-up | configuration, loggers, sockets | the three `main` functions | order of `accept` on one socket |

### Interactions

* The Kernel opens one connection to Memoria per request and waits for the answer.
* The Kernel sends a TCB to the CPU on the dispatch socket (`enviarTCBCPU`) and waits for the
  hilo and the syscall (`interpretarCPU`). A second socket is for interruptions; the Kernel
  has `InterrumpirCPU` for it and does not call it yet.
* The CPU keeps one connection to Memoria and asks it for the context and each instruction.
* Inside the Kernel the scheduler thread and the threads that run `crearProceso` share the
  queues; inside Memoria the threads of the requests share the partition list.

### What makes each part correct

* Allocator: two live processes never share memory; a grant lasts until its owner gives it
  back; each search gives the partition its name says.
* Short-term scheduler: one hilo in EXEC; each hilo in one list; no list refers to a freed
  TCB; a ready hilo runs.
* Long-term scheduler: NEW is FIFO; a PCB is in NEW or READY; a process waiting for memory
  is asked for again; TIDs do not repeat in a process.
* CPU: instructions are executed in order, a syscall ends its burst, an interruption
  arrives, the hilo goes back.
* Connection: a request reads its own answer, ends, and leaves no descriptor open; one thread
  of Memoria per connection.
* Requests: a process keeps its partition to itself and gives it back; a hilo that was
  accepted is found; its registers are the ones saved last; nothing freed is used.
* Wire format: what is taken is what was sent, in order.

## 2. Modules

```
Asignador   <- implemented by -  Particiones  <- MCParticiones,   ParticionesProofs
CicloDeVida <- implemented by -  Planificador <- MCPlanificador,  PlanificadorProofs
                                 LargoPlazo   <- MCLargoPlazo,    LargoPlazoProofs
                                 Cpu          <- MCCpu,           CpuProofs
                                 Conexion     <- MCConexion,      ConexionProofs
                                 Peticiones   <- MCPeticiones,    PeticionesProofs
                                 Protocolo    <- MCProtocolo,     ProtocoloProofs
```

`SecuenciasProofs` has the lemmas on sequences that the other proof modules share: lists of
pointers, removal by place and by value, induction over the length with a set for the
statement, and what it is for a list to hold an element.

**Asignador** is what a memory allocator promises: blocks inside memory, apart from the live
ones, given back by their owner; the process may also end, and the block at the base of
memory takes all the others with it.

**Particiones** is the partition list of Memoria. The list is a sequence in list order, since
the code joins list neighbours. `AgregarFija`, `TerminarFijas`, `CrearUnica` and
`SalirPorEsquema` are `gestionar_particiones`; `AsignarMemoria` is `crear_proceso` with
the search in use; `LiberarMemoria` is `liberar_proceso` with `liberar_memoria`, joins
included. `free()` of an interior address is undefined: `EfectosFree` says whether it aborts
(the checks of glibc) or goes on, and `EfectosBase` the same of the `free()` of the base of
the process. Only the process at base 0 has an address that `malloc` gave: it is that of
`memoria_usuario`, and `arena` says whether it has been freed that way. The searches are
the loops of the code, one turn at a time (`Mejorar`, `Empeorar`) from the -1 they start
with; `EligeBien` is what they should find. `asignar_memoria` is a stub today, so the search it has to call is part
of `Configs`, and one of the choices is the stub.

**CicloDeVida** is the life of a hilo: new, ready, running, waiting, ended; one running at most.

**Planificador** has one action per step of the scheduler thread between locks and waits
(`PedirReady`, `TomarReady`, `ReadyVacia`, `Despachar`, `FinIO`), one per syscall of
`interpretarCPU`, and `EmpezarAlta`/`TerminarAlta` for threads that run `crear_hilo` at the same
time. A push that overlaps another operation on the queue is a data race whose outcomes are
the element queued, lost, counted and not linked, or linked and not counted. `crear_tcb` never assigns the TID, so the
`(PID, TID)` of a TCB is arbitrary. After `finalizar_hilo` the TCB is freed memory: its `id`
becomes arbitrary and freeing it again aborts.

**LargoPlazo** has one action per critical section of `crearProceso` and `finalizarProceso`,
and the test of `cola_new` outside any lock as a step of its own. `equipo` is the set of threads
that call it in an execution.

**Cpu** has the dispatch thread (`TomarTCB`, `RecibirContexto`, `Fetch`, `Desalojar`,
`Ejecutar`, `RecibirDato`, `Avanzar`, `Devolver`), the interrupt thread (`RecibirInterrupcion`),
and the Kernel as its environment (`EnviarTCB`, `Interrumpir`, and `Olvidar`: THREAD_CANCEL has
Memoria forget a hilo that may be dispatched again). Memoria is a queue of replies
that are read in order, whatever was asked. It answers nothing for a context it does not find, and
once it is dead `RecibirBuffer` returns at once with a buffer nobody wrote.
`Interrumpir` follows the test of `desalojado`, which is true while a burst is outstanding: an interruption is
sent between bursts, and may arrive during the next one. A line of pseudocode is a name and operands;
`parsearInstruccion` says which operand goes to which field.

**Conexion** has both ends of a request. In the Kernel each thread goes through `Conectar`,
`Saludar` (which assigns the global), `Enviar`, `Llamar` and `Recibir` (RecibirBuffer reads the
global when it is called and waits on what that was) and `Cerrar`; `tabla` is the table of
file descriptors, the lowest free one given first, so that a closed number may come back
as another connection. `Volcar` is DUMP_MEMORY, which connects nothing and closes nothing.
In Memoria, `gestionar_kernel` accepts and `manejar_peticion` reads its argument, the packet,
and answers, or dies of SIGPIPE on a connection that the Kernel has closed. `saludoEn` is the socket of the handshake: the listening one, as the code has
it, with which Memoria dies of SIGPIPE at the first connection; or the accepted one, as in the
server of the CPU, without which nothing after that line could be checked.

**Peticiones** is what the requests do in Memoria, one step per access to what its threads
share: `Buscar`, `Marcar`, `GuardarProceso` (crear_proceso); `BuscarProceso`, `GuardarHilo`
(crear_hilo); `TomarProceso`, `Soltar`, `Destruir`, `QuitarProceso` (finalizar_proceso with
liberar_proceso); `TomarHilo`, `LiberarHilo`, `QuitarHilo` (finalizar_hilo); and `Recibir`,
`DarContexto`, `Actualizar`, `DarInstruccion` (hilo_instrucciones_cpu). `EnCarrera` is true
when two threads are about to touch one structure and one of them writes it; `Chocar` is then a
step to `"indefinida"`, where the model stops. The Kernel's threads and the CPU are there as far as their code
limits what they ask: the thread that dispatches asks nothing while a hilo is in the CPU, and may dispatch a
hilo after its end (THREAD_CANCEL and PROCESS_EXIT leave TCBs in READY). The answer to ACTUALIZAR_CONTEXTO
stays in the socket (`respuestas`, `desfase`): from then on the CPU takes whatever bytes there are for the answer it
waits for, and asks the next thing before Memoria has done the last.

**Protocolo** is the bytes of one socket, `enlace`: one action per `send` and per `recv`, and `Llegar`, by which any
part of what was sent arrives. A `recv` without MSG_WAITALL takes what it asked for or what has arrived, if
less, and waits while nothing has, even for a length of 0. A `send` of more bytes than can be read from its
block (`Legible`) sends some of them or none, and a `malloc` of as many may fail (`SinLugar`). When a `recv` is cut short with
more on its way (`cortada`) what follows is read out of place, and the model stops. The client is the Kernel on the two sockets
of the CPU, or the CPU on that of Memoria.

### What the models assume at their boundary

* Several containers of the Kernel are never created (`lista_exec_hilo`, `lista_bloq_hilo`,
  `lista_dependencias`, `lista_thread_id`, `cola_ready_fifo_prioridades`; `inicializar_colas`
  creates five others), and neither is `procesos` in Memoria. The models take them as empty
  ones: otherwise the first operation ends the process and there is nothing to say.
* `crearProcesoInicial` comes after a scheduler that does not return, so hilos that are ready
  at the start (`Previos`) stand for those queued by any caller of `crear_hilo`.
* `finalizarProceso` is given a PCB that `crearProceso` put in `cola_ready`; the Kernel's own
  callers look for it in `cola_exec`, which is never filled, and `Planificador` has them crash.
* Only Protocolo looks at bytes. In Cpu, Conexion and Peticiones messages are whole and mean
  what the sender wrote; several do not today (section 6), and what they would do then is
  garbage in the fields, not other steps.
* In Protocolo the bytes arrive in order, and the answers of Memoria on its link are left out: no
  reader of the model gets that far with them.
* The answer of a burst has size 0, and a `recv` of length 0 waits for bytes that never come
  (section 6), so the Kernel of today never handles its first syscall. Protocolo stops there;
  Planificador, LargoPlazo, Cpu and Peticiones have the Kernel go on as its code after
  `RecibirBuffer` does.
* In Peticiones, `asignar_memoria` is a search and a mark, as its callers expect of the stub, and
  all partitions have one size: splits and joins are in Particiones. In Conexion,
  `malloc` and `pthread_create` succeed, and MEMORY_DUMP, which answers true without doing
  anything, is an answer like the others.
* `MUTEX_*` handlers are modelled up to the NULL PCB that they dereference.
* Logging, formatting and the sleeps of IO and of Memoria are left out.

## 3. Runs

| Run | Question | Bounds | States |
|---|---|---|---|
| `ParticionesFijas` | With the fixed searches, does the list stay a division of memory that agrees with the processes, does a join leave grants alone, do the searches find the best partition, and does it implement `Asignador`, when joins may pass? | five partitions of 1 to 3 units in 10, and a list that does not fit; sizes 1 to 4 | 11219 |
| `ParticionesDinamicas` | The same for the dynamic searches when `free()` aborts in joins | 7 units, sizes 1 to 4: up to seven pieces | 256052 |
| `PlanificadorFifo` | With FIFO and creators racing the scheduler: one hilo runs, each TCB is in one list, none is used after being freed, `CicloDeVida` is followed | three TCBs, two creators, two ids | 56860 |
| `PlanificadorInanicion` | Is every hilo that only does IO scheduled for ever, and none lost? | three hilos, no creator | 240 |
| `PlanificadorTodo` | Every algorithm and syscall, crashes included: does a hilo leave READY for anything but the CPU? | two TCBs, lists of 2 | 100576 |
| `LargoPlazo` | Does every request to Memoria have its place in NEW; with one thread, is NEW FIFO and are the counters right? | one or two threads, four processes, two hilos each | 675540 |
| `Cpu` | Registers, syscalls, order of execution; does a hilo come back, does an interruption end the cycle? | registers of 3 bits, nine programs, two bursts, two interruptions | 101514 |
| `Conexion` | Does a request that nobody crossed read its own answer, end, and close its descriptor? | two threads, one of which dumps, three connections | 649632 |
| `Peticiones` | Is memory used after being freed, does a partition have two owners, is a hilo found, does Memoria answer with the registers saved last? | two processes, partitions and TIDs, two hilos, two bursts, two requests of the CPU unread when it makes another; symmetry on the first three | 4203957 |
| `Protocolo` | Does ServerCPU take what the Kernel sent, in whatever parts it arrives and whatever the size of the buffer? | three operations, sizes 0, 6, 16, 21 and one that cannot be sent whole | 19832 |
| `PlanificadorReadyVacia`, `ProtocoloMemoria` | Two promises the code breaks (section 6) | the smallest that show it | |

Why these bounds are enough for the cases of interest. Five fixed partitions allow a free one
between two occupied ones, joins on both sides, at the start and at the end; a list of
seven dynamic pieces allows a rest at the end of the list whose list neighbour is elsewhere
in memory. Three TCBs are the least for one running, one ready and one waiting. Two threads and
four processes let both find NEW empty, one be refused, and another arrive meanwhile.
Registers of 3 bits make SUM and SUB wrap; the width matters only through the modulus.
Three connections let a descriptor be closed by one thread, reused by another, and a third
request follow; the Kernel has two threads that ask (the scheduler and the
long-term one). Two hilos and two TIDs allow a TID to be repeated, or
another process to be served beside, and two bursts an answer left by the first to be read in the second. The sizes send
nothing of a TCB, cut it, are exact, go past its end inside an integer, and are more than can be read.

The bounds by name: `TamTotal`, `Pedidos`; `MaxCola` (no dispatch or block beyond it);
`MaxPids`, `MaxTcbs`; `MaxCola` in Peticiones (what the CPU sent and Memoria has not read, when the CPU asks for more);
`MaxRafagas`, `MaxInterrupciones`, and `MaxRetorno`, the codes of
`bufferRetorno` that are remembered (the first and the last ones); `MaxConexiones`; `MaxHilos`;
`MaxOperaciones`.

Deadlock is checked in `PlanificadorInanicion`. In the other runs the system may really stop:
a process that crashed or exited, a scheduler waiting for its own mutex, a CPU waiting for a
reply that never comes, or every bounded operation used up.

### Fairness

* `Planificador!FairSpec`: the scheduler thread goes on (weak fairness of its steps), the CPU
  answers what it is sent, and a push that has begun ends. Nothing makes creators create.
* `Cpu!FairSpec`: both threads of the CPU go on; Memoria's replies are part of the step that
  asks for them. The Kernel owes neither TCBs nor interruptions. `Detenida` names what stops the
  CPU for good (Memoria down, an access to memory or a context that is not answered, a fault).
* `Conexion!FairSpec`: a request under way goes on (`Avanzar`), Memoria accepts, and each thread
  of `manejar_peticion` goes on. No thread owes a request.
* `Protocolo!FairSpec`: both ends go on and the network delivers; the client need not have anything to send.

They stand for threads the operating system schedules and for blocking calls that return when
what they wait for is there. None is strong: no thread here competes for ever for a lock.

### What the runs show

* No allocation overlaps a live one and no join disturbs a grant: for fixed searches always,
  for dynamic ones as long as `free()` aborts. It lasts until a process at base 0 ends, when
  `free()` takes `memoria_usuario` itself.
* The loops of the searches start from a best of -1 and still give the partition they should.
* Racing pushes can lose a hilo (which is why `NingunoPerdido` is asked without creators)
  but never duplicate one, and never leave a second one in EXEC.
* When two threads find NEW empty both ask Memoria, and there are still as many PCBs in NEW
  as threads that will pop one: `queue_pop` is never called on an empty queue.
* The rotation of READY in `elegir_maxima_prioridad`, which takes out every hilo and starts from an
  uninitialised pointer, drops nobody; it may give the CPU the wrong one.
* Whatever replies are left over, nothing is executed after a syscall until the next burst.
* The shared `socket_memoria` does cross answers; what the run adds is how far the damage
  goes. A request is wrong, or waits for ever, or leaks its descriptor only if another thread
  used its connection or it used another one (`enredadas`): reuse of descriptors, the answers that
  a crossed request leaves behind, or DUMP_MEMORY in between give nobody else a wrong answer. The exception is
  the death of Memoria by SIGPIPE, when it answers on a connection that was closed: that ends every request.
* Memoria uses freed memory or NULL in few ways, which the runs list: the end of a hilo or process asked
  for while requests of the CPU for it are still on their way, or while another hilo has its TID; a hilo dispatched after its end
  (`tarde`, all of which the Kernel allows); and an instruction past the last (`"PASADA"`), a NULL for `strlen`. Without collisions on one structure, no partition is
  ever held by two processes nor lost, although `finalizar_proceso` gives it back before it takes the process
  out of the dictionary.
* What puts the reader of a socket out of place is a `recv` that is cut short, and nothing else: the size that SerializarTCB leaves
  unset loses fields of a TCB, or leaves the CPU waiting for data or short of memory, and no operation is
  taken that was not sent.
* Memoria answers for a context with the registers saved last, although nobody waits for them to be stored:
  it reads the requests of the CPU in order. That the CPU takes the older answer for it is in section 6.

## 4. Proofs

Every safety invariant and action property that a passing run checks is also a theorem, for every
value of the constants that the last column admits.

| Module | Theorem | Statement | Hypothesis |
|---|---|---|---|
| `ParticionesProofs` | `Tipos`, `EligeLaMejor` | `[]TypeOK`, `[]EligeBien` | |
| | `FijasInvariante` | `Spec => []InvFijas` | `SoloFijas`: no configuration uses a dynamic search |
| | `FijasOcupadasDisjuntas` | occupied partitions never overlap | `SoloFijas` |
| | `FijasConcesionVigente` | grants and occupied partitions match | `SoloFijas` |
| | `FijasCumplePromesa` | `Spec => Asignador!Spec` under the mapping | `SoloFijas` |
| | `SinJuntasInvariante`, `SinJuntasDisjuntas` | `[]InvSinJuntas`; no two partitions overlap | `free()` aborts |
| | `AbortaConcesionVigente` | grants and occupied partitions match | `SinSigue`: `free()` aborts and no request is of size 0 |
| | `AbortaCumplePromesa` | `Spec => Asignador!Spec`, every search | `SinSigue` |
| | `NadieEstorba` | `Spec => ConcesionEstable` | `SoloFijas` or `SinSigue` |
| `PlanificadorProofs` | `NadieCaeDeReady`, `PlanificadorEnTipo` | `ReadyConserva`, `[]TypeOK` | |
| | `EjecutaDeAUno` | `Spec => []EjecutaUno` | no program calls DUMP_MEMORY |
| | `NadaColgado`, `UnLugarCadaUno` | `[]SinColgados`, `[]LugarUnico` | `SinDanos`: no program calls THREAD_CANCEL or DUMP_MEMORY, and the algorithm is not PRIORIDADES |
| | `CicloCumplido` | `Spec => CicloDeVida!Spec` under the mapping | `SinDanos` |
| | `NadieSePierde` | `Spec => []NingunoPerdido` | `SinDanos`, Memoria accepts, no creator |
| `LargoPlazoProofs` | `Tipos`, `SacarEncuentra` | `[]TypeOK`, `[]LugarEnNew` | |
| | `NewFIFO`, `SuContador`, `EnUnaCola` | `[]NewEsFIFO`, `[]ContadorPropio`, `[]NewOReady` | |
| `CpuProofs` | `Tipos`, `UnaSyscallPorRafaga` | `[]TypeOK`, `[]SyscallCierra` | |
| | `EnOrden` | `Spec => []RecorreEnOrden` | `TodosClaros`: a program without jumps has instructions of the table, none that computes its PC, and is shorter than the registers count and than `MaxRetorno` |
| `ConexionProofs` | `Tipos`, `LeeSuRespuesta`, `NadaQuedaAbierto`, `UnHilo` | the four invariants of the run | |
| `PeticionesProofs` | `Tipos`, `HilosPresentes` | `[]TypeOK`, `[]HiloPresente` | |
| | `BloquesConDuenio` | `Spec => []BloqueConDuenio` | |
| | `NadaColgado`, `ContextosFieles` | `[]SinColgar`, `[]ContextoFiel` | |
| `ProtocoloProofs` | `LoLeidoEsLoEnviado` | `Spec => []LoEnviadoEsLoLeido` | `TamaniosDe32`: what malloc leaves in the size fits in a `uint32_t`, as it does |

All of them rest on the ASSUME of their module besides, which TLC evaluates in every run. The hypotheses hold
in the run that checks the same property; where the code breaks the property without one, the
paragraph below says how.

*Particiones.* `OcupadasDisjuntas` is not inductive: a join adds the size of an element to its list
neighbour, which is safe only if neighbours in the list are neighbours in memory. `InvFijas` says so
(the list is in address order, each partition ends before the next one begins, the last inside
memory) and also that grants and occupied partitions match and that two grants never have the
same base, which a release needs to take out the right partition. The fixed searches keep the
order since they only flip `estado`. The dynamic searches do not, because the rest of a split
goes to the end of the list; what survives there is disjointness itself (`InvSinJuntas`),
until a join of elements that are not neighbours. The lemmas before each theorem treat one
action at a time, and the joins of `liberar_memoria` one at a time.

For the dynamic searches `InvAborta` says that no two partitions have the same base and that grants and
occupied partitions match. A grant of size 0 breaks it (the rest of the split begins
where the grant does, and `liberar_memoria` releases the first partition with that base), so `SinSigue` leaves
it out. `Reparte` is what the six searches have in common: one free partition that is large enough is granted
in its place, the others keep theirs, and the rest, if any, goes to the end of the list at a base no other has.
With it the refinement of `Asignador` is shown once for all of them. Both refinements say that the promise ends for
everybody with the process at base 0 (`DevolverTodo`), whose `free()` takes `memoria_usuario`.

`EligeLaMejor` is about the loops. `MejorHasta` says what the running best is after k turns: -1 if no
position up to k qualifies, otherwise the first of those that leave least (most). `Recorre` shows it for any loop whose turn
keeps it, by induction over the turns with a set for the statement; `MejorAjusteBien` and `PeorAjusteBien` show that the turns
of the code do, with the leftover they keep beside the position.

*Planificador.* `EjecutaDeAUno` rests on one lemma,
`InterpretarAtiende`, on what all the handlers have in common: the CPU owes nothing when they are
done, and none but DUMP_MEMORY adds to EXEC. `InvUno` adds that EXEC is empty where
the scheduler has looked and not dispatched yet.

`NadieCaeDeReady` is an action property: each push keeps what was queued (`UnoConserva`, `AgregarHilosAReady` by induction
over the hilos it wakes), and `DespacharConserva` shows of the recursive function for `elegir_maxima_prioridad` that
after any number of turns READY and the one it holds are together what READY was.

What the code does in a loop (`elegir_maxima_prioridad`, `buscarDependiente`) is a recursive function over the length
of the list. `InduccionNat`, the principle of induction with a set in place of a predicate, gives that such a function
exists and that its values stay in their type, which is what `PlanificadorEnTipo` needs.

`LugarUnico` and `SinColgados` follow from `InvLugar`: the places where a hilo may be (`Sitios`: EXEC, BLOCKED, READY,
the IO under way, a push under way) are at most one for each TCB and none for a TCB that is not alive, lists repeat
nothing, and a dependency is of a live hilo that waits for itself in BLOCKED, or for nobody, and then it stays in EXEC
with the CPU idle (THREAD_JOIN blocks NULL in place of its caller). Each step is
shown to be `MueveUno`: the places of one TCB change as its life cycle allows and those of the others do
not. The same lemma, action by action, gives `CicloCumplido`, and `NadieSePierde` with the converse (a live hilo has some place),
which a push that is lost in a race breaks. `SinDanos` leaves out what does break them: THREAD_CANCEL frees a TCB and leaves
it in its list, DUMP_MEMORY queues the caller in EXEC again, and PRIORIDADES requeues an uninitialised pointer.

*LargoPlazo.* `LugarEnNew` counts: each step adds or takes at most one thread and one PCB, in the order
that keeps the inequality. The three properties of a lone thread follow from one invariant,
`InvSolo`: READY and NEW together hold 0, 1, 2, ... in order, up to the PCB the thread has in its
hands, and the list of counters is as long as READY or one behind, according to the stage.

*Cpu.* The invariant of `SyscallCierra` relates the last code written and the place of the thread: if
it is a syscall, the cycle is over. The lemma `AnotarUno` is what writing one code does to a
`bufferRetorno` that forgets its middle. That `Modulo` is a positive number is in `CpuAssumption`, because the
provers know nothing of powers.

`InvOrden` is about the first burst of a program without jumps: the codes written are those of the first lines, the
PC is at the next line, or still at the last one written where PC++ is to come, and what is left unread are the replies to what was asked
last. A program that writes its own PC, or longer than a register counts, is not executed in order, and is not
claimed to be. The replies left over by the first burst are read out of turn by the second.

*Conexion.* `Inv` has four parts: the types; that a connection waits to be accepted or belongs to one
thread of Memoria, never both (`InvColas`); for a thread that nobody crossed, that a descriptor still
refers to its connection, nobody else waits on it, and what travels on it is what its stage
allows (`InvPropia`, with `Trafico`); and `SinFugas`. A step of one thread must leave alone the `Propia`
of all the others: either it touches another connection, or it marks the one it touches as crossed.

*Peticiones.* Five invariants, each resting on the ones before it. `InvTipos`: the operands and the
steps of each operation (`Forma`), and that only the thread that dispatches ends anything. `InvPedidos`: a process that is
being created is known to nobody else (`Ajeno`), a process or hilo whose end was asked for has no TCB,
and every other TCB is found in the dictionaries. `InvBloques` adds to `BloqueConDuenio` that a partition found is
still free when it is marked, which holds until the first collision. `InvVida`: entries of the dictionaries lead to
t_hilo with contents, except in the steps between a release and the removal from the dictionary, during
which the CPU has no hilo; and, unless `tarde`, the requests of the CPU that Memoria has not finished with are of hilos whose
end nobody asked for (`ATiempo`). `InvContexto`: for each TCB and each place in the queue of requests, the registers that
Memoria will have when it gets there (`Registro`: those of the last ACTUALIZAR_CONTEXTO before that place, or, if there is
none, those it has once it ends what it is serving, `Ahora`) are those the CPU had saved when it asked, and at the end of
the queue those it saved last (`Guardados`). One lemma treats each step of each request, with lemmas for what the others leave alone.

*Protocolo.* `InvFlujo` says where each byte is as long as no `recv` was cut short. During the handshake the bytes under way are one of six cases. On the dispatch
socket at most one TCB is under way, because the Kernel waits for the answer: `EnViaje` lists which sends were made and how far
the server has read, and a last case is the server that had no memory for the size (`Caida`). A `recv` of RecibirBuffer
that takes less than it asked for has taken all there was, or `cortada` holds from then on. On the interrupt socket any number of operations may be under way; `Fluye` says that the stream is whole integers, from the
place of the server on, repeating the three of an interruption, and their number is what was written less what was
sent and read. `InvTiras` has the types of the streams and that what has arrived is part of what was sent. `ValorBytes` is the arithmetic of an integer and its four bytes.

*What only TLC checks.* Liveness (`SinInanicion`, `TodaRafagaVuelve`, `DesalojoLlega`,
`PeticionTermina`, `OperacionLlega`): it rests on fairness and ENABLED, which the provers
do not handle. Where a theorem has a hypothesis, so has the run: its constants satisfy it, and what the code does outside it
is in section 6. No module uses RECURSIVE operators: recursion is written with recursive functions.

## 5. Plan

Done, in this order: the allocator and its proofs; the short-term scheduler; the long-term
scheduler; the CPU; the connection; the requests; the wire format; the proofs of the safety properties of
all of them. What is left is either not reachable in the code today or out of reach of the tools:

1. The handlers of `MUTEX_*` past their first line, once something is pushed to `cola_exec`.
2. `obtener_direccion_fisica`, once Memoria answers reads and writes.

## 6. Disagreements between the code and what is said of it

With a run that shows them:

* **Empty READY** (`k_corto_plazo.c:67`): the mutex stays taken and the scheduler waits for itself.
  `PlanificadorReadyVacia`.
* **First operation of the CPU** (`utils/src/server/utils.c:135`): Memoria takes the 0 of the handshake for the
  module, and reads one byte of each operation where four were sent. `ProtocoloMemoria`.

Reproduced by the models, without a run of their own:

*Allocator.* List neighbours are joined whether or not they are neighbours in memory
(`memoria/src/main.c:307`; "particiones libres aledañas", docx:482): if `free()` went on, partitions would
overlap. `worst_fit` refuses a partition of exactly the size (`manejar_kernel.c:223`, `>` where
the others have `>=`). The scheme `DINAMICAS` ends the process (`main.c:184`: `strcmp` without
`== 0`). Releasing the last partition reads past the list (`main.c:315`, "Verificamos si no es la
última partición"). Fixed partitions are joined although the list "no se podrá alterar"
(`main.c:306`, docx:473). A process of size 0 shares its base with another partition
(`main.c:300`). A join on both sides loses a size (`main.c:318`). The process at base 0 frees `memoria_usuario`
when it ends (`main.c:260`), under every process that is alive; the others free an address that `malloc` did not give.

*Short-term scheduler.* A hilo whose syscall does not block it is never sent to the CPU again
(`k_corto_plazo.c:44`; "continuará su ejecución", docx:212). `THREAD_CANCEL` dereferences NULL for an
unknown TID (`main.c:343`; "no hace nada", docx:213) and otherwise leaves the freed TCB in its list
(`main.c:344`). `MUTEX_CREATE` dereferences a NULL PCB (`main.c:365`). `THREAD_JOIN` blocks NULL in
place of its caller (`main.c:322`). `DUMP_MEMORY` adds the hilo twice to EXEC (`main.c:265`).
Priorities are compared the wrong way round, from an uninitialised pointer (`k_corto_plazo.c:184`).
`buscarDependiente` passes over the dependency after each one it removes (`main.c:758`).
Pushes to READY do not take its mutex (`main.c:596`). `CMN`, the configured algorithm, has no case
(`k_corto_plazo.c:30`); the other one for several queues looks into queues nobody created (`k_corto_plazo.c:157`).

*Long-term scheduler.* A refused process is not asked for again: its own first PCB is still in NEW, so the
retry queues behind it (`k_largo_plazo.c:78`). A process queued behind another is never served
(`k_largo_plazo.c:84`).
Two threads can pop each other's PCB (`k_largo_plazo.c:63`). Counters of TIDs can end at another
PID, and hilo 0 and the next one read the same TID (`k_largo_plazo.c:71`, docx:171). The TCBs of a process that ends stay
in READY (`k_largo_plazo.c:89`): dispatched later, what the CPU asks for them is of a process Memoria no longer has, and
`get_hilo` uses NULL.

*CPU.* An interruption that arrives while the context is waited for is cleared with the flag
(`cpu/src/main.c:111`). The reply to `ACTUALIZAR_CONTEXTO` is read as the next context (`cpu/src/main.c:121`). A late
interruption evicts the next hilo (`cpu/src/main.c:137`, docx:397). `THREAD_CREATE` dereferences
registers its operands do not have (`cpu.c:508`). A line without a name is taken for a SET without registers (`cpu.c:182`).
`READ_MEM` and `WRITE_MEM` get no reply (`manejar_cpu.c:112`), and neither does the context of a hilo that Memoria does not
find (`manejar_cpu.c:63`): the CPU waits for ever. When Memoria is dead the CPU goes on with a buffer nobody
wrote (`commons.c:487`), or dies of SIGPIPE when it next asks. Interruptions are sent only while no burst is outstanding
(`kernel/src/main.c:214`). The first code of the answer is that of the first instruction of the burst
(`cpu.c:370`, docx:201). A taken `JNZ` lands one line after its target (`cpu.c:448`, docx:379 and
docx:395). The context given back after a syscall points at the syscall (`cpu.c:30`, docx:290).

*Connection and requests.* The handshake is done on the listening socket (`manejar_kernel.c:23`).
DUMP_MEMORY asks without connecting. `get_hilo` does not check what `get_proceso`
returned. An instruction after the last is a NULL for `strlen` (`manejar_cpu.c:209`). Memoria answers on a connection the
Kernel may have closed, and dies of SIGPIPE (`memoria/src/main.c:346`).

*Wire format.* A `recv` without MSG_WAITALL that returns a part leaves the rest to be read as the next operation
(`utils/src/commons.c:490`). `SerializarTCB` sends a size that nobody set (`commons.c:257`). `bufferRetorno` is sent with size 0,
so the Kernel reads the size of the answer and then waits, in a `recv` of length 0, for bytes that do not come
(`commons.c:492`): it does not get past the first burst.

Read in the code and not modelled, all of them about what a message means to each end: the answer of Memoria
is read as a size and four bytes; `crearProcesoMemoria` makes a buffer of 16 bytes for 12 and the path;
`solicitar_instruccion` sends 8 of its 12 bytes; `buffer_read_contexto` writes through a pointer that is not initialised;
`recibir_paquete` leaves the offset of its buffer unset; the MMU lets the limit itself through
(`mmu.c:5`, docx:402).

## 7. Not modelled

* The MMU: it translates the address of READ_MEM and WRITE_MEM, which Memoria never answers, so its result
  changes nothing.
* The start-up: configuration files, loggers and connections, in sequence. Its outcome is the initial
  state of each module. That the thread for the CPU and `gestionar_kernel` accept on one
  socket, and either may take the connection of the other, is listed as a hazard without a property.
* The filesystem: a stub that prints a line.
* The layouts of the payloads on which the two ends disagree (above), strings, and the functions
  of the common library that nobody calls.

## 8. Running

```
tlc -config ParticionesFijas.cfg MCParticiones.tla
tlapm ParticionesProofs.tla
```

Each `.cfg` names its run; the module is the MC module of its component. The longest runs (`Conexion`,
`Peticiones`) take one or two minutes, and the longest proofs (`PeticionesProofs`, `ConexionProofs`) a few.
