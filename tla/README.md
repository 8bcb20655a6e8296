# Verification of the distributed ASCII server

TLA+ models of the programs of this repository, checked with TLC on small
instances, and theorems about the models proved with TLAPS for every value of
their constants. `PROJECT.json` lists the components, the runs, what every
definition models (file and lines), the hazards of the code and the theorems.

In the text `A/` is `src/ASCII_Server_Client_Project/TenedorASCIICliente/`,
`P/` is `src/Integrated_Networks_OS_Project/` and `N/` is `P/NachOSx64/code/`.

## 1. The system

The repository holds two projects that share an idea: drawings ("figures",
"pieces") are kept by servers, a book-keeper ("tenedor", "fork") knows which
server has which drawing, and clients ask the book-keeper.

| Component | State it keeps | Operations | Talks to |
| --- | --- | --- | --- |
| Book-keeper, `forkServer` (`A/src/Server/forkServer.cc`) | `knownServers`, `serverObjects` under `serverMutex`; `running` | three threads: HTTP loop (`init`), UDP discovery (`udpDiscoveryHandler`, `processProtocolMessage`), monitor (`monitorServers`) | figure servers by TCP (`requestFromServer`) and UDP; browsers by HTTP |
| Figure server, `ASCIIServer` (`A/src/Server/ASCIIServer.cc`) | its TCP and UDP sockets, the files on its disk | `init`, broadcast thread, one thread per request (`task`) | book-keeper; figure file system |
| Figure file system (`A/src/FileSystem`) | `disk.dat`: directory of 15 entries, counter, chained blocks | `mountSystem`, `writeFile`, `existASCII`, `extractBlock`, `getSystemInfo` | the figure server |
| Socket layer, client (`A/src/Server/*Socket.cc`, `A/src/Client.cc`) | descriptors | wrappers; one request | both servers |
| Trial deployments (`PruebasServidor`) | copies of the above | the same, other addresses and file names | |
| Piece server (`P/Server`) | sockets, optional threads | one request per connection | client |
| Simulation (`P/Simulacion`) | one shared buffer, three semaphores | threads client, tenedor, drawing server | each other |
| NachOS threads (`N/threads`) | ready list, semaphores, locks, conditions, barriers | `Fork`, `Yield`, `Sleep`, `Finish`, `P`, `V`, ..., the forced switch of `preemptive.cc` | interrupts |
| NachOS user programs (`N/userprog`) | page bitmap, open file table, semaphore table | the system calls of `exception.cc` | threads, machine, host sockets |
| NachOS file system, disk (`N/filesys`) | directory, free map, file headers | `Create`, `Open`, `Remove`, `ReadAt`, `WriteAt` | `SynchDisk`, disk interrupt |
| NachOS network (`N/network`) | mailboxes | `Send`, `Receive`, postal worker | simulated network |
| NachOS machine (`N/machine`) | registers, memory, page table, pending interrupts, simulated devices | `OneInstruction`, `Translate`, `OneTick`, `Idle`, `CheckIfDue` | the kernel |
| NachOS tools (`N/bin`) | files | `coff2noff`, `coff2flat`, the stand-alone interpreter, the disassembler | |

### What is hard in it

* **Concurrency.** Three threads of the book-keeper share two maps. The mutex is
  released between copying a map and using the copy (GET, monitor), and between
  asking a server and storing its answer (monitor), but *kept* over a TCP
  exchange of seconds by discovery. The simulation and the NachOS kernel are
  turn-taking and blocking all over.
* **Failure.** Figure servers die and restart; a connection closed early ends an
  answer without an error; the exception of `requestFromServer` is caught by the
  monitor, ends the discovery thread, and ends the process when it comes from
  the HTTP loop. A figure server can end in the middle of `writeFile`.
* **Ordering.** Announcements are datagrams (lost, late, of a server dead by
  now); a server announces itself before it listens.
* **Timeouts.** `SERVER_TIMEOUT`, `MAX_RETRIES`.
* **Limits.** One byte counts blocks and, with 255, says that none is left; the
  directory has 15 entries and is searched with an off-by-one on both sides.

### What makes the components correct

* Book-keeper: what is listed can be got; no catalogue under the wrong address;
  a registration is not disturbed; "not found" is true; a dead server leaves and
  a live one is listed right in the end; requests are answered.
* Figure file system: a figure reported written stays whole, across other writes
  and crashes; a crash costs at most a block; a name shows its own figure.
* Simulation: the three threads alternate, each message is read once by the one
  it is for, and all of them end.
* Figure service: a figure arrives whole or not as one; whoever connects gets an
  end; no request of one client ends the process under the others.
* Piece server: the answer is the one asked for and whole; no descriptor and no
  child is lost but those the code is known to lose.
* NachOS threads: no lost wake-up, mutual exclusion in a monitor, whatever the
  yields.
* NachOS programs: `Console` is held once and given back (but for a refused `Read`),
  memory is shared as `Fork` says, handles and descriptors stay in step, calls return.
* NachOS files: no sector belongs to two files, every file is the one promised,
  and a crash leaves a file there as a whole or not at all.
* NachOS network: mail keeps its order and comes once; no assertion of a device
  fails; an idle machine halts.
* NachOS machine: a program computes what the same program computes on the
  stand-alone interpreter, wherever interrupts fall.

## 2. The plan

The order is that of importance: first what carries the two distributed projects,
then the kernel under the second one, from the bottom up.

1. `BookKeeper` with the abstract `FigureRegistry`, and `BookKeeperProofs`: done.
2. `FigureFS` with the abstract `FigureStore`, and `FigureFSProofs`: done.
3. `Simulation` and `SimulationProofs`: done; `SimulationDisk`, the disk of its
   server, is composed with it in `MCSimulation`.
4. `FigureService`, the way of a request through both servers, and
   `FigureServiceProofs`: done.
5. `PieceServer`, the server of the second project, and `PieceServerProofs`: done.
6. `NachosThreads`, and on it `NachosMonitors` with `NachosMonitorsProofs`: done.
7. `NachosProcess`, the system calls: done.
8. `NachosFiles` with the abstract `NachosFilePromise`, and the commands that use
   it, `NachosFileTest`: done. `NachosKernelProofs` has the proofs about 7 and 8.
9. `NachosPost`, machines, their devices and the mail, and `NachosPostProofs`: done.
10. `NachosMachine`, `NachosLoad`, `MipsInterpreter`, `Disassembler` and their
    composition `NachosSimulators`: done.

Every invariant and refinement of a state machine that a run checks is also
proved, but for the two of `NachosSimulators`, which are about the bits of operands.

## 3. What is modelled

### `BookKeeper`

The book-keeper and the figure servers it discovers. A thread is a record with a
`pc`; a critical section under `serverMutex` is one step, enabled when
`MutexFree`, except that of discovery, which is split where it asks the new
server (`ReceiveOn`, then `ReceiveObjects`) because it holds the mutex over the
exchange. A TCP exchange is one step, `requestFromServer`: the whole answer, a
beginning of it if the server dies meanwhile, or the exception.

A beginning of a list need not end with a line. Both threads take what is there when
"/END" is missing, split it at the line ends and store every piece
(`forkServer.cc:202-214`, 249-262). `CutLists` gives what they store: some of the
names, and behind them perhaps the beginning of another (`Beginnings`), or, when the
last line was whole, a piece of "/END" (`EndPieces`). So a name that no server holds
may be listed. A beginning may also be the name of another figure, and then a GET of
that one is sent to a server that does not have it. `/objects` shows these names and
`/get` looks for them like for others; a piece of "/END" in the path makes a request
that the server takes for an invalid one. The monitor's next answer replaces the list.

| Code | Model |
| --- | --- |
| `knownServers`, `serverObjects` | functions on `Addr`, with `NoAddr`, `Absent` for no entry |
| `init` (HTTP) | `HttpList`, `HttpOther`, `HttpGet`, `HttpScan`, `HttpNotFound`, `HttpAsk` |
| `udpDiscoveryHandler`, `processProtocolMessage` | `BroadcastTenedor`, `ReceiveOn`, `ReceiveObjects`, `ReceiveOff` |
| `monitorServers` | `MonitorCopy`, `MonitorNext`, `MonitorProbe`, `MonitorStore`, `MonitorEvict` |
| `ASCIIServer::init`, its broadcast thread | `StartServer`, `Listen`, `InitialAnnouncement`, `AnswerTenedor`, `PeriodicAnnouncement`, `StopServer` |
| UDP | `net`, `tenedor`, `LoseDatagram`; `net` is a set: a datagram of the same kind from the same server counts once |
| exception out of `init` | `Terminate`: the process ends, its maps are gone |

The deployment is given by constants: the address a server sends from (`Host`),
the one it announces (`Announced`), where a connection leads (`Reach`), what it
may hold (`Catalogues`). `witness` is a history variable: the addresses that
listed the figure of the current GET ever since it was received.

`FigureRegistry` is what the book-keeper promises: registered addresses, and a
catalogue for some of them; both leave together. `RefinesRegistry` maps
`registered` to the keys of `knownServers` and `catalogue` to `serverObjects`.

### `FigureFS`

`disk.dat` and one `writeFile` at a time, in steps of what reaches the disk at
once: stdio buffers a block until the next seek, so the data of a block and its
next byte are written together, after the next block was claimed. The process
may end between any two steps (`Crash`) and start again on what is there.

| Code | Model |
| --- | --- |
| `mountSystem` | `mountSystem` |
| `existFile`, directory loop, `checkBlockAvaible` | `existFile`, `IsEntryFor`, `checkBlockAvaible` |
| `writeFile`, `allocateInDirectory` | `allocateInDirectory`, `writeFirstBlock`, `writeName` |
| `allocateContent` | `claimNextBlock`, `flushBlock`, `writeLastBlock` |
| bytes of a figure | `Piece(n, k)`: the k-th 255 bytes of figure `n` |
| first block, next byte, counter | numbers in `0..End`; `End` is 255 for 254 blocks |
| a read through `existASCII`, `extractBlock` | `Whole`, `Visited` |

The sizes are constants (`Slots` = 15 and `LastBlock` = 254 in the code). The two
odd values of the code are in the model as they are: the scan that takes index
255 for "not found", so that the last entry is never found, and `EXIT_FAILURE`,
returned when no block is left and taken for block 1. `full` records that the
room ran out; `stored` the figures for which `writeFile` returned `EXIT_SUCCESS`.

`FigureStore` is what a server promises of its disk: whole figures appear at
once and stay, until the room runs out. `RefinesStore` maps its figures to the
pairs of a name and a length for which `Whole` holds on the disk.

### `Simulation`

Three threads, one buffer, three semaphores. A thread is a record with a `pc`;
a `write`, a `read`, a `signal` and a `wait` are a step each. The buffer is
modelled cell by cell, with the two indices modulo `Capacity` (1024 in the code):
`write` puts the characters of a message and a NUL where they fall, the later over
the earlier when it goes round, `read` takes the cells up to the first NUL. A
character is its message and its place in it, so that a text is either the whole of
one message or `Broken`, which every parser of the code rejects in its own way.

| Code | Model |
| --- | --- |
| `SharedMemory` | `write`, `read`, `signal`, `wait`, `finished` |
| `Client::run` | `ClientWait`, `ClientAsk`, `ClientExit`, `ClientSignal`, `ClientRead` |
| `Tenedor::run`, its adapter | `TenedorStart` to `TenedorAnswer`, `Asked`, `buildResponse` |
| `DrawingServer::run`, `ColabProtocolHandler` | `ServerWait`, `ServerCheck`, `ServerAnswer`, `buildAnswer` |

`Listed` is the list written into the handler's source and `OnDisk` what its disk
has, which may be less.

### `FigureService`

One request from a browser to a figure and back, with the sockets. `BookKeeper`
treats an exchange as one step and a GET as an answer; here an answer is what it is
in the code, a status and the blocks of a figure written one after the other by the
thread of the connection, read in parts by `requestFromServer` until `/END` is in what
it has, and relayed to the browser.

| Code | Model |
| --- | --- |
| `ASCIIServer` and `forkServer`: constructor, `Bind`, `MarkPassive` | `BuildSocket`, `Bind`, `BindThrows`, `MarkPassive` |
| `handleRequestWrapper`, `validateRequest`, `existASCII`, `extractBlock` | `Read`, `validateRequest`, `existASCII`, `OpenFails`, `extractBlock`, `Write`, `Close` |
| `WaitForConnection`, `pthread_create` | `WaitForConnection`, `AcceptThrows`, `ThreadFails` |
| `requestFromServer` | `EstablishConnection`, `WriteRequest`, `Receive`, `EndOfAnswer`, `TimesOut` |
| `forkServer::init` | `AcceptConnection`, `ReadHeader`, `HandlePage`, `AskServer`, `Relay`, `RequestThrows`, `WriteHttp`, `CloseClient` |
| `SIGPIPE`, an exception that nobody catches | `WriteThrows`, `WriteHttpThrows`: the process ends |

### `SimulationDisk`

The disk that the simulation's server fills before the threads start, as functions
of its contents: what `mountSystem`, `writeFile`, `existASCII`, `extractBlock` and the
handler's loop return. `MCSimulation` builds the disk of the run with them, and has
TLC evaluate that a figure that was written is read back piece by piece (`ReadBack`)
and that what `Simulation` takes as the disk is what the handler sends
(`DiskOfTheRun`).

### `PieceServer`

The server of the second project: `Start` to `MarkPassive`; `MountSystem` in steps of
what reaches the disk, with a kill at each; connections by threads (`AcceptThread`,
`Read`, `Translated`, `Respond`, `existASCII`, `extractBlock`, `Write`, `Close`) or by
processes (`AcceptProcess`, `Hear`, `Echo`), as `usarHilos` says; clients that send a
request in parts and leave when they like. `Before` gives the room the disk has for the
figures, one after the other; what happens without it is in `FigureFS`.

### `NachosThreads`, `NachosMonitors`, `NachosList`

`NachosThreads` has the operations of the kernel as operators on its state: ready
list, status and interrupt level of each thread, `yieldOnReturn`, the carcass left to
`Run`, values and queues of the semaphores, queues of the conditions, owners of the
locks. What runs with interrupts off is one step; a thread that goes to sleep gives
the processor away (`Dispatch`) and goes on with interrupts still off.

`NachosMonitors` adds what is built on it and the threads that use it. Each step is a
statement of the monitor's body that reads or writes what it shares; a timer
interrupt (`TimerInterruptHandler`, `YieldOnReturn`) or a forced switch
(`ContextSwitch`) may come between any two.

| Code | Model |
| --- | --- |
| `Lock::Acquire`, `Release` | `AcquireWaits`, `AcquireTakes`, `Release` |
| `Condition::Wait`, `Signal`, `Broadcast` | `Wait` (release and sleep in one step), `Signal`, `Broadcast` |
| `DiningPh` | `Announce`, `TestSelf`, `CheckHungry`, `TestLeft`, `TestRight` |
| `Barrier::Wait` | `Arrive`, `Compare`, `Reset` |
| `SynchList` | `AppendItem`, `SignalItem`, `CheckItem`, `TakeItem` |
| `SynchDisk`, the interrupt of the disk | `Request`, `Transfer`, `DiskInterrupt` |

`NachosList` is `threads/list.h` with its pointers. That every other module may take
a list as a sequence is the assumption `ListsAreSequences`, over all runs of five
operations, and `InterruptsAreAList` for the sorted insertion.

### `NachosProcess`

User threads that make the system calls of `exception.cc` on what they share: the
semaphore `Console`, the bitmap of the pages and the page tables (`addrspace.cc`),
the open-file table beside the descriptors of the host (`nachostabla.cc`), the
semaphores of the programs. A console call is entered (`Enter`), waits for `Console`
(`PWaits`, `PTakes`), acts and leaves; the calls with an empty body never return
(`CallForever`). A refused `Read` (`ReadRefused`) returns without `V` and without moving
the program counter (`exception.cc:133-146`), and has written its answer over the
number of the call. So the same instruction makes another call (`CallAgain`,
`exception.cc:549`): after 0, for an empty read, that is `Halt`, which in this code finishes
the thread, and `Console` is gone with it (`lost`); after -1 it is no call, and the
`ASSERT` of the default case stops the machine.

### `NachosFiles`, `NachosFilePromise`, `NachosFileTest`, `NachosDisk`

The disk is what its sectors hold: free map, directory (two sectors), headers, data.
An operation is a list of sectors to fetch, a decision, and a list of sectors to
store, each a step (`Fetch`, `Store`); `Crash` may come anywhere, `Boot` and `Format`
follow. What the threads run is a constant, `Scripts`; one of them creates and removes
files (`ScriptsAssumption`), the others read and write, also through the handle of a
file that was removed. `Remove` frees the sectors of a file that is open: where one of
them has become a header, a store through that handle leaves a corrupt disk (`Spoils`),
and so does a header that is fetched where data has been put since (`overwritten`).
What threads do with a corrupt disk is not followed (`Up`); the machine stops, and
formats. What a sector held as data it keeps under a header: a read through such a
handle, or a new file, gets that instead of the bytes of the header, which no property
tells apart. `Allocate`, `Deallocate`, `FindSectors`, `Add`, `DirRemove`, `DirFind` are the
functions of the same names. `NachosFilePromise` is the abstract file system, whole
files; `RefinesPromise` maps its files to those that the directory and the headers on
the disk show. A disk that is lost, in the middle of `Format`, by a stop or by
such a store, promises nothing.

`NachosFileTest` writes the commands of `main.cc` and `fstest.cc` (`-cp`, `-p`, `-t`) as
programs. `NachosDisk` is the timing of `disk.cc`, checked against a disk that turns
(`LatencyIsMechanical`).

Sizes stay within the sectors a header has numbers for: `Allocate` does not check
that, and what it does beyond is undefined.

### `NachosPost`

Machines with a clock, a sorted list of pending interrupts, network card, console
and timer, and on each the threads of the post office and of the test. A step of a
thread is what it does up to where it enables interrupts, which is where the clock
moves and `Fires` takes the next event. What a machine runs is a constant, `Setups`:
the programs of its threads as lists of calls, its devices, what is typed. All
machines are up in `Init`, with their sockets: who is started first, and the
`Delay(2)` by which the second is to have its socket before the first packet is sent
to it (`sysdep.cc:350`), are not in the model. A packet to a machine without a socket,
for which the code aborts, therefore does not occur, and no property speaks of it.

| Code | Model |
| --- | --- |
| `Interrupt::Schedule`, `OneTick`, `Idle`, `CheckIfDue` | `Schedule`, `Ticks`, `Idle`, `Fires` |
| `Network::CheckPktAvail`, `Receive`, `SendDone`, `Send` | `CheckPktAvail`, `TakePacket`, `SendDone`, `Post` |
| `PostOffice::PostalDelivery`, `Send`, `Receive` | `AwaitPacket`, `PutMail`, `Acquire` to `Release`, `Get` |
| `Console::CheckCharAvail`, `WriteDone`, `ConsoleTest` | `CheckCharAvail`, `WriteDone`, `AwaitChar` to `NextChar` |
| `Timer` | `TimerExpired` |

### `NachosMachine`, `MipsInterpreter`, `NachosLoad`, `Disassembler`

`NachosMachine` is `mipssim.cc` and `translate.cc`: `Execute` gives, for an instruction
and the registers, what it writes, loads, stores or raises; `OneInstruction` fetches,
executes and completes the delayed load; between two instructions an interrupt may
come (`Interrupted`) and switch threads (`TimeSlice`), which saves and restores the
registers. `Fork` and `Exit` are the system calls with their page tables and the bitmap
of the frames, which the destructor of an address space clears for all its frames, the
shared ones too (`DeleteSpace`). No program of the runs forks after an `Exit`; what
comes of that is in `NachosProcess`.

`MipsInterpreter` is `bin/execute.c`, `NachosLoad` makes the NOFF file (`coff2noff.c`),
the flat file (`coff2flat.c`) and the two memories (`addrspace.cc`, `bin/main.c`) from a
COFF file, `Disassembler` is the listing of `bin/out.c` and `bin/d.c`. `NachosSimulators`
runs a program on the machine and, one copy per thread, on the interpreter.

A byte has two bits (`ByteBits`), a word eight: signs, carries, alignment and the
places of bytes in a word are there, and every operand can be tried.

## 4. Runs

| Run | Instance | Shows |
| --- | --- | --- |
| `registry_safety` | two servers, two figures, lost datagrams, slow servers, cut names, OFF | `TypeOK`, `CatalogueProvenance`, `RegistrationIsExclusive`, `NotFoundIsHonest` |
| `registry_liveness` | one server started twice with another disk, book-keeper started twice, `FairSpec` | `ListedFiguresAreReachable`, `RefinesRegistry`, `DeadServersLeave`, `CatalogueConverges`, `GetsAreAnswered`, `ForkLearnsOfRunningServers` |
| `figures_room` | three names, figures of 0 to 3 blocks, 5 entries, 6 blocks, two crashes | `TypeOK`, `WrittenFiguresStayWithRoom`, `CrashLosesOneBlock`, `RefinesStore` |
| `simulation_turns` | four figures (short, too long, missing, unknown), 7 cells, any number of requests, `FairSpec` | `TypeOK`, `OneTurn`, `IndicesMeet`, `FittingAnswersFollow`, `RequestsAnswered` |
| `figure_service` | two browsers, or a browser and another book-keeper, or two of these and few descriptors; a figure of two blocks, one that holds `/END`, one that is on no disk | `AnswersAreWhole`, `ProcessesEndForCause`, `EverybodyEnds` |
| `piece_server` | two connections, three figures, both modes, one kill | `TypeOK`, `AnswersFit`, `RequestsEnd` |
| `threads_monitors` | four threads; philosophers, a barrier used twice, producers and consumers, readers of the disk; yields anywhere | `TypeOK`, `MutualExclusion`, `MonitorPromises`, `AllFinish` |
| `processes` | three threads, four pages, programs of files and sockets, odd handles, semaphores | `ConsoleHeld`, `MemoryShared`, `HandlesInStep`, `CallsReturn` |
| `nachos_files` | two threads, ten sectors of two units, two files, one crash | `FilesApart`, `RefinesPromise` |
| `post_office` | two machines; the mail test, two senders to a busy machine, an echo | `MailInOrder`, `DevicesServe`, `ProgramsEnd` |
| `machine` | programs of one instruction of each kind on pairs of operands, products and quotients, programs that fork, every placement of interrupts | `SimulatorsAgree`, `ListingTells` |
| `machine_or` | OR of two registers | `SimulatorsAgree` is violated |

**Bounds.** *Book-keeper:* two servers are enough for every pair of threads to meet
on one or on two addresses; two figures, for a list cut short that is not empty. A
beginning of the one is the other's name in the safety run (`PrefixBeginnings`), where
one piece of "/END" occurs too; in the liveness run a beginning is nobody's name
(`AloneBeginnings`), and has to leave the list again;
one start of each server in the safety run (its four properties do not depend on
restarts, and are proved for any number), two in the liveness run, where a server
comes back with another disk. `MaxRetries` is 3, as in the code, where attempts
matter, and 1 in the safety run. *File system:* three blocks are a first, a middle
and a last one; six blocks let two figures of three fill the disk; five entries are
one more than three figures can take before `full`; two crashes let a write fail, be
repeated on its remains, and fail again. States with `full` are cut off by the
constraint `Room`; no property says anything of them. *Simulation:* 7 cells and
messages of 1 to 12 characters give messages that fit, one of exactly the size of the
buffer, and two that go round it once, at every position of the indices; the number
of requests is not bounded. *Figure service:* a request of a browser comes in
two `Fragments`, so that the HTTP thread waits in between; a backlog of one
(`MaxWaiting`) refuses the second connection; four descriptors (`MaxFd`), of which two
are held from the start in the third cast, so that an answer can be begun and not
finished. *Piece server:* two connections are two tasks at once; `MaxFd` 4 and
`MaxProc` 2 are reached; two starts are one kill. *Threads:* four threads are one
that forks and three that meet at a barrier of three or eat at a table of four
(`N`; five in the code, where the neighbours of a philosopher are likewise two
different ones that are not neighbours), a lock with two threads that wait. *Processes:* four pages
and two stacks beside the shared ones fill the memory; a table of five leaves room
for two opened files. *Files:* ten sectors are five of the system and five that two
files, each with its header, can exhaust; a header has as many numbers (`NumDirect`)
as the largest file needs. Two of the scripts use a file after it was removed, one
through a handle, one from a look into the directory, and lose the disk by it.
*Post:* times are counted in `SystemTick`; delays of 3 for network and console, timer
delays of 1 and 4 come before and after them. *Machine:* the six values are zero,
small, large, the greatest positive and the least negative number and minus two,
in all pairs.

Runs end where programs, machines or users stop for good: deadlock is therefore not
checked, and what must not wait for ever is stated as liveness.

**Assumptions that TLC evaluates**, over bounded inputs: `ReadBack` and `DiskOfTheRun`
(`MCSimulation`), `ListsAreSequences` and `InterruptsAreAList` (`MCNachosPost`),
`LatencyIsMechanical` (`MCNachosFiles`), `FlatFilesAreMemory` (the flat file is the
memory the loader fills, if the sections are in order) and `ListingsAgree` (`out.c` and
`disasm.c` print the same) in `MCNachosSimulators`.

**Fairness.** `BookKeeper!FairSpec`: weak fairness of the discovery thread, the
monitor and the HTTP thread once it has a request: each is a loop of a running
process, its sleeps are finite, an exchange ends by `SO_RCVTIMEO`, and nobody
keeps the mutex for ever, since the exchange under it ends too. Weak fairness of
the broadcast thread of a server once a datagram has come. Nothing obliges a
server to start, listen or stop, a browser to ask, or the network to deliver in
order; for the liveness run the network does not lose datagrams (with losses a
server may stay unknown for ever) and servers are not slower than the timeout
(else a live server may be evicted again and again). `Simulation`: the three threads
are weakly fair, as the host schedules them; `ClientAsk` and `ClientExit` are not,
since they wait for the user. `FigureService`: the threads of the figure server as a
whole, the HTTP thread, each asker once it has begun, and a browser that has
connected sends or leaves; nobody must connect. `PieceServer`: mounting, accepting
and each task; clients are free. `NachosMonitors`: strong fairness of each thread's
steps, since a thread that gets the processor again and again executes at last one
step in its time slice, which is longer than a step; weak fairness of what the
scheduler does by itself and of the disk, and none of the timer and the forced
switch. `NachosProcess`: weak fairness of each thread, by its time slices.
`NachosPost`: weak fairness of each machine, which is a process of the host. The
file systems and the simulators state none: their properties are safety.

### Disagreements

Where the code does not do what its comments, its documents or its other half say.
The models do what the code does, and the properties above leave these cases out as
stated; `machine_or` is kept as a run. Where a property accepts what the code does (the
end of a process, a lost descriptor), or its assumptions exclude it, the hazard is
listed in `PROJECT.json` with a note in place of a property.

*Book-keeper and figure server.*
A server on another machine announces 127.0.0.1; `serverObjects` is keyed by what
is announced and `knownServers` by the sender (`forkServer.cc:197`), so OFF and the
monitor (`:276`) erase at different keys and a dead server stays.
An answer without "/END" is stored up to where it ends, with the beginning of a name or
a piece of "/END" as its last entry (`forkServer.cc:202-214`, 249-262, 302), until the monitor
asks again.
A server that said OFF between the probe and the store of the monitor (`:262`) is
listed again, though not registered.
An announcement that comes before `listen` (`ASCIIServer.cc:35`) makes the exchange
fail (`forkServer.cc:200`), the exception leaves the thread function (`:177`), and
discovery hears nothing any more.
`existASCII` does not close the disk when it finds the figure (`FileSystem.c:221`).

*Figure file system.*
Without a free block the claim returns `EXIT_FAILURE`, which is 1, and block 1 is
overwritten while `writeFile` reports success (`FileSystem.c:274`, 107, 135, 151).
A full directory is written past its end (`:94`); the last entry is never found
(`:208`). A source that cannot be opened leaves an entry whose block is given out
again (`:119`).

*Simulation.*
After `exit` the server thread is never woken (`Tenedor.cpp:27`, `Client.cpp:22`). A
message longer than the buffer overwrites its beginning (`SharedMemory.cpp:24`).

*Piece server.*
The test of `usarHilos` is inverted (`Server.cpp:94`): the mode called threads makes
processes that echo. OBJECTS lists `Personal.txt`, which is never written (`:151`).
Nobody waits for the children (`:123`).

*NachOS.*
A refused `Read` keeps `Console`, and its `syscall` is executed again with the answer
for a number (`exception.cc:133-146`, 549): an empty read ends its thread by `Halt`, after
which every console call of the other threads waits for ever; the others fail the
`ASSERT` of an unknown call. `ConsoleHeld` and `CallsReturn` say so. The destructor of an address
space frees the pages that forked threads share (`addrspace.cc:175`). A carcass is
forgotten when the next thread is new and the one after it finishes (`scheduler.cc:122`,
`thread.cc:138`). `Remove` frees the sectors of a file that is open
(`filesys.cc:278`; `filesys.h:82` has it otherwise). `FileWrite` creates its file with
size 0, and files do not grow (`fstest.cc:124`). `sendBusy` is asserted and never set
(`network.cc:107`). A console on a file aborts at its end (`sysdep.cc:145`).

*Simulated MIPS.*
OR takes its first operand twice (`mipssim.cc:376`). SRL and SRLV shift a signed
number, so that the sign comes in. MULT and MULTU lose the carry between the halves
of a product. ANDI, ORI and XORI extend the sign of the constant. LWL into a register
that is not 0, and LWR, merge other bytes than the interpreter. JALR with the same
register twice jumps to itself. DIV by 0 and of the least number by -1 differ. ADD
overflows differ in the trap. `execute.c` has no SWL and SWR. `coff2noff.c:204` tests
for `.sbss` the other way round than its comment, and `:113` tests the wrong
descriptor. The lines of JALR, MFLO, MTHI, BLEZ and BGTZ lack an operand (`d.c:71-87`,
145-217). The runs take the operands on which the two agree.

## 5. Proofs

Each theorem holds for every value of the constants that meets the named assumptions
of the module (`AddressAssumption`, `FigureAssumption`, `BoundAssumption`,
`SizeAssumption`, `SimulationAssumption`, `ThreadAssumption`, `MonitorAssumption`,
`ProcessAssumption`, `ServerAssumption`, `TimesAssumption`, `FilesAssumption`, by which
a header has room for the two sectors of the directory, and eight that say more than
which values a constant has: `LengthAssumption`, that only the line of the
simulation's client may be empty and that what its book-keeper makes of a name, a
figure or an error is no shorter than what it is made of; `SocketAssumption`, that
there is a browser, that figures take a block and that what is held from the start
fits the descriptors; `RoomAssumption`, that the disk has room for the figures that
are mounted, and that no block has the number, 255, that ends a figure;
`TableAssumption`, that a philosopher is one thread, which puts down once after each
pickup, as `Philo` of `threadtest.cc` does; `BarrierAssumption`, that as many
threads use a barrier as it was made for, all of them equally often: with more of
them, or with one that stays away, `Barrier` promises nothing; `ProgramAssumption`
and `ConversationAssumption`, which say what programs of a NachOS machine have in
common with `MailTest` and `ConsoleTest`: they send to other machines and answer
only mail that they have read; one thread reads the keyboard; whoever is sent mail
has a network card, and halts only behind as many receive calls as there is mail for
it. Without the last one `SendToSocket` does abort, which is how the code is
written; and `ScriptsAssumption`: one thread creates and removes files, of sizes that a
header has numbers for. The code says both of itself: "this implementation assumes
there is no concurrent access to the file system" (`filesys.cc:167`), "files cannot be
bigger than about 3KB in size" (`filesys.cc:35`). Two threads in
`Create` may fetch the same map and take the same sectors).

`BookKeeperProofs`:

* `TypeCorrect`: `TypeOK` is inductive by itself, thread by thread.
* `Exclusive`: every step that changes the registry other than discovery's own
  needs `MutexFree`; the end of the process changes discovery too.
* `Provenance`: from `ProvenanceInv`, which adds to `CatalogueProvenance` the
  disks (`DisksInv`) and the answer that the monitor carries from its probe to its
  store. `AnswerOffered` says that an exchange brings one list of the server reached,
  whole or cut (`AnsweredBy`), so the entry of an address is never one of another
  server nor put together from two answers; that its last name may be broken is part
  of the statement. It holds for any `Beginnings` and `EndPieces`.
* `HonestNotFound`: needs one address per server (`OneAddressPerServer`), so that
  `OneAddressInv` holds, and `WitnessInv`: a server that has listed the figure
  all along is still to be visited by the loop.
* `ListedReachable` and `RegistryRefined`: with one address per server and no
  OFF, from `RegisteredInv`: what is listed, being asked or still to be visited by
  the monitor is registered. Neither assumption can be dropped: see the first two
  disagreements of section 4.

`FigureFSProofs`:

* `DiskTypeCorrect` and `FiguresStay`: `TypeOK` and `VolumeInv` are inductive
  together. `TypeOK` contains `CounterAhead`: the counter is beyond the end of the
  file, so what it gives out was never written. `VolumeInv` says that the blocks
  the writer has claimed are marked or lie between the end of the file and
  the counter (`PendingClaimed`), that its entry is not one in use (`EntryTaken`),
  that what it has written is a chain up to its current block (`InProgress`), and
  that finished figures avoid its blocks (`StoredApart`). The lemma `Claim` is the
  heart: a claim never gives out a block in use and disturbs none; `ApartStays`
  says that a finished figure survives every step that respects that.

* `StoreRefined`: the steps of `writeFile`, with the crashes between them, implement
  `FigureStore`. It needs the converse of `VolumeInv`: nothing is whole that was not
  written. `FiguresInv` adds that a free block and a claimed one hold no piece
  (`UnwrittenBlank`), that a free entry has no name (`FreeUnnamed`), and that a name
  has one entry that leads to all of its pieces.
* `OneBlockLost`: by `LinkedInv`, the blocks in use that no entry leads to are at most
  one for each crash, not counting what the writer is about to link (`InFlight`).
  `Visited` is the smallest set closed under the links; a step that links one block adds
  at most that one.

`SimulationProofs`:

* `SimulationTyped`: `TypeOK` is inductive; the lemmas `WriteTyped` and `ReadTyped`
  carry the arithmetic of the circular buffer, for messages of any length.
* `OneTurnAlways`: `OneTurn` is inductive with `TypeOK`. The lemma `TurnMoves` is the
  argument: a step takes the turn from the one thread that has it and gives it
  to one, itself or the thread it wakes.
* `IndicesMeetAlways` and `AnswersFollow`: from `TurnInv`, which says of every turn
  what the three threads are about to do and which message the buffer holds
  (`Contains`), from the client's line to its answer. The arithmetic is that of
  `DivMod`: a message of any length leaves the write index where the reader, who
  counts the same characters modulo the size of the buffer, will find it; one that
  fits is read as it was written.

`FigureServiceProofs`:

* `ServiceAlways`: `ServiceInv` is inductive. `Exchange` ties the two ends of a
  connection to the figure server: what was received, what is on its way and what the
  thread has still to write are one answer in order (`Follows`), and whoever has read to
  the end has all of it, unless the text holds `/END` or the server has ended. `Turn`
  ties the book-keeper's loop to the browser it serves: what the browser has and what
  is ready for it are the beginning of its figure (`Fits`), all of it if nobody has
  ended (`FitsWhole`).
* `AnswersWhole` and `EndForCause` follow from it. A thread that writes to a closed
  connection has met a peer that gave up, or one that found `/END` in the text: else
  the answer ends where the peer stops reading.

`PieceServerProofs`:

* `PieceAlways`: `PieceInv` is inductive. `DiskInv` is about the mount: a figure that was
  written to its end is a chain of its pieces that avoids the block in progress
  (`StoredLead`), what has been written of the figure in progress is the beginning of
  one (`InProgress`), and the directory names the figures in mounting order, the
  counter being within the room of those before (`UpTo`): so a block can always be had
  and is never one in use (`NewBlockFree`, `CounterFits`), whatever a kill left behind.
  `Talk` is about the two ends of a connection: what the client got and what the task
  has still to write are the answer (`Joined`), and a GET that is halfway has the first
  pieces of its figure and the block of the next (`Halfway`).
* `PieceServerTyped`: `Account` counts the descriptors by what holds them, and the
  children, ended ones included.
* `PieceAnswersFit` follows from `Talk`; the disk does not change while the server serves
  (`Served`), so a chain stays one from the first `extractBlock` to the last.

`NachosMonitorsProofs`:

* `MonitorsTyped` and `MutexAlways`: `TypeOK` and `MutualExclusion` are inductive
  together, for any threads, programs, table, barrier and list, and any placement
  of timer interrupts and forced switches. `MutualExclusion` ties three things: who
  is in a body owns its lock, and a lock's semaphore is 1 exactly when it has no
  owner. So the `P` of `Acquire` finds no owner (`AcquireStep`), and whoever gives the
  lock up was its owner, so that its `V` brings the semaphore to 1 and no further
  (`GiveUp`); every other step keeps its thread inside (`InsideStep`) or outside
  (`OutsideStep`).
* `PromisesKept`: from `PromiseInv`. `Sleepers` says that a thread is on the ready list or
  in one queue, once, or in neither: so one that runs waits nowhere (`RunnerFree`), and
  who takes a step behind a `Wait` was woken. `Eats` follows a philosopher from its
  pickup to its putdown: `pickup` waits once only, and suffices because whoever wakes
  the thread has made it eat, and nobody else can undo that before its own putdown.
  `Round` counts, for the users of the barrier, the rounds they have to go: those that
  the last one freed (`Freed`) have one more than the others, and the count is that of
  the threads that have come (`Gathered`), so that who finds it full finds all of them
  there (`CompareRound`); between the broadcast and the reset nobody enters.
  `DiskState` gives `DiskIsFree`: while a thread waits for the disk, either the request
  is there or the semaphore is 1.

`NachosKernelProofs`, the user programs:

* `HandlesAlways`: the table and the host both hand out the least free number
  (`LeastIs`, `DescriptorIs`), so `TableInv`, the handles in use are the
  descriptors in use as far as the table goes, is kept by `Open` and `Socket`
  (`HostOpenKeeps`), also when the table is full, and by `Close` (`HostCloseKeeps`).
* `ConsoleAlways`: from `SynchInv`. `HeldInv` names the one thread that has `Console`:
  in a call, sent back by a `Read`, or ended by the `Halt` that followed; from there it
  makes no call again, so `Console` is not given back. `QueueInv` says that a queued thread sleeps at that
  semaphore and is queued once, so that `V` (`VStep`) wakes one that looks at the value
  it raised; `WakeInv` counts the threads that will look. `SemDestroy` takes every
  thread away from its semaphore, which is why a new one starts with no queue
  (`DestroyStep`, `CreateStep`).
* `MemoryAlways`: from `PageInv`, which holds until somebody exits: every space has the
  same pages of code and data, its stack has none of them, and what is in use is what
  the spaces have; so a page that `Find` hands out is in no other space
  (`FindIs`, `CopyIs`, `ForkShares`). That there is such a page for each number below
  the count of the free ones is `RankExists`, an argument from the least one with
  enough of them below it instead of an induction.

`NachosKernelProofs`, the file system:

* `FilesInvariant`: from `FilesInv`, for a disk of any size and any scripts. `Settled` is
  the disk between operations: files apart, the map exactly their sectors and the
  system's. One thread may leave that state (`OneChanges`), and `Change` says how far it
  is: `LookingUp`, `Allocating`, `Freeing` have changed nothing and have in memory what
  is on the disk; `Creating` and `Removing` name, for each list of sectors that is left
  to store, what the disk has. Each sector fetched or stored leads from one stage to the
  next (`FetchChanges`, `StoreChanges`); the other threads store data sectors and nothing
  else (`StepOfOthers`). `FindSectors` gives distinct free
  sectors (`FoundFree`), so a new file is apart from the old ones (`AddApart`).
* When the machine stops and the map still covers what the directory names, the disk is
  settled (`StoppedCreating`, `StoppedRemoving`). The hard case is a directory with one
  of its two sectors stored, with an entry on the border: `HalfAdded` shows that it
  either is the old one or names the new header, which the map does not have, and
  `HalfRemoved` that it is the old one or the new one.
* `FilesStayApart` follows with what is shown in each stage (`ShownChange`), and
  `DeallocateAsserts`: the header that Remove fetched belongs to a file of the
  directory, so the map that it fetched afterwards has its sectors.
* `PromiseKept`: of the stores of an operation, one is the one that is seen, the second
  sector of the directory (`CreatingShows`, `RemovingShows`); it adds or drops one file
  and leaves the others (`FilesAdds`, `FilesDrops`). A data sector belongs to one file
  or none (`FilesWrites`). A stop loses the disk or leaves the file there or gone
  (`StoppedShows`).
* `FileWritesHarmless`: the disk is also lost by data in the place of a header, and this
  theorem says who cannot do that: a thread that writes to a file which is there. All
  headers that some directory names, on the disk or on its way to it, are those shown or
  lie where no file had a sector (`AllFollow`, from the stages of `Change`); and a header is
  in no sector of its own file (`NoLoops`, an invariant beside `FilesInv`). So before a
  stop it takes a handle, or a look into the directory, from before a `Remove`.

`NachosPostProofs`:

* `MailAlways` and `DevicesAlways`: from `PostInv`, for any number of machines, boxes,
  threads' calls and ticks between them. `SendInv` says that the owner of `sendLock` is
  the one thread within `Send`, and that its packet's interrupt is due, or its semaphore
  raised, exactly while it waits for it: so one packet at most is on its way out, as
  `sendBusy` was to make sure. `CardInv` says the same of what comes in: the card is
  full as long as `messageAvailable` or the postal worker is to fetch the packet, and
  the poll leaves the socket alone meanwhile. So a packet moves along `Way`, the mail
  read, in the box, with the worker, in the card and in the socket, without overtaking:
  only `Post` adds to it (`PostMail`), and the worker takes from the way to the other
  boxes (`PutIs`). `OrderInv` is then kept by two lemmas about a sequence that one
  element is appended to (`InOrderAppend`) or taken from (`InOrderDrop`).
* That no `ASSERT` stops a machine has two reasons. `EchoInv`: the display is busy only
  while its interrupt is due and the one thread that echoes waits for it. `CountInv` and
  `EndInv`: a box gets no more mail than was sent by the calls that may send to it, and
  a machine has halted only when all of that was read; so whoever still has to send
  finds the receiver up (`ReceiverIsUp`). `ThreadsInv` and `ReadInv` say where a thread
  of each program may be, and that what it has read was in the box.

**Only model-checked:** the liveness properties (fairness and ENABLED are beyond the
prover): `DeadServersLeave`, `CatalogueConverges`, `GetsAreAnswered`,
`ForkLearnsOfRunningServers`, `RequestsAnswered`, `EverybodyEnds`, `RequestsEnd`,
`AllFinish`, `CallsReturn`, `ProgramsEnd`; `ListingTells` and `SimulatorsAgree` (the
value of every operation of the machine, which is a matter of its bits: `Bitwise` and
recursive definitions, which the prover does not take).

## 6. What is not modelled

* Texts: a message is its kind, a list is a set of names, a page or a request is a
  record. A figure's name is taken not to contain a line end or "/END". The arguments
  of the command line client and of `main.cc`.
* Sockets below connection, backlog, time limit and close: names, IPv6, TLS
  (`SSLSocket.cpp` is compiled and not used).
* A browser that talks to the book-keeper on several connections at once; a write
  that the kernel of the host takes in part.
* The endless loop of GET for an entry whose block is not in the file, which reads
  past a buffer; a crash within `mountSystem` of the first project; `getSystemInfo`.
* The trial deployments: three copies that differ in the broadcast address
  (`BC_ISLA`), the address announced, the names of the figures and a `Dockerfile`. The
  constants `Host`, `Announced` and `Catalogues` of `BookKeeper` stand for them.
* NachOS: the registers and stack of the host under `SWITCH` and under the forced
  call of `preemptive.cc` (which overwrites the red zone and the flags of what it
  interrupts), and its tracing by `ptrace`; statistics; the TLB branch of `Translate`,
  use and dirty bits, the debugger; a page fault, which is answered by nothing, so
  that the instruction is repeated for ever (`exception.cc:659`); programs whose
  sections leave a gap; `readnoff.c` and the symbol table of `out.c`; the start of the
  disk file (`disk.cc:61`); `Socket` of two families at once (`exception.cc:422`);
  a bad buffer in a system call, which the translation answers with an `ASSERT`; the
  order in which machines are started (`sysdep.cc:350`).
* The shell and the other programs of `test/`, but for the calls they make.
