# A specification of the Eä System

The Eä System (C99, `src/`) is a server, **Arda** (`arda.c`, `modules/ardaFunctions.c`), at which
programs called **iluvatarSon** (`iluvatarSon.c`, `modules/iluvatarFunctions.c`,
`modules/iluvatarThreads.c`) log in, and which tells each of them who else is there. Sons send each
other messages and files directly, through sockets or, on one machine, through POSIX message queues.
This directory holds TLA+ modules that model the code, TLC configurations that check them on small
instances, and proofs that TLAPS checks.

## Inventory

| Part | State | Operations | Hard because |
|---|---|---|---|
| Arda server (`arda.c`, `ardaFunctions.c`) | `fdset`, `biggerFd`, `connectionsHashmap`, the cached text `connectionsList`, `numMessages` and its file | the event loop, `handleNewConnection`, `handleRequest`, `handleListRequest`, `handleUnknownRequest`, `disconnect`, `signalHandler`, `stop` | four copies of "who is connected" must agree at every early return; a batch of `select()` outlives the descriptors in it; it dies and is started again |
| Packets (`communications.c`) | none (a byte stream) | `COM_writePacket`, `COM_readPacket` | end of stream anywhere, 16-bit length, 5 s timeouts on queues |
| Connection records (`connection.c`) | heap strings owned by hashmap entries | serialize, deserialize, search by name, free | pointers into buckets |
| Hashmap (`hashmap.c`) | Robin Hood table | set, get, delete, clear, iterate, resize | delete and resize move entries that callers still point to |
| Son, main thread (`iluvatarSon.c`, `iluvatarFunctions.c`) | `fdArda` under `mtxFdArda`, `run` under `mtxRun`, `connectionsHashmap`, `threadsHashmap` | `sendNewSon`, `updateUsers`, `prepareSendMsg`, `prepareSendFile`, `checkSocketMessage`, `checkIpcMessage`, `checkArdaMessage`, `end` | `end` runs on any thread, also from signal handlers, whatever the thread was doing |
| Son, workers (`iluvatarThreads.c`) | `ThreadArgs`, shared pointers | `ITH_sendMessage`, `ITH_sendFile`, `ITH_checkSocketMessage`, `ITH_checkIpcMessage`, `receiveFile` | they share the connection to Arda, records and the life of the process |
| Message queues (`ipcHelper.c`) | an awake queue per process, two queues per session, their names | `IPC_start`, `IPC_sendAwakeMessage`, `IPC_startQueues`, `IPC_stopQueues` | both ends create, use, time out on and unlink queues whose names may collide |
| Shell (`shellHelper.c`) | pipes, children | `run` | `wait` comes before reading, and takes any child, whoever forked it |
| Sockets, parsing, terminal (`socketHelper.c`, `messages.c`, `fileparser.c`, `stdinout.c`) | - | straight system calls and text | - |

Sons call Arda by packets on one TCP connection each: `NEW_SON` (answered `CONOK` with the list, or
`CONKO`), `LIST_REQUEST` (`CONOK` with the list), `NEW_MSG` (counted, no answer) and `EXIT` (`CONOK`
of type 6 and a close, or `CONKO`). Arda itself sends `CONOK` of type 6 unasked when it hangs up.
Within a Son the threads share `fdArda`, the mutex and the two hashmaps.

What makes each part correct:

- Arda: its registry, its watched descriptors and the open ones agree; one name is in at most once;
  the list is never stale; the count is exact across restarts; every connection is served, unless the
  only thread is held up.
- A Son towards Arda: exchanges do not mix; nothing follows `EXIT`; `end` waits for the workers, and
  ends.
- Sons among themselves: "correctly" is only said of what arrived; locks and queues do not outlive
  those who have them open; every thread ends.
- The hashmap: it is a map, however it moves its entries. A stream: packets come out as they were
  written, and its end is noticed. `run`: a command's output, but for its last byte, goes to whoever ran it.

`PROJECT.json` lists the hazards, each at its line.

## Modules

| Module | What it is |
|---|---|
| `Protocol` | headers, types, `isPacketValid`, and what `COM_writePacket` puts on the wire |
| `PacketStream` | packets as bytes on a socket: writing, and reading what comes in pieces and may end anywhere |
| `Registry` | abstract: who is logged in, and how a place may change hands |
| `Line` | abstract: one connection between a client and Arda, what is asked and what may be answered |
| `Arda` | the server, all of it, with the kernel's descriptor table and the most general clients |
| `Son` | one Son: its main thread, its workers, `end` on any thread; Arda and the neighbours are its environment |
| `Delivery` | abstract: what sending a file promises to its user |
| `FileTransfer` | `ITH_sendFile` against `receiveFile`, over sockets, for several Sons and transfers |
| `Neighbours` | messages and files between Sons of one machine, over message queues |
| `Map` | abstract: what the hashmap promises to its callers |
| `HashMap` | the Robin Hood table, bucket by bucket |
| `JoinLoop` | `HashMap` with the loop of `end` that joins and deletes its entries |
| `Shell` | `run`, by several threads at once, with their children |
| `ArdaProofs` and `ArdaSessionProofs`, `SonProofs`, `PacketStreamProofs`, `FileTransferProofs`, `NeighboursProofs`, `ShellProofs`, `HashMapProofs` | theorems about the module named, `HashMapProofs` about `JoinLoop` too |
| `MCArda`, `MCSon`, `MCPacketStream`, `MCFileTransfer`, `MCNeighbours`, `MCHashMap` | small instances (that of `Shell` needs no module) |

`Arda` and `PacketStream` extend `Protocol`, `JoinLoop` extends `HashMap`; `Arda` implements
`Registry` (all its clients together) and `Line` (each of them), `FileTransfer` implements `Delivery`,
`HashMap` implements `Map`. `Arda` and `Son` are composed through `Line`: see below. The modules look at the
same Son from different sides: in `Son` a worker is what it does to Arda, the mutex and the other
threads; in `FileTransfer` and `Neighbours` it is what it does to the worker at the other end.

### Arda

A `Session` is one TCP connection ever made. Its user (`UserOf`) and ip:port (`AddrOf`) are fixed,
so a `Connection` record is the session it was parsed from. The actions carry the names of the
handlers:

| Code | Actions |
|---|---|
| `arda.c:54-71` | `Select`, `Visit` (part of every visit) |
| `handleNewConnection` | `AcceptError`, `AcceptFull`, `Accept` up to the blocking read, then `FirstPacketNull`, `FirstPacketNotSon`, `FirstPacketNameTaken`, `FirstPacketLogin`, `FirstPacketReplace`, and `Welcome` or `WelcomeFails` |
| `handleRequest` | `RequestLost`, `RequestList(Fails)`, `RequestNewMsg`, `RequestExit(Refused)`, `RequestUnknown(Fails)`, `StaleVisit` |
| `disconnect` | the operator `disconnect`, within the actions that call it |
| `stop`, `signalHandler`, `panic` | `stop`, `dieUnsaved`, within `Signal`, `Kill`, `FirstPacketNull`, `StaleVisit`; `SignalHangs`, when the handler finds its own thread in `INOUT_print` |
| `main` before the loop | `Launch` up to where the handlers are installed, `Start` from where the count is read; `SignalEarly` and `KillEarly` in between |

An action is a stretch of code between two points at which the process may block or a signal may
make a difference. Clients write any packet in `ClientHeaders`, valid or not, and close at any
moment. A write to a client that has closed fails or not, as in TCP.

*What blocks the only thread.* A client may write a packet that it never completes (`Torn`): `select`
reports its first byte, and `COM_readPacket` blocks in it, or, once the stream has ended, spins in
`readUntil`; no action takes it from there. (A piece that is completed later is the same as a packet
that comes later. A stream that ends within the length or the data gives a packet with other data, as
`PacketStream` has it, and is a packet here.) A write waits until the client has room (`CanWrite`); the
stretch up to it and the write are one action, which nobody but Arda's own thread could tell apart. And
when a signal interrupts `INOUT_print`, its handler waits for the mutex that its own thread holds:
`hung`, after which only a kill ends the process. Where a stretch of code prints is not told apart from
where it begins: the action that is under way is then the one before or after `SignalHangs`.

*Freed strings.* `disconnect` takes a pointer into the buckets, lets `hashmap_delete` close the gap,
and frees the strings it then finds there. `SlidesInto[f]` is the set of descriptors whose entries
may have slid into the bucket of `f`. `FreeStrings` makes one record dangle; freeing twice may make
any others dangle. A dangling name compares either way, a dangling entry of the list is `Garbage`,
and `stop` may abort in `hashmap_free`. `NoSlide` says that no entries collide, which is so for
descriptors 4 to 8: the hash of the decimal digits has fixed seeds (0, 0) and sixteen buckets.
From twelve registered sons on the table grows and shrinks, and then `disconnect` reads freed
memory even without a collision; this is not modelled here (`HashMap` has the resize).

### Son

Program counters follow the calls that may block: `newSon`, `select`, `updateLock`, `updateRead`,
`checkLock`, `firstPacket`, `register` in the main thread, `start`, `awaitMsgOk`, `tellLock`,
`tell`, `sendData`, `awaitCheck`, `recvData` in a worker, and `endLock`, `endRead`, `endRun`,
`endJoin` for a thread within `end`, whichever it is; `jammed` is a signal's handler that waits for the
mutex of `INOUT_print`, which its own thread holds, and which `end` needs before it exits. `Fault` is a signal handler that calls `end`
on the thread at hand: SIGPIPE, SIGSEGV, or a signal from outside. `number` says what the
descriptor number of `fdArda` refers to once it was closed, because workers hold a copy of it.
`stale` are the workers whose `threadArgs->c` points into a cleared hashmap. What the code leaves
undefined (reading a freed `ThreadArgs`, following a freed record) is a choice. So is whom the loop of
`end` waits for once it is `Astray`: when two threads are at it, when main has registered another
thread since the list was made (`listed`), when a thread id is garbled, or when three entries of the
table lie in a row, in one of the sets of workers in `Rows` (see `JoinLoop`): `EndAstray` then exits
whoever is still at work, and `EndJoin` waits for all.

`ArdaAnswers` and `ArdaCloses` do what `Arda` does at the other end of one connection. That they do is
not taken on trust: `Line` is the contract of a connection, `Arda` implements it (`ImplementsLine`),
a Son and the Arda it assumes keep to it (`KeepsLine`), and what `Line` permits Arda in a state of a
Son is an action of that assumed Arda (`NoOtherArda`). A product of the two modules would have the
state space of both, and of several Sons; the contract gives the same for each Son on its own.
Neighbours are reached by sockets here; `Neighbours` has the message queues. `SonAssumption` holds one
bound on the inputs: when refusals by Arda are considered, nothing else is (the code after a refused
`end()` would otherwise have to be modelled for every caller, and each of them goes on with what it
has lost).

### PacketStream

| Code | Actions |
|---|---|
| `COM_writePacket`, `COM_serializePacket` | `Write`; `WriteTorn`, when the writer dies within its `write` |
| the kernel | `Deliver`: any number of bytes; `Close` |
| `readUntil`, one byte | `readUntil` |
| the `read` of the length, the loop over the data | `readLength`, `readData` |
| `COM_deserializePacket` and the check at the end | `Returned` |

Bytes are numbers, a header is `[`, one letter, `]`, and a length byte has `ByteBase` values. What
`read` leaves in an uninitialized byte is any member of `Junk`. A `]` or a digit `0` among the data,
and lengths whose bytes are `0`, are in the instance, because these are the bytes the reader looks
for.

### FileTransfer

All transfers are of one file name, which is where they get in each other's way. A Son's `file` is a
sequence of chunks, its hash is its content, and `lock` is `flock`.

| Code | Actions |
|---|---|
| `ITH_sendFile` to its connection | `SendOpen`, `SendSize`, `SendHash`, `Connect`, `Unreachable` |
| its loop and its end | `SendData`, `SendCheck`, `SendClose` |
| `receiveFile` | `ReceiveOpen` (which truncates), `ReceiveLock`, `ReceiveData`, `ReceiveRefuse`, `ReceiveCheck`, `ReceiveClose` |
| `end`, SIGPIPE's handler, the process | `End`, `BrokenPipe`, `Exit` (which may miss some of three threads or more: `Missed`), `Kill`, `Start` |
| a handler that waits for its own thread | `Hang` |
| `fork` in `run`, the command | `ForkChild`, `ChildExits` |

No descriptor is closed on `exec`, so a command has what its Son had open when it was started: the open
files, to which `flock` belongs (`keptFiles`), the connections (`keptEnds`) and the listening socket.
A process that is gone, and a plain `close` (`iluvatarThreads.c:231`), leave these to the command; an
explicit `LOCK_UN` does not. While the command lives, connections to the dead Son are still queued, and
it cannot be started again (`bind`, `socketHelper.c:24`). One command of a Son is alive at a time.

`meant` (the file when it was locked), `stands` (the file when it was found correct) and `damaged`
are history.

### Neighbours

A queue is identified by the end that created it, because it outlives its name: `queueOf` says whose
queue has the name, `fds` what each end has open. `Destroy` is the kernel's rule for a queue that has
neither. The two queues of a session are opened in one step and unlinked in two.

| Code | Actions |
|---|---|
| `IPC_shouldUseIPC`, `IPC_sendAwakeMessage` | `Begin`, `Dial`, `IPC_sendAwakeMessage` |
| `IPC_startQueues`, `IPC_stopQueues` | the same; `StopWr` is the second unlink |
| `ITH_sendMessage`, `ITH_sendFile` | `SendPacket`, `ReadReply` |
| `checkIpcMessage`, `ITH_checkIpcMessage`, `receiveFile` | `checkIpcMessage`, `ReadPacket`, `WriteReply` |
| `mq_timedsend`, `mq_timedreceive` | `TimesOut`: five seconds pass |
| `end`, `IPC_stop`, the process | `EndSon`, `Exit` (`Missed`, as in `FileTransfer`), `Kill` |

`TimesOut` is possible at any time towards a process that is late; otherwise only once nobody who has
the queues is about to do anything, which is what five seconds mean for threads that are scheduled.
Contents and locks of files are left to `FileTransfer`: what arrives here is which packets.

### HashMap and JoinLoop

The loops that carry an entry along (`hashmap_set`, `resize`) go one bucket a step, `SetProbe`,
`ResizeProbe` and the steps around them; searching and closing a gap (`Search`, `CloseGap`) are one
step each. `MinCap` and `ShrinkDivisor` stand for 16 buckets and a tenth. `dict` is the refinement
mapping: what is in the table, in hand, or still in the old table while a resize runs.

`JoinLoop` adds `end`'s use of it: `ITH_getThreadArgsList` takes pointers into the buckets, which are
the numbers of the buckets in use here, visited from the least on. `JoinNext` reads a thread id through
one, joins, and deletes. `bytes` is what lies where the pointers point, free or not. Once a resize has
freed the buckets, nothing is claimed (`JoinWild`).

### Shell

`MakePipes`, `Fork`, `ForkFails`, `CloseEnds`, `Wait`, `ReadPipe` and `Finish` are `run`, `Writes` and
`Exits` its child. What is written is counted; `readPipe` puts its NUL where the last byte was, so what
is returned is one byte less than what was read, or NULL (`Terminated`). `holders` are the processes that have a pipe's writing end open, the children that
were forked meanwhile by other threads included; a pipe ends when there are none.

## Runs

| Run | Properties | Bounds |
|---|---|---|
| `sessions` | `FdSetBounded`, `UniqueNames`, `CacheCoherent`, `ListsAreUsable`, `NoSpuriousLogout`, `ImplementsRegistry` | three sessions (two of one user at one address), three descriptors, `MAX_CLIENTS` = 1, `NEW_SON` and `EXIT`, restarts without bound |
| `collisions` | `TypeOK`, `DescriptorsAccounted`, `AcceptNeverBlocks`, `MessageCountExact` | three sessions (two of one user at two addresses), two descriptors whose entries collide, so that records dangle and `accept` can fail; one message, signals and kills at every point |
| `liveness` | `ConnectionsAccepted`, `PacketsRead`, `ImplementsLine` | two sessions of one user, every kind of packet, torn ones too |
| `disturbed` | `TypeOK`, `ExchangesExclusive`, `RepliesMatch`, `ExitIsLast`, `IdleHoldsNothing`, `NothingStrays` | two workers, two-packet files, any number of signals, neighbours that vanish, Arda hanging up or stopping |
| `quiet` | `NoneCutOff` | three workers, which lie in a row when all are registered; Arda may refuse |
| `ends` | `EndsOnceBegun` | two workers that send messages, updates; the disturbances of `disturbed` |
| `table` | `TypeOK`, `CountExact`, `ProbesEnd`, `ProbesFair`, `JoinedOnce`, `ImplementsMap` | five keys, three colliding at the end of a table of four to eight buckets (`MinCap` and `ShrinkDivisor` 4), two values, `malloc` may fail |
| `stream` | `PacketsAsWritten`, `EndIsNoticed` | two packets, four data from none to longer than a length can say (`ByteBase` 2) |
| `commands` | `WaitsFindAChild`, `OutputReturned`, `RunReturns` | two threads, pipes of one unit, outputs of up to two |
| `transfer` | `CorrectlyMeansWhole`, `LocksAreUsed`, `ImplementsDelivery`, `EveryTransferEnds` | three Sons with files of 0, 1 and 2 chunks, two transfers that meet in one Son or go both ways between two, sockets of one packet; both Sons end, one ends and hangs, one is killed and leaves a command, or `md5sum` fails |
| `neighbours` | `SuccessIsShared`, `QueuesAreRemoved`, `Succeeds`, `EveryThreadEnds` | a message and a one-packet file between two Sons under one name, queues of one packet |
| `joined` | violates `JoinsEveryThread` | `MinCap` and `ShrinkDivisor` 8: no resize is needed |

Why the bounds are enough. Arda: a name clash takes two sessions and a bystander a third; a
replacement takes two descriptors and a bystander a third; being full needs `MAX_CLIENTS + 1`
registered and one more. A clash of one user at two addresses, with entries that slide, is in
`collisions`. Son: two workers are what it takes for one to use the descriptor number that
the other still holds, and for the mutex to be contended by three threads with the main one; three are
the fewest of which the loop of `end` misses one. Files would only add steps to `ends`, in which a
worker waits for its neighbour, as one that sends a message does.
`SocketRoom` = 1 is the least: a second packet blocks its writer, so that any client may stop Arda in a
write. `MaxMessages` bounds the messages counted, and only cuts off higher counts. HashMap: three entries in a
row, wrapping around the end, are the shortest row in which one overtakes and one is overtaken, and
five keys make the table grow and shrink again. PacketStream: lengths of two bits have a carry between
their bytes and an overflow; the second packet shows what the first leaves behind. FileTransfer and
Neighbours: two transfers are the fewest that disturb one another, into the same Son, one into and
one out of it, or both ways between two; with packets and queues of one, either end blocks as soon as it
can. A behaviour of `FileTransfer` has one of the sets in `Disturbances`, which are the pairs that do
more together than each alone: two Sons that end, one that ends and hangs, one that is killed while it
has a command. One of `Neighbours` has one kind of disturbance, and it befalls the Son where the sessions
meet (`Disturbed`). Shell: an output of two does not fit into a pipe of one, one
of one does.

Deadlock is not checked where a process may rightly end (a Son), where the sessions may be used up in
undisturbed runs, or where, as in `run`, the code does block for ever.

Every property of a passing run also has a mutant: a plausible slip in the code's definition, kept
beside it in the module (`..._mutant` and the like), with which the property fails.

*Fairness.* Every `FairSpec` is weak fairness of what the scheduler or the kernel runs, and nobody is
ever obliged to ask for something.

- `Arda`: the process is scheduled and started again, and a client that has connected writes its first
  packet or closes, as `sendNewSon` does. That this is needed is itself worth knowing:
  `handleNewConnection` reads the first packet in the only thread.
  Of what may hold it up for ever, a hung handler, a packet that is not completed and a client that does
  not read, nothing is assumed: `Held` names them, and the properties say `[]Held`.
- `Son`: the threads are scheduled; a worker that waits for `mtxFdArda` gets it, if it is free again and
  again (strong fairness: main takes it only for a command of the user or a packet of Arda, and a lock of
  Linux does not let a waiter starve between two of those); the end of a connection wakes who waits at it.
  Neither Arda nor a neighbour has to answer: `HeldUp` names who is waited for. Signals do not come for
  ever, since each is blocked on the thread that handles it, and its handler does not return.
- `PacketStream`: what was written arrives, and the reader goes on.
- `FileTransfer`: threads that were started go on, the main thread of a Son takes connections until it
  runs `end`, and `end` goes on; a command that was started comes to its end. A Son that hangs does
  nothing of this. Whether a neighbour answers is not assumed: `EveryTransferEnds` shows that one which
  runs this code does or closes, unless it hangs, or two or more Sons have joined workers that wait for
  one another (`Embraced`).
- `Neighbours`: the threads, and the main threads that read the awake queues, go on. No thread can run
  for ever, so one condition for all of them suffices. Time passes when a thread can do nothing else.
- `Shell`: threads and children are scheduled.

### What the violation shows

`joined`: `end` joins through pointers into the buckets of `threadsHashmap` and deletes as it goes
(`iluvatarFunctions.c:292`). `hashmap_delete` moves the entries behind the deleted one back. Of three
entries in a row, the later two away from home, the first pointer deletes the first entry and moves
the other two; the second pointer then reads the third, which moves nothing; and the third pointer
reads what the move left in its bucket, the third thread again. So that thread is joined twice, which
is undefined, and the second never, although `iluvatarFunctions.c:290` waits "for all threads to end".
`JoinedOnce` is what holds: without such a row, and in a table that does not shrink below the walk,
each thread is joined once.

Seen while modelling, in the models, but with no run of their own:

- `COM_isConnectionPacket(NULL)` dereferences the packet it should refuse (`communications.c:99`), and
  the handler of SIGSEGV stops Arda (`FirstPacketNull`).
- A replaced session's descriptor is closed within a batch that still holds it
  (`ardaFunctions.c:55`, `arda.c:64`); its visit ends in `hashmap_delete(NULL)` and `exit(1)`
  (`StaleVisit`).
- `disconnect` frees the strings it finds through a pointer into the buckets after the deletion
  (`ardaFunctions.c:156-173`); with colliding descriptors they are another session's.
- A signal between the installation of Arda's handlers and the read of the saved count makes `stop`
  write 0 over it (`arda.c:4-26`, `ardaFunctions.c:209`): `SignalEarly`; `wiped` counts what is lost.
- A signal's handler prints, and waits for ever when it interrupts `INOUT_print` (`stdinout.c:38`):
  `SignalHangs` in Arda, `SignalJams` in a Son, where whoever prints next waits too.
- A client that stops within a packet, or that does not read, blocks Arda (`communications.c:81`, `:139`).
- `MAX_CLIENTS + 1` sons are admitted (`ardaFunctions.c:22`).
- `checkArdaMessage` calls `end` with the mutex that a joined worker waits for
  (`iluvatarFunctions.c:229`); `updateUsers` and any signal handler may enter `end` with `mtxFdArda`
  held by the same thread, and wait for themselves (`:48`, `:260`); an `end` that is refused returns
  with it locked (`:268`).
- A `NEW_MSG` goes to a neighbour once another thread has closed `fdArda` and its number was given
  away (`iluvatarThreads.c:178`); `NothingStrays` says that this is the only way.
- `updateUsers` clears the hashmap that a worker's `threadArgs->c` points into.
- A worker that ends before it is registered leaves a garbled thread id (`iluvatarFunctions.c:168`).
- `exit` cuts workers off when `end` runs on a worker while main registers another, or on two threads.
- SIGPIPE from a neighbour ends the Son; `sent == -1` (`iluvatarThreads.c:279`) is seen only when the
  connection was reset.
- Two Sons that send to each other and end at once may wait for each other for ever: each joins a worker
  whose connection the other will not accept, and refuses only after its own joins
  (`iluvatarFunctions.c:289-298`): `Embraced`.
- `receiveFile` truncates the file before it locks it (`iluvatarThreads.c:67`), also one that is being
  sent, or that is then refused; the exception of `CorrectlyMeansWhole`.
- A neighbour that cannot be reached leaves the file open and locked (`iluvatarThreads.c:248`), and a
  command that `run` starts inherits open files, locks, connections and the listening socket: the two
  other holders that `LocksAreUsed` names.
- `readPipe` puts its NUL over the last byte, a newline or not (`shellHelper.c:20`).
- `run` waits before it reads: a child with more output than a pipe holds never ends, nor does `run`
  (`shellHelper.c:59`); and the status it takes may be that of another thread's child.
- Sessions of one second share the name of their queues and take each other's packets
  (`ipcHelper.c:40`; the comment at `ipcHelper.h:22` has the pids only); a process that ends with a
  full awake queue blocks its callers for ever (`ipcHelper.c:42`).
- `readUntil` does not look at what `read` returns, and spins at a stream that ends inside a packet
  (`communications.c:81`).

## Proofs

Each theorem holds for every value of the constants that satisfies the `ASSUME` of its module, and for
no other reason.

| Module | Theorem | States |
|---|---|---|
| `ArdaProofs` | `TypeCorrect` | `Spec => []TypeOK` |
| | `NoDescriptorLost` | `Spec => []DescriptorsAccounted` |
| | `NeverBlockedInAccept` | `Spec => []AcceptNeverBlocks` |
| | `CountIsExact` | `Spec => []MessageCountExact` |
| | `NamesStayUnique`, `ListNeverStale` | with `NoSlide`: `Spec => []UniqueNames`, `Spec => []CacheCoherent` |
| `ArdaSessionProofs` | `FdSetStaysBounded` | `Spec => []FdSetBounded` |
| | `ArdaImplementsRegistry` | with `NoSlide`: `Spec => ImplementsRegistry` |
| | `NobodyThrownOut`, `ListsCanBeUsed` | with `NoSlide`: `Spec => NoSpuriousLogout`, `Spec => []ListsAreUsable` |
| | `ArdaImplementsLine` | `Spec => ImplementsLine` |
| `SonProofs` | `TypeCorrect` | `Spec => []TypeOK` |
| | `ExchangesExclude` | `Spec => []ExchangesExclusive` |
| | `NothingAfterExit` | `Spec => []ExitIsLast` |
| | `NewMsgsArrive` | `Spec => []NothingStrays` |
| | `SonKeepsLine` | `Spec => KeepsLine` |
| | `NoOtherArda` | every step of Arda in `Line` is one of `ArdaAnswers` or `ArdaCloses` |
| | `NobodyCutOff` | `Spec => NoneCutOff` |
| | `AnswersMatch` | `Spec => []RepliesMatch` |
| | `LoopReleases` | `Spec => []IdleHoldsNothing` |
| `FileTransferProofs` | `CorrectIsWhole` | `Spec => []CorrectlyMeansWhole` |
| | `LocksHaveUsers` | `Spec => []LocksAreUsed` |
| | `Implements` | `Spec => ImplementsDelivery` |
| `ShellProofs` | `OutputsReturned` | `Spec => []OutputReturned` |
| | `NoWaitFails` | `Spec => []WaitsFindAChild` |
| `NeighboursProofs` | `QueuesGetRemoved` | `Spec => []QueuesAreRemoved` |
| | `SuccessesAreShared` | with finitely many sessions: `Spec => []SuccessIsShared` |
| `PacketStreamProofs` | `StreamKeepsPackets` | `Spec => []PacketsAsWritten` |
| `HashMapProofs` | `TableTyped` | `Spec => []TypeOK` |
| | `CountIsExact` | `Spec => []CountExact` |
| | `SearchesEnd`, `RobinHoodFair` | `Spec => []ProbesEnd`, `Spec => []ProbesFair` |
| | `TableImplementsMap` | `Spec => ImplementsMap` |
| | `LoopUsesTable` | `JSpec => Spec`, so that all of the above holds in `JoinLoop` |
| | `EachIsJoinedOnce` | `JSpec => []JoinedOnce` |

*Arda.* The inductive invariant is the conjunction of `TypeOK`, `DescriptorsAccounted` and
`AcceptNeverBlocks`. None of the three is inductive alone: `Accept` gives a descriptor to the session
at the head of the backlog, so "no two descriptors have one session" needs that a session in the
backlog has `link = "backlog"` (from `AcceptNeverBlocks`) and that one with a descriptor has
`link = "open"`. A lemma says what `disconnect` leaves behind, and one what the end of the process
does. `Clean` (nothing dangles, names are unique, the list is current) is inductive relative to it
when nothing slides; with a colliding layout it is false. `CountIsExact` needs only the types:
a run that is starting has counted nothing, so what a signal wipes then is all of the file, and `wiped`
takes it up; a run that has read the file only counts on.

*Arda's sessions.* `RecordIsPeer`, from the invariant: a record is the session open on its descriptor,
and no session has two. With `Clean`, whoever is found by name is the one user of that name, so every
step of the server is a step of `Registry` under the mapping `standing` or a stutter, and who drops out
is the session the handler is at, or the one that a newcomer of the same user replaces. A list that is
written is the cache, which holds the reader's own record. `FdSetBounded` counts: below the lowest free
descriptor all are registered, and `Full` leaves at most `MaxClients` of them.

*Arda's connections.* The mapping `L` turns the packets of a connection into the requests and answers
of `Line`, element by element. A connection that is not open has nothing unanswered (`Drained`), and a
`NEW_SON` that was read counts as unanswered until the list is written. Every step of Arda is then one
step of `Line` on the connection it is about, a stutter on all others, and a silent end on all of them
when the process ends. Colliding entries only matter for an `EXIT` that is refused.

*Son.* Types; `ExchangesExclusive`, which is inductive as it stands, since the mutex is taken only
when free; `NumberKept`, that `fdArda` is Arda's descriptor for as long as it is set, but for a
refused `sendNewSon`, before there are workers; and `ExitGuarded`, that after `EXIT` is written the
mutex stays taken, by a thread that neither asks nor tells, until the descriptor is closed.
`ExitIsLast` follows because every writer has the mutex. For the contract, `GreetsFirst`: `NEW_SON` is
the first packet and comes once; so Arda has read something of a Son exactly when it has welcomed it.

*A Son's end.* `Registering`: a worker that has been created and has not ended is in the table, unless an
id is garbled, or is the one that main is about to register; only a signal takes main from there. A
signal, a hang-up or an update may put any thread into `end`, also several; whoever then exits by
`EndJoin` has found all registered workers ended or joining (`EndJoin`'s guard), and whoever exits by
`EndAstray` did so in a state that `NoneCutOff` excepts.

*Son's answers.* `RepliesMatch` is far from inductive: it speaks of the head of `fromArda`, and who
reads next depends on all that is still on its way in both directions. `ReplyInv` says which answers
may be due in every place of the main thread: no users' list (`NoListDue`) but while main is in
`sendNewSon` (`FirstAnswer`, case by case) or in `updateUsers` (`OneListDue`), or after a signal took
it out of there, in which case either it still has the mutex and nobody will ever read (`Stuck`) or
there are no workers yet (`EarlyAnswers`); a farewell is the last packet (`ClosedIsLast`); a refusal
comes alone (`Refusals`, `RefusingOnly`). `MutexOfMain` gives `IdleHoldsNothing`.

*FileTransfer.* A sender that still reads its file has its lock, and so has a receiver that writes;
locks have owners in the Son whose file it is, which are at work there, or whose file a command of it
keeps, or which could not connect (`SendersLock`, `ReceiversLock`, `Holders`; `Living`: who is at work is
in a Son that runs, and what is kept is kept by a command that is alive). So
the file under a lock does not change but by truncation (`FileIsMeant`), and good news, from the
receiver's check to the sender's user, was true when it left (`NewsIsTrue`). The refinement maps a
session to "arrived" when the file that stood correct at the receiver's is the one that was meant;
every step that tells is a `Tell` of `Delivery`, every other one an `Arrive`, a `Change` or a stutter.

*Shell.* `OutputReturned` holds because a running child has its own pipe's writing end, so a pipe that
has ended has all of its output, and it was all read before the last byte was replaced. `WaitsFindAChild` counts: a fork adds one to either side, a wait takes
one from either.

*Neighbours.* `Creators`: who created a queue that still has its name has not passed its removal; for
the second of the two, not even while it is at the first. `SuccessIsShared` compares two counts, but
who succeeds on account of whose message is not fixed when sessions share their queues. `Matched` says
that there is an injection from the successes (told, or good answers on their way, `Tokens`) to the
messages shown, within a name; a step of a receiver extends it, one of a sender renames, a queue that
is destroyed restricts it. It takes that a session is called and shown once (`CalledOnce`, `ShownOnce`)
and that an end has only queues of its own name open (`Opened`).

*PacketStream.* What a reader will do depends on all the bytes that are still to come, `Coming`. `Follows`
fixes them without induction: there is a sequence `W`, the packets that were written and the one that is
torn, and an offset `o[i]` for each, negative for the one that is being read, such that `W[i]` lies in
`Coming` after the first `o[i]` bytes (`Lies`), each begins where the one before it ends, and the last
ends where `Coming` does, or beyond it if it is torn. A byte that is read shifts all offsets
(`Advance`), a packet that is written adds one (`Extends`), a packet that is returned drops the first.
That `readUntil` stops where it should rests on `PacketStreamAssumption`: no header's letter is `]`, none
is the zero byte, and no two headers have the same one. At a stream that ends in a packet, the
reader has nothing left to read (`Lost`) and returns at most one packet more.

*HashMap.* Every item of a table lies `dib - 1` buckets after its home, and the buckets on the way hold
items that have come at least as far as the item had there (`Placed`, `Earned`, together `Fair`). This
is what carrying an entry preserves, in `hashmap_set` and in the new table of a resize, and it gives
`ProbesEnd` and `ProbesFair`. A set that carries its own item has met no item of its key
(`CarriesOwn`), and one that carries another's has put its own down behind it and will meet no second
item of the carried key (`CarriesOther`). A set puts its own item down before one that has come less
far; that no item of its key lies beyond is where Robin Hood's order is needed.
`CountIsExact` needs an account for resizes: what is in the new table, in hand and not yet taken up
makes `count`. A bucket is free because sizes are doublings of `cap` (`Sizes`, the least set closed
under doubling), and a table grows at three quarters and shrinks at a third or less. The refinement maps
`Stored`, and a call of `Map` happens where the call returns. The run checks these properties of
`HashMap` in `JoinLoop`; by `LoopUsesTable` the theorems hold there too.

*JoinLoop.* Each pointer that is left points to an item (`ListHasItems`), so what is deleted is a key and
the step is a call of `hashmap_delete`. Where `JoinedOnce` claims something, `Walk` is inductive: the
pointers left are those from some bucket on, the items there when the loop began are not joined yet and
all others are, and the table holds just these, each in its bucket (`InPlace`), but that the first of
them may have moved into the bucket before (`OneMoved`). Its pointer still reads it then, since a bucket
that becomes free keeps its bytes, and deleting it moves nothing, since that bucket is the next one. That
no more than one moves is what the absence of such a row is for.

`HashMapAssumption` and `PacketStreamAssumption` say of `NULL` what the code's types do: it is no key,
no value, no item and no sequence of bytes.

Every safety property that a passing run checks is proved. Only model-checked is liveness, which is
beyond the prover, as are proofs by induction over data.

## Plan

1. *(done)* `Protocol`, `Arda`, `Registry`, `Son`; `HashMap`, `Map`, `JoinLoop`; `PacketStream`;
   `FileTransfer`, `Delivery`; `Neighbours`; `Shell`; the proofs above.
2. `EaSystem`: several Sons that reach each other, with the users' lists that Arda gave them; the
   contract `Line` has the Son and Arda agree, but not what the lists say.

## Not modelled

- The hash functions and the self-test in `hashmap.c`, which are half of that file; a hash is a
  constant. `hashmap_scan`, `hashmap_probe` and the functions that only read fields change nothing.
- Parsing and formatting of texts (`messages.c`, most of `connection.c`), configuration
  (`fileparser.c`), the terminal (`stdinout.c`) and setting up sockets (`socketHelper.c`): straight
  sequences of calls, whose failures are choices of the models of their callers. The commands of the
  terminal that only print are left out with them.
- Failing writes of the count file, which is one `write` of four bytes.
- More disturbances in one behaviour than those listed for `FileTransfer`, more than one in `Neighbours`,
  several file names, and more than one command of a Son at a time in `FileTransfer`.
- What a heap does whose allocator is interrupted by a signal; the mutex of the terminal stands for it.
- Signals that jam a Son's threads in `Neighbours`; in `FileTransfer` the whole Son hangs then.
- Makefile, documentation and sample configuration.
