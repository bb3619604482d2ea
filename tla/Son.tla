-------------------------------- MODULE Son --------------------------------
(***************************************************************************)
(* One iluvatarSon (iluvatarSon.c, iluvatarFunctions.c, iluvatarThreads.c): *)
(* a main thread around select(), a worker thread for every message or file *)
(* that is sent or received, the connection to Arda that they share under   *)
(* mtxFdArda, and end(), which any thread may come to execute, from the     *)
(* user's command, an error or a signal handler.                            *)
(*                                                                         *)
(* Arda's end of the connection is external, and does what module Line      *)
(* says: one answer per request, CONOK of type 6 before it hangs up.  So    *)
(* are the neighbours.  A worker slot is one thread ever created; of its    *)
(* packets only the number still to go is kept.  The neighbours are reached *)
(* through sockets; module Neighbours models message queues, the other way. *)
(***************************************************************************)
EXTENDS Integers, Sequences, FiniteSets

CONSTANTS
  NULL,
  main,         \* the main thread
  Worker,       \* the worker threads ever created
  Commands,     \* what the user and the neighbours ask for, of AllCommands
  Disturbances, \* what else may happen, of AllDisturbances
  FilePackets,  \* packetsRequired of the files sent and received
  Rows          \* sets of workers that the loop of end() does not join once
                \* each when they are all registered: see JoinLoop

Thread == Worker \cup {main}
Ops    == {"sendMsg", "sendFile", "recvMsg", "recvFile", "recvOther"}
AllCommands == Ops \cup {"update", "exit"}
AllDisturbances ==
  {"signal",        \* SIGINT, SIGTERM, SIGQUIT or SIGHUP
   "ardaRefuses",   \* CONKO instead of an answer, to NEW_SON or EXIT
   "ardaHangsUp",   \* CONOK of type 6 and close: another session took over
   "ardaStops",     \* close, with no packet
   "peerGone"}      \* a neighbour closes its connection, or dies

ASSUME SonAssumption ==
  /\ main \notin Worker /\ NULL \notin Thread
  \* nor is it a packet
  /\ NULL \notin {"NEW_SON", "LIST_REQUEST", "NEW_MSG", "EXIT", "list", "bye", "conko"}
  /\ {"arda", "free"} \cap Worker = {}
  /\ Commands \subseteq AllCommands
  /\ Disturbances \subseteq AllDisturbances
  /\ FilePackets \in Nat \ {0}
  \* bound: refusals come alone, and only to a user's exit
  /\ "ardaRefuses" \in Disturbances =>
       Disturbances = {"ardaRefuses"} /\ "update" \notin Commands

(* Two entries, in a table that has never grown, do no harm. *)
ASSUME RowsAssumption ==
  \A T \in Rows : T \subseteq Worker /\ \E u, v, w \in T : u # v /\ v # w /\ u # w

VARIABLES
  pc,         \* of each thread; "none" before it is created, "ended" after;
              \* "deaf" is the event loop when select() watches nothing,
              \* "jammed" a signal handler that waits for its own thread
  op,         \* what each worker does, one of Ops
  left,       \* packets of its file still to send or receive
  mtxFdArda,  \* the thread that holds the mutex, or NULL
  fdArda,     \* fdArda >= 0
  number,     \* what the descriptor number of fdArda refers to: "arda",
              \* "free", or the worker whose connection got the number next
  run,
  threadsHashmap, \* the workers registered; NULL: some garbled thread id
  listed,     \* the workers registered when end() made its list of them
  created,    \* the worker that pthread_create made and main has not registered
  stale,      \* workers whose threadArgs->c points to a freed record
  gone,       \* workers whose neighbour has closed or died
  \* the connection to Arda
  arda,       \* Arda's end: "open" or "closed"
  toArda, fromArda,
  \* history
  heard,      \* the packet that Arda read last
  strayed     \* a NEW_MSG was written to something that is not Arda

threadVars == <<pc, op, left, threadsHashmap, listed, created, stale, gone, run>>
ardaVars   == <<arda, toArda, fromArda, heard>>
fdVars     == <<mtxFdArda, fdArda, number, strayed>>
vars       == <<threadVars, ardaVars, fdVars>>

(* The answers of Arda, and what reading finds when there is none. *)
List == "list"  Bye == "bye"  Refusal == "conko"

Goto(t, where) == pc' = [pc EXCEPT ![t] = where]
Ended == pc[main] = "exited"

(* INOUT_print() locks a mutex that a handler on the same thread waits for.  *)
(* Whoever prints next waits too, and end() prints before it exits.         *)
Jammed == \E t \in Thread : pc[t] = "jammed"

-----------------------------------------------------------------------------
(* The descriptor fdArda.  write() to a peer that has closed succeeds, and  *)
(* the bytes are lost, or raises SIGPIPE, depending on whether the reset    *)
(* has come.  read() waits for a packet or the end of the stream.           *)

WriteArda(p) ==
  /\ number = "arda"
  /\ toArda' = IF arda = "open" THEN Append(toArda, p) ELSE toArda
BrokenPipe == number = "arda" /\ arda = "closed"

ReadArda(p) ==
  \/ fdArda /\ fromArda # <<>> /\ p = Head(fromArda) /\ fromArda' = Tail(fromArda)
  \/ fdArda /\ fromArda = <<>> /\ arda = "closed" /\ p = NULL /\ UNCHANGED fromArda
  \/ ~fdArda /\ p = NULL /\ UNCHANGED fromArda

(* Mutant: fdArda is not reset. *)
CloseArda_kept == fdArda' = fdArda /\ number' = IF fdArda THEN "free" ELSE number
CloseArda      == fdArda' = FALSE  /\ number' = IF fdArda THEN "free" ELSE number

(* end() begins: called, or run by signalHandler on thread t. *)
EnterEnd(t) == Goto(t, IF fdArda THEN "endLock" ELSE "endRun")

(* SIGPIPE and SIGSEGV are handled on the thread that caused them. *)
Fault(t) ==
  /\ EnterEnd(t)
  /\ UNCHANGED <<op, left, threadsHashmap, listed, created, stale, gone, run, ardaVars, fdVars>>

-----------------------------------------------------------------------------
(* sendNewSon(): the answer to NEW_SON.  It closes fdArda when refused, and *)
(* leaves it to end() to notice.  (A CONOK without data would be SIGSEGV.)  *)

NewSonAnswered ==
  /\ pc[main] = "newSon"
  /\ \E p \in {List, Bye, Refusal, NULL} :
       /\ ReadArda(p)
       /\ Goto(main, IF p = List THEN "select" ELSE "endLock")
       /\ number' = IF p = Refusal THEN "free" ELSE number
  /\ UNCHANGED <<op, left, threadsHashmap, listed, created, stale, gone, run,
                 arda, toArda, heard, mtxFdArda, fdArda, strayed>>

(* The event loop: fdArda first, then the neighbours, then the user. *)
Idle == pc[main] = "select"

ArdaReadable == fdArda /\ (fromArda # <<>> \/ arda = "closed")

MainGoes(where) ==
  /\ Idle /\ Goto(main, where)
  /\ UNCHANGED <<op, left, threadsHashmap, listed, created, stale, gone, run, ardaVars, fdVars>>

SelectArda   == ArdaReadable /\ MainGoes("checkLock")
SelectUpdate == ~ArdaReadable /\ "update" \in Commands /\ MainGoes("updateLock")

(* checkArdaMessage(): a CONOK or no packet, and end() is called with       *)
(* mtxFdArda locked; anything else is an unknown packet.                    *)
checkArdaMessage ==
  /\ pc[main] = "checkLock" /\ mtxFdArda = NULL
  /\ \/ /\ \E p \in {List, Bye, NULL} : ReadArda(p)
        /\ mtxFdArda' = main
        /\ CloseArda
        /\ Goto(main, "endRun")
     \/ /\ ReadArda(Refusal)
        /\ Goto(main, "select")
        /\ UNCHANGED <<mtxFdArda, fdArda, number>>
  /\ UNCHANGED <<op, left, threadsHashmap, listed, created, stale, gone, run, arda, toArda, heard, strayed>>

(* updateUsers(): the request ... *)
UpdateRequest ==
  /\ pc[main] = "updateLock" /\ mtxFdArda = NULL
  /\ mtxFdArda' = main
  /\ \/ fdArda /\ WriteArda("LIST_REQUEST") /\ Goto(main, "updateRead")
     \/ ~fdArda /\ UNCHANGED toArda /\ Goto(main, "updateRead")
     \/ BrokenPipe /\ EnterEnd(main) /\ UNCHANGED toArda
  /\ UNCHANGED <<op, left, threadsHashmap, listed, created, stale, gone, run,
                 arda, fromArda, heard, fdArda, number, strayed>>

(* The workers that still have to look at threadArgs->c: where to connect,  *)
(* or what to call the neighbour in the notices they print.                 *)
NeedsRecord ==
  {w \in Worker : \/ pc[w] = "start" /\ op[w] # "recvOther"
                  \/ pc[w] \in {"sendData", "awaitCheck"}}

(* ... and the answer: the hashmap is cleared, which frees the records that *)
(* workers point to, and filled again. *)

(* Mutant: an exit without the unlock. *)
UpdateAnswered_locked ==
  /\ pc[main] = "updateRead"
  /\ ReadArda(List)
  /\ stale' = stale \cup NeedsRecord
  /\ Goto(main, "select")
  /\ UNCHANGED <<op, left, threadsHashmap, listed, created, gone, run,
                 arda, toArda, heard, fdVars>>

UpdateAnswered ==
  /\ pc[main] = "updateRead"
  /\ ReadArda(List)
  /\ stale' = stale \cup NeedsRecord
  /\ mtxFdArda' = NULL
  /\ Goto(main, "select")
  /\ UNCHANGED <<op, left, threadsHashmap, listed, created, gone, run,
                 arda, toArda, heard, fdArda, number, strayed>>

(* No packet: end().  A packet without data, such as CONOK of type 6:       *)
(* strdup(NULL), SIGSEGV, signalHandler, end().  mtxFdArda stays locked.    *)
UpdateFails ==
  /\ pc[main] = "updateRead"
  /\ \E p \in {Bye, Refusal, NULL} : ReadArda(p)
  /\ EnterEnd(main)
  /\ UNCHANGED <<op, left, threadsHashmap, listed, created, stale, gone, run,
                 arda, toArda, heard, fdVars>>

-----------------------------------------------------------------------------
(* prepareSendMsg, prepareSendFile, checkSocketMessage: a thread is made    *)
(* and then registered.                                                     *)

pthread_create(w, o) ==
  /\ pc[w] = "none"
  /\ pc' = [pc EXCEPT ![main] = "register", ![w] = "start"]
  /\ op' = [op EXCEPT ![w] = o]
  /\ left' = [left EXCEPT ![w] = FilePackets]
  /\ created' = w
  /\ UNCHANGED <<threadsHashmap, listed, stale, gone, run, ardaVars, mtxFdArda, fdArda, strayed>>

PrepareSend(w) ==
  /\ Idle /\ ~ArdaReadable
  /\ \E o \in Commands \cap {"sendMsg", "sendFile"} : pthread_create(w, o)
  /\ UNCHANGED number

(* checkSocketMessage reads the first packet itself: main waits for it. *)
SelectSocket ==
  /\ ~ArdaReadable
  /\ \E w \in Worker : pc[w] = "none"
  /\ Commands \cap {"recvMsg", "recvFile", "recvOther"} # {}
  /\ MainGoes("firstPacket")

(* The descriptor that accept() or socket() gets: the number of fdArda, if  *)
(* that is free.                                                            *)
GetDescriptor(w)  == number' = IF number = "free" THEN w ELSE number
CloseDescriptor(w) == number' = IF number = w THEN "free" ELSE number

FirstPacket(w) ==
  /\ pc[main] = "firstPacket"
  /\ \E o \in Commands \cap {"recvMsg", "recvFile", "recvOther"} : pthread_create(w, o)
  /\ GetDescriptor(w)

(* hashmap_set(threadsHashmap, threadArgs): when the worker has ended, this *)
(* reads freed memory, whose first word was the thread id: another key.     *)
(* Back in the loop, select() covers fdArda + 1 descriptors.                *)
Register ==
  /\ pc[main] = "register"
  /\ \/ threadsHashmap' = threadsHashmap \cup {created}
     \/ pc[created] = "ended" /\ threadsHashmap' = threadsHashmap \cup {NULL}
  /\ created' = NULL
  /\ Goto(main, IF fdArda THEN "select" ELSE "deaf")
  /\ UNCHANGED <<op, left, listed, stale, gone, run, ardaVars, fdVars>>

-----------------------------------------------------------------------------
(* end(), on thread t.                                                      *)

UserExit ==
  /\ ~ArdaReadable /\ "exit" \in Commands
  /\ MainGoes(IF fdArda THEN "endLock" ELSE "endRun")

(* EXIT is written; or the write fails (sendNewSon, or another thread in    *)
(* end(), has closed fdArda), and no answer is awaited; or it faults.       *)

(* Mutant: mtxFdArda is not taken. *)
EndWrite_unlocked(t) ==
  /\ pc[t] = "endLock"
  /\ WriteArda("EXIT")
  /\ Goto(t, "endRead")
  /\ UNCHANGED <<op, left, threadsHashmap, listed, created, stale, gone, run,
                 arda, fromArda, heard, fdVars>>

EndWrite(t) ==
  /\ pc[t] = "endLock" /\ mtxFdArda = NULL
  /\ \/ /\ WriteArda("EXIT")
        /\ mtxFdArda' = t
        /\ Goto(t, "endRead")
        /\ UNCHANGED <<fdArda, number>>
     \/ /\ number # "arda"
        /\ fdArda' = FALSE
        /\ Goto(t, "endRun")
        /\ UNCHANGED <<mtxFdArda, number, toArda>>
     \/ /\ BrokenPipe
        /\ mtxFdArda' = t
        /\ EnterEnd(t)
        /\ UNCHANGED <<fdArda, number, toArda>>
  /\ UNCHANGED <<op, left, threadsHashmap, listed, created, stale, gone, run,
                 arda, fromArda, heard, strayed>>

(* CONOK, of either type, or no packet. *)
EndAnswered(t) ==
  /\ pc[t] = "endRead"
  /\ \E p \in {List, Bye, NULL} : ReadArda(p)
  /\ CloseArda
  /\ mtxFdArda' = NULL
  /\ Goto(t, "endRun")
  /\ UNCHANGED <<op, left, threadsHashmap, listed, created, stale, gone, run,
                 arda, toArda, heard, strayed>>

(* CONKO: end() returns, to the event loop, with mtxFdArda locked. *)
EndRefused ==
  /\ pc[main] = "endRead"
  /\ ReadArda(Refusal)
  /\ Goto(main, "select")
  /\ UNCHANGED <<op, left, threadsHashmap, listed, created, stale, gone, run,
                 arda, toArda, heard, fdVars>>

EndRun(t) ==
  /\ pc[t] = "endRun"
  /\ run' = FALSE
  /\ listed' = threadsHashmap
  /\ Goto(t, "endJoin")
  /\ UNCHANGED <<op, left, threadsHashmap, created, stale, gone, ardaVars, fdVars>>

exit ==
  pc' = [u \in Thread |->
           IF u = main \/ pc[u] \notin {"none", "ended"} THEN "exited" ELSE pc[u]]

(* The loop of end() is to pthread_join every thread that is registered (a  *)
(* thread does not wait for itself: EDEADLK).  It is undefined whom it waits *)
(* for, and whether it comes to an end, when two threads are at it; when    *)
(* main has changed the hashmap since; when one of the thread ids is        *)
(* garbled; and when the entries lie so that its own hashmap_delete moves   *)
(* them under its pointers.                                                 *)
InRow == \E T \in Rows : T \subseteq threadsHashmap
Astray ==
  \/ \E t, u \in Thread : t # u /\ pc[t] = "endJoin" /\ pc[u] = "endJoin"
  \/ listed # threadsHashmap
  \/ NULL \in threadsHashmap
  \/ InRow

(* Then exit(): the process ends, with all its threads and its end of the   *)
(* connection, unless its last line cannot be printed.                      *)

(* Mutant: the loop over the threads is skipped. *)
EndJoin_nowait(t) ==
  /\ pc[t] = "endJoin" /\ ~Jammed
  /\ exit
  /\ UNCHANGED <<op, left, threadsHashmap, listed, created, stale, gone, run, ardaVars, fdVars>>

EndJoin(t) ==
  /\ pc[t] = "endJoin" /\ ~Jammed
  /\ \A w \in threadsHashmap \ {t, NULL} : pc[w] = "ended"
  /\ exit
  /\ UNCHANGED <<op, left, threadsHashmap, listed, created, stale, gone, run, ardaVars, fdVars>>

EndAstray(t) ==
  /\ pc[t] = "endJoin" /\ ~Jammed
  /\ Astray
  /\ exit
  /\ UNCHANGED <<op, left, threadsHashmap, listed, created, stale, gone, run, ardaVars, fdVars>>

endStep(t) == EndWrite(t) \/ EndAnswered(t) \/ EndRun(t) \/ EndJoin(t)

-----------------------------------------------------------------------------
(* The worker threads.                                                      *)

WorkerStays == UNCHANGED <<op, threadsHashmap, listed, created, stale, run>>

ToConnect(w) == pc[w] = "start" /\ op[w] \in {"sendMsg", "sendFile"}

(* The file cannot be read, or connecting to threadArgs->c fails: the thread *)
(* ends.                                                                    *)
ConnectFails(w) ==
  /\ ToConnect(w)
  /\ Goto(w, "ended")
  /\ WorkerStays /\ UNCHANGED <<left, gone, ardaVars, fdVars>>

(* It succeeds: the first packet is written. *)
ConnectAndSend(w) ==
  /\ ToConnect(w)
  /\ Goto(w, IF op[w] = "sendMsg" THEN "awaitMsgOk" ELSE "sendData")
  /\ GetDescriptor(w)
  /\ WorkerStays /\ UNCHANGED <<left, gone, ardaVars, mtxFdArda, fdArda, strayed>>

(* threadArgs->c was freed: the thread may fault. *)
RecordFaults(w) == w \in NeedsRecord \cap stale /\ Fault(w)

(* ITH_sendMessage: MSGOK comes, or the neighbour is gone; Arda is told     *)
(* either way.                                                              *)
MsgAnswered(w) ==
  /\ pc[w] = "awaitMsgOk"
  /\ Goto(w, "tellLock")
  /\ CloseDescriptor(w)
  /\ WorkerStays /\ UNCHANGED <<left, gone, ardaVars, mtxFdArda, fdArda, strayed>>

(* Mutant: mtxFdArda is not taken. *)
TellLock_unlocked(w) ==
  /\ pc[w] = "tellLock"
  /\ Goto(w, "tell")
  /\ WorkerStays /\ UNCHANGED <<left, gone, ardaVars, fdVars>>

TellLock(w) ==
  /\ pc[w] = "tellLock" /\ mtxFdArda = NULL
  /\ mtxFdArda' = w
  /\ Goto(w, "tell")
  /\ WorkerStays /\ UNCHANGED <<left, gone, ardaVars, fdArda, number, strayed>>

(* NEW_MSG goes to the descriptor number that fdArda had at the start. *)

(* Mutant: an exit without the unlock. *)
Tell_locked(w) ==
  /\ pc[w] = "tell" /\ WriteArda("NEW_MSG")
  /\ Goto(w, "ended")
  /\ WorkerStays /\ UNCHANGED <<left, gone, arda, fromArda, heard, fdVars>>

Tell(w) ==
  /\ pc[w] = "tell"
  /\ \/ WriteArda("NEW_MSG") /\ UNCHANGED strayed
     \/ number = "free" /\ UNCHANGED <<toArda, strayed>>
     \/ number \in Worker /\ strayed' = TRUE /\ UNCHANGED toArda
  /\ mtxFdArda' = NULL
  /\ Goto(w, "ended")
  /\ WorkerStays /\ UNCHANGED <<left, gone, arda, fromArda, heard, fdArda, number>>

TellFaults(w) == pc[w] = "tell" /\ BrokenPipe /\ Fault(w)

(* for(int i = 0; i < packetsRequired; i++).  Mutant: i <= packetsRequired. *)
LastPacket_plus1(w) == left[w] = 0
LastPacket(w)       == left[w] = 1

(* ITH_sendFile: a packet is written, then run is looked at.  The write may *)
(* fail when the neighbour is gone.                                         *)
SendData(w) ==
  /\ pc[w] = "sendData"
  /\ left' = [left EXCEPT ![w] = @ - 1]
  /\ \/ /\ run
        /\ Goto(w, IF LastPacket(w) THEN "awaitCheck" ELSE "sendData")
        /\ UNCHANGED number
     \/ /\ ~run \/ w \in gone
        /\ Goto(w, "ended") /\ CloseDescriptor(w)
  /\ WorkerStays /\ UNCHANGED <<gone, ardaVars, mtxFdArda, fdArda, strayed>>

(* CHECK_OK or CHECK_KO comes, or the neighbour is gone. *)
CheckAnswered(w) ==
  /\ pc[w] = "awaitCheck"
  /\ Goto(w, "ended")
  /\ CloseDescriptor(w)
  /\ WorkerStays /\ UNCHANGED <<left, gone, ardaVars, mtxFdArda, fdArda, strayed>>

(* ITH_checkSocketMessage: MSGOK is written, or nothing. *)
ReceiveMsg(w) ==
  /\ pc[w] = "start" /\ op[w] \in {"recvMsg", "recvOther"}
  /\ Goto(w, "ended")
  /\ CloseDescriptor(w)
  /\ WorkerStays /\ UNCHANGED <<left, gone, ardaVars, mtxFdArda, fdArda, strayed>>

(* receiveFile: packets are read, and run is looked at after each.  There   *)
(* is none when the neighbour is gone.  After the last one, CHECK_OK or     *)
(* CHECK_KO is written.                                                     *)
ReceiveFile(w) ==
  /\ pc[w] = "start" /\ op[w] = "recvFile"
  /\ Goto(w, "recvData")
  /\ WorkerStays /\ UNCHANGED <<left, gone, ardaVars, fdVars>>

ReceiveData(w) ==
  /\ pc[w] = "recvData"
  /\ left' = [left EXCEPT ![w] = @ - 1]
  /\ \/ /\ run /\ ~LastPacket(w)
        /\ UNCHANGED <<pc, number>>
     \/ /\ ~run \/ LastPacket(w) \/ w \in gone
        /\ Goto(w, "ended") /\ CloseDescriptor(w)
  /\ WorkerStays /\ UNCHANGED <<gone, ardaVars, mtxFdArda, fdArda, strayed>>

(* Writing to a neighbour that is gone may raise SIGPIPE: FILE_DATA, MSGOK, *)
(* and CHECK_OK or CHECK_KO.                                                *)
SendFaults(w) ==
  /\ w \in gone
  /\ \/ pc[w] \in {"sendData", "recvData"}
     \/ pc[w] = "start" /\ op[w] = "recvMsg"
  /\ Fault(w)

(* What a worker does when its neighbour lets it: answers, sends data or     *)
(* reads what is sent; and what it does by itself.                          *)
neighbourStep(w) == MsgAnswered(w) \/ SendData(w) \/ CheckAnswered(w) \/ ReceiveData(w)

ownStep(w) ==
  \/ ConnectFails(w) \/ ConnectAndSend(w) \/ RecordFaults(w)
  \/ TellLock(w) \/ Tell(w) \/ TellFaults(w)
  \/ SendFaults(w) \/ ReceiveMsg(w) \/ ReceiveFile(w)
  \/ endStep(w)

-----------------------------------------------------------------------------
(* The environment.                                                         *)

(* Arda reads a packet and answers it. *)
ArdaAnswers ==
  /\ arda = "open" /\ toArda # <<>>
  /\ heard' = Head(toArda)
  /\ \/ /\ heard' \in {"NEW_SON", "LIST_REQUEST"}
        /\ fromArda' = Append(fromArda, List)
        /\ toArda' = Tail(toArda) /\ UNCHANGED arda
     \/ /\ heard' = "NEW_MSG"
        /\ toArda' = Tail(toArda) /\ UNCHANGED <<arda, fromArda>>
     \/ /\ heard' = "EXIT"
        /\ fromArda' = Append(fromArda, Bye)
        /\ arda' = "closed" /\ toArda' = <<>>
     \/ /\ heard' = "NEW_SON" /\ "ardaRefuses" \in Disturbances
        /\ fromArda' = Append(fromArda, Refusal)
        /\ arda' = "closed" /\ toArda' = <<>>
     \/ /\ heard' = "EXIT" /\ "ardaRefuses" \in Disturbances
        /\ fromArda' = Append(fromArda, Refusal)
        /\ toArda' = Tail(toArda) /\ UNCHANGED arda
  /\ UNCHANGED <<threadVars, fdVars>>

(* Arda closes the connection by itself: only after it has welcomed this    *)
(* Son does it say so.                                                      *)
ArdaCloses ==
  /\ arda = "open"
  /\ \/ "ardaStops" \in Disturbances /\ UNCHANGED fromArda
     \/ /\ "ardaHangsUp" \in Disturbances /\ heard # NULL
        /\ fromArda' = Append(fromArda, Bye)
  /\ arda' = "closed" /\ toArda' = <<>>
  /\ UNCHANGED <<heard, threadVars, fdVars>>

PeerGone(w) ==
  /\ "peerGone" \in Disturbances
  /\ pc[w] \notin {"none", "ended", "exited"}
  /\ gone' = gone \cup {w}
  /\ UNCHANGED <<pc, op, left, threadsHashmap, listed, created, stale, run, ardaVars, fdVars>>

(* A signal is handled by any thread: the workers only block SIGINT. *)
Signal(t) ==
  /\ "signal" \in Disturbances
  /\ pc[t] \notin {"none", "ended", "exited", "jammed"}
  /\ Fault(t)

(* It finds the thread inside INOUT_print(), or about to print.  (What the   *)
(* other threads do up to their own next print is not told apart from what  *)
(* they would do without it.)                                               *)
SignalJams(t) ==
  /\ "signal" \in Disturbances
  /\ pc[t] \notin {"none", "ended", "exited", "jammed"}
  /\ Goto(t, "jammed")
  /\ UNCHANGED <<op, left, threadsHashmap, listed, created, stale, gone, run, ardaVars, fdVars>>

-----------------------------------------------------------------------------
(* The Son has connected, and sendNewSon has written NEW_SON. *)
Init ==
  /\ pc = [t \in Thread |-> IF t = main THEN "newSon" ELSE "none"]
  /\ op = [w \in Worker |-> "recvOther"]
  /\ left = [w \in Worker |-> 0]
  /\ mtxFdArda = NULL /\ fdArda = TRUE /\ number = "arda"
  /\ run = TRUE /\ threadsHashmap = {} /\ listed = {} /\ created = NULL
  /\ stale = {} /\ gone = {}
  /\ arda = "open" /\ toArda = <<"NEW_SON">> /\ fromArda = <<>>
  /\ heard = NULL /\ strayed = FALSE

(* What the main thread does without being asked. *)
mainStep ==
  \/ NewSonAnswered \/ SelectArda \/ checkArdaMessage
  \/ UpdateRequest \/ UpdateAnswered \/ UpdateFails \/ Register
  \/ endStep(main) \/ EndRefused

(* What it does on request. *)
Asked ==
  \/ SelectUpdate \/ UserExit \/ SelectSocket
  \/ \E w \in Worker : PrepareSend(w) \/ FirstPacket(w)

Next ==
  \/ mainStep \/ Asked
  \/ \E t \in Thread : EndAstray(t) \/ Signal(t) \/ SignalJams(t)
  \/ \E w \in Worker : ownStep(w) \/ neighbourStep(w) \/ PeerGone(w)
  \/ ArdaAnswers \/ ArdaCloses

Spec == Init /\ [][Next]_vars

(* The threads are scheduled, one that waits for mtxFdArda gets it between   *)
(* two commands of the user, and the end of a connection wakes who waits at *)
(* it.  Nobody has to ask for anything, and neither Arda nor a neighbour    *)
(* has to answer.  Signals do not come for ever: each is blocked on the     *)
(* thread that handles it, and the handler does not return.                 *)
FairSpec ==
  /\ Spec
  /\ <>[][\A t \in Thread : ~Signal(t)]_vars
  /\ WF_vars(mainStep)
  /\ \A w \in Worker :
       /\ WF_vars(ownStep(w) \/ (w \in gone /\ neighbourStep(w)))
       /\ SF_vars(TellLock(w) \/ EndWrite(w))

-----------------------------------------------------------------------------
(* Invariants.                                                              *)

MainPlaces ==
  {"newSon", "select", "deaf", "checkLock", "updateLock", "updateRead", "firstPacket", "register"}
WorkerPlaces ==
  {"none", "start", "awaitMsgOk", "tellLock", "tell", "sendData", "awaitCheck", "recvData", "ended"}
EndPlaces == {"endLock", "endRead", "endRun", "endJoin", "exited"}
AnyPlaces == EndPlaces \cup {"jammed"}

(* Every variable has its type. *)
TypeOK ==
  /\ pc \in [Thread -> MainPlaces \cup WorkerPlaces \cup AnyPlaces]
  /\ pc[main] \in MainPlaces \cup AnyPlaces
  /\ \A w \in Worker : pc[w] \in WorkerPlaces \cup AnyPlaces
  /\ op \in [Worker -> Ops]
  /\ left \in [Worker -> 0..FilePackets]
  /\ mtxFdArda \in Thread \cup {NULL}
  /\ fdArda \in BOOLEAN /\ number \in {"arda", "free"} \cup Worker
  /\ run \in BOOLEAN /\ strayed \in BOOLEAN
  /\ threadsHashmap \subseteq Worker \cup {NULL} /\ listed \subseteq Worker \cup {NULL}
  /\ created \in Worker \cup {NULL}
  /\ stale \subseteq Worker /\ gone \subseteq Worker
  /\ arda \in {"open", "closed"}
  /\ toArda \in Seq({"NEW_SON", "LIST_REQUEST", "NEW_MSG", "EXIT"})
  /\ fromArda \in Seq({List, Bye, Refusal})
  /\ heard \in {NULL, "NEW_SON", "LIST_REQUEST", "NEW_MSG", "EXIT"}

(* "We will send arda things from different threads": between a request to  *)
(* Arda and its answer, and while NEW_MSG is written, nobody else is at it. *)
InExchange == {"updateRead", "endRead", "tell"}
ExchangesExclusive == \A t \in Thread : pc[t] \in InExchange => mtxFdArda = t

(* An answer is read by the thread that asked, as the answer to what it     *)
(* asked: nothing that Arda sends is mistaken for something else.  (One     *)
(* exception: sendNewSon() does not lock, and a signal that finds it        *)
(* waiting makes end() take the users' list for the answer to EXIT.)        *)
RepliesMatch ==
  fromArda # <<>> =>
    /\ pc[main] = "newSon" => Head(fromArda) \in {List, Refusal}
    /\ pc[main] = "updateRead" => Head(fromArda) \in {List, Bye}
    /\ pc[main] \in {"select", "checkLock", "firstPacket", "register"} => Head(fromArda) = Bye
    /\ \A t \in Thread :
         pc[t] = "endRead" =>
           Head(fromArda) \in {Bye, Refusal} \/ heard = "NEW_SON" \/ fromArda = <<List, Bye>>

(* EXIT is the last thing that Arda gets from a Son. *)
ExitIsLast ==
  LET q == <<heard>> \o toArda IN \A i \in 1..Len(q) - 1 : q[i] # "EXIT"

(* EXIT was read and the connection kept. *)
Refused == heard = "EXIT" /\ arda = "open"

(* The event loop keeps nobody from talking to Arda.  (One exception: an    *)
(* end() that Arda refuses returns with mtxFdArda locked.)                  *)
IdleHoldsNothing == Idle /\ ~Refused => mtxFdArda # main

(* "write packet to Arda to keep track of total num of messages": that is   *)
(* where it goes, as long as this Son is connected: what a worker writes    *)
(* ends up with a neighbour only once another thread has closed fdArda.     *)
NothingStrays == fdArda => ~strayed

-----------------------------------------------------------------------------
(* "Wait for all threads to end, now that we've sent run=0": when the       *)
(* process exits no worker is cut off, unless the loop over the threads     *)
(* went astray, or a signal kept main from registering the thread it had    *)
(* just created.                                                            *)
Exits == ~Ended /\ Ended'
NoneCutOff ==
  [][Exits /\ ~Astray /\ created = NULL =>
       \A w \in Worker : pc[w] \in {"none", "ended", "endJoin"}]_vars

-----------------------------------------------------------------------------
(* Liveness, for FairSpec.                                                  *)

(* What can keep a process that is ending from its end: Arda or a neighbour *)
(* does not answer, INOUT_print's mutex is lost, the loop of end() is       *)
(* undefined, or mtxFdArda is held by a thread that waits for it in end(),  *)
(* or that waits there for the end of one that waits for it.                *)
AwaitsArda(t) ==
  pc[t] \in {"newSon", "updateRead", "endRead"} /\ fdArda /\ fromArda = <<>> /\ arda = "open"
AwaitsNeighbour(w) ==
  pc[w] \in {"awaitMsgOk", "sendData", "awaitCheck", "recvData"} /\ w \notin gone
Deadlocked ==
  \E t \in Thread :
    /\ mtxFdArda = t
    /\ \/ pc[t] = "endLock"
       \/ pc[t] = "endJoin" /\ \E w \in threadsHashmap \ {NULL} : pc[w] \in {"tellLock", "endLock"}
HeldUp ==
  \/ Jammed \/ Deadlocked
  \/ \E t \in Thread : AwaitsArda(t) \/ (pc[t] = "endJoin" /\ Astray)
  \/ \E w \in Worker : AwaitsNeighbour(w)

(* end(), once begun, ends the program, unless Arda refuses, or one of these *)
(* holds it up for ever.                                                    *)
EndsOnceBegun == (\E t \in Thread : pc[t] \in EndPlaces) ~> (Ended \/ Refused \/ []HeldUp)

-----------------------------------------------------------------------------
(* What this module takes for granted of Arda is what Line promises.  A     *)
(* silent end is taken for the end of Arda, and a Son never leaves: what    *)
(* Arda says after the process has ended is as good as lost.                *)

Phase == IF arda = "closed" THEN "over" ELSE IF heard = NULL THEN "greeting" ELSE "talking"

ToLine == INSTANCE Line WITH
  Collides <- "ardaRefuses" \in Disturbances,
  phase <- Phase, up <- arda = "open", gone <- FALSE

(* Son and its Arda keep the contract of a connection that Arda keeps with  *)
(* all its clients.                                                         *)
KeepsLine == ToLine!Spec

=============================================================================
