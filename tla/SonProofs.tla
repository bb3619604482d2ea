----------------------------- MODULE SonProofs -----------------------------
(***************************************************************************)
(* Theorems about Son, for any number of workers, any commands, disturbances *)
(* and length of files.                                                     *)
(***************************************************************************)
EXTENDS Son, SequenceTheorems, TLAPS

(* Types, and that a worker with a packet to send or receive has one left.   *)
PcTyped ==
  /\ pc \in [Thread -> MainPlaces \cup WorkerPlaces \cup AnyPlaces]
  /\ pc[main] \in MainPlaces \cup AnyPlaces
  /\ \A w \in Worker : pc[w] \in WorkerPlaces \cup AnyPlaces

LeftTyped ==
  /\ op \in [Worker -> Ops]
  /\ left \in [Worker -> 0..FilePackets]
  /\ \A w \in Worker : pc[w] \in {"start", "sendData", "recvData"} => left[w] > 0

Requests == {"NEW_SON", "LIST_REQUEST", "NEW_MSG", "EXIT"}
Answers  == {List, Bye, Refusal}

ArdaTyped ==
  /\ arda \in {"open", "closed"}
  /\ toArda \in Seq(Requests) /\ fromArda \in Seq(Answers)
  /\ heard \in Requests \cup {NULL}

OthersTyped ==
  /\ mtxFdArda \in Thread \cup {NULL}
  /\ fdArda \in BOOLEAN /\ number \in {"arda", "free"} \cup Worker
  /\ run \in BOOLEAN /\ strayed \in BOOLEAN
  /\ threadsHashmap \subseteq Worker \cup {NULL} /\ listed \subseteq Worker \cup {NULL}
  /\ created \in Worker \cup {NULL}
  /\ stale \subseteq Worker /\ gone \subseteq Worker

Types == PcTyped /\ LeftTyped /\ ArdaTyped /\ OthersTyped

(* fdArda is set while the descriptor is Arda's, and longer only after       *)
(* sendNewSon() was refused: it has closed the descriptor and kept its       *)
(* number, there are no workers yet, and main is about to call end().       *)
NumberKept ==
  /\ pc[main] = "newSon" => \A w \in Worker : pc[w] = "none"
  /\ fdArda => \/ number = "arda"
               \/ number = "free" /\ pc[main] \in {"endLock", "jammed"} /\ \A w \in Worker : pc[w] = "none"
  /\ number = "arda" => fdArda
  /\ NothingStrays

(* Once EXIT is written, mtxFdArda is not released before the descriptor is  *)
(* closed.                                                                  *)
ExitWritten == heard = "EXIT" \/ \E i \in 1..Len(toArda) : toArda[i] = "EXIT"

ExitGuarded ==
  ExitWritten => number # "arda" \/ (mtxFdArda # NULL /\ pc[mtxFdArda] \notin {"tell", "updateRead"})

ExitLast ==
  /\ heard = "EXIT" => toArda = <<>>
  /\ \A i \in 1..Len(toArda) - 1 : toArda[i] # "EXIT"

Inv == Types /\ ExchangesExclusive /\ NumberKept /\ ExitGuarded /\ ExitLast

LEMMA InitInv == Init => Inv
<1> SUFFICES ASSUME Init PROVE Inv
  OBVIOUS
<1>1. PcTyped /\ LeftTyped
  BY SonAssumption DEF Init, PcTyped, LeftTyped, Thread, MainPlaces, WorkerPlaces, Ops
<1>2. <<"NEW_SON">> \in Seq(Requests)
  BY DEF Requests
<1>3. ArdaTyped
  BY <1>2 DEF Init, ArdaTyped
<1>4. OthersTyped /\ ExchangesExclusive /\ NumberKept
  BY SonAssumption DEF Init, OthersTyped, ExchangesExclusive, InExchange, NumberKept, NothingStrays, Thread
<1>5. ExitGuarded /\ ExitLast
  BY SonAssumption DEF Init, ExitGuarded, ExitLast, ExitWritten
<1>6. QED
  BY <1>1, <1>3, <1>4, <1>5 DEF Inv, Types

LEMMA Typed == Types => TypeOK
BY DEF Types, PcTyped, LeftTyped, ArdaTyped, OthersTyped, TypeOK, Requests, Answers

-----------------------------------------------------------------------------
(* The connection.                                                          *)

LEMMA TailType == ASSUME NEW T, NEW q \in Seq(T), q # <<>> PROVE Head(q) \in T /\ Tail(q) \in Seq(T)
OBVIOUS

LEMMA Reads == ASSUME ArdaTyped, NEW p, ReadArda(p), UNCHANGED <<arda, toArda, heard>> PROVE ArdaTyped'
BY TailType DEF ReadArda, ArdaTyped

LEMMA Writes == ASSUME ArdaTyped, ExitLast, ~ExitWritten, NEW p \in Requests, WriteArda(p),
                       UNCHANGED <<arda, fromArda, heard>>
                PROVE  ArdaTyped' /\ ExitLast' /\ (ExitWritten' => p = "EXIT")
<1>1. CASE arda = "open"
  <2>1. toArda' = Append(toArda, p) /\ toArda' \in Seq(Requests)
    BY <1>1 DEF WriteArda, ArdaTyped
  <2>2. /\ Len(toArda') = Len(toArda) + 1
        /\ \A i \in 1..Len(toArda') : toArda'[i] = IF i > Len(toArda) THEN p ELSE toArda[i]
    BY <2>1 DEF ArdaTyped
  <2>3. Len(toArda) \in Nat
    BY DEF ArdaTyped
  <2>4. QED
    BY <2>1, <2>2, <2>3 DEF ArdaTyped, ExitLast, ExitWritten
<1>2. CASE arda = "closed"
  BY <1>2 DEF WriteArda, ArdaTyped, ExitLast, ExitWritten
<1>3. QED
  BY <1>1, <1>2 DEF ArdaTyped

-----------------------------------------------------------------------------
(* The workers. *)

(* A step of a worker that has nothing to do with Arda.                     *)
LEMMA WorkerMoves ==
  ASSUME Inv, NEW w \in Worker, pc[w] # "none", NEW l \in WorkerPlaces \ {"none", "tell"}, Goto(w, l), LeftTyped',
         UNCHANGED number \/ GetDescriptor(w) \/ CloseDescriptor(w), WorkerStays,
         UNCHANGED <<gone, ardaVars, mtxFdArda, fdArda, strayed>>
  PROVE  Inv'
<1>1. Types'
  BY SonAssumption DEF Inv, Types, PcTyped, ArdaTyped, OthersTyped, Goto, WorkerStays, GetDescriptor,
    CloseDescriptor,
    ardaVars, Thread
<1>2. ExchangesExclusive' /\ NumberKept'
  BY SonAssumption DEF Inv, Types, PcTyped, OthersTyped, ExchangesExclusive, InExchange, NumberKept,
    NothingStrays,
    Goto, GetDescriptor, CloseDescriptor, Thread, WorkerPlaces
<1>3. ExitGuarded' /\ ExitLast'
  BY SonAssumption DEF Inv, Types, PcTyped, OthersTyped, ExitGuarded, ExitWritten, ExitLast, Goto,
    GetDescriptor,
    CloseDescriptor, ardaVars, Thread, WorkerPlaces
<1>4. QED
  BY <1>1, <1>2, <1>3 DEF Inv

LEMMA LeftKept == ASSUME Inv, NEW w \in Worker, NEW l, l \notin {"start", "sendData", "recvData"} \/ pc[w] = "start",
                         Goto(w, l), UNCHANGED <<op, left>>
                  PROVE  LeftTyped'
BY DEF Inv, Types, PcTyped, LeftTyped, Goto, Thread

LEMMA SessionInv ==
  ASSUME Inv, NEW w \in Worker,
         \/ ConnectFails(w) \/ ConnectAndSend(w) \/ MsgAnswered(w) \/ CheckAnswered(w)
         \/ ReceiveMsg(w) \/ ReceiveFile(w)
  PROVE  Inv'
<1>1. PICK l \in {"ended", "awaitMsgOk", "tellLock", "sendData", "recvData"} :
        /\ Goto(w, l) /\ pc[w] # "none" /\ UNCHANGED left
        /\ l \in {"sendData", "recvData"} => pc[w] = "start"
  BY DEF ConnectFails, ConnectAndSend, MsgAnswered, CheckAnswered, ReceiveMsg, ReceiveFile, ToConnect
<1>2. /\ UNCHANGED number \/ GetDescriptor(w) \/ CloseDescriptor(w)
      /\ WorkerStays /\ UNCHANGED <<gone, ardaVars, mtxFdArda, fdArda, strayed>>
  BY DEF ConnectFails, ConnectAndSend, MsgAnswered, CheckAnswered, ReceiveMsg, ReceiveFile, fdVars
<1>3. LeftTyped'
  BY <1>1, <1>2, LeftKept DEF WorkerStays
<1>4. QED
  BY <1>1, <1>2, <1>3, WorkerMoves DEF WorkerPlaces

(* There is a packet to go. *)
LEMMA DataInv == ASSUME Inv, NEW w \in Worker, SendData(w) \/ ReceiveData(w) PROVE Inv'
<1>1. left[w] \in 1..FilePackets /\ left' = [left EXCEPT ![w] = @ - 1]
  BY SonAssumption DEF Inv, Types, LeftTyped, SendData, ReceiveData
<1>2. PICK l \in {"ended", "awaitCheck", "sendData", "recvData"} :
        Goto(w, l) /\ (l \in {"sendData", "recvData"} => left[w] # 1)
  BY DEF Inv, Types, PcTyped, SendData, ReceiveData, LastPacket, Goto
<1>3. left' \in [Worker -> 0..FilePackets] /\ (left[w] # 1 => left'[w] > 0)
  BY <1>1, SonAssumption DEF Inv, Types, LeftTyped
<1>4. /\ UNCHANGED number \/ CloseDescriptor(w)
      /\ WorkerStays /\ UNCHANGED <<gone, ardaVars, mtxFdArda, fdArda, strayed>>
  BY DEF SendData, ReceiveData
<1>5. LeftTyped'
  BY <1>1, <1>2, <1>3, <1>4 DEF Inv, Types, PcTyped, LeftTyped, Goto, WorkerStays, Thread
<1>6. QED
  BY <1>2, <1>4, <1>5, WorkerMoves DEF WorkerPlaces, SendData, ReceiveData

LEMMA TellLockInv == ASSUME Inv, NEW w \in Worker, TellLock(w) PROVE Inv'
<1>1. Types'
  BY SonAssumption DEF Inv, Types, PcTyped, LeftTyped, ArdaTyped, OthersTyped, TellLock, Goto, WorkerStays,
    ardaVars,
    Thread, WorkerPlaces
<1>2. ExchangesExclusive' /\ NumberKept' /\ ExitGuarded' /\ ExitLast'
  BY SonAssumption DEF Inv, Types, PcTyped, OthersTyped, ExchangesExclusive, InExchange, NumberKept,
    NothingStrays,
    ExitGuarded, ExitWritten, ExitLast, TellLock, Goto, ardaVars, Thread
<1>3. QED
  BY <1>1, <1>2 DEF Inv

LEMMA TellInv == ASSUME Inv, NEW w \in Worker, Tell(w) PROVE Inv'
<1>1. mtxFdArda = w /\ (number = "arda" => ~ExitWritten)
  BY DEF Inv, Tell, ExchangesExclusive, InExchange, ExitGuarded, Thread
<1>2. ArdaTyped' /\ ExitLast' /\ (ExitWritten' => number # "arda")
  <2>1. CASE WriteArda("NEW_MSG")
    BY <2>1, <1>1, Writes DEF Inv, Types, Tell, WriteArda, Requests
  <2>2. CASE UNCHANGED toArda /\ number # "arda"
    BY <2>2, SonAssumption DEF Inv, Types, ArdaTyped, ExitLast, Tell
  <2>3. QED
    BY <2>1, <2>2, SonAssumption DEF Tell
<1>3. PcTyped' /\ LeftTyped' /\ OthersTyped' /\ UNCHANGED number
  BY SonAssumption DEF Inv, Types, PcTyped, LeftTyped, OthersTyped, Tell, Goto, WorkerStays, Thread,
    WorkerPlaces
<1>4. ExchangesExclusive'
  BY <1>1, SonAssumption DEF Inv, Types, PcTyped, ExchangesExclusive, InExchange, Tell, Goto, Thread
<1>5. NumberKept'
  BY SonAssumption DEF Inv, Types, PcTyped, NumberKept, NothingStrays, Tell, Goto, Thread
<1>6. QED
  BY <1>2, <1>3, <1>4, <1>5 DEF Inv, Types, ExitGuarded

(* end(), and signals on any thread. *)

LEMMA FaultInv == ASSUME Inv, NEW t \in Thread, pc[t] # "none", Fault(t) PROVE Inv'
BY SonAssumption DEF Inv, Types, PcTyped, LeftTyped, ArdaTyped, OthersTyped, ExchangesExclusive, InExchange,
  NumberKept, NothingStrays, ExitGuarded, ExitWritten, ExitLast, Fault, EnterEnd, Goto,
  ardaVars, fdVars, Thread, AnyPlaces, EndPlaces

LEMMA JamInv == ASSUME Inv, NEW t \in Thread, SignalJams(t) PROVE Inv'
<1>1. Types'
  <2>1. PcTyped' /\ LeftTyped'
    BY SonAssumption DEF Inv, Types, PcTyped, LeftTyped, SignalJams, Goto, Thread, AnyPlaces
  <2>2. ArdaTyped' /\ OthersTyped'
    BY DEF Inv, Types, ArdaTyped, OthersTyped, SignalJams, ardaVars, fdVars
  <2> QED
    BY <2>1, <2>2 DEF Types
<1>2. ExchangesExclusive' /\ NumberKept' /\ ExitGuarded' /\ ExitLast'
  BY SonAssumption DEF Inv, Types, PcTyped, OthersTyped, ExchangesExclusive, InExchange, NumberKept,
    NothingStrays, ExitGuarded, ExitWritten, ExitLast, SignalJams, Goto, ardaVars, fdVars, Thread
<1>3. QED
  BY <1>1, <1>2 DEF Inv

LEMMA EndRunInv == ASSUME Inv, NEW t \in Thread, EndRun(t) PROVE Inv'
<1>1. Types'
  BY SonAssumption DEF Inv, Types, PcTyped, LeftTyped, ArdaTyped, OthersTyped, EndRun, Goto, ardaVars,
    fdVars, Thread,
    AnyPlaces, EndPlaces
<1>2. ExchangesExclusive' /\ NumberKept' /\ ExitGuarded' /\ ExitLast'
  BY SonAssumption DEF Inv, Types, PcTyped, OthersTyped, ExchangesExclusive, InExchange, NumberKept,
    NothingStrays,
    ExitGuarded, ExitWritten, ExitLast, EndRun, Goto, ardaVars, fdVars, Thread
<1>3. QED
  BY <1>1, <1>2 DEF Inv

LEMMA EndJoinInv == ASSUME Inv, NEW t \in Thread, EndJoin(t) \/ EndAstray(t) PROVE Inv'
BY SonAssumption DEF Inv, Types, PcTyped, LeftTyped, ArdaTyped, OthersTyped, ExchangesExclusive, InExchange,
  NumberKept, NothingStrays, ExitGuarded, ExitWritten, ExitLast, EndJoin, EndAstray, Goto, exit,
  ardaVars, fdVars, Thread, MainPlaces, WorkerPlaces, AnyPlaces, EndPlaces

(* The main thread. *)

LEMMA RegisterInv == ASSUME Inv, Register PROVE Inv'
BY SonAssumption DEF Inv, Types, PcTyped, LeftTyped, ArdaTyped, OthersTyped, ExchangesExclusive, InExchange,
  NumberKept, NothingStrays, ExitGuarded, ExitWritten, ExitLast, Register, Goto, exit,
  ardaVars, fdVars, Thread, MainPlaces, WorkerPlaces, AnyPlaces, EndPlaces

LEMMA EndRefusedInv == ASSUME Inv, EndRefused PROVE Inv'
<1>1. Types'
  BY Reads, SonAssumption DEF Inv, Types, PcTyped, LeftTyped, OthersTyped, EndRefused, Goto, fdVars, Thread,
    MainPlaces
<1>2. ExchangesExclusive' /\ NumberKept' /\ ExitGuarded' /\ ExitLast'
  BY SonAssumption DEF Inv, Types, PcTyped, OthersTyped, ExchangesExclusive, InExchange, NumberKept,
    NothingStrays,
    ExitGuarded, ExitWritten, ExitLast, EndRefused, Goto, fdVars, Thread
<1>3. QED
  BY <1>1, <1>2 DEF Inv

LEMMA MainGoesInv == ASSUME Inv, NEW l \in (MainPlaces \cup EndPlaces) \ ({"newSon"} \cup InExchange), MainGoes(l)
                     PROVE  Inv'
BY SonAssumption DEF Inv, Types, PcTyped, LeftTyped, ArdaTyped, OthersTyped, ExchangesExclusive, InExchange,
  NumberKept, NothingStrays, ExitGuarded, ExitWritten, ExitLast, MainGoes, Idle, Goto,
  ardaVars, fdVars, Thread, MainPlaces, AnyPlaces, EndPlaces

LEMMA NewSonAnsweredInv == ASSUME Inv, NewSonAnswered PROVE Inv'
<1>1. Types'
  BY Reads, SonAssumption DEF Inv, Types, PcTyped, LeftTyped, OthersTyped, NewSonAnswered, Goto, fdVars,
    Thread, MainPlaces, AnyPlaces, EndPlaces
<1>2. ExchangesExclusive' /\ NumberKept'
  BY SonAssumption DEF Inv, Types, PcTyped, OthersTyped, ExchangesExclusive, InExchange, NumberKept,
    NothingStrays,
    NewSonAnswered, ReadArda, List, Refusal, Goto, fdVars, Thread
<1>3. ExitGuarded' /\ ExitLast'
  BY SonAssumption DEF Inv, Types, PcTyped, OthersTyped, ExchangesExclusive, InExchange, ExitGuarded,
    ExitWritten, ExitLast,
    NewSonAnswered, Goto, fdVars, Thread
<1>4. QED
  BY <1>1, <1>2, <1>3 DEF Inv

LEMMA checkArdaMessageInv == ASSUME Inv, checkArdaMessage PROVE Inv'
<1>1. Types'
  BY Reads, SonAssumption, ZenonT(60) DEF Inv, Types, PcTyped, LeftTyped, OthersTyped,
      checkArdaMessage, CloseArda, Goto,
    fdVars, Thread, MainPlaces, AnyPlaces, EndPlaces
<1>2. ExchangesExclusive' /\ NumberKept'
  BY SonAssumption DEF Inv, Types, PcTyped, OthersTyped, ExchangesExclusive, InExchange, NumberKept,
    NothingStrays,
    checkArdaMessage, CloseArda, Goto, fdVars, Thread
<1>3. ExitGuarded' /\ ExitLast'
  BY SonAssumption DEF Inv, Types, PcTyped, OthersTyped, ExchangesExclusive, InExchange, ExitGuarded,
    ExitWritten, ExitLast,
    checkArdaMessage, CloseArda, Goto, fdVars, Thread
<1>4. QED
  BY <1>1, <1>2, <1>3 DEF Inv

LEMMA UpdateAnsweredInv == ASSUME Inv, UpdateAnswered PROVE Inv'
<1>1. Types'
  BY Reads, SonAssumption DEF Inv, Types, PcTyped, LeftTyped, OthersTyped, UpdateAnswered, NeedsRecord, Goto,
    fdVars, Thread, MainPlaces
<1>2. ExchangesExclusive' /\ NumberKept'
  BY SonAssumption DEF Inv, Types, PcTyped, OthersTyped, ExchangesExclusive, InExchange, NumberKept,
    NothingStrays,
    UpdateAnswered, Goto, fdVars, Thread
<1>3. ExitGuarded' /\ ExitLast'
  BY SonAssumption DEF Inv, Types, PcTyped, OthersTyped, ExchangesExclusive, InExchange, ExitGuarded,
    ExitWritten, ExitLast,
    UpdateAnswered, Goto, fdVars, Thread
<1>4. QED
  BY <1>1, <1>2, <1>3 DEF Inv

LEMMA UpdateFailsInv == ASSUME Inv, UpdateFails PROVE Inv'
<1>1. Types'
  BY Reads, SonAssumption DEF Inv, Types, PcTyped, LeftTyped, OthersTyped, UpdateFails, EnterEnd, Goto,
    fdVars, Thread, AnyPlaces, EndPlaces
<1>2. ExchangesExclusive' /\ NumberKept'
  BY SonAssumption DEF Inv, Types, PcTyped, OthersTyped, ExchangesExclusive, InExchange, NumberKept,
    NothingStrays,
    UpdateFails, EnterEnd, Goto, fdVars, Thread
<1>3. ExitGuarded' /\ ExitLast'
  BY SonAssumption DEF Inv, Types, PcTyped, OthersTyped, ExchangesExclusive, InExchange, ExitGuarded,
    ExitWritten, ExitLast,
    UpdateFails, EnterEnd, Goto, fdVars, Thread
<1>4. QED
  BY <1>1, <1>2, <1>3 DEF Inv

LEMMA EndAnsweredInv == ASSUME Inv, NEW t \in Thread, EndAnswered(t) PROVE Inv'
<1>1. Types'
  BY Reads, SonAssumption DEF Inv, Types, PcTyped, LeftTyped, OthersTyped, EndAnswered, CloseArda, Goto,
    fdVars, Thread, AnyPlaces, EndPlaces
<1>2. ExchangesExclusive' /\ NumberKept'
  BY SonAssumption DEF Inv, Types, PcTyped, OthersTyped, ExchangesExclusive, InExchange, NumberKept,
    NothingStrays,
    EndAnswered, CloseArda, Goto, fdVars, Thread
<1>3. ExitGuarded' /\ ExitLast'
  BY SonAssumption DEF Inv, Types, PcTyped, OthersTyped, ExchangesExclusive, InExchange, NumberKept,
    ExitGuarded, ExitWritten, ExitLast,
    EndAnswered, CloseArda, Goto, fdVars, Thread
<1>4. QED
  BY <1>1, <1>2, <1>3 DEF Inv

LEMMA UpdateRequestInv == ASSUME Inv, UpdateRequest PROVE Inv'
<1>1. number = "arda" => ~ExitWritten
  BY DEF Inv, ExitGuarded, UpdateRequest
<1>2. ArdaTyped' /\ ExitLast' /\ (ExitWritten' => ExitWritten)
  <2>1. CASE WriteArda("LIST_REQUEST")
    BY <2>1, <1>1, Writes DEF Inv, Types, UpdateRequest, WriteArda, Requests
  <2>2. CASE UNCHANGED toArda
    BY <2>2 DEF Inv, Types, ArdaTyped, ExitLast, ExitWritten, UpdateRequest
  <2>3. QED
    BY <2>1, <2>2 DEF UpdateRequest
<1>3. PcTyped' /\ LeftTyped' /\ OthersTyped'
  BY SonAssumption DEF Inv, Types, PcTyped, LeftTyped, OthersTyped, UpdateRequest, EnterEnd, BrokenPipe,
    Goto, Thread, MainPlaces, AnyPlaces, EndPlaces
<1>4. ExchangesExclusive' /\ NumberKept'
  BY SonAssumption DEF Inv, Types, PcTyped, OthersTyped, ExchangesExclusive, InExchange, NumberKept,
    NothingStrays,
    UpdateRequest, EnterEnd, BrokenPipe, Goto, Thread
<1>5. ExitGuarded'
  BY <1>1, <1>2, SonAssumption DEF Inv, Types, PcTyped, OthersTyped, ExitGuarded, UpdateRequest, EnterEnd,
    BrokenPipe, Goto, Thread
<1>6. QED
  BY <1>2, <1>3, <1>4, <1>5 DEF Inv, Types

LEMMA EndWriteInv == ASSUME Inv, NEW t \in Thread, EndWrite(t) PROVE Inv'
<1>1. number = "arda" => ~ExitWritten
  BY DEF Inv, ExitGuarded, EndWrite
<1>2. ArdaTyped' /\ ExitLast'
  <2>1. CASE WriteArda("EXIT")
    BY <2>1, <1>1, Writes DEF Inv, Types, EndWrite, WriteArda, Requests
  <2>2. CASE UNCHANGED toArda
    BY <2>2 DEF Inv, Types, ArdaTyped, ExitLast, ExitWritten, EndWrite
  <2>3. QED
    BY <2>1, <2>2 DEF EndWrite
<1>3. PcTyped' /\ LeftTyped' /\ OthersTyped'
  BY SonAssumption, ZenonT(60) DEF Inv, Types, PcTyped, LeftTyped, OthersTyped, EndWrite, EnterEnd,
      BrokenPipe, Goto,
    Thread, AnyPlaces, EndPlaces
<1>4. ExchangesExclusive'
  BY SonAssumption DEF Inv, Types, PcTyped, OthersTyped, ExchangesExclusive, InExchange,
    EndWrite, EnterEnd, BrokenPipe, Goto, Thread
<1>7. NumberKept'
  BY SonAssumption DEF Inv, Types, PcTyped, OthersTyped, NumberKept, NothingStrays,
    EndWrite, EnterEnd, BrokenPipe, WriteArda, Goto, Thread
<1>5. ExitGuarded'
  BY <1>1, <1>2, SonAssumption DEF Inv, Types, PcTyped, OthersTyped, ExitGuarded, EndWrite, EnterEnd,
    BrokenPipe, Goto, Thread
<1>6. QED
  BY <1>2, <1>3, <1>4, <1>5, <1>7 DEF Inv, Types

LEMMA CreateInv == ASSUME Inv, NEW w \in Worker, NEW o \in Ops, pc[main] \in {"select", "firstPacket"},
                          pthread_create(w, o),
                          UNCHANGED number \/ number' = IF number = "free" THEN w ELSE number
                   PROVE  Inv'
<1>1. PcTyped' /\ LeftTyped' /\ OthersTyped'
  <2>1. \A u \in Thread : pc'[u] = IF u = main THEN "register" ELSE IF u = w THEN "start" ELSE pc[u]
    BY SonAssumption DEF Inv, Types, PcTyped, pthread_create, Thread
  <2>2. PcTyped'
    BY <2>1, SonAssumption DEF Inv, Types, PcTyped, pthread_create, Thread, MainPlaces, WorkerPlaces
  <2>3. left' \in [Worker -> 0..FilePackets] /\ left'[w] > 0 /\ op' \in [Worker -> Ops]
    BY SonAssumption DEF Inv, Types, LeftTyped, pthread_create
  <2>4. LeftTyped'
    BY <2>1, <2>3, SonAssumption DEF Inv, Types, LeftTyped, pthread_create, Thread
  <2>5. OthersTyped'
    BY DEF Inv, Types, OthersTyped, pthread_create
  <2>6. QED
    BY <2>2, <2>4, <2>5
<1>2. ArdaTyped' /\ ExitLast' /\ (ExitWritten' <=> ExitWritten)
  BY DEF Inv, Types, ArdaTyped, ExitLast, ExitWritten, pthread_create, ardaVars
<1>3. ExchangesExclusive'
  BY SonAssumption DEF Inv, Types, PcTyped, OthersTyped, ExchangesExclusive, InExchange,
      pthread_create, Thread
<1>4. NumberKept'
  BY SonAssumption DEF Inv, Types, PcTyped, OthersTyped, NumberKept, NothingStrays, pthread_create, Thread
<1>5. ExitGuarded'
  BY <1>2, SonAssumption DEF Inv, Types, PcTyped, OthersTyped, ExitGuarded, pthread_create, Thread
<1>6. QED
  BY <1>1, <1>2, <1>3, <1>4, <1>5 DEF Inv, Types

(* The environment. *)

LEMMA PeerGoneInv == ASSUME Inv, NEW w \in Worker, PeerGone(w) PROVE Inv'
BY DEF Inv, Types, PcTyped, LeftTyped, ArdaTyped, OthersTyped, ExchangesExclusive, InExchange,
  NumberKept, NothingStrays, ExitGuarded, ExitWritten, ExitLast, PeerGone, ardaVars, fdVars

LEMMA ArdaInv == ASSUME Inv, ArdaAnswers \/ ArdaCloses PROVE Inv'
<1>1. PcTyped' /\ LeftTyped' /\ OthersTyped' /\ ExchangesExclusive' /\ NumberKept'
  BY DEF Inv, Types, PcTyped, LeftTyped, OthersTyped, ExchangesExclusive, InExchange,
    NumberKept, NothingStrays, ArdaAnswers, ArdaCloses, threadVars, fdVars
<1>2. ArdaTyped' /\ ExitLast' /\ (ExitWritten' => ExitWritten)
  <2>1. CASE ArdaCloses
    BY <2>1 DEF Inv, Types, ArdaTyped, Answers, ExitGuarded, ExitWritten, ExitLast, ArdaCloses
  <2>2. CASE ArdaAnswers
    <3>1. /\ heard' = Head(toArda) /\ heard' \in Requests
          /\ toArda' = Tail(toArda) \/ toArda' = <<>>
          /\ heard' = "EXIT" => heard' = toArda[1]
      BY <2>2, TailType DEF ArdaAnswers, Inv, Types, ArdaTyped
    <3>2. \A p \in Answers : Append(fromArda, p) \in Seq(Answers)
      BY DEF Inv, Types, ArdaTyped
    <3>3. ArdaTyped'
      <4>1. toArda' \in Seq(Requests)
        <5>1. Tail(toArda) \in Seq(Requests)
          BY <2>2, TailType DEF Inv, Types, ArdaTyped, ArdaAnswers
        <5>2. <<>> \in Seq(Requests)
          OBVIOUS
        <5>3. QED
          BY <3>1, <5>1, <5>2
      <4>2. fromArda' \in Seq(Answers) /\ arda' \in {"open", "closed"}
        BY <2>2, <3>2 DEF Inv, Types, ArdaTyped, Answers, ArdaAnswers
      <4>3. QED
        BY <3>1, <4>1, <4>2 DEF ArdaTyped
    <3>4. CASE toArda' = <<>>
      BY <2>2, <3>1, <3>3, <3>4 DEF Inv, Types, ArdaTyped, ExitWritten, ExitLast, ArdaAnswers
    <3>5. CASE toArda' = Tail(toArda)
      <4>1. /\ Len(toArda) \in Nat \ {0} /\ Len(toArda') = Len(toArda) - 1
            /\ \A i \in 1..Len(toArda') : toArda'[i] = toArda[i + 1]
        BY <2>2, <3>5 DEF Inv, Types, ArdaTyped, ArdaAnswers
      <4>2. toArda[1] = "EXIT" => toArda' = <<>>
        BY <4>1, <3>3 DEF Inv, ExitLast, ArdaTyped
      <4>3. ExitLast'
        BY <3>1, <4>1, <4>2 DEF Inv, ExitLast
      <4>4. ExitWritten' => ExitWritten
        BY <3>1, <4>1 DEF ExitWritten
      <4>5. QED
        BY <3>3, <4>3, <4>4
    <3>6. QED
      BY <3>1, <3>3, <3>4, <3>5
  <2>3. QED
    BY <2>1, <2>2
<1>3. ExitGuarded'
  BY <1>2 DEF Inv, ExitGuarded, ArdaAnswers, ArdaCloses, threadVars, fdVars
<1>4. QED
  BY <1>1, <1>2, <1>3 DEF Inv, Types

-----------------------------------------------------------------------------
LEMMA EndStepInv == ASSUME Inv, NEW t \in Thread, endStep(t) PROVE Inv'
BY EndWriteInv, EndAnsweredInv, EndRunInv, EndJoinInv DEF endStep

LEMMA WorkerInv == ASSUME Inv, NEW w \in Worker, ownStep(w) \/ neighbourStep(w) PROVE Inv'
<1>1. ASSUME RecordFaults(w) \/ TellFaults(w) \/ SendFaults(w) PROVE Inv'
  BY <1>1, FaultInv DEF RecordFaults, NeedsRecord, TellFaults, SendFaults, Thread
<1>2. QED
  BY <1>1, EndStepInv, SessionInv, TellLockInv, TellInv, DataInv DEF ownStep, neighbourStep, Thread

LEMMA MainInv == ASSUME Inv, mainStep \/ Asked PROVE Inv'
<1>1. ASSUME SelectArda \/ SelectUpdate \/ SelectSocket \/ UserExit PROVE Inv'
  BY <1>1, MainGoesInv DEF SelectArda, SelectUpdate, SelectSocket, UserExit, MainPlaces, AnyPlaces,
      EndPlaces, InExchange
<1>2. ASSUME NEW w \in Worker, PrepareSend(w) \/ FirstPacket(w) PROVE Inv'
  BY <1>2, CreateInv, SonAssumption DEF PrepareSend, FirstPacket, GetDescriptor, Idle, Ops
<1>3. QED
  BY <1>1, <1>2, NewSonAnsweredInv, checkArdaMessageInv, UpdateRequestInv, UpdateAnsweredInv, UpdateFailsInv,
    RegisterInv,
    EndStepInv, EndRefusedInv DEF mainStep, Asked, Thread

LEMMA NextInv == ASSUME Inv, [Next]_vars PROVE Inv'
<1>1. ASSUME NEW t \in Thread, EndAstray(t) \/ Signal(t) \/ SignalJams(t) PROVE Inv'
  BY <1>1, FaultInv, JamInv, EndJoinInv DEF Signal
<1>2. CASE UNCHANGED vars
  BY <1>2 DEF Inv, Types, PcTyped, LeftTyped, ArdaTyped, OthersTyped, ExchangesExclusive, InExchange,
    NumberKept, NothingStrays, ExitGuarded, ExitWritten, ExitLast, vars, threadVars, ardaVars, fdVars
<1>3. QED
  BY <1>1, <1>2, MainInv, WorkerInv, PeerGoneInv, ArdaInv DEF Next

LEMMA Invariance == Spec => []Inv
BY InitInv, NextInv, PTL DEF Spec

(* Every variable of Son has its type; a worker sends and receives no more   *)
(* packets than its file has.                                               *)
THEOREM TypeCorrect == Spec => []TypeOK
BY Invariance, Typed, PTL DEF Inv

(* However threads are interrupted, whoever waits for an answer of Arda or   *)
(* writes NEW_MSG holds mtxFdArda, and is the only one.                      *)
THEOREM ExchangesExclude == Spec => []ExchangesExclusive
BY Invariance, PTL DEF Inv

(* Nothing is written to Arda after EXIT.                                    *)
THEOREM NothingAfterExit == Spec => []ExitIsLast
<1>1. Inv => ExitIsLast
  <2> SUFFICES ASSUME Inv PROVE ExitIsLast
    OBVIOUS
  <2>1. toArda \in Seq(Requests) /\ Len(toArda) \in Nat
    BY DEF Inv, Types, ArdaTyped
  <2>2. /\ Len(<<heard>> \o toArda) = Len(toArda) + 1
        /\ \A i \in 1..Len(toArda) + 1 : (<<heard>> \o toArda)[i] = IF i = 1 THEN heard ELSE toArda[i - 1]
    BY <2>1
  <2>3. QED
    BY <2>1, <2>2 DEF Inv, ExitLast, ExitIsLast
<1>2. QED
  BY <1>1, Invariance, PTL

(* While this Son is connected to Arda, no NEW_MSG goes to a neighbour.      *)
THEOREM NewMsgsArrive == Spec => []NothingStrays
BY Invariance, PTL DEF Inv, NumberKept

-----------------------------------------------------------------------------
(* The contract of the connection.                                          *)

(* NEW_SON is the first packet, and comes once.                             *)
GreetsFirst ==
  arda = "open" =>
    /\ heard = NULL => toArda # <<>>
    /\ \A i \in 1..Len(toArda) : toArda[i] = "NEW_SON" <=> i = 1 /\ heard = NULL

LEMMA WriteGreets ==
  ASSUME Inv, GreetsFirst, NEW p \in Requests \ {"NEW_SON"}, WriteArda(p), UNCHANGED <<arda, heard>>
  PROVE  GreetsFirst'
<1>1. toArda \in Seq(Requests) /\ Len(toArda) \in Nat
  BY DEF Inv, Types, ArdaTyped
<1>2. CASE arda = "open"
  <2>1. /\ toArda' = Append(toArda, p) /\ toArda' # <<>> /\ Len(toArda') = Len(toArda) + 1
        /\ \A i \in 1..Len(toArda') : toArda'[i] = IF i > Len(toArda) THEN p ELSE toArda[i]
    BY <1>1, <1>2 DEF WriteArda
  <2>2. heard = NULL => Len(toArda) > 0
    BY <1>1, <1>2 DEF GreetsFirst
  <2>3. QED
    BY <1>1, <1>2, <2>1, <2>2 DEF GreetsFirst
<1>3. CASE arda # "open"
  BY <1>3 DEF GreetsFirst
<1>4. QED
  BY <1>2, <1>3

LEMMA AnswerGreets == ASSUME Inv, GreetsFirst, ArdaAnswers \/ ArdaCloses PROVE GreetsFirst'
<1>1. toArda \in Seq(Requests) /\ Len(toArda) \in Nat
  BY DEF Inv, Types, ArdaTyped
<1>2. CASE arda' = "closed"
  BY <1>2 DEF GreetsFirst
<1>3. CASE toArda' = Tail(toArda) /\ arda' = arda
  <2>1. arda = "open" /\ toArda # <<>> /\ heard' = Head(toArda)
    <3>1. ~ArdaCloses
      BY <1>3 DEF ArdaCloses
    <3>2. QED
      BY <3>1 DEF ArdaAnswers
  <2>2. heard' \in Requests /\ heard' # NULL
    BY <1>1, <2>1, SonAssumption DEF Requests
  <2>3. /\ Len(toArda') = Len(toArda) - 1
        /\ \A i \in 1..Len(toArda') : toArda'[i] = toArda[i + 1] /\ i + 1 \in 2..Len(toArda)
    BY <1>1, <1>3, <2>1
  <2>4. \A i \in 1..Len(toArda') : toArda'[i] # "NEW_SON"
    BY <1>1, <2>1, <2>3 DEF GreetsFirst
  <2>5. QED
    BY <2>2, <2>4 DEF GreetsFirst
<1>4. QED
  BY <1>2, <1>3 DEF ArdaAnswers, ArdaCloses

(* What a Son does to the connection: it writes, or reads, or neither.      *)
SonWrites == \E p \in Requests \ {"NEW_SON"} : WriteArda(p) /\ UNCHANGED <<arda, heard, fromArda>>
SonReads  == \E p : ReadArda(p) /\ UNCHANGED <<arda, heard, toArda>>

LEMMA SonSteps ==
  ASSUME Inv, Next, ~ArdaAnswers, ~ArdaCloses
  PROVE  SonWrites \/ SonReads \/ UNCHANGED ardaVars
<1>1. ASSUME NEW t \in Thread, endStep(t) \/ EndAstray(t) \/ Signal(t) \/ SignalJams(t) \/ Fault(t)
      PROVE  SonWrites \/ SonReads \/ UNCHANGED ardaVars
  <2>1. CASE EndWrite(t)
    BY <2>1 DEF EndWrite, SonWrites, Requests, ardaVars
  <2>2. CASE EndAnswered(t)
    BY <2>2 DEF EndAnswered, SonReads
  <2>3. QED
    BY <1>1, <2>1, <2>2 DEF endStep, EndRun, EndJoin, EndAstray, Signal, SignalJams, Fault, ardaVars
<1>2. ASSUME mainStep \/ Asked
      PROVE  SonWrites \/ SonReads \/ UNCHANGED ardaVars
  <2>1. CASE NewSonAnswered \/ checkArdaMessage \/ UpdateAnswered \/ UpdateFails \/ EndRefused
    BY <2>1 DEF NewSonAnswered, checkArdaMessage, UpdateAnswered, UpdateFails, EndRefused, SonReads
  <2>2. CASE UpdateRequest
    BY <2>2 DEF UpdateRequest, SonWrites, Requests, ardaVars
  <2>3. CASE SelectArda \/ Register \/ Asked
    BY <2>3 DEF SelectArda, MainGoes, Register, FirstPacket, pthread_create, Asked, SelectUpdate, UserExit,
      SelectSocket, PrepareSend, ardaVars
  <2>4. QED
    BY <1>1, <1>2, <2>1, <2>2, <2>3 DEF mainStep, Thread
<1>3. ASSUME NEW w \in Worker, ownStep(w) \/ neighbourStep(w)
      PROVE  SonWrites \/ SonReads \/ UNCHANGED ardaVars
  <2>1. CASE Tell(w)
    BY <2>1 DEF Tell, SonWrites, Requests, ardaVars
  <2>2. CASE RecordFaults(w) \/ TellFaults(w) \/ SendFaults(w) \/ endStep(w)
    BY <1>1, <2>2 DEF RecordFaults, TellFaults, SendFaults, Thread
  <2>3. CASE \/ ConnectFails(w) \/ ConnectAndSend(w) \/ MsgAnswered(w) \/ TellLock(w) \/ SendData(w)
             \/ CheckAnswered(w) \/ ReceiveMsg(w) \/ ReceiveFile(w) \/ ReceiveData(w)
    BY <2>3 DEF ConnectFails, ConnectAndSend, MsgAnswered, TellLock, SendData, CheckAnswered, ReceiveMsg,
      ReceiveFile, ReceiveData, ardaVars
  <2>4. QED
    BY <1>3, <2>1, <2>2, <2>3 DEF ownStep, neighbourStep
<1>4. QED
  BY <1>1, <1>2, <1>3 DEF Next, PeerGone

LEMMA Greets == Spec => []GreetsFirst
<1>1. Init => GreetsFirst
  BY DEF Init, GreetsFirst
<1>2. ASSUME Inv, GreetsFirst, [Next]_vars PROVE GreetsFirst'
  <2>1. CASE ArdaAnswers \/ ArdaCloses
    BY <1>2, <2>1, AnswerGreets
  <2>2. CASE SonWrites
    BY <1>2, <2>2, WriteGreets DEF SonWrites
  <2>3. CASE SonReads \/ UNCHANGED ardaVars
    BY <1>2, <2>3 DEF SonReads, GreetsFirst, ardaVars
  <2>4. QED
    BY <1>2, <2>1, <2>2, <2>3, SonSteps DEF vars
<1>3. QED
  BY <1>1, <1>2, Invariance, PTL DEF Spec

LEMMA WriteKeeps ==
  ASSUME Inv, SonWrites PROVE (\E p \in ToLine!Requests : ToLine!Write(p)) \/ UNCHANGED ToLine!vars
<1>1. PICK p \in Requests \ {"NEW_SON"} : WriteArda(p) /\ UNCHANGED <<arda, heard, fromArda>>
  BY DEF SonWrites
<1>2. CASE arda = "open"
  <2>1. ToLine!Write(p)
    BY <1>1, <1>2 DEF WriteArda, ToLine!Write, Phase
  <2>2. p \in ToLine!Requests
    BY DEF Requests, ToLine!Requests
  <2>3. QED
    BY <2>1, <2>2
<1>3. CASE arda # "open"
  BY <1>1, <1>3 DEF WriteArda, ToLine!vars, Phase
<1>4. QED
  BY <1>2, <1>3

LEMMA ReadKeeps == ASSUME Inv, SonReads PROVE ToLine!Read \/ UNCHANGED ToLine!vars
<1>1. PICK p : ReadArda(p) /\ UNCHANGED <<arda, heard, toArda>>
  BY DEF SonReads
<1>2. QED
  BY <1>1 DEF ReadArda, ToLine!Read, ToLine!vars, Phase

LEMMA ArdaKeeps == ASSUME Inv, GreetsFirst, ArdaAnswers \/ ArdaCloses PROVE ToLine!ArdaStep
<1>1. toArda \in Seq(Requests) /\ Len(toArda) \in Nat /\ arda = "open"
  BY DEF Inv, Types, ArdaTyped, ArdaAnswers, ArdaCloses
<1>2. CASE ArdaCloses
  <2>1. Phase' = "over" /\ toArda' = <<>>
    BY <1>2 DEF ArdaCloses, Phase
  <2>2. CASE UNCHANGED fromArda
    <3>1. ToLine!Silence
      BY <1>1, <1>2, <2>1, <2>2 DEF ToLine!Silence, ToLine!HangsUp, Phase, ArdaCloses
    <3>2. QED
      BY <3>1 DEF ToLine!ArdaStep
  <2>3. CASE heard # NULL /\ fromArda' = Append(fromArda, Bye)
    <3>1. ToLine!Farewell
      BY <1>1, <1>2, <2>1, <2>3 DEF ToLine!Farewell, ToLine!HangsUp, ToLine!Says, Phase, Bye
    <3>2. QED
      BY <3>1 DEF ToLine!ArdaStep
  <2>4. QED
    BY <1>2, <2>2, <2>3 DEF ArdaCloses
<1>3. CASE ArdaAnswers
  <2>1. /\ toArda # <<>> /\ heard' = Head(toArda) /\ heard' = toArda[1]
        /\ heard' \in Requests /\ heard' # NULL
    BY <1>1, <1>3, TailType, SonAssumption DEF ArdaAnswers, Requests
  <2>2. heard' = "NEW_SON" <=> heard = NULL
    BY <1>1, <2>1 DEF GreetsFirst
  <2>3. CASE heard' = "NEW_SON" /\ arda' = "open"
    <3>1. ToLine!Welcome
      BY <1>1, <1>3, <2>1, <2>2, <2>3 DEF ArdaAnswers, ToLine!Welcome, ToLine!Asked, ToLine!Goes, ToLine!Says,
        Phase, List
    <3>2. QED
      BY <3>1 DEF ToLine!ArdaStep
  <2>4. CASE heard' = "NEW_SON" /\ arda' # "open"
    <3>1. ToLine!Refuse
      BY <1>1, <1>3, <2>1, <2>2, <2>4 DEF ArdaAnswers, ToLine!Refuse, ToLine!Asked, ToLine!HangsUp,
          ToLine!Says,
        ToLine!Requests, Phase, Refusal
    <3>2. QED
      BY <3>1 DEF ToLine!ArdaStep
  <2>5. CASE heard' # "NEW_SON" /\ arda' = "open"
    <3>1. ToLine!Answer
      BY <1>1, <1>3, <2>1, <2>2, <2>5 DEF ArdaAnswers, ToLine!Answer, ToLine!Asked, ToLine!Goes, ToLine!Says,
        Phase, List, Refusal
    <3>2. QED
      BY <3>1 DEF ToLine!ArdaStep
  <2>6. CASE heard' # "NEW_SON" /\ arda' # "open"
    <3>1. ToLine!Farewell
      BY <1>1, <1>3, <2>1, <2>2, <2>6 DEF ArdaAnswers, ToLine!Farewell, ToLine!HangsUp, ToLine!Says,
          Phase, Bye
    <3>2. QED
      BY <3>1 DEF ToLine!ArdaStep
  <2>7. QED
    BY <2>3, <2>4, <2>5, <2>6
<1>4. QED
  BY <1>2, <1>3

(* Every step of a Son is one that Line allows its client, and every step of *)
(* the Arda it assumes is one that Line allows Arda.                        *)
THEOREM SonKeepsLine == Spec => KeepsLine
<1>1. Init => ToLine!Init
  BY SonAssumption DEF Init, ToLine!Init, Phase
<1>2. ASSUME Inv, GreetsFirst, [Next]_vars PROVE [ToLine!Next]_(ToLine!vars)
  <2>1. CASE ArdaAnswers \/ ArdaCloses
    BY <1>2, <2>1, ArdaKeeps DEF ToLine!Next
  <2>2. CASE SonWrites \/ SonReads
    BY <1>2, <2>2, WriteKeeps, ReadKeeps DEF ToLine!Next
  <2>3. CASE UNCHANGED ardaVars
    BY <2>3 DEF ToLine!vars, Phase, ardaVars
  <2>4. QED
    BY <1>2, <2>1, <2>2, <2>3, SonSteps DEF vars
<1>3. QED
  BY <1>1, <1>2, Invariance, Greets, PTL DEF Spec, KeepsLine, ToLine!Spec

(* What Arda read in such a step.                                           *)
Hears ==
  heard' = IF ToLine!Silence \/ (ToLine!Farewell /\ (toArda = <<>> \/ Head(toArda) # "EXIT"))
           THEN heard ELSE Head(toArda)

(* Conversely, whatever Line allows Arda to do is in the Arda that this      *)
(* module assumes, unless the instance leaves it out by name.               *)
THEOREM NoOtherArda ==
  ASSUME Inv, GreetsFirst, ToLine!ArdaStep, Hears, arda' \in {"open", "closed"}, UNCHANGED <<threadVars, fdVars>>
  PROVE  \/ ArdaAnswers \/ ArdaCloses
         \/ "ardaRefuses" \notin Disturbances /\ ToLine!Refuse
         \/ "ardaHangsUp" \notin Disturbances /\ ToLine!Farewell
         \/ "ardaStops" \notin Disturbances /\ ToLine!Silence
<1>1. toArda \in Seq(Requests) /\ Len(toArda) \in Nat /\ arda \in {"open", "closed"}
  BY DEF Inv, Types, ArdaTyped
<1>2. arda = "open" /\ Phase # "over"
  BY <1>1 DEF ToLine!ArdaStep, ToLine!Welcome, ToLine!Refuse, ToLine!Answer, ToLine!Farewell,
      ToLine!Silence, Phase
<1>3. toArda # <<>> => /\ Head(toArda) = toArda[1] /\ Head(toArda) \in Requests
                       /\ Head(toArda) = "NEW_SON" <=> heard = NULL
  <2>1. ASSUME toArda # <<>> PROVE Head(toArda) = toArda[1] /\ Head(toArda) \in Requests /\ 1 \in 1..Len(toArda)
    BY <1>1, <2>1
  <2>2. QED
    BY <1>2, <2>1 DEF GreetsFirst
<1>4. CASE ToLine!Silence
  <2>1. arda' = "closed" /\ toArda' = <<>> /\ UNCHANGED fromArda /\ UNCHANGED heard
    BY <1>4 DEF ToLine!Silence, ToLine!HangsUp, Phase, Hears
  <2>2. QED
    BY <1>2, <1>4, <2>1 DEF ArdaCloses
<1>5. CASE ToLine!Farewell
  <2>1. /\ arda' = "closed" /\ toArda' = <<>> /\ fromArda' = Append(fromArda, Bye) /\ heard # NULL
    BY <1>1, <1>2, <1>5 DEF ToLine!Farewell, ToLine!HangsUp, ToLine!Says, Phase, Bye
  <2>2. CASE toArda # <<>> /\ Head(toArda) = "EXIT" /\ heard' = "EXIT"
    BY <1>2, <2>1, <2>2 DEF ArdaAnswers
  <2>3. CASE UNCHANGED heard
    BY <1>2, <1>5, <2>1, <2>3 DEF ArdaCloses
  <2>4. QED
    BY <1>5, <2>2, <2>3 DEF Hears
<1>6. CASE ~ToLine!Silence /\ ~ToLine!Farewell
  <2>1. heard' = Head(toArda)
    BY <1>6 DEF Hears
  <2>2. CASE ToLine!Welcome
    <3>1. /\ toArda # <<>> /\ Head(toArda) = "NEW_SON" /\ arda' = "open"
          /\ fromArda' = Append(fromArda, List) /\ toArda' = Tail(toArda)
      BY <1>2, <2>2 DEF ToLine!Welcome, ToLine!Asked, ToLine!Says, ToLine!Goes, Phase, List
    <3>2. QED
      BY <1>2, <2>1, <3>1 DEF ArdaAnswers
  <2>3. CASE ToLine!Refuse
    <3>1. /\ toArda # <<>> /\ heard = NULL /\ arda' = "closed"
          /\ fromArda' = Append(fromArda, Refusal) /\ toArda' = <<>>
      BY <1>2, <2>3 DEF ToLine!Refuse, ToLine!Asked, ToLine!Says, ToLine!HangsUp, Phase, Refusal
    <3>2. QED
      BY <1>2, <1>3, <2>1, <2>3, <3>1 DEF ArdaAnswers
  <2>4. CASE ToLine!Answer
    <3>1. toArda # <<>> /\ heard # NULL /\ toArda' = Tail(toArda) /\ Phase' = "talking"
      BY <1>2, <2>4 DEF ToLine!Answer, ToLine!Goes, Phase
    <3>2. arda' = "open"
      BY <3>1 DEF Phase
    <3>3. Head(toArda) \in {"LIST_REQUEST", "NEW_MSG", "EXIT"}
      BY <1>3, <3>1 DEF Requests
    <3>4. \/ Head(toArda) = "LIST_REQUEST" /\ fromArda' = Append(fromArda, List)
          \/ Head(toArda) = "NEW_MSG" /\ UNCHANGED fromArda
          \/ Head(toArda) = "EXIT" /\ "ardaRefuses" \in Disturbances /\ fromArda' = Append(fromArda, Refusal)
      BY <2>4, <3>3 DEF ToLine!Answer, ToLine!Asked, ToLine!Says, List, Refusal
    <3>5. QED
      BY <1>2, <2>1, <3>1, <3>2, <3>4 DEF ArdaAnswers
  <2>5. QED
    BY <1>6, <2>2, <2>3, <2>4 DEF ToLine!ArdaStep
<1>7. QED
  BY <1>4, <1>5, <1>6

-----------------------------------------------------------------------------
(* Further theorems: the answers of Arda are read as what they are, and the *)
(* event loop does not keep mtxFdArda.  They need to know, beyond Inv,      *)
(* which answers may be on their way in every state.                        *)

Refusing == "ardaRefuses" \in Disturbances
NoWorkers == \A w \in Worker : pc[w] = "none"

(* A users' list is due: it was asked for, or is on its way. *)
ListRequests == {"NEW_SON", "LIST_REQUEST"}
NoneAsked == \A i \in 1..Len(toArda) : toArda[i] \notin ListRequests
NoListDue == NoneAsked /\ \A i \in 1..Len(fromArda) : fromArda[i] # List

(* One is, and nothing else will be read before it. *)
OneListDue ==
  \/ /\ fromArda = <<>> /\ toArda # <<>>
     /\ \A i \in 1..Len(toArda) - 1 : toArda[i] \notin ListRequests
  \/ /\ fromArda # <<>> /\ Head(fromArda) = List /\ NoneAsked
     /\ \A i \in 2..Len(fromArda) : fromArda[i] # List

(* main was interrupted while it had mtxFdArda, or while it was in          *)
(* sendNewSon(): in the first case nobody will ever read an answer.         *)
Stuck == mtxFdArda = main /\ pc[main] \in {"endLock", "endRun", "endJoin", "exited", "jammed"}
Early == pc[main] \in AnyPlaces /\ NoWorkers

ListsDue ==
  \/ NoListDue
  \/ pc[main] = "newSon"
  \/ pc[main] = "updateRead" /\ OneListDue
  \/ (Stuck \/ Early) /\ ~Refusing

ClosedIsLast ==
  /\ arda = "closed" => toArda = <<>>
  /\ \A i \in 1..Len(fromArda) : fromArda[i] = Bye => arda = "closed"

EndReads ==
  \A t \in Thread : /\ pc[t] = "endRead" => fdArda /\ number = "arda"
                    /\ pc[t] \in {"endRun", "endJoin"} => ~fdArda

FirstAnswer ==
  pc[main] = "newSon" =>
    /\ mtxFdArda = NULL /\ fdArda /\ number = "arda"
    /\ \/ heard = NULL /\ fromArda = <<>> /\ toArda = <<"NEW_SON">>
       \/ heard = NULL /\ fromArda = <<>> /\ arda = "closed" /\ ~Refusing
       \/ /\ heard = "NEW_SON" /\ toArda = <<>>
          /\ fromArda \in {<<List>>, <<List, Bye>>} /\ (Refusing => arda = "open")
       \/ heard = "NEW_SON" /\ fromArda = <<Refusal>> /\ arda = "closed" /\ Refusing

EarlyAnswers ==
  pc[main] \in {"endLock", "endRead"} /\ NoWorkers =>
    \/ NoListDue
    \/ Stuck
    \/ heard = NULL /\ fromArda = <<>> /\ toArda \in {<<"NEW_SON">>, <<"NEW_SON", "EXIT">>}
    \/ /\ heard = "NEW_SON" /\ fromArda \in {<<List>>, <<List, Bye>>}
       /\ toArda \in {<<>>, <<"EXIT">>}
    \/ heard = "EXIT" /\ fromArda = <<List, Bye>>

(* Only main hears a refusal, as the answer to NEW_SON or to EXIT. *)
Refusals ==
  (\E i \in 1..Len(fromArda) : fromArda[i] = Refusal) =>
    /\ Refusing /\ fromArda = <<Refusal>>
    /\ pc[main] = "newSon" \/ (pc[main] = "endRead" /\ Refused)

RefusingOnly ==
  Refusing =>
    /\ stale = {} /\ gone = {} /\ pc[main] \notin {"updateLock", "updateRead"}
    /\ \A w \in Worker : pc[w] \notin EndPlaces \ {"exited"}
    /\ (\E i \in 1..Len(toArda) : toArda[i] = "EXIT") => pc[main] = "endRead"
    /\ arda = "closed" => number # "arda" \/ pc[main] \in {"newSon", "endRead"}

MutexOfMain ==
  mtxFdArda = main =>
    pc[main] \in {"updateRead"} \cup AnyPlaces \/ (Refusing /\ Refused)

Queues == ListsDue /\ ClosedIsLast /\ FirstAnswer /\ EarlyAnswers
Rest   == EndReads /\ Refusals /\ RefusingOnly /\ MutexOfMain
ReplyInv == Queues /\ Rest
AllInv == Inv /\ ReplyInv

LEMMA InitReplies == Init => ReplyInv
<1> SUFFICES ASSUME Init PROVE ReplyInv
  OBVIOUS
<1>1. Queues
  BY SonAssumption DEF Init, Queues, ListsDue, ClosedIsLast, FirstAnswer, EarlyAnswers, AnyPlaces,
      EndPlaces, Thread
<1>2. Rest
  BY SonAssumption
     DEF Init, Rest, EndReads, Refusals, RefusingOnly, MutexOfMain, AnyPlaces, EndPlaces, Thread
<1> QED
  BY <1>1, <1>2 DEF ReplyInv

(* The provers do not know sequences of two by themselves. *)
LEMMA AppendToOne ==
  ASSUME NEW T, NEW a \in T, NEW b \in T
  PROVE  Append(<<a>>, b) = <<a, b>>
<1> DEFINE s == Append(<<a>>, b)
<1>1. <<a>> \in Seq(T) /\ <<a, b>> \in Seq(T)
  OBVIOUS
<1>2. s \in Seq(T) /\ Len(s) = Len(<<a, b>>) /\ \A i \in 1..Len(s) : s[i] = <<a, b>>[i]
  BY <1>1
<1> HIDE DEF s
<1>3. s = <<a, b>>
  BY <1>1, <1>2, SeqEqual
<1> QED
  BY <1>3 DEF s

(* What reading and writing do to the queues. *)
LEMMA ReadFacts ==
  ASSUME ArdaTyped, NEW p, ReadArda(p), UNCHANGED toArda
  PROVE  /\ \A i \in 1..Len(fromArda') : i \in Nat /\ \E j \in 1..Len(fromArda) : fromArda'[i] = fromArda[j]
         /\ NoneAsked' <=> NoneAsked
         /\ NoListDue => NoListDue'
<1>1. fromArda \in Seq(Answers) /\ Len(fromArda) \in Nat
  BY DEF ArdaTyped
<1>2. \A i \in 1..Len(fromArda') : i \in Nat /\ \E j \in 1..Len(fromArda) : fromArda'[i] = fromArda[j]
  <2>1. CASE fromArda # <<>> /\ fromArda' = Tail(fromArda)
    <3>1. /\ Len(fromArda') = Len(fromArda) - 1
          /\ \A i \in 1..Len(fromArda') : i + 1 \in 1..Len(fromArda) /\ fromArda'[i] = fromArda[i + 1]
      BY <1>1, <2>1
    <3> QED
      BY <3>1
  <2>2. CASE fromArda' = fromArda
    BY <1>1, <2>2
  <2> QED
    BY <2>1, <2>2 DEF ReadArda
<1> QED
  BY <1>2 DEF NoListDue, NoneAsked

LEMMA WriteFacts ==
  ASSUME ArdaTyped, NEW p \in Requests, WriteArda(p), UNCHANGED fromArda
  PROVE  /\ \A i \in 1..Len(toArda') : toArda'[i] = p \/ \E j \in 1..Len(toArda) : toArda'[i] = toArda[j]
         /\ p \notin ListRequests /\ NoListDue => NoListDue'
<1>1. toArda \in Seq(Requests) /\ Len(toArda) \in Nat
  BY DEF ArdaTyped
<1>2. CASE arda = "open"
  <2>1. toArda' = Append(toArda, p)
    BY <1>2 DEF WriteArda
  <2>2. /\ Len(toArda') = Len(toArda) + 1
        /\ \A i \in 1..Len(toArda') : toArda'[i] = IF i > Len(toArda) THEN p ELSE toArda[i]
    BY <1>1, <2>1
  <2> QED
    BY <1>1, <2>2 DEF NoListDue, NoneAsked
<1>3. CASE toArda' = toArda
  BY <1>3 DEF NoListDue, NoneAsked
<1> QED
  BY <1>2, <1>3 DEF WriteArda

(* A step that leaves the connection alone and moves one thread t, which    *)
(* does not get to, or leave, a place where an answer is awaited.           *)
Waits == {"newSon", "updateRead", "endRead"}

LEMMA WorkerStepReplies ==
  ASSUME AllInv, NEW w \in Worker, pc[w] # "none",
         NEW l \in WorkerPlaces \ {"none"}, Goto(w, l),
         UNCHANGED <<arda, toArda, fromArda, heard, stale, gone, fdArda>>,
         mtxFdArda' = mtxFdArda \/ (mtxFdArda = NULL /\ mtxFdArda' = w),
         number' = number \/ (number # "arda" /\ number' # "arda")
  PROVE  ReplyInv'
<1>1. /\ pc' = [pc EXCEPT ![w] = l] /\ pc'[main] = pc[main] /\ w # main
      /\ \A u \in Thread : pc'[u] = IF u = w THEN l ELSE pc[u]
      /\ pc[main] # "newSon" /\ ~NoWorkers /\ ~NoWorkers'
      /\ l \notin EndPlaces \cup Waits /\ main # NULL
  BY SonAssumption DEF AllInv, Inv, Types, PcTyped, NumberKept, Goto, Thread, WorkerPlaces,
     AnyPlaces, EndPlaces, Waits, NoWorkers
<1>2. NoListDue' <=> NoListDue
  BY DEF NoListDue, NoneAsked
<1>3. Queues'
  BY <1>1, <1>2 DEF AllInv, ReplyInv, Queues, ListsDue, OneListDue, NoneAsked, Stuck, Early, ClosedIsLast,
     FirstAnswer, EarlyAnswers
<1>4. Rest'
  BY <1>1 DEF AllInv, ReplyInv, Rest, EndReads, Refusals, Refused, RefusingOnly, MutexOfMain,
              Waits, AnyPlaces, EndPlaces, Thread
<1> QED
  BY <1>3, <1>4 DEF ReplyInv

(* A signal.  It may find main waiting, and an answer will never be read,   *)
(* or will be by end().                                                     *)
LEMMA FaultReplies ==
  ASSUME AllInv, ~Refusing, NEW t \in Thread, pc[t] \notin {"none", "exited", "jammed"}, Fault(t)
  PROVE  ReplyInv'
<1>1. PICK l \in {"endLock", "endRun"} :
        /\ pc' = [pc EXCEPT ![t] = l] /\ (l = "endRun" <=> ~fdArda)
        /\ \A u \in Thread : pc'[u] = IF u = t THEN l ELSE pc[u]
  BY DEF AllInv, Inv, Types, PcTyped, Fault, EnterEnd, Goto
<1>2. main \in Thread /\ main \notin Worker /\ main # NULL /\ Worker \subseteq Thread
  BY SonAssumption DEF Thread
<1>3. UNCHANGED <<arda, toArda, fromArda, heard, stale, gone, mtxFdArda, fdArda, number>>
  BY DEF Fault, ardaVars, fdVars
<1>4. /\ NoListDue' <=> NoListDue
      /\ NoWorkers' => NoWorkers
  BY <1>1, <1>2, <1>3 DEF NoListDue, NoneAsked, NoWorkers
<1>5. ClosedIsLast' /\ FirstAnswer' /\ Rest'
  BY <1>1, <1>2, <1>3, <1>4
     DEF AllInv, ReplyInv, Queues, Rest, ClosedIsLast, FirstAnswer, EndReads, Refusals, RefusingOnly, MutexOfMain,
         AnyPlaces, EndPlaces, Refused
<1>6. CASE t = main
  <2>1. pc'[main] = l
    BY <1>1, <1>2, <1>6
  <2>2. CASE pc[main] \in {"updateRead", "endRead"}
    <3>1. Stuck'
      BY <1>1, <1>2, <1>3, <2>1, <2>2 DEF AllInv, Inv, ExchangesExclusive, InExchange, Stuck
    <3> QED
      BY <1>5, <3>1 DEF ReplyInv, Queues, ListsDue, EarlyAnswers
  <2>3. CASE NoListDue
    BY <1>4, <1>5, <2>3 DEF ReplyInv, Queues, ListsDue, EarlyAnswers
  <2>4. CASE pc[main] = "newSon" /\ ~NoListDue
    <3>1. NoWorkers
      BY <2>4 DEF AllInv, Inv, NumberKept, NoWorkers
    <3>2. NoWorkers' /\ Early'
      BY <1>1, <1>2, <1>6, <2>1, <3>1 DEF NoWorkers, Early, AnyPlaces, EndPlaces
    <3>3. \/ heard = NULL /\ fromArda = <<>> /\ toArda = <<"NEW_SON">>
          \/ heard = "NEW_SON" /\ fromArda \in {<<List>>, <<List, Bye>>} /\ toArda = <<>>
      BY <2>4 DEF AllInv, ReplyInv, Queues, FirstAnswer, ClosedIsLast, NoListDue, NoneAsked
    <3>4. EarlyAnswers'
      BY <1>3, <3>3 DEF EarlyAnswers
    <3> QED
      BY <1>5, <3>2, <3>4 DEF ReplyInv, Queues, ListsDue, Refusing
  <2>5. CASE Stuck
    <3>1. Stuck'
      BY <1>3, <2>1, <2>5 DEF Stuck
    <3> QED
      BY <1>5, <3>1 DEF ReplyInv, Queues, ListsDue, EarlyAnswers
  <2>6. CASE Early /\ ~NoListDue /\ pc[main] \notin {"endRead"} /\ ~Stuck
    <3>1. NoWorkers' /\ Early'
      BY <1>1, <1>2, <1>6, <2>1, <2>6 DEF NoWorkers, Early, AnyPlaces, EndPlaces
    <3>2. pc'[main] = "endLock" => pc[main] = "endLock"
      BY <1>1, <1>2, <1>6, <2>1, <2>6 DEF Early, AnyPlaces, EndPlaces, AllInv, ReplyInv, Rest, EndReads
    <3>3. EarlyAnswers'
      BY <1>3, <2>1, <2>6, <3>2 DEF Early, EarlyAnswers, AllInv, ReplyInv, Queues
    <3> QED
      BY <1>5, <3>1, <3>3 DEF ReplyInv, Queues, ListsDue, Refusing
  <2> QED
    BY <2>2, <2>3, <2>4, <2>5, <2>6 DEF AllInv, ReplyInv, Queues, ListsDue
<1>7. CASE t \in Worker
  <2>1. ~NoWorkers /\ ~NoWorkers' /\ pc'[main] = pc[main]
    BY <1>1, <1>2, <1>7 DEF NoWorkers
  <2> QED
    BY <1>3, <1>4, <1>5, <2>1
       DEF AllInv, ReplyInv, Queues, ListsDue, OneListDue, NoneAsked, Stuck, Early, EarlyAnswers
<1> QED
  BY <1>6, <1>7 DEF Thread

LEMMA SessionReplies ==
  ASSUME AllInv, NEW w \in Worker,
         \/ ConnectFails(w) \/ ConnectAndSend(w) \/ MsgAnswered(w) \/ CheckAnswered(w) \/ TellLock(w)
         \/ ReceiveMsg(w) \/ ReceiveFile(w) \/ SendData(w) \/ ReceiveData(w)
  PROVE  ReplyInv'
<1>1. PICK l \in WorkerPlaces \ {"none"} : Goto(w, l) /\ pc[w] # "none"
  BY DEF ConnectFails, ConnectAndSend, MsgAnswered, CheckAnswered, TellLock, ReceiveMsg, ReceiveFile,
     SendData, ReceiveData, ToConnect, WorkerPlaces, Goto, AllInv, Inv, Types, PcTyped
<1>2. /\ UNCHANGED <<arda, toArda, fromArda, heard, stale, gone, fdArda>>
      /\ mtxFdArda' = mtxFdArda \/ (mtxFdArda = NULL /\ mtxFdArda' = w)
  BY DEF ConnectFails, ConnectAndSend, MsgAnswered, CheckAnswered, TellLock, ReceiveMsg, ReceiveFile,
     SendData, ReceiveData, WorkerStays, ardaVars, fdVars
<1>3. number' = number \/ (number # "arda" /\ number' # "arda")
  BY SonAssumption
     DEF ConnectFails, ConnectAndSend, MsgAnswered, CheckAnswered, TellLock, ReceiveMsg, ReceiveFile,
     SendData, ReceiveData, GetDescriptor, CloseDescriptor, fdVars
<1> QED
  BY <1>1, <1>2, <1>3, WorkerStepReplies

LEMMA TellReplies ==
  ASSUME AllInv, NEW w \in Worker, Tell(w)
  PROVE  ReplyInv'
<1>1. /\ mtxFdArda = w /\ w # main /\ main # NULL /\ pc[main] \notin Waits /\ ~NoWorkers
      /\ \A u \in Thread : pc'[u] = IF u = w THEN "ended" ELSE pc[u]
  BY SonAssumption DEF AllInv, Inv, Types, PcTyped, ExchangesExclusive, InExchange, NumberKept, NoWorkers,
     Tell, Goto, Waits, Thread
<1>2. ~NoWorkers' /\ pc'[main] = pc[main]
  BY <1>1 DEF NoWorkers, Thread
<1>3. NoListDue
  BY <1>1 DEF AllInv, ReplyInv, Queues, ListsDue, Stuck, Early, Waits
<1>4. /\ NoListDue'
      /\ \A i \in 1..Len(toArda') : toArda'[i] = "NEW_MSG" \/ \E j \in 1..Len(toArda) : toArda'[i] = toArda[j]
  <2>1. CASE WriteArda("NEW_MSG")
    BY <1>3, <2>1, WriteFacts DEF Tell, AllInv, Inv, Types, Requests, ListRequests
  <2>2. CASE toArda' = toArda
    BY <1>3, <2>2 DEF Tell, NoListDue, NoneAsked
  <2> QED
    BY <2>1, <2>2 DEF Tell
<1>5. Queues'
  BY <1>1, <1>2, <1>4 DEF AllInv, ReplyInv, Queues, ListsDue, ClosedIsLast, FirstAnswer, EarlyAnswers,
     Tell, WriteArda, Waits
<1>6. Rest'
  BY <1>1, <1>2, <1>4 DEF AllInv, ReplyInv, Rest, EndReads, Refusals, Refused, RefusingOnly, MutexOfMain,
     Tell, WorkerStays, Waits, AnyPlaces, EndPlaces, Thread
<1> QED
  BY <1>5, <1>6 DEF ReplyInv

-----------------------------------------------------------------------------
(* The main thread, idle or back from its work: nothing is due.             *)
LEMMA MainStepReplies ==
  ASSUME AllInv, NoListDue, NEW l \in (MainPlaces \cup EndPlaces) \ (Waits \cup {"endJoin", "exited"}),
         pc[main] \notin Waits,
         \A w \in Worker : pc'[w] = pc[w] \/ pc'[w] = "start",
         pc'[main] = l,
         l = "endRun" => ~fdArda,
         l = "updateLock" => ~Refusing,
         mtxFdArda = main => l \in EndPlaces \/ (Refusing /\ Refused),
         UNCHANGED <<arda, toArda, fromArda, heard, stale, gone, fdArda, mtxFdArda>>,
         number' = number \/ (number # "arda" /\ number' # "arda")
  PROVE  ReplyInv'
<1>1. main \notin Worker /\ main # NULL
  BY SonAssumption DEF Thread
<1>2. NoListDue'
  BY DEF NoListDue, NoneAsked
<1>3. Queues'
  BY <1>1, <1>2 DEF AllInv, ReplyInv, Queues, ListsDue, ClosedIsLast, FirstAnswer, EarlyAnswers, Waits
<1>4. Rest'
  BY <1>1 DEF AllInv, ReplyInv, Rest, EndReads, Refusals, Refused, RefusingOnly, MutexOfMain,
     Waits, AnyPlaces, EndPlaces, Thread
<1> QED
  BY <1>3, <1>4 DEF ReplyInv

(* Where main is when it is not waiting or ending. *)
LEMMA LoopFacts ==
  ASSUME AllInv, pc[main] \notin AnyPlaces \cup Waits
  PROVE  /\ NoListDue
         /\ mtxFdArda = main => Refusing /\ Refused
         /\ ~(\E i \in 1..Len(fromArda) : fromArda[i] = Refusal)
BY DEF AllInv, ReplyInv, Queues, Rest, ListsDue, Stuck, Early, MutexOfMain, Refusals, Waits, AnyPlaces,
    EndPlaces

LEMMA MainLoopReplies ==
  ASSUME AllInv,
         \/ SelectArda \/ SelectUpdate \/ SelectSocket \/ UserExit \/ Register
         \/ \E w \in Worker : PrepareSend(w) \/ FirstPacket(w)
  PROVE  ReplyInv'
<1>1. main \in Thread /\ main \notin Worker /\ Worker \subseteq Thread
  BY SonAssumption DEF Thread
<1>2. pc[main] \in {"select", "register", "firstPacket"}
  BY DEF SelectArda, SelectUpdate, SelectSocket, UserExit, Register, PrepareSend, FirstPacket, MainGoes, Idle
<1>3. NoListDue /\ (mtxFdArda = main => Refusing /\ Refused)
  BY <1>2, LoopFacts DEF Waits, AnyPlaces, EndPlaces
<1>4. UNCHANGED <<arda, toArda, fromArda, heard, stale, gone, fdArda, mtxFdArda>>
  BY DEF SelectArda, SelectUpdate, SelectSocket, UserExit, Register, PrepareSend, FirstPacket, MainGoes,
     pthread_create, ardaVars, fdVars
<1>5. number' = number \/ (number # "arda" /\ number' # "arda")
  BY SonAssumption DEF SelectArda, SelectUpdate, SelectSocket, UserExit, Register, PrepareSend, FirstPacket,
     MainGoes, GetDescriptor, fdVars
<1>6. /\ \A w \in Worker : pc'[w] = pc[w] \/ pc'[w] = "start"
      /\ pc'[main] \in {"checkLock", "updateLock", "firstPacket", "endLock", "endRun", "register", "select", "deaf"}
      /\ pc'[main] = "endRun" => ~fdArda
      /\ pc'[main] = "updateLock" => ~Refusing
  BY <1>1, SonAssumption
     DEF SelectArda, SelectUpdate, SelectSocket, UserExit, Register, PrepareSend, FirstPacket, MainGoes,
     pthread_create, Goto, Refusing, AllInv, Inv, Types, PcTyped
<1> QED
  BY <1>2, <1>3, <1>4, <1>5, <1>6, MainStepReplies DEF Waits, MainPlaces, AnyPlaces, EndPlaces

LEMMA PeerGoneReplies ==
  ASSUME AllInv, NEW w \in Worker, PeerGone(w)
  PROVE  ReplyInv'
<1>1. ~Refusing
  BY SonAssumption DEF PeerGone, Refusing
<1> QED
  BY <1>1 DEF AllInv, ReplyInv, Queues, ListsDue, OneListDue, NoListDue, NoneAsked, Stuck, Early, NoWorkers,
     ClosedIsLast, FirstAnswer, EarlyAnswers, Rest, EndReads, Refusals, Refused, RefusingOnly, MutexOfMain,
     PeerGone, ardaVars, fdVars, Refusing

-----------------------------------------------------------------------------
(* end().                                                                   *)
LEMMA EndRunReplies ==
  ASSUME AllInv, NEW t \in Thread, EndRun(t)
  PROVE  ReplyInv'
<1>1. /\ main \in Thread /\ main \notin Worker /\ Worker \subseteq Thread
      /\ pc[t] = "endRun" /\ \A u \in Thread : pc'[u] = IF u = t THEN "endJoin" ELSE pc[u]
  BY SonAssumption DEF EndRun, Goto, AllInv, Inv, Types, PcTyped, Thread
<1>2. UNCHANGED <<arda, toArda, fromArda, heard, stale, gone, fdArda, mtxFdArda, number>>
  BY DEF EndRun, ardaVars, fdVars
<1>3. (NoListDue' <=> NoListDue) /\ (NoWorkers' <=> NoWorkers)
  BY <1>1, <1>2 DEF NoListDue, NoneAsked, NoWorkers
<1>4. Queues'
  BY <1>1, <1>2, <1>3 DEF AllInv, ReplyInv, Queues, ListsDue, OneListDue, NoneAsked, Stuck, Early,
      ClosedIsLast,
     FirstAnswer, EarlyAnswers, AnyPlaces, EndPlaces
<1>5. Rest'
  BY <1>1, <1>2 DEF AllInv, ReplyInv, Rest, EndReads, Refusals, Refused, RefusingOnly, MutexOfMain,
      AnyPlaces, EndPlaces
<1> QED
  BY <1>4, <1>5 DEF ReplyInv

LEMMA EndJoinReplies ==
  ASSUME AllInv, NEW t \in Thread, EndJoin(t) \/ EndAstray(t)
  PROVE  ReplyInv'
<1>1. /\ main \in Thread /\ main \notin Worker /\ Worker \subseteq Thread /\ pc[t] = "endJoin"
      /\ pc'[main] = "exited"
      /\ \A u \in Thread : pc'[u] = pc[u] \/ pc'[u] = "exited"
      /\ \A w \in Worker : pc'[w] = "none" <=> pc[w] = "none"
  BY SonAssumption DEF EndJoin, EndAstray, exit, Thread
<1>2. UNCHANGED <<arda, toArda, fromArda, heard, stale, gone, fdArda, mtxFdArda, number>>
  BY DEF EndJoin, EndAstray, ardaVars, fdVars
<1>3. (NoListDue' <=> NoListDue) /\ (NoWorkers' <=> NoWorkers)
  BY <1>1, <1>2 DEF NoListDue, NoneAsked, NoWorkers
<1>4. ListsDue'
  <2>1. CASE pc[main] = "newSon"
    BY <1>1, <2>1 DEF AllInv, Inv, NumberKept, Thread
  <2>2. CASE pc[main] = "updateRead" \/ (Stuck /\ ~Refusing)
    <3>1. mtxFdArda = main
      BY <1>1, <2>2 DEF AllInv, Inv, ExchangesExclusive, InExchange, Stuck
    <3>2. ~Refusing
      BY <2>2 DEF AllInv, ReplyInv, Rest, RefusingOnly
    <3> QED
      BY <1>1, <1>2, <3>1, <3>2 DEF ListsDue, Stuck, Refusing
  <2>3. CASE Early /\ ~Refusing
    BY <1>1, <1>3, <2>3 DEF ListsDue, Early, AnyPlaces, EndPlaces, Refusing
  <2> QED
    BY <1>3, <2>1, <2>2, <2>3 DEF ListsDue, AllInv, ReplyInv, Queues
<1>5. ClosedIsLast' /\ FirstAnswer' /\ EarlyAnswers'
  BY <1>1, <1>2 DEF AllInv, ReplyInv, Queues, ClosedIsLast, FirstAnswer, EarlyAnswers
<1>6. Refusing => t = main
  BY <1>1 DEF AllInv, ReplyInv, Rest, RefusingOnly, AnyPlaces, EndPlaces, Thread
<1>7. Rest'
  BY <1>1, <1>2, <1>6 DEF AllInv, ReplyInv, Rest, EndReads, Refusals, Refused, RefusingOnly,
      MutexOfMain, AnyPlaces, EndPlaces
<1> QED
  BY <1>4, <1>5, <1>7 DEF ReplyInv, Queues

(* EXIT is written. *)
LEMMA EndWriteReplies ==
  ASSUME AllInv, NEW t \in Thread, pc[t] = "endLock", mtxFdArda = NULL,
         WriteArda("EXIT"), mtxFdArda' = t, Goto(t, "endRead"),
         UNCHANGED <<fdArda, number, arda, fromArda, heard, stale, gone>>
  PROVE  ReplyInv'
<1>1. /\ main \in Thread /\ main \notin Worker /\ Worker \subseteq Thread /\ NULL \notin Thread
      /\ pc[t] = "endLock" /\ mtxFdArda = NULL
      /\ fdArda /\ number = "arda"
      /\ \A u \in Thread : pc'[u] = IF u = t THEN "endRead" ELSE pc[u]
      /\ UNCHANGED <<fdArda, number, arda, fromArda, heard, stale, gone>>
  BY SonAssumption DEF WriteArda, Goto, AllInv, Inv, Types, PcTyped, Thread, NumberKept
<1>2. (NoWorkers' <=> NoWorkers) /\ ~Stuck /\ pc[main] # "updateRead"
  BY <1>1 DEF NoWorkers, Stuck, AllInv, Inv, ExchangesExclusive, InExchange
<1>3. /\ NoListDue => NoListDue'
      /\ \A i \in 1..Len(toArda') : toArda'[i] = "EXIT" \/ \E j \in 1..Len(toArda) : toArda'[i] = toArda[j]
  BY <1>1, WriteFacts DEF AllInv, Inv, Types, Requests, ListRequests
<1>6. ClosedIsLast'
  <2>1. arda = "closed" => toArda' = toArda
    BY DEF WriteArda
  <2> QED
    BY <1>1, <2>1 DEF AllInv, ReplyInv, Queues, ClosedIsLast
<1>4. CASE t = main
  <2>1. pc'[main] = "endRead" /\ pc[main] = "endLock"
    BY <1>1, <1>4
  <2>2. ListsDue'
    BY <1>2, <1>3, <2>1 DEF ListsDue, Early, AnyPlaces, EndPlaces, Refusing, AllInv, ReplyInv, Queues
  <2>3. EarlyAnswers'
    <3>1. CASE NoListDue
      BY <1>3, <3>1 DEF EarlyAnswers
    <3>2. ASSUME ~NoListDue, NoWorkers
          PROVE  EarlyAnswers'
      <4>1. ~ExitWritten
        BY <1>1 DEF AllInv, Inv, ExitGuarded, WriteArda
      <4>2. \/ heard = NULL /\ fromArda = <<>> /\ toArda = <<"NEW_SON">>
            \/ heard = "NEW_SON" /\ fromArda \in {<<List>>, <<List, Bye>>} /\ toArda = <<>>
        <5>1. toArda # <<"NEW_SON", "EXIT">> /\ toArda # <<"EXIT">> /\ heard # "EXIT"
          BY <4>1 DEF ExitWritten
        <5> QED
          BY <1>2, <2>1, <3>2, <5>1 DEF EarlyAnswers, AllInv, ReplyInv, Queues
      <4>3. toArda' = toArda \/ toArda' = Append(toArda, "EXIT")
        BY DEF WriteArda
      <4>4. \/ toArda = <<"NEW_SON">> /\ toArda' \in {<<"NEW_SON">>, <<"NEW_SON", "EXIT">>}
            \/ toArda = <<>> /\ toArda' \in {<<>>, <<"EXIT">>}
        <5>1. Append(<<"NEW_SON">>, "EXIT") = <<"NEW_SON", "EXIT">>
          <6>1. "NEW_SON" \in Requests /\ "EXIT" \in Requests
            BY DEF Requests
          <6> QED
            BY <6>1, AppendToOne
        <5>2. Append(<<>>, "EXIT") = <<"EXIT">>
          OBVIOUS
        <5> QED
          BY <4>2, <4>3, <5>1, <5>2
      <4> QED
        BY <1>1, <4>2, <4>4 DEF EarlyAnswers
    <3>3. CASE ~NoWorkers
      BY <1>2, <3>3 DEF EarlyAnswers
    <3> QED
      BY <3>1, <3>2, <3>3
  <2>4. ClosedIsLast' /\ FirstAnswer'
    BY <1>1, <1>6, <2>1 DEF FirstAnswer
  <2>5. Rest'
    BY <1>1, <1>3, <1>4, <2>1 DEF AllInv, ReplyInv, Rest, EndReads, Refusals, Refused, RefusingOnly,
        MutexOfMain, AnyPlaces, EndPlaces
  <2> QED
    BY <2>2, <2>3, <2>4, <2>5 DEF ReplyInv, Queues
<1>5. CASE t \in Worker
  <2>1. ~NoWorkers /\ ~NoWorkers' /\ pc'[main] = pc[main] /\ pc[main] # "newSon" /\ t # main
    BY <1>1, <1>5 DEF NoWorkers, AllInv, Inv, NumberKept
  <2>2. NoListDue'
    BY <1>2, <1>3, <2>1 DEF ListsDue, Early, AllInv, ReplyInv, Queues
  <2>3. ~Refusing
    BY <1>1, <1>5 DEF AllInv, ReplyInv, Rest, RefusingOnly, AnyPlaces, EndPlaces
  <2>4. Queues'
    BY <1>1, <1>6, <2>1, <2>2 DEF AllInv, ReplyInv, Queues, ListsDue, FirstAnswer, EarlyAnswers
  <2>5. Rest'
    BY <1>1, <1>5, <2>1, <2>3 DEF AllInv, ReplyInv, Rest, EndReads, Refusals, RefusingOnly,
        MutexOfMain, Refusing
  <2> QED
    BY <2>4, <2>5 DEF ReplyInv
<1> QED
  BY <1>4, <1>5 DEF Thread

(* It is not: the descriptor is closed, or the pipe is broken. *)
LEMMA EndNotWritten ==
  ASSUME AllInv, NEW t \in Thread, pc[t] = "endLock", mtxFdArda = NULL,
         UNCHANGED <<number, toArda, arda, fromArda, heard, stale, gone>>,
         \/ number # "arda" /\ fdArda' = FALSE /\ Goto(t, "endRun") /\ UNCHANGED mtxFdArda
         \/ fdArda /\ fdArda' = fdArda /\ Goto(t, "endLock") /\ mtxFdArda' = t
  PROVE  ReplyInv'
<1>1. /\ main \in Thread /\ main \notin Worker /\ Worker \subseteq Thread /\ NULL \notin Thread
      /\ \A u \in Thread : pc[u] # "endRead" /\ (u # t => pc'[u] = pc[u])
      /\ pc'[t] \in {"endRun", "endLock"} /\ (pc'[t] = "endLock" => mtxFdArda' = t /\ fdArda')
      /\ pc'[t] = "endRun" => number # "arda" /\ ~fdArda' /\ mtxFdArda' = NULL
      /\ pc[main] # "updateRead" /\ ~Stuck
  BY SonAssumption DEF Goto, AllInv, Inv, Types, PcTyped, Thread, ExchangesExclusive, InExchange, Stuck
<1>2. (NoListDue' <=> NoListDue) /\ (NoWorkers' <=> NoWorkers)
  BY <1>1 DEF NoListDue, NoneAsked, NoWorkers
<1>3. pc[main] = "newSon" => t = main
  BY <1>1 DEF AllInv, Inv, NumberKept, Thread
<1>4. Queues'
  BY <1>1, <1>2, <1>3 DEF AllInv, ReplyInv, Queues, ListsDue, Stuck, Early, ClosedIsLast,
     FirstAnswer, EarlyAnswers, AnyPlaces, EndPlaces, Refusing
<1>5. t \in Worker => ~Refusing
  BY DEF AllInv, ReplyInv, Rest, RefusingOnly, AnyPlaces, EndPlaces
<1>6. Rest'
  BY <1>1, <1>3, <1>5 DEF AllInv, ReplyInv, Rest, EndReads, Refusals, Refused, RefusingOnly, MutexOfMain,
     AnyPlaces, EndPlaces, Thread
<1> QED
  BY <1>4, <1>6 DEF ReplyInv

LEMMA EndWritesReplies ==
  ASSUME AllInv, NEW t \in Thread, EndWrite(t)
  PROVE  ReplyInv'
<1>1. /\ pc[t] = "endLock" /\ mtxFdArda = NULL
      /\ UNCHANGED <<arda, fromArda, heard, stale, gone>>
  BY DEF EndWrite
<1>2. CASE WriteArda("EXIT") /\ mtxFdArda' = t /\ Goto(t, "endRead") /\ UNCHANGED <<fdArda, number>>
  BY <1>1, <1>2, EndWriteReplies
<1>3. CASE number # "arda" /\ fdArda' = FALSE /\ Goto(t, "endRun") /\ UNCHANGED <<mtxFdArda, number, toArda>>
  BY <1>1, <1>3, EndNotWritten
<1>4. CASE BrokenPipe /\ mtxFdArda' = t /\ EnterEnd(t) /\ UNCHANGED <<fdArda, number, toArda>>
  <2>1. fdArda
    BY <1>4 DEF BrokenPipe, AllInv, Inv, NumberKept
  <2> QED
    BY <1>1, <1>4, <2>1, EndNotWritten DEF EnterEnd
<1> QED
  BY <1>2, <1>3, <1>4 DEF EndWrite

(* The answer to EXIT, or what is taken for it. *)
LEMMA EndAnsweredReplies ==
  ASSUME AllInv, NEW t \in Thread, EndAnswered(t)
  PROVE  ReplyInv'
<1>1. /\ main \in Thread /\ main \notin Worker /\ Worker \subseteq Thread /\ NULL \notin Thread
      /\ pc[t] = "endRead" /\ mtxFdArda = t /\ fdArda /\ number = "arda"
      /\ \A u \in Thread : pc'[u] = IF u = t THEN "endRun" ELSE pc[u]
      /\ \A u \in Thread : pc'[u] # "endRead"
      /\ mtxFdArda' = NULL /\ ~fdArda' /\ number' = "free"
      /\ UNCHANGED <<arda, toArda, heard, stale, gone>>
  BY SonAssumption DEF EndAnswered, CloseArda, Goto, AllInv, Inv, Types, PcTyped, Thread,
     ExchangesExclusive, InExchange, ReplyInv, Rest, EndReads
<1>2. PICK p \in {List, Bye, NULL} : ReadArda(p)
  BY DEF EndAnswered
<1>3. /\ \A i \in 1..Len(fromArda') : \E j \in 1..Len(fromArda) : fromArda'[i] = fromArda[j]
      /\ NoListDue => NoListDue'
  BY <1>1, <1>2, ReadFacts DEF AllInv, Inv, Types
<1>4. (NoWorkers' <=> NoWorkers) /\ ~Stuck /\ pc[main] # "updateRead"
  BY <1>1 DEF NoWorkers, Stuck, AllInv, Inv, ExchangesExclusive, InExchange
<1>5. pc[main] # "newSon" /\ pc'[main] # "newSon"
  BY <1>1 DEF AllInv, Inv, NumberKept, Thread
<1>6. t # main => ~NoWorkers
  BY <1>1 DEF NoWorkers, Thread
<1>7. Queues'
  <2>1. ListsDue'
    BY <1>1, <1>3, <1>4, <1>5, <1>6
       DEF AllInv, ReplyInv, Queues, ListsDue, Early, AnyPlaces, EndPlaces, Refusing
  <2>2. EarlyAnswers'
    BY <1>1, <1>4, <1>6 DEF EarlyAnswers
  <2>3. ClosedIsLast'
    BY <1>1, <1>3 DEF AllInv, ReplyInv, Queues, ClosedIsLast
  <2> QED
    BY <1>5, <2>1, <2>2, <2>3 DEF Queues, FirstAnswer
<1>8. ~\E i \in 1..Len(fromArda') : fromArda'[i] = Refusal
  <2> SUFFICES ASSUME NEW i \in 1..Len(fromArda'), fromArda'[i] = Refusal
               PROVE  FALSE
    OBVIOUS
  <2>1. fromArda = <<Refusal>>
    BY <1>3 DEF AllInv, ReplyInv, Rest, Refusals
  <2>2. p = Refusal
    BY <1>1, <1>2, <2>1 DEF ReadArda
  <2> QED
    BY <2>2, SonAssumption DEF List, Bye, Refusal
<1>9. t \in Worker => ~Refusing
  BY <1>1 DEF AllInv, ReplyInv, Rest, RefusingOnly, AnyPlaces, EndPlaces
<1>10. Refusing => toArda = <<>>
  <2>1. Refusing => NoListDue
    BY <1>4, <1>5 DEF AllInv, ReplyInv, Queues, ListsDue
  <2>2. CASE fromArda # <<>> /\ p = Head(fromArda)
    <3>1. fromArda \in Seq(Answers) /\ 1 \in 1..Len(fromArda) /\ fromArda[1] = p
      BY <2>2 DEF AllInv, Inv, Types, ArdaTyped
    <3>2. p # NULL
      BY <3>1, SonAssumption DEF Answers, List, Bye, Refusal
    <3>3. p = Bye \/ ~Refusing
      BY <2>1, <3>1, <3>2 DEF NoListDue
    <3> QED
      BY <3>1, <3>3 DEF AllInv, ReplyInv, Queues, ClosedIsLast
  <2>3. CASE arda = "closed"
    BY <2>3 DEF AllInv, ReplyInv, Queues, ClosedIsLast
  <2> QED
    BY <1>1, <1>2, <2>2, <2>3 DEF ReadArda
<1>11. Rest'
  BY <1>1, <1>8, <1>9, <1>10 DEF AllInv, ReplyInv, Rest, EndReads, Refusals, RefusingOnly, MutexOfMain,
     AnyPlaces, EndPlaces, Refusing, Thread
<1> QED
  BY <1>7, <1>11 DEF ReplyInv

(* CONKO: main goes back to its loop, with the mutex. *)
LEMMA EndRefusedReplies ==
  ASSUME AllInv, EndRefused
  PROVE  ReplyInv'
<1>1. /\ main \in Thread /\ main \notin Worker /\ Worker \subseteq Thread
      /\ pc[main] = "endRead" /\ mtxFdArda = main /\ fdArda /\ number = "arda" /\ main # NULL
      /\ \A u \in Thread : pc'[u] = IF u = main THEN "select" ELSE pc[u]
      /\ UNCHANGED <<arda, toArda, heard, stale, gone, fdArda, mtxFdArda, number>>
  BY SonAssumption DEF EndRefused, Goto, fdVars, AllInv, Inv, Types, PcTyped, Thread,
     ExchangesExclusive, InExchange, ReplyInv, Rest, EndReads
<1>2. fromArda # <<>> /\ Head(fromArda) = Refusal /\ fromArda' = Tail(fromArda)
  BY <1>1, SonAssumption DEF EndRefused, ReadArda, Refusal
<1>3. Refusing /\ Refused /\ fromArda = <<Refusal>>
  <2>1. 1 \in 1..Len(fromArda) /\ fromArda[1] = Refusal
    BY <1>2 DEF AllInv, Inv, Types, ArdaTyped
  <2> QED
    BY <1>1, <2>1 DEF AllInv, ReplyInv, Rest, Refusals
<1>4. fromArda' = <<>>
  BY <1>2, <1>3
<1>5. NoListDue
  BY <1>1, <1>3 DEF AllInv, ReplyInv, Queues, ListsDue
<1>6. NoListDue' /\ toArda = <<>>
  BY <1>1, <1>3, <1>4, <1>5 DEF NoListDue, NoneAsked, Refused, AllInv, Inv, ExitLast
<1>7. Queues'
  BY <1>1, <1>4, <1>6 DEF Queues, ListsDue, ClosedIsLast, FirstAnswer, EarlyAnswers
<1>8. Rest'
  BY <1>1, <1>3, <1>4, <1>6 DEF AllInv, ReplyInv, Rest, EndReads, Refusals, Refused, RefusingOnly,
      MutexOfMain,
     AnyPlaces, EndPlaces, Refusing
<1> QED
  BY <1>7, <1>8 DEF ReplyInv

-----------------------------------------------------------------------------
(* The answers the main thread reads.                                       *)

LEMMA ReadsHead ==
  ASSUME AllInv, fdArda, NEW p, ReadArda(p)
  PROVE  \/ /\ fromArda # <<>> /\ p = Head(fromArda) /\ fromArda' = Tail(fromArda)
            /\ 1 \in 1..Len(fromArda) /\ p = fromArda[1] /\ p # NULL
         \/ fromArda = <<>> /\ arda = "closed" /\ p = NULL /\ fromArda' = fromArda
<1>1. fromArda \in Seq(Answers)
  BY DEF AllInv, Inv, Types, ArdaTyped
<1>2. NULL \notin Answers
  BY SonAssumption DEF Answers, List, Bye, Refusal
<1>3. CASE fromArda # <<>> /\ p = Head(fromArda) /\ fromArda' = Tail(fromArda)
  <2>1. 1 \in 1..Len(fromArda) /\ p = fromArda[1] /\ fromArda[1] \in Answers
    BY <1>1, <1>3
  <2> QED
    BY <1>2, <1>3, <2>1
<1> QED
  BY <1>3 DEF ReadArda

LEMMA NewSonReplies ==
  ASSUME AllInv, NewSonAnswered
  PROVE  ReplyInv'
<1>1. /\ main \in Thread /\ main \notin Worker /\ Worker \subseteq Thread /\ main # NULL
      /\ pc[main] = "newSon" /\ NoWorkers /\ mtxFdArda = NULL /\ fdArda /\ number = "arda"
      /\ \A u \in Thread : u # main => pc'[u] = pc[u] /\ pc[u] = "none"
      /\ UNCHANGED <<arda, toArda, heard, stale, gone, fdArda, mtxFdArda>>
  BY SonAssumption DEF NewSonAnswered, Goto, AllInv, Inv, Types, PcTyped, Thread, NumberKept, NoWorkers,
     ReplyInv, Queues, FirstAnswer
<1>2. PICK p \in {List, Bye, Refusal, NULL} :
        /\ ReadArda(p)
        /\ pc'[main] = IF p = List THEN "select" ELSE "endLock"
        /\ number' = IF p = Refusal THEN "free" ELSE number
  BY <1>1 DEF NewSonAnswered, Goto, AllInv, Inv, Types, PcTyped
<1>3. toArda = <<>>
  BY <1>1, <1>2, ReadsHead DEF AllInv, ReplyInv, Queues, FirstAnswer, ClosedIsLast
<1>4. /\ \A i \in 1..Len(fromArda') : fromArda'[i] = Bye
      /\ Refusing /\ arda = "closed" => number' # "arda"
  <2>1. CASE heard = "NEW_SON" /\ fromArda = <<List>> /\ (Refusing => arda = "open")
    BY <1>1, <1>2, <2>1, ReadsHead
  <2>2. CASE heard = "NEW_SON" /\ fromArda = <<List, Bye>> /\ (Refusing => arda = "open")
    <3>1. /\ Len(Tail(<<List, Bye>>)) = 1 /\ Tail(<<List, Bye>>)[1] = Bye
      OBVIOUS
    <3> QED
      BY <1>1, <1>2, <2>2, <3>1, ReadsHead
  <2>3. CASE fromArda = <<Refusal>>
    BY <1>1, <1>2, <2>3, ReadsHead
  <2>4. CASE fromArda = <<>> /\ ~Refusing
    BY <1>1, <1>2, <2>4, ReadsHead
  <2> QED
    BY <1>1, <1>3, <2>1, <2>2, <2>3, <2>4 DEF AllInv, ReplyInv, Queues, FirstAnswer
<1>5. \A i \in 1..Len(fromArda') : \E j \in 1..Len(fromArda) : fromArda'[i] = fromArda[j]
  BY <1>1, <1>2, ReadFacts DEF AllInv, Inv, Types
<1>6. NoListDue'
  BY <1>1, <1>3, <1>4 DEF NoListDue, NoneAsked, List, Bye
<1>7. Queues'
  BY <1>1, <1>2, <1>5, <1>6 DEF AllInv, ReplyInv, Queues, ListsDue, ClosedIsLast, FirstAnswer, EarlyAnswers
<1>8. ~\E i \in 1..Len(fromArda') : fromArda'[i] = Refusal
  BY <1>4 DEF Bye, Refusal
<1>9. Rest'
  BY <1>1, <1>2, <1>3, <1>4, <1>8 DEF AllInv, ReplyInv, Rest, EndReads, Refusals, RefusingOnly, MutexOfMain,
     AnyPlaces, EndPlaces, Refusing, Thread
<1> QED
  BY <1>7, <1>9 DEF ReplyInv

LEMMA CheckReplies ==
  ASSUME AllInv, checkArdaMessage
  PROVE  ReplyInv'
<1>1. /\ main \in Thread /\ main \notin Worker /\ Worker \subseteq Thread /\ main # NULL
      /\ pc[main] = "checkLock" /\ mtxFdArda = NULL
      /\ \A u \in Thread : u # main => pc'[u] = pc[u]
      /\ \A u \in Thread : pc[u] # "endRead"
      /\ UNCHANGED <<arda, toArda, heard, stale, gone>>
  BY SonAssumption DEF checkArdaMessage, Goto, AllInv, Inv, Types, PcTyped, Thread, ExchangesExclusive,
      InExchange
<1>2. NoListDue /\ ~\E i \in 1..Len(fromArda) : fromArda[i] = Refusal
  BY <1>1, LoopFacts DEF Waits, AnyPlaces, EndPlaces
<1>3. \E p : ReadArda(p)
  BY DEF checkArdaMessage
<1>4. /\ \A i \in 1..Len(fromArda') : \E j \in 1..Len(fromArda) : fromArda'[i] = fromArda[j]
      /\ NoListDue'
  BY <1>1, <1>2, <1>3, ReadFacts DEF AllInv, Inv, Types
<1>5. \/ pc'[main] = "endRun" /\ mtxFdArda' = main /\ ~fdArda' /\ number' # "arda"
      \/ pc'[main] = "select" /\ UNCHANGED <<mtxFdArda, fdArda, number>>
  BY <1>1 DEF checkArdaMessage, CloseArda, Goto, AllInv, Inv, Types, PcTyped, OthersTyped, NumberKept
<1>6. Queues'
  BY <1>1, <1>4, <1>5 DEF AllInv, ReplyInv, Queues, ListsDue, ClosedIsLast, FirstAnswer, EarlyAnswers
<1>7. Rest'
  BY <1>1, <1>2, <1>4, <1>5 DEF AllInv, ReplyInv, Rest, EndReads, Refusals, RefusingOnly, MutexOfMain,
     AnyPlaces, EndPlaces, Refusing, Thread
<1> QED
  BY <1>6, <1>7 DEF ReplyInv

(* The users' list, asked for again.  Between the request and the answer    *)
(* the mutex keeps everybody else away, so the next list is the answer.     *)
LEMMA UpdateFacts ==
  ASSUME AllInv, pc[main] \in {"updateLock", "updateRead"}
  PROVE  /\ ~Refusing
         /\ ~\E i \in 1..Len(fromArda) : fromArda[i] = Refusal
         /\ main \in Thread /\ main \notin Worker /\ Worker \subseteq Thread /\ main # NULL
         /\ pc[main] = "updateLock" => NoListDue
         /\ pc[main] = "updateRead" => (NoListDue \/ OneListDue) /\ mtxFdArda = main
         /\ ~Early
<1>1. main \in Thread /\ main \notin Worker /\ Worker \subseteq Thread /\ main # NULL
  BY SonAssumption DEF Thread
<1>2. ~Refusing /\ ~\E i \in 1..Len(fromArda) : fromArda[i] = Refusal
  BY DEF AllInv, ReplyInv, Rest, Refusals, RefusingOnly
<1>3. ~Stuck /\ ~Early
  BY DEF Stuck, Early, AnyPlaces, EndPlaces
<1> QED
  BY <1>1, <1>2, <1>3 DEF AllInv, Inv, ExchangesExclusive, InExchange, ReplyInv, Queues, ListsDue

LEMMA UpdateRequestReplies ==
  ASSUME AllInv, UpdateRequest
  PROVE  ReplyInv'
<1>1. /\ ~Refusing /\ ~(\E i \in 1..Len(fromArda) : fromArda[i] = Refusal) /\ NoListDue
      /\ main \in Thread /\ main \notin Worker /\ Worker \subseteq Thread /\ main # NULL
  BY UpdateFacts DEF UpdateRequest
<1>2. /\ pc[main] = "updateLock" /\ mtxFdArda = NULL /\ mtxFdArda' = main
      /\ \A u \in Thread : u # main => pc'[u] = pc[u]
      /\ \A u \in Thread : pc[u] # "endRead"
      /\ UNCHANGED <<arda, fromArda, heard, stale, gone, fdArda, number>>
  BY <1>1, SonAssumption DEF UpdateRequest, EnterEnd, Goto, AllInv, Inv, Types, PcTyped,
      ExchangesExclusive, InExchange
<1>3. \/ pc'[main] = "updateRead" /\ WriteArda("LIST_REQUEST")
      \/ pc'[main] = "updateRead" /\ toArda' = toArda
      \/ pc'[main] = "endLock" /\ toArda' = toArda
  <2>1. BrokenPipe => fdArda
    BY DEF BrokenPipe, AllInv, Inv, NumberKept
  <2> QED
    BY <1>1, <2>1 DEF UpdateRequest, EnterEnd, Goto, AllInv, Inv, Types, PcTyped
<1>4. NoListDue' \/ (pc'[main] = "updateRead" /\ OneListDue')
  <2>1. CASE toArda' = toArda
    BY <1>1, <1>2, <2>1 DEF NoListDue, NoneAsked
  <2>2. CASE arda = "open" /\ pc'[main] = "updateRead" /\ toArda' = Append(toArda, "LIST_REQUEST")
    <3>1. toArda \in Seq(Requests) /\ fromArda \in Seq(Answers)
      BY DEF AllInv, Inv, Types, ArdaTyped
    <3>2. /\ Len(toArda') = Len(toArda) + 1 /\ Len(toArda) \in Nat /\ toArda' # <<>>
          /\ \A i \in 1..Len(toArda) : toArda'[i] = toArda[i]
      BY <2>2, <3>1
    <3>3. fromArda = <<>>
      <4>1. \A i \in 1..Len(fromArda) : FALSE
        BY <1>1, <2>2, <3>1 DEF NoListDue, Answers, AllInv, ReplyInv, Queues, ClosedIsLast
      <4> QED
        BY <3>1, <4>1
    <3> QED
      BY <1>1, <1>2, <2>2, <3>2, <3>3 DEF OneListDue, NoListDue, NoneAsked
  <2> QED
    BY <1>3, <2>1, <2>2 DEF WriteArda, AllInv, Inv, Types, ArdaTyped
<1>5. Queues'
  BY <1>1, <1>2, <1>3, <1>4 DEF AllInv, ReplyInv, Queues, ListsDue, ClosedIsLast, FirstAnswer, EarlyAnswers,
     Stuck, WriteArda
<1>6. Rest'
  BY <1>1, <1>2, <1>3 DEF AllInv, ReplyInv, Rest, EndReads, Refusals, RefusingOnly, MutexOfMain,
     AnyPlaces, EndPlaces, Refusing
<1> QED
  BY <1>5, <1>6 DEF ReplyInv

LEMMA UpdateAnsweredReplies ==
  ASSUME AllInv, UpdateAnswered
  PROVE  ReplyInv'
<1>1. /\ ~Refusing /\ ~(\E i \in 1..Len(fromArda) : fromArda[i] = Refusal)
      /\ main \in Thread /\ main \notin Worker /\ Worker \subseteq Thread /\ main # NULL
      /\ NoListDue \/ OneListDue
      /\ mtxFdArda = main
  BY UpdateFacts DEF UpdateAnswered
<1>2. /\ pc'[main] = "select" /\ mtxFdArda' = NULL
      /\ \A u \in Thread : u # main => pc'[u] = pc[u] /\ pc[u] # "endRead"
      /\ UNCHANGED <<arda, toArda, heard, gone, fdArda, number>>
  BY <1>1 DEF UpdateAnswered, Goto, AllInv, Inv, Types, PcTyped, ExchangesExclusive, InExchange
<1>3. fromArda # <<>> /\ Head(fromArda) = List /\ fromArda' = Tail(fromArda)
  BY SonAssumption DEF UpdateAnswered, ReadArda, List
<1>4. fromArda \in Seq(Answers) /\ 1 \in 1..Len(fromArda) /\ fromArda[1] = List
  BY <1>3 DEF AllInv, Inv, Types, ArdaTyped
<1>5. NoneAsked /\ \A i \in 2..Len(fromArda) : fromArda[i] # List
  BY <1>1, <1>3, <1>4 DEF OneListDue, NoListDue
<1>6. \A i \in 1..Len(fromArda') : i + 1 \in 2..Len(fromArda) /\ fromArda'[i] = fromArda[i + 1]
  BY <1>3, <1>4
<1>7. NoListDue'
  BY <1>2, <1>5, <1>6 DEF NoListDue, NoneAsked
<1>8. \A i \in 1..Len(fromArda') : \E j \in 1..Len(fromArda) : fromArda'[i] = fromArda[j]
  BY <1>2, <1>4, <1>6
<1>9. Queues'
  BY <1>1, <1>2, <1>7, <1>8 DEF AllInv, ReplyInv, Queues, ListsDue, ClosedIsLast, FirstAnswer, EarlyAnswers
<1>10. Rest'
  BY <1>1, <1>2, <1>8 DEF AllInv, ReplyInv, Rest, EndReads, Refusals, RefusingOnly, MutexOfMain,
     AnyPlaces, EndPlaces, Refusing
<1> QED
  BY <1>9, <1>10 DEF ReplyInv

LEMMA UpdateFailsReplies ==
  ASSUME AllInv, UpdateFails
  PROVE  ReplyInv'
<1>1. /\ ~Refusing /\ ~(\E i \in 1..Len(fromArda) : fromArda[i] = Refusal)
      /\ main \in Thread /\ main \notin Worker /\ Worker \subseteq Thread /\ main # NULL
      /\ mtxFdArda = main
  BY UpdateFacts DEF UpdateFails
<1>2. /\ pc'[main] \in {"endLock", "endRun"} /\ (pc'[main] = "endRun" => ~fdArda)
      /\ \A u \in Thread : u # main => pc'[u] = pc[u]
      /\ UNCHANGED <<arda, toArda, heard, stale, gone, mtxFdArda, fdArda, number>>
  BY <1>1 DEF UpdateFails, EnterEnd, Goto, fdVars, AllInv, Inv, Types, PcTyped
<1>3. \E p : ReadArda(p)
  BY DEF UpdateFails
<1>4. \A i \in 1..Len(fromArda') : \E j \in 1..Len(fromArda) : fromArda'[i] = fromArda[j]
  BY <1>2, <1>3, ReadFacts DEF AllInv, Inv, Types
<1>5. Stuck'
  BY <1>1, <1>2 DEF Stuck
<1>6. Queues'
  BY <1>1, <1>2, <1>4, <1>5 DEF AllInv, ReplyInv, Queues, ListsDue, ClosedIsLast, FirstAnswer, EarlyAnswers,
     Refusing
<1>7. Rest'
  BY <1>1, <1>2, <1>4 DEF AllInv, ReplyInv, Rest, EndReads, Refusals, RefusingOnly, MutexOfMain,
     AnyPlaces, EndPlaces, Refusing
<1> QED
  BY <1>6, <1>7 DEF ReplyInv
-----------------------------------------------------------------------------
(* Faults: none where Arda may refuse.                                      *)
LEMMA WorkerFaultReplies ==
  ASSUME AllInv, NEW w \in Worker, RecordFaults(w) \/ TellFaults(w) \/ SendFaults(w)
  PROVE  ReplyInv'
<1>1. w \in Thread /\ w # main /\ pc[w] \notin {"none", "exited", "jammed"} /\ Fault(w)
  BY SonAssumption DEF RecordFaults, TellFaults, SendFaults, NeedsRecord, Thread
<1>2. ~Refusing
  <2>1. CASE RecordFaults(w) \/ SendFaults(w)
    BY <2>1 DEF RecordFaults, SendFaults, AllInv, ReplyInv, Rest, RefusingOnly
  <2>2. CASE TellFaults(w)
    <3>1. mtxFdArda = w /\ pc[main] \notin {"newSon", "endRead"}
      BY <1>1, <2>2 DEF TellFaults, AllInv, Inv, ExchangesExclusive, InExchange, NumberKept, Thread
    <3> QED
      BY <2>2, <3>1 DEF TellFaults, BrokenPipe, AllInv, ReplyInv, Rest, RefusingOnly
  <2> QED
    BY <2>1, <2>2
<1> QED
  BY <1>1, <1>2, FaultReplies

LEMMA SignalReplies ==
  ASSUME AllInv, NEW t \in Thread, Signal(t)
  PROVE  ReplyInv'
<1>1. ~Refusing
  BY SonAssumption DEF Signal, Refusing
<1> QED
  BY <1>1, FaultReplies DEF Signal

(* A handler that waits for its own thread: if it is main's, nobody will     *)
(* read the answer that main was waiting for.                               *)
LEMMA JamReplies ==
  ASSUME AllInv, NEW t \in Thread, SignalJams(t)
  PROVE  ReplyInv'
<1>1. /\ ~Refusing /\ pc[t] # "none" /\ main \in Thread /\ main \notin Worker /\ main # NULL /\ Worker \subseteq Thread
      /\ \A u \in Thread : pc'[u] = IF u = t THEN "jammed" ELSE pc[u]
      /\ UNCHANGED <<arda, toArda, fromArda, heard, stale, gone, fdArda, mtxFdArda, number>>
  BY SonAssumption DEF SignalJams, Goto, Refusing, AllInv, Inv, Types, PcTyped, Thread, ardaVars, fdVars
<1>2. (NoListDue' <=> NoListDue) /\ (NoWorkers' <=> NoWorkers)
  BY <1>1 DEF NoListDue, NoneAsked, NoWorkers
<1>3. ClosedIsLast' /\ FirstAnswer' /\ EarlyAnswers' /\ Rest'
  BY <1>1, <1>2 DEF AllInv, ReplyInv, Queues, ClosedIsLast, FirstAnswer, EarlyAnswers, Rest, EndReads,
      Refusals,
     RefusingOnly, MutexOfMain, AnyPlaces, NoListDue, NoneAsked, Stuck, Refusing
<1>4. ListsDue'
  <2>1. CASE t = main /\ (pc[main] = "updateRead" \/ Stuck)
    <3>1. Stuck'
      BY <1>1, <2>1 DEF AllInv, Inv, ExchangesExclusive, InExchange, Stuck
    <3> QED
      BY <1>1, <3>1 DEF ListsDue, Refusing
  <2>2. CASE t = main /\ (pc[main] = "newSon" \/ Early)
    <3>1. NoWorkers
      BY <2>2 DEF AllInv, Inv, NumberKept, NoWorkers, Early
    <3>2. Early'
      BY <1>1, <1>2, <2>2, <3>1 DEF Early, AnyPlaces
    <3> QED
      BY <1>1, <3>2 DEF ListsDue, Refusing
  <2>3. CASE t # main
    BY <1>1, <1>2, <2>3 DEF AllInv, ReplyInv, Queues, ListsDue, OneListDue, NoneAsked, Stuck, Early, Refusing
  <2> QED
    BY <1>2, <2>1, <2>2, <2>3 DEF AllInv, ReplyInv, Queues, ListsDue
<1> QED
  BY <1>3, <1>4 DEF ReplyInv, Queues

-----------------------------------------------------------------------------
(* Arda.                                                                    *)
LEMMA AnswerFacts ==
  ASSUME AllInv, arda = "open", toArda # <<>>
  PROVE  /\ 1 \in 1..Len(toArda) /\ Head(toArda) = toArda[1] /\ Len(toArda) \in Nat /\ toArda \in Seq(Requests)
         /\ Head(toArda) = "EXIT" => toArda = <<"EXIT">>
         /\ heard # "EXIT" /\ ~Refused
         /\ ~\E i \in 1..Len(fromArda) : fromArda[i] \in {Bye, Refusal}
         /\ Len(Tail(toArda)) = Len(toArda) - 1
         /\ \A i \in 1..Len(Tail(toArda)) : i + 1 \in 2..Len(toArda) /\ Tail(toArda)[i] = toArda[i + 1]
<1>1. toArda \in Seq(Requests)
  BY DEF AllInv, Inv, Types, ArdaTyped
<1>2. 1 \in 1..Len(toArda) /\ Head(toArda) = toArda[1] /\ Len(toArda) \in Nat
  BY <1>1
<1>3. Head(toArda) = "EXIT" => toArda = <<"EXIT">>
  <2> SUFFICES ASSUME Head(toArda) = "EXIT" PROVE toArda = <<"EXIT">>
    OBVIOUS
  <2>1. Len(toArda) = 1
    <3>1. 1 \notin 1..Len(toArda) - 1
      BY <1>2 DEF AllInv, Inv, ExitLast
    <3>2. \A n \in Nat : 1 \in 1..n /\ 1 \notin 1..n - 1 => n = 1
      OBVIOUS
    <3> QED
      BY <1>2, <3>1, <3>2, Zenon
  <2>2. <<"EXIT">> \in Seq(Requests) /\ Len(<<"EXIT">>) = 1 /\ <<"EXIT">>[1] = "EXIT"
    BY DEF Requests
  <2>3. Len(toArda) = Len(<<"EXIT">>) /\ \A i \in 1..Len(toArda) : toArda[i] = <<"EXIT">>[i]
    BY <1>2, <2>1, <2>2
  <2> QED
    BY <1>1, <2>2, <2>3, SeqEqual
<1>4. heard # "EXIT"
  BY DEF AllInv, Inv, ExitLast
<1>5. ~\E i \in 1..Len(fromArda) : fromArda[i] \in {Bye, Refusal}
  <2>1. ~\E i \in 1..Len(fromArda) : fromArda[i] = Bye
    BY DEF AllInv, ReplyInv, Queues, ClosedIsLast
  <2>2. ~\E i \in 1..Len(fromArda) : fromArda[i] = Refusal
    <3> SUFFICES ASSUME \E i \in 1..Len(fromArda) : fromArda[i] = Refusal PROVE FALSE
      OBVIOUS
    <3>1. fromArda = <<Refusal>> /\ pc[main] = "newSon"
      BY <1>4 DEF AllInv, ReplyInv, Rest, Refusals, Refused
    <3>2. fromArda # <<>> /\ fromArda # <<List>> /\ fromArda # <<List, Bye>>
      BY <3>1 DEF List, Refusal
    <3> QED
      BY <3>1, <3>2 DEF AllInv, ReplyInv, Queues, FirstAnswer
  <2> QED
    BY <2>1, <2>2
<1> QED
  BY <1>1, <1>2, <1>3, <1>4, <1>5 DEF Refused

LEMMA AppendFacts ==
  ASSUME ArdaTyped, NEW a \in Answers, fromArda' = Append(fromArda, a)
  PROVE  /\ Len(fromArda) \in Nat /\ Len(fromArda') = Len(fromArda) + 1 /\ fromArda' # <<>>
         /\ \A i \in 1..Len(fromArda') :
              i \in Nat /\ fromArda'[i] = IF i > Len(fromArda) THEN a ELSE fromArda[i]
         /\ fromArda = <<>> => fromArda' = <<a>>
         /\ fromArda # <<>> => Head(fromArda') = Head(fromArda)
         /\ fromArda = <<List>> => fromArda' = <<List, a>>
<1>1. fromArda \in Seq(Answers)
  BY DEF ArdaTyped
<1>2. List \in Answers
  BY DEF Answers
<1>3. fromArda = <<List>> => fromArda' = <<List, a>>
  BY <1>2, AppendToOne
<1>4. /\ Len(fromArda) \in Nat /\ Len(fromArda') = Len(fromArda) + 1 /\ fromArda' # <<>>
      /\ \A i \in 1..Len(fromArda') :
           i \in Nat /\ fromArda'[i] = IF i > Len(fromArda) THEN a ELSE fromArda[i]
      /\ fromArda' \in Seq(Answers)
  BY <1>1
<1>5. fromArda = <<>> => fromArda' = <<a>>
  OBVIOUS
<1>6. fromArda # <<>> => Head(fromArda') = Head(fromArda)
  BY <1>1, <1>4
<1> QED
  BY <1>3, <1>4, <1>5, <1>6

(* The users' list. *)
LEMMA ListAnswerReplies ==
  ASSUME AllInv, arda = "open", toArda # <<>>, Head(toArda) \in ListRequests,
         heard' = Head(toArda), fromArda' = Append(fromArda, List), toArda' = Tail(toArda), arda' = arda,
         UNCHANGED <<threadVars, fdVars>>
  PROVE  ReplyInv'
<1>1. /\ 1 \in 1..Len(toArda) /\ Head(toArda) = toArda[1] /\ ~NoListDue /\ heard # "EXIT" /\ ~Refused
      /\ ~\E i \in 1..Len(fromArda) : fromArda[i] \in {Bye, Refusal}
      /\ Len(toArda) \in Nat
      /\ Len(toArda') = Len(toArda) - 1
      /\ \A i \in 1..Len(toArda') : \E j \in 1..Len(toArda) : toArda'[i] = toArda[j]
  <2>1. \A i \in 1..Len(Tail(toArda)) : i + 1 \in 1..Len(toArda)
    BY AnswerFacts
  <2> QED
    BY <2>1, AnswerFacts DEF NoListDue, NoneAsked
<1>2. List \in Answers /\ ArdaTyped
  BY DEF Answers, AllInv, Inv, Types
<1>3. /\ \A i \in 1..Len(fromArda') : fromArda'[i] \notin {Bye, Refusal}
      /\ fromArda = <<>> => fromArda' = <<List>>
      /\ fromArda' # <<>>
  BY <1>1, <1>2, AppendFacts DEF List, Bye, Refusal
<1>4. /\ UNCHANGED <<pc, mtxFdArda, fdArda, number, stale, gone>>
      /\ (NoWorkers' <=> NoWorkers) /\ (Stuck' <=> Stuck) /\ (Early' <=> Early)
  BY DEF threadVars, fdVars, NoWorkers, Stuck, Early
<1>5. ListsDue' /\ FirstAnswer' /\ ClosedIsLast' /\ EarlyAnswers'
  <2>1. ClosedIsLast'
    BY <1>3 DEF ClosedIsLast
  <2>2. FirstAnswer'
    <3>1. CASE pc[main] = "newSon"
      <4>1. heard = NULL /\ fromArda = <<>> /\ toArda = <<"NEW_SON">>
        BY <3>1 DEF AllInv, ReplyInv, Queues, FirstAnswer
      <4> QED
        BY <1>3, <1>4, <4>1 DEF FirstAnswer, AllInv, ReplyInv, Queues
    <3> QED
      BY <1>4, <3>1 DEF FirstAnswer
  <2>3. ListsDue'
    <3>1. CASE pc[main] = "updateRead" /\ OneListDue
      <4>1. fromArda = <<>> /\ Len(toArda) = 1
        BY <1>1, <3>1 DEF OneListDue, NoneAsked
      <4>2. Len(toArda') = 0 /\ fromArda' = <<List>>
        BY <1>1, <1>3, <4>1
      <4> QED
        BY <1>4, <3>1, <4>2 DEF ListsDue, OneListDue, NoneAsked
    <3> QED
      BY <1>1, <1>4, <3>1 DEF ListsDue, AllInv, ReplyInv, Queues, Refusing
  <2>4. EarlyAnswers'
    <3>1. CASE pc[main] \in {"endLock", "endRead"} /\ NoWorkers /\ ~Stuck
      <4>1. heard = NULL /\ fromArda = <<>> /\ toArda \in {<<"NEW_SON">>, <<"NEW_SON", "EXIT">>}
        <5>1. toArda # <<"EXIT">>
          BY DEF ListRequests
        <5> QED
          BY <1>1, <3>1, <5>1 DEF EarlyAnswers, AllInv, ReplyInv, Queues
      <4>2. Head(toArda) = "NEW_SON" /\ toArda' \in {<<>>, <<"EXIT">>}
        <5>1. CASE toArda = <<"NEW_SON">>
          BY <5>1
        <5>2. CASE toArda = <<"NEW_SON", "EXIT">>
          <6>1. /\ Head(toArda) = "NEW_SON" /\ toArda' \in Seq({"EXIT"})
                /\ Len(toArda') = 1 /\ toArda'[1] = "EXIT"
            BY <5>2
          <6>2. <<"EXIT">> \in Seq({"EXIT"}) /\ Len(<<"EXIT">>) = 1 /\ <<"EXIT">>[1] = "EXIT"
            OBVIOUS
          <6> QED
            BY <6>1, <6>2, SeqEqual
        <5> QED
          BY <4>1, <5>1, <5>2
      <4> QED
        BY <1>3, <4>1, <4>2 DEF EarlyAnswers
    <3> QED
      BY <1>4, <3>1 DEF EarlyAnswers
  <2> QED
    BY <2>1, <2>2, <2>3, <2>4
<1>6. Rest'
  BY <1>1, <1>3, <1>4 DEF AllInv, ReplyInv, Rest, EndReads, Refusals, Refused, RefusingOnly,
      MutexOfMain, Refusing
<1> QED
  BY <1>5, <1>6 DEF ReplyInv, Queues

(* None: NEW_MSG is not answered. *)
LEMMA NewMsgReplies ==
  ASSUME AllInv, arda = "open", toArda # <<>>, Head(toArda) = "NEW_MSG",
         heard' = Head(toArda), toArda' = Tail(toArda), UNCHANGED <<arda, fromArda, threadVars, fdVars>>
  PROVE  ReplyInv'
<1>1. /\ heard # "EXIT" /\ ~Refused
      /\ ~\E i \in 1..Len(fromArda) : fromArda[i] \in {Bye, Refusal}
      /\ \A i \in 1..Len(toArda') : i \in Nat /\ i + 1 \in 2..Len(toArda) /\ toArda'[i] = toArda[i + 1]
      /\ Len(toArda') = Len(toArda) - 1 /\ Len(toArda) \in Nat
      /\ toArda[1] = "NEW_MSG"
  BY AnswerFacts
<1>2. /\ UNCHANGED <<pc, mtxFdArda, fdArda, number, stale, gone>>
      /\ (NoWorkers' <=> NoWorkers) /\ (Stuck' <=> Stuck) /\ (Early' <=> Early)
  BY DEF threadVars, fdVars, NoWorkers, Stuck, Early
<1>3. \A i \in 1..Len(toArda') : \E j \in 1..Len(toArda) : toArda'[i] = toArda[j]
  BY <1>1
<1>4. NoListDue => NoListDue'
  BY <1>3 DEF NoListDue, NoneAsked
<1>5. pc[main] # "newSon"
  BY <1>1 DEF AllInv, ReplyInv, Queues, FirstAnswer
<1>6. OneListDue => NoListDue' \/ OneListDue'
  <2>1. CASE fromArda = <<>> /\ \A i \in 1..Len(toArda) - 1 : toArda[i] \notin ListRequests
    <3>1. \A i \in 1..Len(toArda') - 1 : toArda'[i] \notin ListRequests
      BY <1>1, <2>1
    <3>2. toArda' = <<>> => NoListDue'
      <4>1. 1..Len(fromArda') = {}
        BY <2>1
      <4>2. toArda' = <<>> => Len(toArda') = 0
        OBVIOUS
      <4>3. toArda' = <<>> => 1..Len(toArda') = {}
        BY <4>2
      <4> QED
        BY <4>1, <4>3 DEF NoListDue, NoneAsked
    <3> QED
      BY <2>1, <3>1, <3>2 DEF OneListDue
  <2>2. CASE fromArda # <<>> /\ NoneAsked /\ OneListDue
    BY <1>3, <2>2 DEF OneListDue, NoneAsked
  <2> QED
    BY <2>1, <2>2 DEF OneListDue
<1>7. EarlyAnswers'
  <2>1. CASE pc[main] \in {"endLock", "endRead"} /\ NoWorkers
    <3>1. toArda # <<"NEW_SON">> /\ toArda # <<"NEW_SON", "EXIT">> /\ toArda # <<"EXIT">>
      BY <1>1
    <3> QED
      BY <1>1, <1>2, <1>4, <2>1, <3>1 DEF AllInv, ReplyInv, Queues, EarlyAnswers
  <2> QED
    BY <1>2, <2>1 DEF EarlyAnswers
<1>8. ListsDue' /\ FirstAnswer' /\ ClosedIsLast'
  BY <1>1, <1>2, <1>4, <1>5, <1>6 DEF AllInv, ReplyInv, Queues, ListsDue, FirstAnswer, ClosedIsLast, Refusing
<1>9. Rest'
  BY <1>1, <1>2, <1>3 DEF AllInv, ReplyInv, Rest, EndReads, Refusals, Refused, RefusingOnly,
      MutexOfMain, Refusing
<1> QED
  BY <1>7, <1>8, <1>9 DEF ReplyInv, Queues

(* CONOK, and the end of the connection. *)
LEMMA ExitAnswerReplies ==
  ASSUME AllInv, arda = "open", toArda # <<>>, Head(toArda) = "EXIT",
         heard' = Head(toArda), fromArda' = Append(fromArda, Bye), toArda' = <<>>, arda' = "closed",
         UNCHANGED <<threadVars, fdVars>>
  PROVE  ReplyInv'
<1>1. /\ heard # "EXIT" /\ ~Refused /\ toArda = <<"EXIT">> /\ toArda # <<"NEW_SON">>
      /\ ~\E i \in 1..Len(fromArda) : fromArda[i] \in {Bye, Refusal}
      /\ \E i \in 1..Len(toArda) : toArda[i] = "EXIT"
  BY AnswerFacts
<1>2. Bye \in Answers /\ ArdaTyped
  BY DEF Answers, AllInv, Inv, Types
<1>3. /\ \A i \in 1..Len(fromArda') : i \in Nat /\ fromArda'[i] = IF i > Len(fromArda) THEN Bye ELSE fromArda[i]
      /\ fromArda # <<>> => fromArda' # <<>> /\ Head(fromArda') = Head(fromArda)
      /\ fromArda = <<List>> => fromArda' = <<List, Bye>>
      /\ Len(fromArda') = Len(fromArda) + 1 /\ Len(fromArda) \in Nat
      /\ fromArda = <<>> => Len(fromArda) = 0
  BY <1>2, AppendFacts
<1>4. /\ UNCHANGED <<pc, mtxFdArda, fdArda, number, stale, gone>>
      /\ (NoWorkers' <=> NoWorkers) /\ (Stuck' <=> Stuck) /\ (Early' <=> Early)
  BY DEF threadVars, fdVars, NoWorkers, Stuck, Early
<1>5. NoneAsked' /\ (NoListDue => NoListDue')
  BY <1>3 DEF NoListDue, NoneAsked, List, Bye
<1>6. OneListDue => NoListDue' \/ OneListDue'
  <2>1. CASE fromArda = <<>>
    <3>1. \A i \in 1..Len(fromArda') : fromArda'[i] = Bye
      BY <1>3, <2>1
    <3> QED
      BY <1>5, <3>1 DEF NoListDue, List, Bye
  <2>2. CASE fromArda # <<>> /\ Head(fromArda) = List /\ \A i \in 2..Len(fromArda) : fromArda[i] # List
    <3>1. \A i \in 2..Len(fromArda') : fromArda'[i] # List
      BY <1>3, <2>2 DEF List, Bye
    <3> QED
      BY <1>3, <1>5, <2>2, <3>1 DEF OneListDue
  <2> QED
    BY <2>1, <2>2 DEF OneListDue
<1>7. pc[main] # "newSon"
  BY <1>1 DEF AllInv, ReplyInv, Queues, FirstAnswer
<1>8. EarlyAnswers'
  <2>1. CASE pc[main] \in {"endLock", "endRead"} /\ NoWorkers /\ ~Stuck /\ ~NoListDue
    <3>1. toArda # <<"NEW_SON", "EXIT">> /\ toArda # <<>>
      BY <1>1
    <3>2. fromArda \in {<<List>>, <<List, Bye>>}
      BY <1>1, <2>1, <3>1 DEF AllInv, ReplyInv, Queues, EarlyAnswers
    <3>3. fromArda # <<List, Bye>>
      BY <1>1
    <3> QED
      BY <1>3, <3>2, <3>3 DEF EarlyAnswers
  <2> QED
    BY <1>4, <1>5, <2>1 DEF EarlyAnswers
<1>9. ListsDue' /\ FirstAnswer' /\ ClosedIsLast'
  BY <1>4, <1>5, <1>6, <1>7 DEF AllInv, ReplyInv, Queues, ListsDue, FirstAnswer, ClosedIsLast, Refusing
<1>10. ~\E i \in 1..Len(fromArda') : fromArda'[i] = Refusal
  BY <1>1, <1>3 DEF Bye, Refusal
<1>11. ~\E i \in 1..Len(toArda') : toArda'[i] = "EXIT"
  OBVIOUS
<1>12. Rest'
  BY <1>1, <1>4, <1>10, <1>11
     DEF AllInv, ReplyInv, Rest, EndReads, Refusals, Refused, RefusingOnly, MutexOfMain, Refusing
<1> QED
  BY <1>8, <1>9, <1>12 DEF ReplyInv, Queues

(* CONKO, to NEW_SON ... *)
LEMMA NewSonRefusedReplies ==
  ASSUME AllInv, Refusing, arda = "open", toArda # <<>>, Head(toArda) = "NEW_SON",
         heard' = Head(toArda), fromArda' = Append(fromArda, Refusal), toArda' = <<>>, arda' = "closed",
         UNCHANGED <<threadVars, fdVars>>
  PROVE  ReplyInv'
<1>1. /\ ~Refused /\ ~NoListDue
  BY AnswerFacts DEF NoListDue, NoneAsked, ListRequests
<1>2. pc[main] = "newSon"
  BY <1>1 DEF AllInv, ReplyInv, Queues, Rest, ListsDue, RefusingOnly
<1>3. fromArda = <<>> /\ mtxFdArda = NULL /\ fdArda /\ number = "arda"
  BY <1>2 DEF AllInv, ReplyInv, Queues, FirstAnswer
<1>4. fromArda' = <<Refusal>> /\ \A i \in 1..Len(fromArda') : fromArda'[i] = Refusal
  BY <1>3
<1>5. UNCHANGED <<pc, mtxFdArda, fdArda, number, stale, gone>>
  BY DEF threadVars, fdVars
<1>6. Queues'
  BY <1>2, <1>3, <1>4, <1>5 DEF Queues, ListsDue, FirstAnswer, ClosedIsLast, EarlyAnswers, Refusing,
      Bye, Refusal
<1>7. main # NULL
  BY SonAssumption DEF Thread
<1>8. Rest'
  BY <1>2, <1>3, <1>4, <1>5, <1>7 DEF AllInv, ReplyInv, Rest, EndReads, Refusals, RefusingOnly,
      MutexOfMain, Refusing
<1> QED
  BY <1>6, <1>8 DEF ReplyInv

(* ... and to EXIT. *)
LEMMA ExitRefusedReplies ==
  ASSUME AllInv, Refusing, arda = "open", toArda # <<>>, Head(toArda) = "EXIT",
         heard' = Head(toArda), fromArda' = Append(fromArda, Refusal), toArda' = Tail(toArda), arda' = arda,
         UNCHANGED <<threadVars, fdVars>>
  PROVE  ReplyInv'
<1>1. /\ toArda = <<"EXIT">> /\ toArda # <<"NEW_SON">>
      /\ ~\E i \in 1..Len(fromArda) : fromArda[i] \in {Bye, Refusal}
      /\ \E i \in 1..Len(toArda) : toArda[i] = "EXIT"
  BY AnswerFacts
<1>2. pc[main] = "endRead" /\ fdArda /\ number = "arda"
  BY <1>1, SonAssumption DEF AllInv, ReplyInv, Rest, RefusingOnly, EndReads, Thread
<1>3. NoListDue
  BY <1>2 DEF AllInv, ReplyInv, Queues, ListsDue
<1>4. fromArda \in Seq(Answers)
  BY DEF AllInv, Inv, Types, ArdaTyped
<1>5. fromArda = <<>>
  <2>1. \A i \in 1..Len(fromArda) : FALSE
    BY <1>1, <1>3, <1>4 DEF NoListDue, Answers
  <2> QED
    BY <1>4, <2>1
<1>6. /\ fromArda' = <<Refusal>> /\ \A i \in 1..Len(fromArda') : fromArda'[i] = Refusal
      /\ toArda' = <<>> /\ \A i \in 1..Len(toArda') : FALSE
  BY <1>1, <1>5
<1>7. UNCHANGED <<pc, mtxFdArda, fdArda, number, stale, gone>>
  BY DEF threadVars, fdVars
<1>8. NoListDue'
  BY <1>6 DEF NoListDue, NoneAsked, List, Refusal
<1>9. Queues'
  BY <1>2, <1>6, <1>7, <1>8 DEF Queues, ListsDue, FirstAnswer, ClosedIsLast, EarlyAnswers, Bye, Refusal
<1>10. heard' = "EXIT" /\ arda' = "open"
  OBVIOUS
<1>11. Rest'
  BY <1>2, <1>6, <1>7, <1>10
     DEF AllInv, ReplyInv, Rest, EndReads, Refusals, Refused, RefusingOnly, MutexOfMain, Refusing, AnyPlaces, EndPlaces
<1> QED
  BY <1>9, <1>11 DEF ReplyInv

LEMMA ArdaAnswersReplies == ASSUME AllInv, ArdaAnswers PROVE ReplyInv'
<1>1. CASE heard' \in ListRequests /\ fromArda' = Append(fromArda, List) /\ toArda' = Tail(toArda) /\ arda' = arda
  BY <1>1, ListAnswerReplies DEF ArdaAnswers
<1>2. CASE heard' = "NEW_MSG" /\ toArda' = Tail(toArda) /\ UNCHANGED <<arda, fromArda>>
  BY <1>2, NewMsgReplies DEF ArdaAnswers
<1>3. CASE heard' = "EXIT" /\ fromArda' = Append(fromArda, Bye) /\ arda' = "closed" /\ toArda' = <<>>
  BY <1>3, ExitAnswerReplies DEF ArdaAnswers
<1>4. CASE /\ heard' = "NEW_SON" /\ Refusing
           /\ fromArda' = Append(fromArda, Refusal) /\ arda' = "closed" /\ toArda' = <<>>
  BY <1>4, NewSonRefusedReplies DEF ArdaAnswers
<1>5. CASE /\ heard' = "EXIT" /\ Refusing
           /\ fromArda' = Append(fromArda, Refusal) /\ toArda' = Tail(toArda) /\ UNCHANGED arda
  BY <1>5, ExitRefusedReplies DEF ArdaAnswers
<1> QED
  BY <1>1, <1>2, <1>3, <1>4, <1>5 DEF ArdaAnswers, ListRequests, Refusing

(* Arda hangs up. *)
LEMMA ArdaClosesReplies == ASSUME AllInv, ArdaCloses PROVE ReplyInv'
<1>1. ~Refusing
  BY SonAssumption DEF ArdaCloses, Refusing
<1>2. /\ UNCHANGED <<pc, heard, mtxFdArda, fdArda, number, stale, gone>>
      /\ arda = "open" /\ arda' = "closed" /\ toArda' = <<>>
      /\ (NoWorkers' <=> NoWorkers) /\ (Stuck' <=> Stuck) /\ (Early' <=> Early)
  BY DEF ArdaCloses, threadVars, fdVars, NoWorkers, Stuck, Early
<1>3. ~\E i \in 1..Len(fromArda) : fromArda[i] \in {Bye, Refusal}
  BY <1>1, <1>2 DEF AllInv, ReplyInv, Rest, Refusals, Queues, ClosedIsLast
<1>4. NoneAsked' /\ \A i \in 1..Len(toArda') : FALSE
  BY <1>2 DEF NoneAsked
<1>5. CASE fromArda' = fromArda
  <2>1. NoListDue => NoListDue'
    BY <1>4, <1>5 DEF NoListDue
  <2>2. OneListDue => NoListDue' \/ OneListDue'
    BY <1>4, <1>5 DEF OneListDue, NoListDue
  <2>3. FirstAnswer' /\ ClosedIsLast'
    BY <1>1, <1>2, <1>5 DEF AllInv, ReplyInv, Queues, FirstAnswer, ClosedIsLast, Refusing
  <2>4. ListsDue'
    BY <1>1, <1>2, <2>1, <2>2 DEF AllInv, ReplyInv, Queues, ListsDue, Refusing
  <2>5. fromArda = <<>> => NoListDue'
    BY <1>4, <1>5 DEF NoListDue
  <2>6. EarlyAnswers'
    BY <1>2, <1>5, <2>1, <2>5 DEF AllInv, ReplyInv, Queues, EarlyAnswers
  <2> QED
    BY <1>1, <1>2, <1>5, <2>3, <2>4, <2>6
       DEF AllInv, ReplyInv, Queues, Rest, EndReads, Refusals, RefusingOnly, MutexOfMain, Refusing
<1>6. CASE heard # NULL /\ fromArda' = Append(fromArda, Bye)
  <2>1. Bye \in Answers /\ ArdaTyped
    BY DEF Answers, AllInv, Inv, Types
  <2>2. /\ \A i \in 1..Len(fromArda') : i \in Nat /\ fromArda'[i] = IF i > Len(fromArda) THEN Bye ELSE fromArda[i]
        /\ fromArda # <<>> => fromArda' # <<>> /\ Head(fromArda') = Head(fromArda)
        /\ fromArda = <<List>> => fromArda' = <<List, Bye>>
        /\ Len(fromArda') = Len(fromArda) + 1 /\ Len(fromArda) \in Nat
        /\ fromArda = <<>> => Len(fromArda) = 0
    BY <1>6, <2>1, AppendFacts
  <2>3. NoListDue => NoListDue'
    BY <1>4, <2>2 DEF NoListDue, List, Bye
  <2>4. OneListDue => NoListDue' \/ OneListDue'
    <3>1. CASE fromArda = <<>>
      <4>1. \A i \in 1..Len(fromArda') : fromArda'[i] = Bye
        BY <2>2, <3>1
      <4> QED
        BY <1>4, <4>1 DEF NoListDue, List, Bye
    <3>2. CASE fromArda # <<>> /\ Head(fromArda) = List /\ \A i \in 2..Len(fromArda) : fromArda[i] # List
      <4>1. \A i \in 2..Len(fromArda') : fromArda'[i] # List
        BY <2>2, <3>2 DEF List, Bye
      <4> QED
        BY <1>4, <2>2, <3>2, <4>1 DEF OneListDue
    <3> QED
      BY <3>1, <3>2 DEF OneListDue
  <2>5. fromArda # <<List, Bye>>
    BY <1>3
  <2>6. FirstAnswer' /\ ClosedIsLast'
    BY <1>1, <1>2, <1>6, <2>2, <2>5 DEF AllInv, ReplyInv, Queues, FirstAnswer, ClosedIsLast, Refusing
  <2>7. ListsDue'
    BY <1>1, <1>2, <2>3, <2>4 DEF AllInv, ReplyInv, Queues, ListsDue, Refusing
  <2>8. EarlyAnswers'
    BY <1>2, <1>6, <2>2, <2>3, <2>5 DEF AllInv, ReplyInv, Queues, EarlyAnswers
  <2>9. ~\E i \in 1..Len(fromArda') : fromArda'[i] = Refusal
    BY <1>3, <2>2 DEF Bye, Refusal
  <2> QED
    BY <1>1, <1>2, <2>6, <2>7, <2>8, <2>9
       DEF AllInv, ReplyInv, Queues, Rest, EndReads, Refusals, RefusingOnly, MutexOfMain, Refusing
<1> QED
  BY <1>5, <1>6 DEF ArdaCloses

-----------------------------------------------------------------------------
LEMMA StutterReplies == ASSUME AllInv, UNCHANGED vars PROVE ReplyInv'
BY DEF AllInv, ReplyInv, Queues, ListsDue, OneListDue, NoListDue, NoneAsked, Stuck, Early, NoWorkers,
   ClosedIsLast, FirstAnswer, EarlyAnswers, Rest, EndReads, Refusals, Refused, RefusingOnly, MutexOfMain,
   vars, threadVars, ardaVars, fdVars, Refusing

LEMMA EndStepReplies == ASSUME AllInv, NEW t \in Thread, endStep(t) PROVE ReplyInv'
BY EndWritesReplies, EndAnsweredReplies, EndRunReplies, EndJoinReplies DEF endStep

LEMMA StepReplies == ASSUME AllInv, [Next]_vars PROVE ReplyInv'
<1>1. main \in Thread /\ Worker \subseteq Thread
  BY DEF Thread
<1>2. CASE mainStep
  BY <1>1, <1>2, NewSonReplies, CheckReplies, UpdateRequestReplies, UpdateAnsweredReplies, UpdateFailsReplies,
     MainLoopReplies, EndStepReplies, EndRefusedReplies DEF mainStep
<1>3. CASE Asked
  BY <1>3, MainLoopReplies DEF Asked
<1>4. ASSUME NEW t \in Thread, EndAstray(t) \/ Signal(t) \/ SignalJams(t) PROVE ReplyInv'
  BY <1>4, SignalReplies, JamReplies, EndJoinReplies
<1>5. ASSUME NEW w \in Worker, ownStep(w) \/ neighbourStep(w) PROVE ReplyInv'
  BY <1>1, <1>5, SessionReplies, TellReplies, WorkerFaultReplies, EndStepReplies DEF ownStep, neighbourStep
<1>6. ASSUME NEW w \in Worker, PeerGone(w) PROVE ReplyInv'
  BY <1>6, PeerGoneReplies
<1>7. CASE ArdaAnswers \/ ArdaCloses
  BY <1>7, ArdaAnswersReplies, ArdaClosesReplies
<1>8. CASE UNCHANGED vars
  BY <1>8, StutterReplies
<1> QED
  BY <1>2, <1>3, <1>4, <1>5, <1>6, <1>7, <1>8 DEF Next

LEMMA ReplyInvariance == Spec => []AllInv
<1>1. Init => AllInv
  BY InitInv, InitReplies DEF AllInv
<1>2. AllInv /\ [Next]_vars => AllInv'
  BY NextInv, StepReplies DEF AllInv
<1> QED
  BY <1>1, <1>2, PTL DEF Spec

-----------------------------------------------------------------------------
(* Whatever the neighbours and Arda do and whatever signals come, every      *)
(* answer of Arda is read by the thread that asked, as the answer to what it *)
(* asked; main reads a farewell when it is idle, and nothing else; and the   *)
(* only mistake is the one RepliesMatch names, after a signal that finds     *)
(* main in sendNewSon().                                                     *)
THEOREM AnswersMatch == Spec => []RepliesMatch
<1>1. ASSUME AllInv PROVE RepliesMatch
  <2> SUFFICES ASSUME fromArda # <<>> PROVE RepliesMatch
    BY DEF RepliesMatch
  <2>1. 1 \in 1..Len(fromArda) /\ Head(fromArda) = fromArda[1] /\ Head(fromArda) \in Answers
    BY <1>1 DEF AllInv, Inv, Types, ArdaTyped
  <2>2. ASSUME pc[main] = "newSon" PROVE Head(fromArda) \in {List, Refusal}
    BY <1>1, <2>1, <2>2 DEF AllInv, ReplyInv, Queues, FirstAnswer
  <2>3. ASSUME pc[main] = "updateRead" PROVE Head(fromArda) \in {List, Bye}
    BY <1>1, <2>1, <2>3, UpdateFacts DEF Answers
  <2>4. ASSUME pc[main] \in {"select", "checkLock", "firstPacket", "register"} PROVE Head(fromArda) = Bye
    BY <1>1, <2>1, <2>4, LoopFacts DEF Answers, NoListDue, AnyPlaces, EndPlaces, Waits
  <2>5. ASSUME NEW t \in Thread, pc[t] = "endRead"
        PROVE  Head(fromArda) \in {Bye, Refusal} \/ heard = "NEW_SON" \/ fromArda = <<List, Bye>>
    <3>1. mtxFdArda = t /\ t # NULL
      BY <1>1, <2>5, SonAssumption DEF AllInv, Inv, ExchangesExclusive, InExchange
    <3>2. pc[main] # "newSon" /\ pc[main] # "updateRead" /\ ~Stuck
      BY <1>1, <2>5, <3>1
         DEF AllInv, Inv, NumberKept, ExchangesExclusive, InExchange, Stuck, Thread
    <3>3. CASE NoListDue
      BY <2>1, <3>3 DEF NoListDue, Answers
    <3>4. CASE Early
      <4>1. t = main
        BY <2>5, <3>4 DEF Early, NoWorkers, Thread
      <4> QED
        BY <1>1, <2>5, <3>2, <3>3, <3>4, <4>1 DEF Early, AllInv, ReplyInv, Queues, EarlyAnswers
    <3> QED
      BY <1>1, <3>2, <3>3, <3>4 DEF AllInv, ReplyInv, Queues, ListsDue
  <2> QED
    BY <2>2, <2>3, <2>4, <2>5 DEF RepliesMatch
<1> QED
  BY <1>1, ReplyInvariance, PTL

(* The event loop never keeps mtxFdArda from the workers, after updateUsers() *)
(* and checkArdaMessage() or in any other way, unless Arda refused an exit.  *)
THEOREM LoopReleases == Spec => []IdleHoldsNothing
<1>1. AllInv => IdleHoldsNothing
  BY DEF AllInv, ReplyInv, Rest, MutexOfMain, IdleHoldsNothing, Idle, AnyPlaces, EndPlaces
<1> QED
  BY <1>1, ReplyInvariance, PTL

-----------------------------------------------------------------------------
(* The exit of the process.  A worker that has been created and has not     *)
(* ended is registered, or is the one that main is about to register; only  *)
(* a signal takes main from there to end().                                 *)
Registering ==
  /\ NULL \in threadsHashmap \/
       \A w \in Worker : pc[w] \notin {"none", "ended", "exited"} => w \in threadsHashmap \cup {created}
  /\ created # NULL => pc[main] = "register" \/ (pc[main] \in AnyPlaces /\ ~Refusing)
  /\ Ended \/ \A w \in Worker : pc[w] # "exited"

(* Thread t goes on from where it is, and nobody is created or registered.  *)
LEMMA MovesRegistering ==
  ASSUME AllInv, Registering, NEW t \in Thread, pc[t] \notin {"none", "ended", "exited"},
         NEW l, l # "exited", Goto(t, l), UNCHANGED <<threadsHashmap, created>>,
         t = main /\ created # NULL => l \in AnyPlaces /\ ~Refusing
  PROVE  Registering' /\ (Ended' => Ended)
<1>1. /\ main \in Thread /\ main \notin Worker /\ Worker \subseteq Thread
      /\ \A u \in Thread : pc'[u] = IF u = t THEN l ELSE pc[u]
  BY SonAssumption DEF Goto, AllInv, Inv, Types, PcTyped, Thread
<1>2. Ended' <=> Ended
  BY <1>1 DEF Ended
<1>3. \A w \in Worker : pc'[w] \notin {"none", "ended", "exited"} => pc[w] \notin {"none", "ended", "exited"}
  BY <1>1
<1> QED
  BY <1>1, <1>2, <1>3 DEF Registering, Refusing

LEMMA EndRegistering ==
  ASSUME AllInv, Registering, NEW t \in Thread, EndWrite(t) \/ EndAnswered(t) \/ EndRun(t)
  PROVE  Registering' /\ (Ended' => Ended)
<1>1. PICK l \in {"endLock", "endRead", "endRun", "endJoin"} : Goto(t, l)
  BY DEF EndWrite, EndAnswered, EndRun, EnterEnd
<1>2. pc[t] \in {"endLock", "endRead", "endRun"} /\ UNCHANGED <<threadsHashmap, created>>
  BY DEF EndWrite, EndAnswered, EndRun
<1>3. t = main /\ created # NULL => ~Refusing
  BY <1>2 DEF Registering
<1> QED
  BY <1>1, <1>2, <1>3, MovesRegistering DEF AnyPlaces, EndPlaces

(* A signal, or a fault. *)
LEMMA FaultRegistering ==
  ASSUME AllInv, Registering, NEW t \in Thread, pc[t] \notin {"none", "ended", "exited"},
         Fault(t) \/ SignalJams(t), t = main => ~Refusing
  PROVE  Registering' /\ (Ended' => Ended)
<1>1. PICK l \in {"endLock", "endRun", "jammed"} : Goto(t, l)
  BY DEF Fault, SignalJams, EnterEnd
<1>2. UNCHANGED <<threadsHashmap, created>>
  BY DEF Fault, SignalJams
<1> QED
  BY <1>1, <1>2, MovesRegistering DEF AnyPlaces, EndPlaces

LEMMA WorkerRegistering ==
  ASSUME AllInv, Registering, NEW w \in Worker, ownStep(w) \/ neighbourStep(w), ~EndJoin(w)
  PROVE  Registering' /\ (Ended' => Ended)
<1>1. w \in Thread /\ w # main
  BY SonAssumption DEF Thread
<1>2. CASE RecordFaults(w) \/ TellFaults(w) \/ SendFaults(w)
  BY <1>1, <1>2, FaultRegistering DEF RecordFaults, TellFaults, SendFaults, NeedsRecord
<1>3. CASE endStep(w)
  BY <1>1, <1>3, EndRegistering DEF endStep
<1>4. CASE \/ ConnectFails(w) \/ ConnectAndSend(w) \/ MsgAnswered(w) \/ TellLock(w) \/ Tell(w) \/ SendData(w)
           \/ CheckAnswered(w) \/ ReceiveMsg(w) \/ ReceiveFile(w) \/ ReceiveData(w)
  <2>1. PICK l \in WorkerPlaces \ {"none"} : Goto(w, l)
    BY <1>4 DEF ConnectFails, ConnectAndSend, MsgAnswered, CheckAnswered, TellLock, Tell, ReceiveMsg,
        ReceiveFile,
       SendData, ReceiveData, WorkerPlaces, Goto, AllInv, Inv, Types, PcTyped
  <2>2. pc[w] \notin {"none", "ended", "exited"} /\ UNCHANGED <<threadsHashmap, created>>
    BY <1>4 DEF ConnectFails, ConnectAndSend, MsgAnswered, CheckAnswered, TellLock, Tell, ReceiveMsg,
        ReceiveFile,
       SendData, ReceiveData, ToConnect, WorkerStays
  <2> QED
    BY <1>1, <2>1, <2>2, MovesRegistering DEF WorkerPlaces
<1> QED
  BY <1>2, <1>3, <1>4 DEF ownStep, neighbourStep

(* A refused exit, after which main is in the event loop again, excludes     *)
(* the signals.                                                             *)
LEMMA MainRegistering ==
  ASSUME AllInv, Registering, mainStep \/ Asked, ~EndJoin(main)
  PROVE  Registering' /\ (Ended' => Ended)
<1>1. main \in Thread /\ main \notin Worker /\ Worker \subseteq Thread
  BY SonAssumption DEF Thread
<1>2. CASE EndRefused
  <2>1. 1 \in 1..Len(fromArda) /\ fromArda[1] = Refusal
    BY <1>2, SonAssumption DEF EndRefused, ReadArda, Refusal, AllInv, Inv, Types, ArdaTyped
  <2>2. Refusing
    BY <2>1 DEF AllInv, ReplyInv, Rest, Refusals
  <2>3. created = NULL
    BY <1>2, <2>2 DEF EndRefused, Registering
  <2> QED
    BY <1>1, <1>2, <2>3, MovesRegistering DEF EndRefused
<1>3. CASE endStep(main)
  BY <1>1, <1>3, EndRegistering DEF endStep
<1>4. CASE NewSonAnswered \/ SelectArda \/ SelectUpdate \/ UserExit \/ SelectSocket \/ checkArdaMessage
           \/ UpdateRequest \/ UpdateAnswered \/ UpdateFails
  <2>1. PICK l \in (MainPlaces \cup EndPlaces) \ {"exited"} : Goto(main, l)
    BY <1>4 DEF NewSonAnswered, SelectArda, SelectUpdate, UserExit, SelectSocket, MainGoes, checkArdaMessage,
       UpdateRequest, UpdateAnswered, UpdateFails, EnterEnd, MainPlaces, EndPlaces
  <2>2. /\ pc[main] \in {"newSon", "select", "checkLock", "updateLock", "updateRead"}
        /\ UNCHANGED <<threadsHashmap, created>>
    BY <1>4 DEF NewSonAnswered, SelectArda, SelectUpdate, UserExit, SelectSocket, MainGoes, Idle,
        checkArdaMessage,
       UpdateRequest, UpdateAnswered, UpdateFails
  <2>3. created = NULL
    BY <2>2 DEF Registering, AnyPlaces, EndPlaces
  <2> QED
    BY <1>1, <2>1, <2>2, <2>3, MovesRegistering
<1>5. CASE Register
  <2>1. /\ pc[main] = "register" /\ pc'[main] \in {"select", "deaf"} /\ \A w \in Worker : pc'[w] = pc[w]
        /\ created' = NULL
        /\ threadsHashmap' = threadsHashmap \cup {created} \/ NULL \in threadsHashmap'
    BY <1>1, <1>5 DEF Register, Goto, AllInv, Inv, Types, PcTyped
  <2> QED
    BY <1>1, <1>5, <2>1 DEF Registering, Ended, Register
<1>6. ASSUME NEW w \in Worker, PrepareSend(w) \/ FirstPacket(w) PROVE Registering' /\ (Ended' => Ended)
  <2>1. PICK o \in Ops : pthread_create(w, o)
    BY <1>6 DEF PrepareSend, FirstPacket, Ops
  <2>2. pc[main] \in {"select", "firstPacket"} /\ created = NULL
    BY <1>6 DEF PrepareSend, FirstPacket, Idle, Registering, AnyPlaces, EndPlaces
  <2>3. /\ pc'[main] = "register" /\ created' = w /\ UNCHANGED threadsHashmap
        /\ \A v \in Worker : pc'[v] = IF v = w THEN "start" ELSE pc[v]
    BY <1>1, <2>1 DEF pthread_create, AllInv, Inv, Types, PcTyped
  <2> QED
    BY <2>2, <2>3, SonAssumption DEF Registering, Ended, Thread
<1> QED
  BY <1>2, <1>3, <1>4, <1>5, <1>6 DEF mainStep, Asked

(* The exit itself: nobody is at work any more. *)
LEMMA ExitRegistering ==
  ASSUME AllInv, Registering, NEW t \in Thread, EndJoin(t) \/ EndAstray(t)
  PROVE  /\ Registering'
         /\ ~Ended /\ ~Astray /\ created = NULL => \A w \in Worker : pc[w] \in {"none", "ended", "endJoin"}
<1>1. main \in Thread /\ main \notin Worker /\ Worker \subseteq Thread /\ main # NULL /\ NULL \notin Worker
  BY SonAssumption DEF Thread
<1>2. /\ UNCHANGED <<threadsHashmap, created>> /\ Ended'
      /\ \A w \in Worker : pc'[w] \in {"none", "ended", "exited"}
  BY <1>1 DEF EndJoin, EndAstray, exit, Ended
<1>3. Registering'
  <2>1. pc'[main] = "exited" /\ (created # NULL => ~Refusing)
    <3>1. pc'[main] = "exited"
      BY <1>2 DEF Ended
    <3>2. Refusing => t = main
      BY DEF EndJoin, EndAstray, AllInv, ReplyInv, Rest, RefusingOnly, EndPlaces, Thread
    <3>3. Refusing => pc[main] = "endJoin"
      BY <3>2 DEF EndJoin, EndAstray
    <3> QED
      BY <3>1, <3>3 DEF Registering
  <2> QED
    BY <1>2, <2>1 DEF Registering, Refusing, AnyPlaces, EndPlaces
<1>4. ASSUME ~Ended, ~Astray, created = NULL, NEW w \in Worker PROVE pc[w] \in {"none", "ended", "endJoin"}
  <2>1. EndJoin(t) /\ NULL \notin threadsHashmap
    BY <1>4 DEF EndAstray, Astray
  <2>2. pc[w] # "exited"
    BY <1>4 DEF Registering
  <2>3. CASE pc[w] \notin {"none", "ended"}
    <3>1. w \in threadsHashmap
      BY <1>1, <1>4, <2>1, <2>2, <2>3 DEF Registering
    <3>2. w = t
      BY <1>1, <2>1, <2>3, <3>1 DEF EndJoin
    <3> QED
      BY <2>1, <3>2 DEF EndJoin
  <2> QED
    BY <2>3
<1> QED
  BY <1>3, <1>4

LEMMA StepRegistering ==
  ASSUME AllInv, Registering, [Next]_vars
  PROVE  Registering' /\ (Exits /\ ~Astray /\ created = NULL =>
                            \A w \in Worker : pc[w] \in {"none", "ended", "endJoin"})
<1>1. main \in Thread /\ Worker \subseteq Thread
  BY DEF Thread
<1>2. CASE \E t \in Thread : EndJoin(t) \/ EndAstray(t)
  BY <1>2, ExitRegistering DEF Exits
<1>3. CASE ~\E t \in Thread : EndJoin(t) \/ EndAstray(t)
  <2>1. ASSUME NEW t \in Thread, Signal(t) \/ SignalJams(t) PROVE Registering' /\ (Ended' => Ended)
    <3>1. ~Refusing
      BY <2>1, SonAssumption DEF Signal, SignalJams, Refusing
    <3> QED
      BY <2>1, <3>1, FaultRegistering DEF Signal, SignalJams
  <2>2. ASSUME ArdaAnswers \/ ArdaCloses \/ (\E w \in Worker : PeerGone(w)) \/ UNCHANGED vars
        PROVE  Registering' /\ (Ended' => Ended)
    <3>1. UNCHANGED <<pc, threadsHashmap, created>>
      BY <2>2 DEF ArdaAnswers, ArdaCloses, PeerGone, vars, threadVars
    <3> QED
      BY <3>1 DEF Registering, Ended, Refusing
  <2>3. Registering' /\ (Ended' => Ended)
    BY <1>1, <1>3, <2>1, <2>2, MainRegistering, WorkerRegistering DEF Next
  <2> QED
    BY <2>3 DEF Exits
<1> QED
  BY <1>2, <1>3

(* Whoever executes end(), and with any number of threads, commands and      *)
(* disturbances: when the loop over the threads does what it is meant to do  *)
(* and every thread was registered, the exit cuts no worker off.            *)
THEOREM NobodyCutOff == Spec => NoneCutOff
<1>1. Init => Registering
  BY SonAssumption DEF Init, Registering, Ended, Thread
<1>2. AllInv /\ Registering /\ [Next]_vars =>
        Registering' /\ (Exits /\ ~Astray /\ created = NULL =>
                           \A w \in Worker : pc[w] \in {"none", "ended", "endJoin"})
  BY StepRegistering
<1> QED
  BY <1>1, <1>2, ReplyInvariance, PTL DEF Spec, NoneCutOff

=============================================================================
