---------------------------- MODULE FileTransfer ----------------------------
(***************************************************************************)
(* Files between iluvatarSons: ITH_sendFile on a thread of one, receiveFile *)
(* on a thread of another (iluvatarThreads.c), over a socket, with the      *)
(* locks on the files of both, the check at the end, and run, with which    *)
(* either Son stops its threads.                                            *)
(*                                                                         *)
(* All transfers are of one file name: a Son has that file in its folder,   *)
(* where it is sent from and received into.  A file is a sequence of chunks *)
(* of MAX_PACKET_SIZE bytes, and its hash is its content.                   *)
(*                                                                         *)
(* A command that run() starts, for the user or for the hash of some file,  *)
(* has every descriptor that its Son had open: none is closed on exec.      *)
(* While it runs, so do the locks and the connections behind them.          *)
(***************************************************************************)
EXTENDS Integers, Sequences, FiniteSets

CONSTANTS
  NULL,
  Son,
  Session,      \* the transfers
  Routes,       \* from which Son to which they may go
  Size,         \* the chunks of each Son's file
  SocketSize,   \* bound: the packets that a socket holds
  Disturbances  \* bound: sets of AllDisturbances, what happens in a behaviour

(* What happens to a Son: it is ended, hangs or is killed, md5sum fails, or  *)
(* a command is started.                                                    *)
AllDisturbances == {"end", "hang", "kill", "hashFails", "child"} \X Son

ASSUME FileTransferAssumption ==
  /\ NULL \notin (Session \X {"sends", "receives"}) \cup {"correctly", "unreachable", "CHECK_OK"}
  /\ Routes \subseteq [Session -> [from : Son, to : Son]]
  /\ \A r \in Routes, s \in Session : r[s].from # r[s].to
  /\ Size \in [Son -> Nat] /\ SocketSize \in Nat \ {0}
  /\ Disturbances \subseteq SUBSET AllDisturbances

VARIABLES
  route, disturbances,
  file,     \* the content of each Son's file
  lock,     \* the thread that holds flock() on it, or NULL
  up,       \* the Sons that run
  hung,     \* those of them that hang: a signal's handler, or main, waits for ever
  run,      \* their flag "run"
  joins,    \* the threads that end() waits for, in each Son
  children, \* bound, one at a time: the Sons that a command of theirs is alive of
  keptFiles, keptEnds,  \* the threads whose file, or end of a connection, it has too
  pc,
  size, hash,  \* of the file to be sent: f->fileSize, f->hashDM5
  sent,     \* FILE_DATA packets written
  taken,    \* FILE_DATA packets read
  offset,   \* of the receiver in its file
  sock,     \* the ends of the connection that are open
  packets,  \* from the sender: SEND_FILE, then FILE_DATA
  reply,    \* from the receiver
  told,     \* the sender: what was printed at the end
  meant,    \* the sender: the file when it was locked
  stands,   \* the receiver: the file when it was checked, and found correct
  damaged   \* the senders whose locked file was truncated by a receiver

given       == <<route, disturbances>>
childVars   == <<children, keptFiles, keptEnds>>
sonVars     == <<up, hung, run, joins, childVars>>
fileVars    == <<file, lock, damaged>>
senderVars  == <<size, hash, sent, told, meant>>
receiverVars == <<taken, offset, stands>>
socketVars  == <<sock, packets, reply>>
vars == <<given, sonVars, fileVars, senderVars, receiverVars, socketVars, pc>>

Thread  == Session \X {"sends", "receives"}
S(s)    == <<s, "sends">>
R(s)    == <<s, "receives">>
SonOf(t) == IF t[2] = "sends" THEN route[t[1]].from ELSE route[t[1]].to

Hole    == <<NULL, 0>>
NoData  == <<NULL, 1>>   \* a packet of length 0
Content(n) == [i \in 1..Size[n] |-> <<n, i>>]

Goto(t, l) == pc' = [pc EXCEPT ![t] = l]
Alive(t)   == pc[t] \notin {"none", "over", "gone"}
Tell(s, n) == told' = [told EXCEPT ![s] = n]
Unlock(t)  == lock' = [n \in Son |-> IF lock[n] = t THEN NULL ELSE lock[n]]
CloseEnd(t) == sock' = [sock EXCEPT ![t[1]] = IF t \in keptEnds THEN @ ELSE @ \ {t[2]}]

(* flock() is of the open file, that a command may have too. *)
CloseFile(t) == IF t \in keptFiles THEN UNCHANGED lock ELSE Unlock(t)

COM_packetsRequired(n) == IF n = 0 THEN 1 ELSE n

-----------------------------------------------------------------------------
(* ITH_sendFile.                                                            *)

SenderStays == UNCHANGED <<given, sonVars, receiverVars>>

(* open() and flock(); or another thread of this Son has the file. *)
SendOpen(s) ==
  /\ pc[S(s)] = "none" /\ route[s].from \in up /\ run[route[s].from]
  /\ \/ /\ lock[route[s].from] = NULL
        /\ lock' = [lock EXCEPT ![route[s].from] = S(s)]
        /\ meant' = [meant EXCEPT ![s] = file[route[s].from]]
        /\ Goto(S(s), "size") /\ UNCHANGED told
     \/ /\ lock[route[s].from] # NULL
        /\ Goto(S(s), "over") /\ Tell(s, "refused")
        /\ UNCHANGED <<lock, meant>>
  /\ SenderStays /\ UNCHANGED <<file, damaged, size, hash, sent, socketVars>>

(* lseek() to the end. *)
SendSize(s) ==
  /\ pc[S(s)] = "size"
  /\ size' = [size EXCEPT ![s] = Len(file[route[s].from])]
  /\ Goto(S(s), "hash")
  /\ SenderStays /\ UNCHANGED <<fileVars, hash, sent, told, meant, socketVars>>

(* md5sum; when run() fails, NULL.  Then the name may lack an extension: the *)
(* file is closed, and not unlocked first.                                  *)
SendHash(s) ==
  /\ pc[S(s)] = "hash"
  /\ \/ /\ \/ hash' = [hash EXCEPT ![s] = file[route[s].from]]
           \/ <<"hashFails", route[s].from>> \in disturbances /\ hash' = [hash EXCEPT ![s] = NULL]
        /\ Goto(S(s), "connect") /\ UNCHANGED <<lock, told>>
     \/ /\ Goto(S(s), "over") /\ Tell(s, "refused") /\ CloseFile(S(s))
        /\ UNCHANGED hash
  /\ SenderStays /\ UNCHANGED <<file, damaged, size, sent, meant, socketVars>>

(* SCK_connectToServer and the SEND_FILE packet.  A command of a Son that is *)
(* gone listens for it: nobody will accept.                                 *)
Listens(n) == n \in up \cup children

Connect(s) ==
  /\ pc[S(s)] = "connect" /\ Listens(route[s].to)
  /\ sock' = [sock EXCEPT ![s] = {"sends", "receives"}]
  /\ packets' = [packets EXCEPT ![s] = <<[fileSize |-> size[s], hashDM5 |-> hash[s]]>>]
  /\ Goto(S(s), "data")
  /\ SenderStays /\ UNCHANGED <<fileVars, senderVars, reply>>

(* It fails: the thread ends, and neither unlocks nor closes the file. *)
Unreachable(s) ==
  /\ pc[S(s)] = "connect" /\ ~Listens(route[s].to)
  /\ Tell(s, "unreachable") /\ Goto(S(s), "over")
  /\ SenderStays /\ UNCHANGED <<fileVars, size, hash, sent, meant, socketVars>>

Hears(s, side) == side \in sock[s]

(* Mutant: stop is not looked at. *)
Stopped_goesOn(s) == Goto(S(s), "check") /\ Tell(s, "stopped")
Stopped(s)        == Goto(S(s), "close") /\ Tell(s, "stopped")

(* A FILE_DATA packet, and a look at run and at whether write() failed.      *)
(* What the file no longer has is sent as packets of length 0.              *)
SendData(s) ==
  /\ pc[S(s)] = "data"
  /\ IF Hears(s, "receives")
     THEN /\ Len(packets[s]) < SocketSize
          /\ LET f == file[route[s].from] i == sent[s] + 1 IN
             packets' = [packets EXCEPT ![s] = Append(@, IF i \in DOMAIN f THEN f[i] ELSE NoData)]
     ELSE UNCHANGED packets
  /\ sent' = [sent EXCEPT ![s] = @ + 1]
  /\ \/ (~run[route[s].from] \/ ~Hears(s, "receives")) /\ Stopped(s)
     \/ /\ run[route[s].from]
        /\ Goto(S(s), IF sent'[s] >= COM_packetsRequired(size[s]) THEN "check" ELSE "data")
        /\ UNCHANGED told
  /\ SenderStays /\ UNCHANGED <<fileVars, size, hash, meant, sock, reply>>

(* The end of the transfer, as the receiver found it: its answer, or that it *)
(* is gone.                                                                 *)
SendCheck(s) ==
  /\ pc[S(s)] = "check"
  /\ \/ /\ reply[s] # NULL
        /\ Tell(s, IF reply[s] = "CHECK_OK" THEN "correctly" ELSE "incorrectly")
     \/ /\ reply[s] = NULL /\ ~Hears(s, "receives")
        /\ Tell(s, "disconnected")
  /\ Goto(S(s), "close")
  /\ SenderStays /\ UNCHANGED <<fileVars, size, hash, sent, meant, socketVars>>

SendClose(s) ==
  /\ pc[S(s)] = "close"
  /\ CloseEnd(S(s)) /\ Unlock(S(s)) /\ Goto(S(s), "over")
  /\ SenderStays /\ UNCHANGED <<file, damaged, senderVars, packets, reply>>

ITH_sendFile(s) ==
  \/ SendSize(s) \/ SendHash(s) \/ Connect(s) \/ Unreachable(s)
  \/ SendData(s) \/ SendCheck(s) \/ SendClose(s)

-----------------------------------------------------------------------------
(* receiveFile.                                                             *)

ReceiverStays == UNCHANGED <<given, sonVars, senderVars>>

(* checkSocketMessage takes the SEND_FILE packet and starts the thread,      *)
(* which opens the file: O_TRUNC.                                           *)
ReceiveOpen(s) ==
  /\ route[s].to \in up
  /\ pc[R(s)] = "none" /\ "receives" \in sock[s] /\ packets[s] # <<>>
  /\ packets' = [packets EXCEPT ![s] = Tail(@)]
  /\ file' = [file EXCEPT ![route[s].to] = <<>>]
  /\ damaged' = damaged \cup {u \in Session : lock[route[s].to] = S(u) /\ Alive(S(u))}
  /\ Goto(R(s), "lock")
  /\ ReceiverStays /\ UNCHANGED <<lock, receiverVars, sock, reply>>

(* flock(): "only WE will use the file"; or fdFile = -1.                     *)
ReceiveLock(s) ==
  /\ pc[R(s)] = "lock"
  /\ IF lock[route[s].to] = NULL
     THEN lock' = [lock EXCEPT ![route[s].to] = R(s)] /\ UNCHANGED offset
     ELSE offset' = [offset EXCEPT ![s] = -1] /\ UNCHANGED lock
  /\ Goto(R(s), "data")
  /\ ReceiverStays /\ UNCHANGED <<file, damaged, taken, stands, socketVars>>

HasFile(s) == offset[s] >= 0

(* write() at the offset: beyond the end of a file that somebody else has   *)
(* truncated it leaves a hole.                                              *)
Written(f, o, chunk) ==
  [i \in 1..(IF o >= Len(f) THEN o + 1 ELSE Len(f)) |->
     IF i = o + 1 THEN chunk ELSE IF i <= Len(f) THEN f[i] ELSE Hole]

(* Mutant: i <= packetsRequired. *)
AllTaken_plus1(s) == taken'[s] > COM_packetsRequired(size[s])
AllTaken(s)       == taken'[s] >= COM_packetsRequired(size[s])

(* A packet is read, and run looked at; or there is none, as the sender has  *)
(* closed its end.                                                          *)
ReceiveData(s) ==
  /\ pc[R(s)] = "data"
  /\ \/ /\ packets[s] # <<>> /\ run[route[s].to]
        /\ taken' = [taken EXCEPT ![s] = @ + 1]
        /\ IF HasFile(s) /\ Head(packets[s]) # NoData
           THEN /\ file' = [file EXCEPT ![route[s].to] = Written(@, offset[s], Head(packets[s]))]
                /\ offset' = [offset EXCEPT ![s] = @ + 1]
           ELSE UNCHANGED <<file, offset>>
        /\ Goto(R(s), IF ~AllTaken(s) THEN "data" ELSE IF HasFile(s) THEN "verify" ELSE "refuse")
     \/ /\ IF packets[s] # <<>> THEN ~run[route[s].to] ELSE ~Hears(s, "sends")
        /\ Goto(R(s), IF HasFile(s) THEN "close" ELSE "refuse")
        /\ UNCHANGED <<taken, offset, file>>
  /\ packets' = [packets EXCEPT ![s] = IF @ = <<>> THEN @ ELSE Tail(@)]
  /\ ReceiverStays /\ UNCHANGED <<lock, damaged, stands, sock, reply>>

Answer(s, r) == reply' = [reply EXCEPT ![s] = IF Hears(s, "sends") THEN r ELSE @]

(* No file: CHECK_KO, even if told to stop.  Closing an end with packets     *)
(* unread resets the connection, which may overtake the reply.              *)
ReceiveRefuse(s) ==
  /\ pc[R(s)] = "refuse"
  /\ \/ Answer(s, "CHECK_KO")
     \/ packets[s] # <<>> /\ R(s) \notin keptEnds /\ UNCHANGED reply
  /\ CloseEnd(R(s)) /\ Goto(R(s), "over")
  /\ ReceiverStays /\ UNCHANGED <<fileVars, receiverVars, packets>>

(* md5sum on the received file, and the answer.  Mutant: only the sizes are *)
(* compared.                                                                *)
SameHash_size(s) == hash[s] # NULL /\ Len(file[route[s].to]) = size[s]
SameHash(s)      == hash[s] # NULL /\ file[route[s].to] = hash[s]

ReceiveCheck(s) ==
  /\ pc[R(s)] = "verify"
  /\ \/ SameHash(s) /\ Answer(s, "CHECK_OK") /\ stands' = [stands EXCEPT ![s] = file[route[s].to]]
     \/ /\ ~SameHash(s) \/ <<"hashFails", route[s].to>> \in disturbances
        /\ Answer(s, "CHECK_KO") /\ UNCHANGED stands
  /\ Goto(R(s), "close")
  /\ ReceiverStays /\ UNCHANGED <<fileVars, taken, offset, sock, packets>>

(* Mutant: a thread that was told to stop leaves at once. *)
ReceiveClose_leaves(s) ==
  /\ pc[R(s)] = "close"
  /\ CloseEnd(R(s)) /\ Goto(R(s), "over")
  /\ IF taken[s] < COM_packetsRequired(size[s]) THEN UNCHANGED lock ELSE Unlock(R(s))
  /\ ReceiverStays /\ UNCHANGED <<file, damaged, receiverVars, packets, reply>>

ReceiveClose(s) ==
  /\ pc[R(s)] = "close"
  /\ CloseEnd(R(s)) /\ Unlock(R(s)) /\ Goto(R(s), "over")
  /\ ReceiverStays /\ UNCHANGED <<file, damaged, receiverVars, packets, reply>>

receiveFile(s) ==
  ReceiveLock(s) \/ ReceiveData(s) \/ ReceiveRefuse(s) \/ ReceiveCheck(s) \/ ReceiveClose(s)

-----------------------------------------------------------------------------
(* The Sons.                                                                *)

(* end(), on the main thread or on thread t: run is cleared and the other   *)
(* threads are awaited.                                                     *)
Ends(n, t) ==
  /\ run' = [run EXCEPT ![n] = FALSE]
  /\ joins' = [joins EXCEPT ![n] = {u \in Thread \ {t} : SonOf(u) = n /\ Alive(u)}]
  /\ UNCHANGED <<up, hung, childVars, given, fileVars, senderVars, receiverVars, socketVars>>

End(n) == <<"end", n>> \in disturbances /\ n \in up /\ run[n] /\ Ends(n, NULL) /\ UNCHANGED pc

(* A write to a neighbour that is gone raises SIGPIPE, whose handler is     *)
(* end().                                                                   *)
BrokenPipe(t) ==
  /\ \/ pc[t] = "data" /\ t[2] = "sends" /\ ~Hears(t[1], "receives")
     \/ pc[t] \in {"verify", "refuse"} /\ ~Hears(t[1], "sends")
  /\ Ends(SonOf(t), t) /\ Goto(t, "ends")

(* The handler of a signal waits for a mutex that its own thread has, or Arda *)
(* owes an answer (Son): main may not get any further, nor any thread.      *)
Hang(n) ==
  /\ <<"hang", n>> \in disturbances /\ n \in up
  /\ hung' = hung \cup {n}
  /\ UNCHANGED <<up, run, joins, childVars, given, fileVars, senderVars, receiverVars, socketVars, pc>>

(* A thread that has its file open: also one that could not connect, as     *)
(* long as its process lives.                                               *)
HasOpen(t) ==
  \/ Alive(t)
  \/ t[2] = "sends" /\ told[t[1]] = "unreachable" /\ SonOf(t) \in up

(* Connections that nobody has accepted, which are the listening socket's. *)
Waiting(n) == {t \in Thread : SonOf(t) = n /\ t[2] = "receives" /\ pc[t] = "none"}

(* Of the ends of connections of Son n these stay. *)
KeepEnds(n, ends) ==
  sock' = [s \in Session |-> {e \in sock[s] : SonOf(<<s, e>>) = n => <<s, e>> \in ends}]

(* A command is started, by the main thread or by one for a hash, and has    *)
(* what is open; a receiver may be about to lock its file.                   *)
ForkChild(n) ==
  /\ <<"child", n>> \in disturbances /\ n \in up \ children
  /\ children' = children \cup {n}
  /\ keptFiles' = keptFiles \cup {t \in Thread : SonOf(t) = n /\ (lock[n] = t \/ pc[t] = "lock")}
  /\ keptEnds' = keptEnds \cup {t \in Thread : SonOf(t) = n /\ Alive(t) /\ t[2] \in sock[t[1]]}
  /\ UNCHANGED <<up, hung, run, joins, given, fileVars, senderVars, receiverVars, socketVars, pc>>

(* It ends, and what was left open by it alone is closed. *)
ChildExits(n) ==
  /\ n \in children
  /\ children' = children \ {n}
  /\ keptFiles' = {t \in keptFiles : SonOf(t) # n} /\ keptEnds' = {t \in keptEnds : SonOf(t) # n}
  /\ lock' = [lock EXCEPT ![n] = IF @ # NULL /\ HasOpen(@) THEN @ ELSE NULL]
  /\ KeepEnds(n, {t \in Thread : Alive(t)} \cup (IF n \in up THEN Waiting(n) ELSE {}))
  /\ UNCHANGED <<up, hung, run, joins, given, file, damaged, senderVars, receiverVars, packets, reply, pc>>

(* The process is gone, and with it its threads, its ends of sockets and    *)
(* its locks, but for those that a command of it has too.                   *)
Gone(n) ==
  /\ up' = up \ {n} /\ hung' = hung \ {n}
  /\ pc' = [t \in Thread |-> IF SonOf(t) = n /\ Alive(t) THEN "gone" ELSE pc[t]]
  /\ KeepEnds(n, keptEnds \cup (IF n \in children THEN Waiting(n) ELSE {}))
  /\ lock' = [lock EXCEPT ![n] = IF @ \in keptFiles THEN @ ELSE NULL]
  /\ UNCHANGED <<given, run, joins, childVars, file, damaged, senderVars, receiverVars, packets, reply>>

(* The loop that joins the threads may miss some of three or more that lie   *)
(* in a row of the table (JoinLoop).                                        *)
Missed(n) ==
  {missed \in SUBSET joins[n] :
     missed # {} => Cardinality(joins[n]) > 2 * Cardinality(missed)}

Exit(n) ==
  /\ n \in up \ hung /\ ~run[n]
  /\ \E missed \in Missed(n) : \A t \in joins[n] \ missed : pc[t] \in {"over", "ends"}
  /\ Gone(n)

Kill(n) == <<"kill", n>> \in disturbances /\ n \in up /\ Gone(n)

(* bind() fails while a command of the last run has its listening socket. *)
Start(n) ==
  /\ ~Listens(n)
  /\ up' = up \cup {n} /\ run' = [run EXCEPT ![n] = TRUE] /\ joins' = [joins EXCEPT ![n] = {}]
  /\ UNCHANGED <<hung, childVars, given, fileVars, senderVars, receiverVars, socketVars, pc>>

-----------------------------------------------------------------------------
Init ==
  /\ route \in Routes /\ disturbances \in Disturbances
  /\ file = [n \in Son |-> Content(n)] /\ lock = [n \in Son |-> NULL]
  /\ up = Son /\ hung = {} /\ run = [n \in Son |-> TRUE] /\ joins = [n \in Son |-> {}]
  /\ children = {} /\ keptFiles = {} /\ keptEnds = {}
  /\ pc = [t \in Thread |-> "none"]
  /\ size = [s \in Session |-> 0] /\ hash = [s \in Session |-> NULL]
  /\ sent = [s \in Session |-> 0] /\ told = [s \in Session |-> NULL]
  /\ meant = [s \in Session |-> NULL]
  /\ taken = [s \in Session |-> 0] /\ offset = [s \in Session |-> 0]
  /\ stands = [s \in Session |-> NULL]
  /\ sock = [s \in Session |-> {}] /\ packets = [s \in Session |-> <<>>]
  /\ reply = [s \in Session |-> NULL] /\ damaged = {}

Next ==
  \/ \E s \in Session : SendOpen(s) \/ ITH_sendFile(s) \/ ReceiveOpen(s) \/ receiveFile(s)
  \/ \E t \in Thread : BrokenPipe(t)
  \/ \E n \in Son : End(n) \/ Hang(n) \/ Exit(n) \/ Kill(n) \/ Start(n)
  \/ \E n \in Son : ForkChild(n) \/ ChildExits(n)

Spec == Init /\ [][Next]_vars

(* Threads that were started are scheduled, the main thread of a Son takes  *)
(* what comes in until it runs end(), and end() goes on; unless the Son      *)
(* hangs.  Commands come to their end, which is up to the user.             *)
FairSpec ==
  /\ Spec
  /\ \A s \in Session :
       /\ WF_vars(ITH_sendFile(s) /\ SonOf(S(s)) \notin hung)
       /\ WF_vars(receiveFile(s) /\ SonOf(R(s)) \notin hung)
       /\ WF_vars(ReceiveOpen(s) /\ run[route[s].to] /\ route[s].to \notin hung)
  /\ \A n \in Son : WF_vars(Exit(n)) /\ WF_vars(ChildExits(n))

-----------------
(* Properties.                                                              *)

(* The user who was told "correctly sent" sent the file as it was when its  *)
(* sending began, and it stood complete in the receiver's folder when it    *)
(* was checked; whatever else is sent to or from either Son under the same  *)
(* name, and whoever stops or dies.  (Exception: a file that was truncated  *)
(* under the sender's lock.)                                                *)
CorrectlyMeansWhole ==
  \A s \in Session :
    told[s] = "correctly" /\ s \notin damaged => stands[s] = meant[s] /\ meant[s] # NULL

(* A file is locked by a thread that is at work on it, or by one that could *)
(* not connect and whose Son still runs; or else a command of its Son is     *)
(* alive that was started when the thread had the file open, and keeps it.   *)
LocksAreUsed ==
  \A n \in Son : lock[n] # NULL =>
    HasOpen(lock[n]) \/ (lock[n] \in keptFiles /\ n \in children)

(* Thread t waits for packets to be taken, for a packet or for an answer: on *)
(* a connection that the other Son has not accepted, or that it hangs on.    *)
Peer(t) == IF t[2] = "sends" THEN route[t[1]].to ELSE route[t[1]].from

Waits(t) ==
  /\ Hears(t[1], IF t[2] = "sends" THEN "receives" ELSE "sends")
  /\ IF t[2] = "sends"
     THEN \/ pc[t] = "check" /\ reply[t[1]] = NULL
          \/ pc[t] = "data" /\ Len(packets[t[1]]) = SocketSize
     ELSE pc[t] = "data" /\ packets[t[1]] = <<>>
  /\ pc[R(t[1])] = "none" \/ Peer(t) \in hung

(* Sons that hang, or that are in end() and join a thread of theirs that      *)
(* waits for another one of them: for each other, it may be.                 *)
Embraced(N) ==
  \A n \in N :
    /\ n \in up
    /\ \/ n \in hung
       \/ ~run[n] /\ \E t \in joins[n] : Waits(t) /\ Peer(t) \in N

HeldUp(t) ==
  \E N \in SUBSET Son :
    /\ Embraced(N)
    /\ \/ SonOf(t) \in N /\ (pc[t] = "ends" \/ SonOf(t) \in hung)
       \/ Waits(t) /\ Peer(t) \in N

(* For FairSpec: every thread comes to its end, whichever Sons stop, die or   *)
(* leave commands behind, unless it is held up for ever by a Son that hangs,  *)
(* or by Sons that wait for each other in end().                             *)
EveryTransferEnds == <>[](\A t \in Thread : Alive(t) => HeldUp(t))

D == INSTANCE Delivery WITH
       arrived <- {s \in Session : meant[s] # NULL /\ stands[s] = meant[s]},
       changed <- damaged

(* The user is told the outcome once, and "correctly" only when it is so.   *)
ImplementsDelivery == D!Spec

=============================================================================
