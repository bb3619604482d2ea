----------------------------- MODULE Neighbours -----------------------------
(***************************************************************************)
(* iluvatarSons of one machine, which reach each other through POSIX        *)
(* message queues (ipcHelper.c): the awake queue of each process, and the   *)
(* two queues of each session, that both ends create, use and remove.       *)
(*                                                                         *)
(* The name of a session's queues is made of both pids and of rand(),       *)
(* seeded with the second: sessions that begin in one second share it.  A   *)
(* queue outlives its name while an end has it open, so a queue is          *)
(* identified by the end that created it.  The calls that wait for a        *)
(* session's queue give up after 5 seconds; mq_send to an awake queue waits *)
(* for ever.                                                                *)
(***************************************************************************)
EXTENDS Integers, Sequences, FiniteSets

CONSTANTS
  NULL,
  Son,         \* processes: none has the pid of another
  Session, From, To,
  Name, nameOf, \* the names of queues, and each session's
  Data,        \* FILE_DATA packets that a session sends; none: a message
  AwakeSize,   \* mq_maxmsg, 10 in the code
  QueueSize,   \* of the queues of a session
  Disturbances,
  Disturbed    \* bound: the Sons that are late, ended or killed

AllDisturbances == {"late", "end", "kill"}

ASSUME NeighboursAssumption ==
  /\ NULL \notin Session \X {"sends", "receives"} /\ NULL \notin {"correctly", "MSGOK", "CHECK_OK"}
  /\ From \in [Session -> Son] /\ To \in [Session -> Son]
  /\ \A s \in Session : From[s] # To[s]
  /\ nameOf \in [Session -> Name] /\ Data \in [Session -> Nat]
  /\ AwakeSize \in Nat \ {0} /\ QueueSize \in Nat \ {0}
  /\ Disturbances \subseteq SUBSET AllDisturbances /\ Disturbed \subseteq Son

VARIABLES
  disturbances,
  up, run, joins,  \* as in FileTransfer
  awake,    \* the queue of each process: sessions
  listed,   \* the processes whose awake queue still has its name
  pc,       \* of both ends of each session
  queueOf,  \* for each name and each queue, who created it; NULL: no such name
  fds,      \* the queues that each end has open
  queue,    \* their packets
  sent,     \* the senders' packets
  got,      \* the receivers' packets
  told,     \* what the sender's user was told
  shown     \* messages shown, files found correct

sonVars == <<up, run, joins, awake, listed>>
queues  == <<queueOf, fds, queue>>
vars    == <<disturbances, sonVars, queues, pc, sent, got, told, shown>>

End      == Session \X {"sends", "receives"}
Queue    == {"rw", "wr"}
S(s)     == <<s, "sends">>
R(s)     == <<s, "receives">>
SonOf(e) == IF e[2] = "sends" THEN From[e[1]] ELSE To[e[1]]
NameOf(e) == nameOf[e[1]]

Goto(e, l) == pc' = [pc EXCEPT ![e] = l]
Alive(e)   == pc[e] \notin {"none", "over", "gone"}
Tell(s, n) == told' = [told EXCEPT ![s] = n]
Running(e) == run[SonOf(e)]

Packet(s, i) == [header |-> IF i > 0 THEN "FILE_DATA" ELSE IF Data[s] = 0 THEN "SEND_MSG" ELSE "SEND_FILE",
                 of |-> s, i |-> i]
Reply(h)     == [header |-> h]

-----------------------------------------------------------------------------
(* The queues of a session.                                                 *)

Of(e, q) == queue[fds[e][q]][q]

(* fds[0] and fds[1]: what the sender reads and writes, and the receiver     *)
(* writes and reads.  Mutant: both read from fds[0].                        *)
In_first(e) == "rw"
In(e)  == IF e[2] = "sends" THEN "rw" ELSE "wr"
Out(e) == IF e[2] = "sends" THEN "wr" ELSE "rw"

CanPut(e)  == Len(Of(e, Out(e))) < QueueSize
CanTake(e) == Of(e, In(e)) # <<>>
Put(e, p)  == CanPut(e) /\ queue' = [queue EXCEPT ![fds[e][Out(e)]][Out(e)] = Append(@, p)]
Take(e, p) == /\ CanTake(e) /\ p = Head(Of(e, In(e)))
              /\ queue' = [queue EXCEPT ![fds[e][In(e)]][In(e)] = Tail(@)]

(* mq_open(.., O_CREAT | O_RDWR, ..) of both.  The sender writes to wr,      *)
(* which the receiver reads.                                                *)
IPC_startQueues(e) ==
  /\ pc[e] = "open"
  /\ LET opened == [q \in Queue |-> IF queueOf[NameOf(e)][q] = NULL THEN e ELSE queueOf[NameOf(e)][q]]
     IN  queueOf' = [queueOf EXCEPT ![NameOf(e)] = opened] /\ fds' = [fds EXCEPT ![e] = opened]
  /\ Goto(e, IF e[2] = "sends" THEN "write" ELSE "read")
  /\ UNCHANGED queue

Unlink(e, q) == queueOf' = [queueOf EXCEPT ![NameOf(e)][q] = NULL]

(* A queue that has neither a name nor a user is no more. *)
Destroy ==
  LET named  == {<<queueOf'[n][q], q>> : n \in Name, q \in Queue}
      opened == {<<fds'[e][q], q>> : e \in End, q \in Queue}
      kept   == named \cup opened
  IN  queue' = [c \in End |-> [q \in Queue |-> IF <<c, q>> \in kept THEN queue[c][q] ELSE <<>>]]

(* IPC_stopQueues.  Mutant: the receiver leaves it to the sender. *)
StopWr_sender(e) ==
  /\ pc[e] = "stopWr" /\ Goto(e, "over")
  /\ IF e[2] = "sends" THEN Unlink(e, "wr") ELSE UNCHANGED queueOf
  /\ UNCHANGED fds /\ Destroy
StopWr(e) == pc[e] = "stopWr" /\ Unlink(e, "wr") /\ Goto(e, "over") /\ UNCHANGED fds /\ Destroy

IPC_stopQueues(e) ==
  \/ /\ pc[e] = "stop"
     /\ fds' = [fds EXCEPT ![e] = [q \in Queue |-> NULL]]
     /\ Unlink(e, "rw") /\ Goto(e, "stopWr") /\ Destroy
  \/ StopWr(e)

(* What each end may be waiting for. *)
Waits(e) ==
  \/ pc[e] = "read" /\ ~CanTake(e)
  \/ pc[e] \in {"write", "reply"} /\ ~CanPut(e)

(* mq_send to the full awake queue of a process that no longer reads it. *)
CallsForEver(e) ==
  /\ e[2] = "sends" /\ pc[e] = "awake"
  /\ Len(awake[To[e[1]]]) = AwakeSize /\ ~(To[e[1]] \in up /\ run[To[e[1]]])

(* The receiving thread of a session is still to be started. *)
Called(e) == /\ e[2] = "receives" /\ pc[e] = "none" /\ e[1] \in {awake[SonOf(e)][i] : i \in DOMAIN awake[SonOf(e)]}
             /\ SonOf(e) \in up /\ Running(e)

(* Five seconds pass: at any time for those who wait for a late process,    *)
(* otherwise when nobody who has the name is about to do anything.  Mutant: *)
(* no timeout.                                                              *)
TimesOut_never(e) == FALSE
TimesOut(e) ==
  /\ Waits(e)
  /\ \/ "late" \in disturbances /\ SonOf(e) \notin Disturbed
     \/ \A u \in End : NameOf(u) = NameOf(e) => IF Alive(u) THEN Waits(u) \/ CallsForEver(u) ELSE ~Called(u)

-----------------------------------------------------------------------------
(* ITH_sendMessage and ITH_sendFile.                                        *)

(* prepareSendMsg, prepareSendFile: the neighbour's process exists. *)
Begin(s) ==
  /\ pc[S(s)] = "none" /\ From[s] \in up /\ run[From[s]] /\ To[s] \in up
  /\ Goto(S(s), "dial")
  /\ UNCHANGED <<disturbances, sonVars, queues, sent, got, told, shown>>

(* IPC_sendAwakeMessage: its queue no longer does; or it does, and takes    *)
(* the message as soon as there is room.                                    *)
Dial(s) ==
  /\ pc[S(s)] = "dial"
  /\ IF To[s] \in listed
     THEN Goto(S(s), "awake") /\ UNCHANGED told
     ELSE Goto(S(s), "over") /\ Tell(s, "unreachable")
  /\ UNCHANGED <<disturbances, sonVars, queues, sent, got, shown>>

IPC_sendAwakeMessage(s) ==
  /\ pc[S(s)] = "awake" /\ Len(awake[To[s]]) < AwakeSize
  /\ awake' = [awake EXCEPT ![To[s]] = Append(@, s)]
  /\ Goto(S(s), "open")
  /\ UNCHANGED <<disturbances, up, run, joins, listed, queues, sent, got, told, shown>>

(* The SEND_ packet goes, in time or not; a FILE_DATA packet that does not, *)
(* or run, ends the sending.                                                *)
SendPacket(s) ==
  /\ pc[S(s)] = "write"
  /\ \E written \in BOOLEAN :
       /\ IF written THEN Put(S(s), Packet(s, sent[s])) ELSE TimesOut(S(s)) /\ UNCHANGED queue
       /\ sent' = [sent EXCEPT ![s] = @ + 1]
       /\ IF sent[s] > 0 /\ (~written \/ ~run[From[s]])
          THEN Goto(S(s), "stop") /\ Tell(s, "stopped")
          ELSE Goto(S(s), IF sent'[s] > Data[s] THEN "read" ELSE "write") /\ UNCHANGED told
  /\ UNCHANGED <<disturbances, sonVars, queueOf, fds, got, shown>>

(* Mutant: no answer is as good as one. *)
Answered_timeout(s, h) == h \in {NULL, IF Data[s] = 0 THEN "MSGOK" ELSE "CHECK_OK"}
Answered(s, h)         == h = IF Data[s] = 0 THEN "MSGOK" ELSE "CHECK_OK"

ReadReply(s) ==
  /\ pc[S(s)] = "read"
  /\ \/ \E p \in {Reply(h) : h \in {"MSGOK", "CHECK_OK", "CHECK_KO"}} :
          Take(S(s), p) /\ Tell(s, IF Answered(s, p.header) THEN "correctly" ELSE "failed")
     \/ TimesOut(S(s)) /\ UNCHANGED queue /\ Tell(s, IF Answered(s, NULL) THEN "correctly" ELSE "failed")
  /\ Goto(S(s), "stop")
  /\ UNCHANGED <<disturbances, sonVars, queueOf, fds, sent, got, shown>>

Sender(s) == Dial(s) \/ IPC_sendAwakeMessage(s) \/ SendPacket(s) \/ ReadReply(s)

-----------------------------------------------------------------------------
(* checkIpcMessage, on the main thread.                                     *)
checkIpcMessage(n) ==
  /\ n \in up /\ run[n] /\ awake[n] # <<>>
  /\ awake' = [awake EXCEPT ![n] = Tail(@)]
  /\ Goto(R(Head(awake[n])), "open")
  /\ UNCHANGED <<disturbances, up, run, joins, listed, queues, sent, got, told, shown>>

(* ITH_checkIpcMessage: the first packet says what follows; FILE_DATA is    *)
(* "unknown", and so is none.  receiveFile takes as many packets as the     *)
(* file has, whatever they are, and looks at run.                           *)
Asked(s) == Head(got[s]).of

Leave(s) == Goto(R(s), "stop") /\ got' = [got EXCEPT ![s] = <<>>]

Sent == UNION {{Packet(u, i) : i \in 0..Data[u]} : u \in Session}

ReadPacket(s) ==
  /\ pc[R(s)] = "read"
  /\ \/ \E p \in Sent :
          /\ Take(R(s), p)
          /\ LET taken   == Append(got[s], p)
                 unknown == got[s] = <<>> /\ p.i > 0
                 stopped == got[s] # <<>> /\ ~run[To[s]]
                 all     == Len(taken) > Data[taken[1].of]
             IN  IF unknown \/ stopped
                 THEN Leave(s)
                 ELSE /\ got' = [got EXCEPT ![s] = taken]
                      /\ Goto(R(s), IF all THEN "reply" ELSE "read")
     \/ TimesOut(R(s)) /\ Leave(s) /\ UNCHANGED queue
  /\ UNCHANGED <<disturbances, sonVars, queueOf, fds, sent, told, shown>>

(* The hash of the file is right. *)
IsWhole(s) == got[s] = [i \in 1..Data[Asked(s)] + 1 |-> Packet(Asked(s), i - 1)]

WriteReply(s) ==
  /\ pc[R(s)] = "reply"
  /\ LET h == IF Data[Asked(s)] = 0 THEN "MSGOK" ELSE IF IsWhole(s) THEN "CHECK_OK" ELSE "CHECK_KO"
     IN  /\ Put(R(s), Reply(h)) \/ (TimesOut(R(s)) /\ UNCHANGED queue)
         /\ shown' = IF h = "CHECK_KO" THEN shown ELSE shown \cup {R(s)}
  /\ Leave(s)
  /\ UNCHANGED <<disturbances, sonVars, queueOf, fds, sent, told>>

Receiver(s) == ReadPacket(s) \/ WriteReply(s)

QueueCalls(e) ==
  /\ IPC_startQueues(e) \/ IPC_stopQueues(e)
  /\ UNCHANGED <<disturbances, sonVars, sent, got, told, shown>>

Thread(e) ==
  \/ QueueCalls(e)
  \/ IF e[2] = "sends" THEN Sender(e[1]) ELSE Receiver(e[1])

-----------------------------------------------------------------------------
(* The processes.  end() stops reading the awake queue, waits for the       *)
(* threads and removes the queue (IPC_stop); a killed process leaves its    *)
(* queues behind.                                                           *)
EndSon(n) ==
  /\ "end" \in disturbances /\ n \in Disturbed \cap up /\ run[n]
  /\ run' = [run EXCEPT ![n] = FALSE]
  /\ joins' = [joins EXCEPT ![n] = {e \in End : SonOf(e) = n /\ Alive(e)}]
  /\ UNCHANGED <<disturbances, up, awake, listed, queues, pc, sent, got, told, shown>>

(* The process is gone; what it created keeps its name.                     *)
Gone(n) ==
  /\ up' = up \ {n}
  /\ pc' = [e \in End |-> IF SonOf(e) = n /\ Alive(e) THEN "gone" ELSE pc[e]]
  /\ fds' = [e \in End |-> IF SonOf(e) = n THEN [q \in Queue |-> NULL] ELSE fds[e]]
  /\ UNCHANGED queueOf /\ Destroy
  /\ UNCHANGED <<disturbances, run, joins, awake, sent, got, told, shown>>

(* The loop that joins the threads may miss some of three or more that lie   *)
(* in a row of the table (JoinLoop).                                        *)
Missed(n) ==
  {missed \in SUBSET joins[n] :
     missed # {} => Cardinality(joins[n]) > 2 * Cardinality(missed)}

Exit(n) ==
  /\ n \in up /\ ~run[n]
  /\ \E missed \in Missed(n) : \A e \in joins[n] \ missed : pc[e] = "over"
  /\ listed' = listed \ {n}
  /\ Gone(n)

Kill(n) == "kill" \in disturbances /\ n \in Disturbed \cap up /\ Gone(n) /\ UNCHANGED listed

-----------------------------------------------------------------------------
Init ==
  /\ disturbances \in Disturbances
  /\ up = Son /\ run = [n \in Son |-> TRUE] /\ joins = [n \in Son |-> {}]
  /\ awake = [n \in Son |-> <<>>] /\ listed = Son
  /\ pc = [e \in End |-> "none"]
  /\ queueOf = [n \in Name |-> [q \in Queue |-> NULL]]
  /\ fds = [e \in End |-> [q \in Queue |-> NULL]]
  /\ queue = [e \in End |-> [q \in Queue |-> <<>>]]
  /\ sent = [s \in Session |-> 0] /\ got = [s \in Session |-> <<>>]
  /\ told = [s \in Session |-> NULL] /\ shown = {}

Next ==
  \/ \E s \in Session : Begin(s)
  \/ \E e \in End : Thread(e)
  \/ \E n \in Son : checkIpcMessage(n) \/ EndSon(n) \/ Exit(n) \/ Kill(n)

Spec == Init /\ [][Next]_vars

(* Threads are scheduled, and a main thread takes what comes in.  None of    *)
(* them can run for ever, so it takes no fairness among them.               *)
FairSpec ==
  /\ Spec
  /\ WF_vars(\E e \in End : Thread(e))
  /\ WF_vars(\E n \in Son : checkIpcMessage(n) \/ Exit(n))

-----------------------------------------------------------------------------
(* Properties.                                                              *)

(* Of the sessions that share a name, no more are told that they succeeded  *)
(* than were shown to the neighbour or stored: sessions of one second may   *)
(* take each other's packets, but never both count one of them.             *)
SuccessIsShared ==
  \A n \in Name :
    Cardinality({s \in Session : nameOf[s] = n /\ told[s] = "correctly"})
      <= Cardinality({e \in shown : NameOf(e) = n})

(* Whoever may remove a name while another is about to use it, no queue is  *)
(* left behind: the end that created one is at work, or was cut off when its *)
(* process was killed, or did not join it.                                  *)
QueuesAreRemoved ==
  \A n \in Name, q \in Queue : LET e == queueOf[n][q] IN e # NULL => Alive(e) \/ pc[e] = "gone"

(* For FairSpec: if everybody is in time, a session succeeds, unless another *)
(* has its name or the neighbour ends.                                      *)
Succeeds ==
  \A s \in Session :
    pc[S(s)] = "dial" /\ "late" \notin disturbances
      ~> \/ told[s] = "correctly"
         \/ To[s] \notin up \/ ~run[To[s]]
         \/ \E u \in Session \ {s} : nameOf[u] = nameOf[s] /\ pc[S(u)] # "none"

(* For FairSpec: every thread comes to its end, unless it is calling a      *)
(* process that ended with its awake queue full: that lasts for ever, and   *)
(* end() waits with it.                                                     *)
EveryThreadEnds == <>[](\A e \in End : ~Alive(e) \/ CallsForEver(e))

=============================================================================
