-------------------------- MODULE NeighboursProofs --------------------------
(***************************************************************************)
(* Theorems about Neighbours, for any processes, sessions, names, queue     *)
(* sizes and disturbances: the removal of queues, and successes.            *)
(***************************************************************************)
EXTENDS Neighbours, FiniteSetTheorems, TLAPS

(* Whoever created a queue that still has its name is not yet past its      *)
(* removal.                                                                 *)
Creators ==
  \A n \in Name, q \in Queue, e \in End : queueOf[n][q] = e =>
    /\ n = NameOf(e)
    /\ pc[e] \notin {"none", "dial", "over"}
    /\ pc[e] = "stopWr" => q = "wr"

Inv ==
  /\ DOMAIN pc = End
  /\ queueOf \in [Name -> [Queue -> End \cup {NULL}]]
  /\ Creators

LEMMA EndFacts ==
  /\ NULL \notin End
  /\ \A s \in Session : S(s) \in End /\ R(s) \in End
  /\ \A e \in End : e = S(e[1]) \/ e = R(e[1])
  /\ \A e \in End : NameOf(e) \in Name
BY NeighboursAssumption DEF End, S, R, NameOf

LEMMA InitInv == Init => Inv
BY EndFacts DEF Init, Inv, Creators, Queue

(* A step between creation and removal, or of an end that has no queues.    *)
LEMMA NamesKept == ASSUME Inv, UNCHANGED queueOf, NEW e \in End,
                          NEW l \in {"awake", "open", "write", "read", "reply", "stop"},
                          \/ UNCHANGED pc
                          \/ pc' = [pc EXCEPT ![e] = l]
                          \/ pc[e] = "dial" /\ pc' = [pc EXCEPT ![e] = "over"]
                          \/ pc[e] = "none" /\ pc' = [pc EXCEPT ![e] = "dial"]
                   PROVE  Inv'
BY DEF Inv, Creators

(* Whatever session the message is about, its receiver begins.              *)
LEMMA CheckInv == ASSUME Inv, NEW n \in Son, checkIpcMessage(n) PROVE Inv'
BY DEF checkIpcMessage, Goto, Inv, Creators, queues

LEMMA BeginInv == ASSUME Inv, NEW s \in Session, Begin(s) PROVE Inv'
BY NamesKept, EndFacts DEF Begin, Goto, queues

LEMMA SenderInv == ASSUME Inv, NEW s \in Session, Sender(s) PROVE Inv'
<1>e. S(s) \in End
  BY EndFacts
<1>1. CASE Dial(s)
  BY <1>1, <1>e, NamesKept DEF Dial, Goto, queues
<1>2. CASE IPC_sendAwakeMessage(s)
  BY <1>2, <1>e, NamesKept DEF IPC_sendAwakeMessage, Goto, queues
<1>3. CASE SendPacket(s)
  <2>1. UNCHANGED queueOf /\ \E l \in {"stop", "read", "write"} : pc' = [pc EXCEPT ![S(s)] = l]
    BY <1>3 DEF SendPacket, Goto
  <2>2. QED
    BY <2>1, <1>e, NamesKept
<1>4. CASE ReadReply(s)
  BY <1>4, <1>e, NamesKept DEF ReadReply, Goto
<1>5. QED
  BY <1>1, <1>2, <1>3, <1>4 DEF Sender

LEMMA ReceiverInv == ASSUME Inv, NEW s \in Session, Receiver(s) PROVE Inv'
<1>e. R(s) \in End
  BY EndFacts
<1>1. UNCHANGED queueOf /\ \E l \in {"stop", "reply", "read"} : pc' = [pc EXCEPT ![R(s)] = l]
  <2>1. CASE ReadPacket(s)
    BY <2>1 DEF ReadPacket, Leave, Goto
  <2>2. CASE WriteReply(s)
    BY <2>2 DEF WriteReply, Leave, Goto
  <2>3. QED
    BY <2>1, <2>2 DEF Receiver
<1>2. QED
  BY <1>1, <1>e, NamesKept

(* What has no name gets one, and e for its creator. *)
LEMMA StartInv == ASSUME Inv, NEW e \in End, IPC_startQueues(e) PROVE Inv'
<1>1. PICK l \in {"write", "read"} : pc' = [pc EXCEPT ![e] = l]
  BY DEF IPC_startQueues, Goto
<1>2. \A n \in Name, q \in Queue :
        queueOf'[n][q] = IF n = NameOf(e) /\ queueOf[n][q] = NULL THEN e ELSE queueOf[n][q]
  BY EndFacts DEF IPC_startQueues, Inv
<1>3. queueOf' \in [Name -> [Queue -> End \cup {NULL}]]
  BY EndFacts DEF IPC_startQueues, Inv
<1>4. Creators'
  BY <1>1, <1>2, EndFacts DEF Inv, Creators, IPC_startQueues
<1>5. QED
  BY <1>1, <1>3, <1>4 DEF Inv

(* One queue loses its name, then the other, and the creator of either may   *)
(* have been somebody else.                                                 *)
LEMMA StopInv == ASSUME Inv, NEW e \in End, IPC_stopQueues(e) PROVE Inv'
<1>u. ASSUME NEW q \in Queue, Unlink(e, q)
      PROVE  /\ queueOf' \in [Name -> [Queue -> End \cup {NULL}]]
             /\ \A n \in Name, r \in Queue :
                  queueOf'[n][r] = IF n = NameOf(e) /\ r = q THEN NULL ELSE queueOf[n][r]
  BY <1>u, EndFacts DEF Unlink, Inv
<1>1. CASE pc[e] = "stop" /\ Unlink(e, "rw") /\ Goto(e, "stopWr")
  <2>1. Creators'
    BY <1>1, <1>u, EndFacts DEF Inv, Creators, Goto, Queue
  <2>2. QED
    BY <1>1, <1>u, <2>1 DEF Inv, Goto, Queue
<1>2. CASE StopWr(e)
  <2>1. Creators'
    BY <1>2, <1>u, EndFacts DEF StopWr, Inv, Creators, Goto, Queue
  <2>2. QED
    BY <1>2, <1>u, <2>1 DEF StopWr, Inv, Goto, Queue
<1>3. QED
  BY <1>1, <1>2 DEF IPC_stopQueues

(* A process that is gone leaves the names of its queues. *)
LEMMA GoneInv == ASSUME Inv, NEW n \in Son, Gone(n) PROVE Inv'
BY DEF Gone, Inv, Creators, Alive

LEMMA ProcessInv == ASSUME Inv, NEW n \in Son, EndSon(n) \/ Exit(n) \/ Kill(n) PROVE Inv'
<1>1. CASE EndSon(n)
  BY <1>1 DEF EndSon, Inv, Creators, queues
<1>2. CASE Exit(n) \/ Kill(n)
  BY <1>2, GoneInv DEF Exit, Kill
<1>3. QED
  BY <1>1, <1>2

LEMMA NextInv == ASSUME Inv, [Next]_vars PROVE Inv'
<1>1. ASSUME NEW e \in End, Thread(e) PROVE Inv'
  <2>1. CASE QueueCalls(e)
    BY <2>1, StartInv, StopInv DEF QueueCalls
  <2>2. CASE e[2] = "sends" /\ Sender(e[1])
    BY <2>2, SenderInv DEF End
  <2>3. CASE e[2] # "sends" /\ Receiver(e[1])
    BY <2>3, ReceiverInv DEF End
  <2>4. QED
    BY <1>1, <2>1, <2>2, <2>3 DEF Thread
<1>2. CASE UNCHANGED vars
  BY <1>2 DEF Inv, Creators, vars, queues
<1>3. QED
  BY <1>1, <1>2, BeginInv, CheckInv, ProcessInv DEF Next

(* Any number of sessions may share a name and remove each other's queues,   *)
(* time out, or be interrupted: a session's queues that still have a name    *)
(* have a creator that is at work, and will remove them, or was cut off.    *)
THEOREM QueuesGetRemoved == Spec => []QueuesAreRemoved
<1>1. Inv => QueuesAreRemoved
  BY DEF Inv, Creators, QueuesAreRemoved, Alive
<1>2. QED
  BY <1>1, InitInv, NextInv, PTL DEF Spec

-----------------------------------------------------------------------------
(* Successes.  Sessions of one name may take each other's packets, so which  *)
(* success belongs to which message shown is not fixed: there is a way to    *)
(* match them.                                                              *)

(* Answers to a session that succeeded.                                     *)
Good == {Reply("MSGOK"), Reply("CHECK_OK")}
Replies == {Reply(h) : h \in {"MSGOK", "CHECK_OK", "CHECK_KO"}}

(* The successes of senders: told to the user, or on their way.             *)
Tokens ==
  {<<S(s), 0>> : s \in {u \in Session : told[u] = "correctly"}}
  \cup UNION {{<<c, i>> : i \in {j \in 1..Len(queue[c]["rw"]) : queue[c]["rw"][j] \in Good}} : c \in End}

(* Each of the elements of T has one of X to itself, of the same name.      *)
Matched(T, X) ==
  \E f \in [T -> X] : /\ \A t, u \in T : f[t] = f[u] => t = u
                      /\ \A t \in T : NameOf(f[t]) = NameOf(t[1])

Shared == Matched(Tokens, shown)

Early == {"none", "dial", "awake"}
Busy  == {"write", "read", "reply"}
Late  == {"stop", "stopWr", "over", "gone"}

(* A session is called once, by its sender.                                 *)
CalledOnce ==
  /\ \A s \in Session : pc[S(s)] \in Early => pc[R(s)] = "none"
  /\ awake \in [Son -> Seq(Session)]
  /\ \A n \in Son : \A i \in 1..Len(awake[n]) :
       LET s == awake[n][i] IN
         /\ To[s] = n /\ pc[R(s)] = "none" /\ pc[S(s)] \notin Early
         /\ \A j \in 1..Len(awake[n]) : awake[n][j] = s => j = i

(* So it is shown once.                                                     *)
ShownOnce ==
  /\ shown \subseteq {R(s) : s \in Session}
  /\ \A e \in shown : pc[e] \in Late

(* An end has queues of its own name open while it uses them.               *)
Opened ==
  /\ fds \in [End -> [Queue -> End \cup {NULL}]]
  /\ \A e \in End, q \in Queue : fds[e][q] # NULL => NameOf(fds[e][q]) = NameOf(e)
  /\ \A e \in End, q \in Queue : pc[e] \in Busy => fds[e][q] # NULL

AnyPacket == [header : {"FILE_DATA", "SEND_MSG", "SEND_FILE"}, of : Session, i : Nat]

Typed ==
  /\ queue \in [End -> [Queue -> Seq(AnyPacket \cup Replies)]]
  /\ \A e \in End : queue[e]["rw"] \in Seq(Replies)
  /\ sent \in [Session -> Nat]
  /\ told \in [Session -> {NULL, "unreachable", "stopped", "correctly", "failed"}]
  /\ DOMAIN pc = End

ShareInv == Typed /\ CalledOnce /\ ShownOnce /\ Opened /\ Shared

LEMMA Fewer == ASSUME NEW T, NEW X, Matched(T, X), NEW T2 \in SUBSET T, NEW X2, X \subseteq X2
               PROVE  Matched(T2, X2)
<1>1. PICK f \in [T -> X] : /\ \A t, u \in T : f[t] = f[u] => t = u
                            /\ \A t \in T : NameOf(f[t]) = NameOf(t[1])
  BY DEF Matched
<1> DEFINE g == [t \in T2 |-> f[t]]
<1>2. g \in [T2 -> X2] /\ (\A t, u \in T2 : g[t] = g[u] => t = u) /\ \A t \in T2 : NameOf(g[t]) = NameOf(t[1])
  BY <1>1
<1>3. QED
  BY <1>2 DEF Matched

LEMMA OneMore == ASSUME NEW T, NEW X, Matched(T, X), NEW c, NEW x, x \notin X, NEW i, NameOf(x) = NameOf(c),
                        NEW T2, T2 \subseteq T \cup {<<c, i>>}
                 PROVE  Matched(T2, X \cup {x})
<1>1. PICK f \in [T -> X] : /\ \A t, u \in T : f[t] = f[u] => t = u
                            /\ \A t \in T : NameOf(f[t]) = NameOf(t[1])
  BY DEF Matched
<1> DEFINE g == [t \in T2 |-> IF t \in T THEN f[t] ELSE x]
<1>2. g \in [T2 -> X \cup {x}]
  BY <1>1
<1>3. \A t, u \in T2 : g[t] = g[u] => t = u
  BY <1>1
<1>4. \A t \in T2 : NameOf(g[t]) = NameOf(t[1])
  <2> SUFFICES ASSUME NEW t \in T2 PROVE NameOf(g[t]) = NameOf(t[1])
    OBVIOUS
  <2>1. CASE t \in T
    BY <1>1, <2>1
  <2>2. CASE t \notin T
    <3>1. t = <<c, i>> /\ t[1] = c /\ g[t] = x
      BY <2>2
    <3>2. QED
      BY <3>1
  <2>3. QED
    BY <2>1, <2>2
<1>5. QED
  BY <1>2, <1>3, <1>4 DEF Matched

LEMMA Renamed == ASSUME NEW T, NEW X, Matched(T, X), NEW T2, NEW g \in [T2 -> T],
                        \A t, u \in T2 : g[t] = g[u] => t = u,
                        \A t \in T2 : NameOf(g[t][1]) = NameOf(t[1])
                 PROVE  Matched(T2, X)
<1>1. PICK f \in [T -> X] : /\ \A t, u \in T : f[t] = f[u] => t = u
                            /\ \A t \in T : NameOf(f[t]) = NameOf(t[1])
  BY DEF Matched
<1> DEFINE h == [t \in T2 |-> f[g[t]]]
<1>2. h \in [T2 -> X] /\ (\A t, u \in T2 : h[t] = h[u] => t = u)
  BY <1>1
<1>3. \A t \in T2 : NameOf(h[t]) = NameOf(t[1])
  BY <1>1
<1>4. QED
  BY <1>2, <1>3 DEF Matched

LEMMA Ends ==
  /\ \A s \in Session : /\ S(s) \in End /\ S(s)[1] = s /\ S(s)[2] = "sends" /\ NameOf(S(s)) = nameOf[s]
                        /\ R(s) \in End /\ R(s)[1] = s /\ R(s)[2] = "receives" /\ NameOf(R(s)) = nameOf[s]
                        /\ SonOf(S(s)) = From[s] /\ SonOf(R(s)) = To[s]
  /\ \A s, u \in Session : S(s) # R(u) /\ (S(s) = S(u) => s = u) /\ (R(s) = R(u) => s = u)
  /\ Queue = {"rw", "wr"} /\ NULL \notin End
BY NeighboursAssumption DEF End, S, R, NameOf, SonOf, Queue

LEMMA InitShare == Init => ShareInv
<1> SUFFICES ASSUME Init PROVE ShareInv
  OBVIOUS
<1>1. /\ queue \in [End -> [Queue -> Seq(AnyPacket \cup Replies)]]
      /\ \A e \in End : queue[e]["rw"] = <<>> /\ queue[e]["rw"] \in Seq(Replies)
  BY Ends DEF Init
<1>2. Typed
  BY <1>1 DEF Init, Typed
<1>3. CalledOnce
  <2>1. awake \in [Son -> Seq(Session)] /\ \A n \in Son : Len(awake[n]) = 0
    BY DEF Init
  <2>2. QED
    BY <2>1, Ends DEF Init, CalledOnce
<1>4. ShownOnce
  BY DEF Init, ShownOnce
<1>8. Opened
  BY Ends DEF Init, Opened, Busy
<1>5. Tokens = {}
  <2>1. \A s \in Session : told[s] # "correctly"
    BY NeighboursAssumption DEF Init
  <2>2. QED
    BY <1>1, <2>1 DEF Tokens
<1>6. Shared
  <2> DEFINE f == [t \in {} |-> t]
  <2>1. f \in [{} -> shown]
    OBVIOUS
  <2>2. Matched({}, shown)
    BY <2>1 DEF Matched
  <2>3. QED
    BY <1>5, <2>2 DEF Shared
<1>7. QED
  BY <1>2, <1>3, <1>4, <1>6, <1>8 DEF ShareInv

-----------------------------------------------------------------------------
(* Steps.                                                                   *)

LEMMA CalledKept ==
  ASSUME CalledOnce, UNCHANGED awake,
         \A s \in Session : pc'[S(s)] \in Early => pc[S(s)] \in Early,
         \A s \in Session : pc[S(s)] \notin Early => pc'[S(s)] \notin Early,
         \A s \in Session : pc[R(s)] = "none" => pc'[R(s)] = "none"
  PROVE  CalledOnce'
BY Ends DEF CalledOnce

LEMMA CalledMoves ==
  ASSUME Typed, CalledOnce, UNCHANGED awake, NEW e \in End, NEW l, pc' = [pc EXCEPT ![e] = l],
         l \in Early => pc[e] \in Early /\ e[2] = "sends", e[2] = "receives" => pc[e] # "none"
  PROVE  CalledOnce'
<1>1. \A u \in End : pc'[u] = IF u = e THEN l ELSE pc[u]
  BY DEF Typed
<1>2. \A s \in Session : pc'[S(s)] \in Early => pc[S(s)] \in Early
  BY <1>1, Ends
<1>3. \A s \in Session : pc[S(s)] \notin Early => pc'[S(s)] \notin Early
  BY <1>2
<1>4. \A s \in Session : pc[R(s)] = "none" => pc'[R(s)] = "none"
  BY <1>1, Ends
<1>5. QED
  BY <1>2, <1>3, <1>4, CalledKept

LEMMA ShownMoves ==
  ASSUME Typed, ShownOnce, NEW e \in End, NEW l, pc' = [pc EXCEPT ![e] = l],
         pc[e] \in Late => l \in Late,
         UNCHANGED shown \/ (l \in Late /\ e \in {R(s) : s \in Session} /\ shown' = shown \cup {e})
  PROVE  ShownOnce'
<1>1. \A u \in End : pc'[u] = IF u = e THEN l ELSE pc[u]
  BY DEF Typed
<1>2. shown \subseteq End
  BY Ends DEF ShownOnce
<1>3. QED
  BY <1>1, <1>2 DEF ShownOnce

LEMMA OpenedMoves ==
  ASSUME Typed, Opened, UNCHANGED fds, NEW e \in End, NEW l, pc' = [pc EXCEPT ![e] = l],
         l \in Busy => pc[e] \in Busy
  PROVE  Opened'
<1>1. \A u \in End : pc'[u] = IF u = e THEN l ELSE pc[u]
  BY DEF Typed
<1>2. QED
  BY <1>1 DEF Opened

(* A good answer that is on its way is a token. *)
LEMMA IsToken ==
  ASSUME NEW e \in End, NEW i \in 1..Len(queue[e]["rw"]), queue[e]["rw"][i] \in Good
  PROVE  <<e, i>> \in Tokens
BY DEF Tokens

(* No more successes than before. *)
LEMMA NoNewTokens ==
  ASSUME Typed, Shared, shown \subseteq shown',
         \A s \in Session : told'[s] = "correctly" => told[s] = "correctly",
         \A c \in End : queue'[c]["rw"] = queue[c]["rw"] \/ queue'[c]["rw"] = <<>>
  PROVE  Shared'
<1>1. Tokens' \subseteq Tokens
  <2> SUFFICES ASSUME NEW t \in Tokens' PROVE t \in Tokens
    OBVIOUS
  <2>1. CASE t \in {<<S(s), 0>> : s \in {u \in Session : told'[u] = "correctly"}}
    BY <2>1 DEF Tokens
  <2>2. ASSUME NEW c \in End, NEW i \in 1..Len(queue'[c]["rw"]), queue'[c]["rw"][i] \in Good, t = <<c, i>>
        PROVE  t \in Tokens
    <3>1. queue'[c]["rw"] # <<>>
      <4>1. Len(<<>>) = 0
        OBVIOUS
      <4>2. QED
        BY <2>2, <4>1
    <3>2. queue'[c]["rw"] = queue[c]["rw"]
      BY <3>1
    <3>3. QED
      BY <2>2, <3>2 DEF Tokens
  <2>3. QED
    BY <2>1, <2>2 DEF Tokens
<1>2. Matched(Tokens', shown')
  BY <1>1, Fewer DEF Shared
<1>3. QED
  BY <1>2 DEF Shared

LEMMA DestroyFacts ==
  ASSUME Typed, Destroy
  PROVE  /\ queue' \in [End -> [Queue -> Seq(AnyPacket \cup Replies)]]
         /\ \A e \in End : queue'[e]["rw"] \in Seq(Replies)
         /\ \A e \in End : queue'[e]["rw"] = queue[e]["rw"] \/ queue'[e]["rw"] = <<>>
<1> DEFINE kept == {<<queueOf'[n][q], q>> : n \in Name, q \in Queue} \cup {<<fds'[e][q], q>> : e \in End, q \in Queue}
<1>1. queue' = [c \in End |-> [q \in Queue |-> IF <<c, q>> \in kept THEN queue[c][q] ELSE <<>>]]
  BY DEF Destroy
<1>2. <<>> \in Seq(Replies) /\ <<>> \in Seq(AnyPacket \cup Replies)
  OBVIOUS
<1> HIDE DEF kept
<1>3. \A c \in End : \A q \in Queue : queue'[c][q] = IF <<c, q>> \in kept THEN queue[c][q] ELSE <<>>
  BY <1>1
<1>4. queue' \in [End -> [Queue -> Seq(AnyPacket \cup Replies)]]
  BY <1>1, <1>2 DEF Typed
<1>5. \A e \in End : queue'[e]["rw"] = queue[e]["rw"] \/ queue'[e]["rw"] = <<>>
  BY <1>3 DEF Queue
<1>6. \A e \in End : queue'[e]["rw"] \in Seq(Replies)
  BY <1>2, <1>5 DEF Typed
<1>7. QED
  BY <1>4, <1>5, <1>6

LEMMA SeqFacts ==
  ASSUME NEW T, NEW q \in Seq(T)
  PROVE  /\ \A x \in T : Append(q, x) \in Seq(T)
         /\ q # <<>> => Head(q) \in T /\ Tail(q) \in Seq(T)
OBVIOUS

(* A queue gains or loses a packet.                                         *)
LEMMA QueueChanges ==
  ASSUME Typed, NEW c \in End, NEW r \in Queue, NEW x \in Seq(AnyPacket \cup Replies),
         queue' = [queue EXCEPT ![c][r] = x], r = "rw" => x \in Seq(Replies)
  PROVE  /\ queue' \in [End -> [Queue -> Seq(AnyPacket \cup Replies)]]
         /\ \A e \in End : queue'[e]["rw"] \in Seq(Replies)
         /\ \A e \in End : queue'[e]["rw"] = IF e = c /\ r = "rw" THEN x ELSE queue[e]["rw"]
<1>1. queue' \in [End -> [Queue -> Seq(AnyPacket \cup Replies)]]
  BY DEF Typed
<1>2. \A e \in End : queue'[e]["rw"] = IF e = c /\ r = "rw" THEN x ELSE queue[e]["rw"]
  BY Ends DEF Typed
<1>3. QED
  BY <1>1, <1>2 DEF Typed

LEMMA BeginShare == ASSUME ShareInv, NEW s \in Session, Begin(s) PROVE ShareInv'
<1>1. pc[S(s)] = "none" /\ pc' = [pc EXCEPT ![S(s)] = "dial"] /\ S(s) \in End /\ S(s)[2] = "sends"
  BY Ends DEF Begin, Goto
<1>2. UNCHANGED <<awake, fds, queue, sent, told, shown>>
  BY DEF Begin, sonVars, queues
<1>3. CalledOnce' /\ ShownOnce' /\ Opened'
  BY <1>1, <1>2, CalledMoves, ShownMoves, OpenedMoves DEF ShareInv, Early, Late, Busy
<1>4. Typed'
  BY <1>1, <1>2 DEF ShareInv, Typed
<1>5. Shared'
  BY <1>2, NoNewTokens DEF ShareInv
<1>6. QED
  BY <1>3, <1>4, <1>5 DEF ShareInv

LEMMA DialShare == ASSUME ShareInv, NEW s \in Session, Dial(s) PROVE ShareInv'
<1>1. /\ pc[S(s)] = "dial" /\ S(s) \in End /\ S(s)[2] = "sends"
      /\ \E l \in {"awake", "over"} : pc' = [pc EXCEPT ![S(s)] = l]
      /\ UNCHANGED told \/ told' = [told EXCEPT ![s] = "unreachable"]
  BY Ends DEF Dial, Goto, Tell
<1>2. UNCHANGED <<awake, fds, queue, sent, shown>>
  BY DEF Dial, sonVars, queues
<1>3. CalledOnce' /\ ShownOnce' /\ Opened'
  BY <1>1, <1>2, CalledMoves, ShownMoves, OpenedMoves DEF ShareInv, Early, Late, Busy
<1>4. Typed'
  BY <1>1, <1>2 DEF ShareInv, Typed
<1>5. Shared'
  <2>1. \A u \in Session : told'[u] = "correctly" => told[u] = "correctly"
    BY <1>1 DEF ShareInv, Typed
  <2>2. QED
    BY <1>2, <2>1, NoNewTokens DEF ShareInv
<1>6. QED
  BY <1>3, <1>4, <1>5 DEF ShareInv

LEMMA CallShare == ASSUME ShareInv, NEW s \in Session, IPC_sendAwakeMessage(s) PROVE ShareInv'
<1>1. /\ pc[S(s)] = "awake" /\ S(s) \in End /\ S(s)[2] = "sends" /\ pc' = [pc EXCEPT ![S(s)] = "open"]
      /\ awake' = [awake EXCEPT ![To[s]] = Append(@, s)] /\ To[s] \in Son
  BY Ends, NeighboursAssumption DEF IPC_sendAwakeMessage, Goto
<1>2. UNCHANGED <<fds, queue, sent, told, shown>>
  BY DEF IPC_sendAwakeMessage, queues
<1>3. ShownOnce' /\ Opened'
  BY <1>1, <1>2, ShownMoves, OpenedMoves DEF ShareInv, Late, Busy
<1>4. Typed'
  BY <1>1, <1>2 DEF ShareInv, Typed
<1>5. Shared'
  BY <1>2, NoNewTokens DEF ShareInv
<1>6. CalledOnce'
  <2>1. \A u \in End : pc'[u] = IF u = S(s) THEN "open" ELSE pc[u]
    BY <1>1 DEF ShareInv, Typed
  <2>2. /\ \A u \in Session : pc'[S(u)] \in Early => pc[S(u)] \in Early
        /\ \A u \in Session : pc[S(u)] \notin Early => pc'[S(u)] \notin Early
        /\ \A u \in Session : pc'[R(u)] = pc[R(u)]
        /\ pc'[S(s)] \notin Early /\ pc[R(s)] = "none"
    BY <1>1, <2>1, Ends DEF Early, ShareInv, CalledOnce
  <2>3. awake \in [Son -> Seq(Session)]
    BY DEF ShareInv, CalledOnce
  <2>4. awake' \in [Son -> Seq(Session)]
    BY <1>1, <2>3, SeqFacts
  <2>5. ASSUME NEW n \in Son, NEW i \in 1..Len(awake'[n])
        PROVE  LET u == awake'[n][i] IN
                 /\ To[u] = n /\ pc'[R(u)] = "none" /\ pc'[S(u)] \notin Early
                 /\ \A j \in 1..Len(awake'[n]) : awake'[n][j] = u => j = i
    <3>1. CASE n # To[s]
      <4>1. awake'[n] = awake[n]
        BY <1>1, <2>3, <3>1
      <4>2. awake[n][i] \in Session
        BY <2>3, <2>5, <4>1
      <4>3. /\ To[awake[n][i]] = n /\ pc[R(awake[n][i])] = "none" /\ pc[S(awake[n][i])] \notin Early
            /\ \A j \in 1..Len(awake[n]) : awake[n][j] = awake[n][i] => j = i
        BY <2>5, <4>1 DEF ShareInv, CalledOnce
      <4>4. QED
        BY <2>2, <4>1, <4>2, <4>3
    <3>2. CASE n = To[s]
      <4>1. /\ Len(awake[n]) \in Nat /\ Len(awake'[n]) = Len(awake[n]) + 1
            /\ \A j \in 1..Len(awake'[n]) : awake'[n][j] = IF j = Len(awake[n]) + 1 THEN s ELSE awake[n][j]
            /\ \A j \in 1..Len(awake[n]) : awake[n][j] \in Session
        BY <1>1, <2>3, <3>2
      <4>2. \A j \in 1..Len(awake[n]) : awake[n][j] # s
        BY <1>1 DEF ShareInv, CalledOnce, Early
      <4>3. CASE i = Len(awake[n]) + 1
        <5>1. awake'[n][i] = s /\ \A j \in 1..Len(awake'[n]) : awake'[n][j] = s => j = i
          BY <4>1, <4>2, <4>3
        <5>2. QED
          BY <2>2, <3>2, <5>1
      <4>4. CASE i \in 1..Len(awake[n])
        <5>1. /\ awake'[n][i] = awake[n][i] /\ awake[n][i] \in Session /\ awake[n][i] # s
              /\ To[awake[n][i]] = n /\ pc[R(awake[n][i])] = "none" /\ pc[S(awake[n][i])] \notin Early
              /\ \A j \in 1..Len(awake[n]) : awake[n][j] = awake[n][i] => j = i
          BY <2>5, <4>1, <4>2, <4>4 DEF ShareInv, CalledOnce
        <5>2. QED
          BY <2>2, <4>1, <5>1
      <4>5. QED
        BY <2>5, <4>1, <4>3, <4>4
    <3>3. QED
      BY <3>1, <3>2
  <2>6. \A u \in Session : pc'[S(u)] \in Early => pc'[R(u)] = "none"
    BY <2>2 DEF ShareInv, CalledOnce
  <2>7. QED
    BY <2>4, <2>5, <2>6 DEF CalledOnce
<1>7. QED
  BY <1>3, <1>4, <1>5, <1>6 DEF ShareInv

(* A packet goes to a queue that is not the one of answers.                 *)
LEMMA SendShare == ASSUME ShareInv, NEW s \in Session, SendPacket(s) PROVE ShareInv'
<1>1. /\ pc[S(s)] = "write" /\ S(s) \in End /\ S(s)[2] = "sends"
      /\ \E l \in {"stop", "read", "write"} : pc' = [pc EXCEPT ![S(s)] = l]
      /\ UNCHANGED told \/ told' = [told EXCEPT ![s] = "stopped"]
      /\ sent' = [sent EXCEPT ![s] = @ + 1]
      /\ UNCHANGED queue \/ Put(S(s), Packet(s, sent[s]))
  BY Ends DEF SendPacket, Goto, Tell
<1>2. UNCHANGED <<awake, fds, shown>>
  BY DEF SendPacket, sonVars
<1>3. CalledOnce' /\ ShownOnce' /\ Opened'
  BY <1>1, <1>2, CalledMoves, ShownMoves, OpenedMoves DEF ShareInv, Early, Late, Busy
<1>4. /\ queue' \in [End -> [Queue -> Seq(AnyPacket \cup Replies)]]
      /\ \A e \in End : queue'[e]["rw"] \in Seq(Replies) /\ queue'[e]["rw"] = queue[e]["rw"]
  <2>1. CASE UNCHANGED queue
    BY <2>1 DEF ShareInv, Typed
  <2>2. CASE Put(S(s), Packet(s, sent[s]))
    <3> DEFINE c == fds[S(s)]["wr"]
               x == Append(queue[c]["wr"], Packet(s, sent[s]))
    <3>1. queue' = [queue EXCEPT ![c]["wr"] = x]
      BY <1>1, <2>2 DEF Put, Out
    <3>2. c \in End
      BY <1>1, Ends DEF ShareInv, Opened, Busy
    <3>3. Packet(s, sent[s]) \in AnyPacket
      BY DEF Packet, AnyPacket, ShareInv, Typed
    <3>4. x \in Seq(AnyPacket \cup Replies)
      <4>1. queue[c]["wr"] \in Seq(AnyPacket \cup Replies)
        BY <3>2, Ends DEF ShareInv, Typed
      <4>2. QED
        BY <3>3, <4>1, SeqFacts
    <3> HIDE DEF c, x
    <3>5. QED
      BY <3>1, <3>2, <3>4, QueueChanges, Ends, SMTT(30) DEF ShareInv, Typed
  <2>3. QED
    BY <1>1, <2>1, <2>2
<1>5. Typed'
  <2>1. sent' \in [Session -> Nat]
    BY <1>1 DEF ShareInv, Typed
  <2>2. told' \in [Session -> {NULL, "unreachable", "stopped", "correctly", "failed"}] /\ DOMAIN pc' = End
    BY <1>1 DEF ShareInv, Typed
  <2>3. QED
    BY <1>4, <2>1, <2>2 DEF Typed
<1>6. Shared'
  <2>1. \A u \in Session : told'[u] = "correctly" => told[u] = "correctly"
    BY <1>1 DEF ShareInv, Typed
  <2>2. QED
    BY <1>2, <1>4, <2>1, NoNewTokens DEF ShareInv
<1>7. QED
  BY <1>3, <1>5, <1>6 DEF ShareInv

(* Good news is taken out of the queue and told.                            *)
LEMMA TakeShared ==
  ASSUME Typed, Shared, UNCHANGED shown, NEW s \in Session, NEW c \in End, NameOf(c) = NameOf(S(s)),
         queue[c]["rw"] # <<>>, NEW n, told' = [told EXCEPT ![s] = n],
         n = "correctly" => Head(queue[c]["rw"]) \in Good,
         \A e \in End : queue'[e]["rw"] = IF e = c THEN Tail(queue[c]["rw"]) ELSE queue[e]["rw"]
  PROVE  Shared'
<1> DEFINE g == [t \in Tokens' |-> IF t = <<S(s), 0>> THEN <<c, 1>>
                                   ELSE IF t[1] = c /\ t[2] # 0 THEN <<c, t[2] + 1>> ELSE t]
<1>1. queue[c]["rw"] \in Seq(Replies) /\ Len(queue[c]["rw"]) \in Nat \ {0}
  BY DEF Typed
<1>2. /\ Len(queue'[c]["rw"]) = Len(queue[c]["rw"]) - 1
      /\ \A i \in 1..Len(queue'[c]["rw"]) : queue'[c]["rw"][i] = queue[c]["rw"][i + 1]
      /\ Head(queue[c]["rw"]) = queue[c]["rw"][1]
  <2>1. \A q \in Seq(Replies) : q # <<>> =>
          /\ Len(Tail(q)) = Len(q) - 1 /\ Head(q) = q[1]
          /\ \A i \in 1..Len(Tail(q)) : Tail(q)[i] = q[i + 1]
    OBVIOUS
  <2>2. queue'[c]["rw"] = Tail(queue[c]["rw"])
    OBVIOUS
  <2>3. QED
    BY <1>1, <2>1, <2>2
<1>3. \A t \in Tokens' :
        \/ \E u \in Session : told'[u] = "correctly" /\ t = <<S(u), 0>>
        \/ \E e \in End : \E i \in 1..Len(queue'[e]["rw"]) : queue'[e]["rw"][i] \in Good /\ t = <<e, i>>
  BY DEF Tokens
<1>4. ASSUME NEW t \in Tokens' PROVE g[t] \in Tokens /\ NameOf(g[t][1]) = NameOf(t[1])
  <2>1. CASE t = <<S(s), 0>>
    <3>1. g[t] = <<c, 1>> /\ t[1] = S(s)
      BY <2>1
    <3>2. told'[s] = "correctly"
      <4>1. \A e \in End : \A i \in 1..Len(queue'[e]["rw"]) : t # <<e, i>>
        BY <2>1
      <4>2. PICK u \in Session : told'[u] = "correctly" /\ t = <<S(u), 0>>
        BY <1>3, <4>1
      <4>3. QED
        BY <2>1, <4>2, Ends
    <3>3. Head(queue[c]["rw"]) \in Good
      BY <3>2 DEF Typed
    <3>4. <<c, 1>> \in Tokens
      BY <1>1, <1>2, <3>3 DEF Tokens
    <3>5. QED
      BY <3>1, <3>4
  <2>2. ASSUME t # <<S(s), 0>>, NEW u \in Session, told'[u] = "correctly", t = <<S(u), 0>>
        PROVE  g[t] \in Tokens /\ NameOf(g[t][1]) = NameOf(t[1])
    <3>1. g[t] = t
      BY <2>2
    <3>2. told[u] = "correctly"
      BY <2>2 DEF Typed
    <3>3. QED
      BY <2>2, <3>1, <3>2 DEF Tokens
  <2>3. ASSUME t # <<S(s), 0>>, NEW e \in End, NEW i \in 1..Len(queue'[e]["rw"]),
               queue'[e]["rw"][i] \in Good, t = <<e, i>>
        PROVE  g[t] \in Tokens /\ NameOf(g[t][1]) = NameOf(t[1])
    <3>0. i # 0 /\ t[1] = e /\ t[2] = i
      BY <2>3
    <3>1. CASE e = c
      <4>1. g[t] = <<c, i + 1>>
        BY <3>0, <3>1, <2>3
      <4>2. i + 1 \in 1..Len(queue[c]["rw"]) /\ queue[c]["rw"][i + 1] \in Good
        BY <1>1, <1>2, <2>3, <3>1
      <4>3. c \in End
        BY <2>3, <3>1
      <4>4. <<c, i + 1>> \in Tokens
        BY <4>2, <4>3, IsToken
      <4>5. QED
        BY <3>0, <3>1, <4>1, <4>4
    <3>2. CASE e # c
      <4>1. g[t] = t
        BY <3>0, <3>2, <2>3
      <4>2. queue'[e]["rw"] = queue[e]["rw"]
        BY <3>2
      <4>3. <<e, i>> \in Tokens
        BY <2>3, <4>2, IsToken
      <4>4. QED
        BY <2>3, <4>1, <4>3
    <3>3. QED
      BY <3>1, <3>2
  <2>4. QED
    BY <1>3, <2>1, <2>2, <2>3
<1>5. \A t \in Tokens' : t = <<t[1], t[2]>> /\ t[2] \in Nat
  <2>1. ASSUME NEW e \in End PROVE Len(queue'[e]["rw"]) \in Nat
    <3>1. queue[e]["rw"] \in Seq(Replies)
      BY DEF Typed
    <3>2. QED
      BY <1>1, <1>2, <3>1
  <2>2. QED
    BY <1>3, <2>1
<1>6. ASSUME NEW t \in Tokens', NEW u \in Tokens', g[t] = g[u] PROVE t = u
  <2>1. /\ g[t] = IF t = <<S(s), 0>> THEN <<c, 1>> ELSE IF t[1] = c /\ t[2] # 0 THEN <<c, t[2] + 1>> ELSE t
        /\ g[u] = IF u = <<S(s), 0>> THEN <<c, 1>> ELSE IF u[1] = c /\ u[2] # 0 THEN <<c, u[2] + 1>> ELSE u
    OBVIOUS
  <2>2. QED
    BY <1>5, <1>6, <2>1
<1>7. g \in [Tokens' -> Tokens]
  BY <1>4
<1> HIDE DEF g
<1>8. Matched(Tokens', shown)
  BY <1>4, <1>6, <1>7, Renamed DEF Shared
<1>9. QED
  BY <1>8 DEF Shared

LEMMA ReadReplyShare == ASSUME ShareInv, NEW s \in Session, ReadReply(s) PROVE ShareInv'
<1>1. /\ pc[S(s)] = "read" /\ S(s) \in End /\ S(s)[2] = "sends" /\ pc' = [pc EXCEPT ![S(s)] = "stop"]
      /\ UNCHANGED <<awake, fds, sent, shown>>
  BY Ends DEF ReadReply, Goto, sonVars
<1>2. CalledOnce' /\ ShownOnce' /\ Opened'
  BY <1>1, CalledMoves, ShownMoves, OpenedMoves DEF ShareInv, Early, Late, Busy
<1>3. CASE \E h \in {"MSGOK", "CHECK_OK", "CHECK_KO"} :
             Take(S(s), Reply(h)) /\ Tell(s, IF Answered(s, Reply(h).header) THEN "correctly" ELSE "failed")
  <2>1. PICK h \in {"MSGOK", "CHECK_OK", "CHECK_KO"} :
             Take(S(s), Reply(h)) /\ Tell(s, IF Answered(s, Reply(h).header) THEN "correctly" ELSE "failed")
    BY <1>3
  <2> DEFINE c == fds[S(s)]["rw"]
             x == Tail(queue[c]["rw"])
             n == IF Answered(s, h) THEN "correctly" ELSE "failed"
  <2>2. /\ queue[c]["rw"] # <<>> /\ Head(queue[c]["rw"]) = Reply(h)
        /\ queue' = [queue EXCEPT ![c]["rw"] = x]
    BY <1>1, <2>1 DEF Take, CanTake, In, Of
  <2>3. told' = [told EXCEPT ![s] = n]
    <3>1. Reply(h).header = h
      BY DEF Reply
    <3>2. QED
      BY <2>1, <3>1 DEF Tell
  <2>4. n = "correctly" => Reply(h) \in Good
    BY DEF Answered, Good
  <2>5. c \in End /\ NameOf(c) = NameOf(S(s))
    BY <1>1, Ends DEF ShareInv, Opened, Busy
  <2>9. n \in {"correctly", "failed"}
    OBVIOUS
  <2> HIDE DEF c, n
  <2>6. x \in Seq(Replies) /\ x \in Seq(AnyPacket \cup Replies)
    <3>1. queue[c]["rw"] \in Seq(Replies) /\ queue[c]["rw"] \in Seq(AnyPacket \cup Replies)
      BY <2>5, Ends DEF ShareInv, Typed
    <3>2. QED
      BY <2>2, <3>1, SeqFacts
  <2>7. /\ queue' \in [End -> [Queue -> Seq(AnyPacket \cup Replies)]]
        /\ \A e \in End : queue'[e]["rw"] \in Seq(Replies)
        /\ \A e \in End : queue'[e]["rw"] = IF e = c THEN x ELSE queue[e]["rw"]
    <3>1. c \in End /\ "rw" \in Queue /\ Typed
      BY <2>5, Ends DEF ShareInv
    <3> HIDE DEF x
    <3>2. queue' = [queue EXCEPT ![c]["rw"] = x]
      BY <2>2
    <3>3. QED
      BY <2>6, <3>1, <3>2, QueueChanges
  <2>8. Shared'
    BY <1>1, <2>2, <2>3, <2>4, <2>5, <2>7, TakeShared DEF ShareInv
  <2>10. Typed'
    BY <1>1, <2>3, <2>7, <2>9 DEF ShareInv, Typed
  <2>11. QED
    BY <1>2, <2>8, <2>10 DEF ShareInv
<1>4. CASE UNCHANGED queue /\ Tell(s, IF Answered(s, NULL) THEN "correctly" ELSE "failed")
  <2>1. told' = [told EXCEPT ![s] = "failed"]
    BY <1>4, NeighboursAssumption DEF Tell, Answered
  <2>2. \A u \in Session : told'[u] = "correctly" => told[u] = "correctly"
    BY <2>1 DEF ShareInv, Typed
  <2>3. Shared'
    BY <1>1, <1>4, <2>2, NoNewTokens DEF ShareInv
  <2>4. Typed'
    BY <1>1, <1>4, <2>1 DEF ShareInv, Typed
  <2>5. QED
    BY <1>2, <2>3, <2>4 DEF ShareInv
<1>5. QED
  BY <1>3, <1>4 DEF ReadReply

LEMMA CheckShare == ASSUME ShareInv, NEW n \in Son, checkIpcMessage(n) PROVE ShareInv'
<1> DEFINE s == Head(awake[n])
<1>1. /\ awake \in [Son -> Seq(Session)] /\ awake[n] # <<>> /\ s = awake[n][1] /\ s \in Session
      /\ Len(awake[n]) \in Nat \ {0} /\ awake' = [awake EXCEPT ![n] = Tail(@)]
      /\ pc' = [pc EXCEPT ![R(s)] = "open"]
  BY DEF checkIpcMessage, Goto, ShareInv, CalledOnce
<1>2. UNCHANGED <<fds, queue, sent, told, shown>>
  BY DEF checkIpcMessage, queues
<1>3. /\ To[s] = n /\ pc[R(s)] = "none" /\ pc[S(s)] \notin Early /\ R(s) \in End
      /\ \A j \in 1..Len(awake[n]) : awake[n][j] = s => j = 1
  BY <1>1, Ends DEF ShareInv, CalledOnce
<1> HIDE DEF s
<1>4. ShownOnce' /\ Opened'
  BY <1>1, <1>2, <1>3, ShownMoves, OpenedMoves DEF ShareInv, Late, Busy
<1>5. Typed'
  BY <1>1, <1>2 DEF ShareInv, Typed
<1>6. Shared'
  BY <1>2, NoNewTokens DEF ShareInv
<1>7. CalledOnce'
  <2>1. /\ \A u \in Session : pc'[S(u)] = pc[S(u)]
        /\ \A u \in Session : u # s => pc'[R(u)] = pc[R(u)]
    <3>1. \A v \in End : pc'[v] = IF v = R(s) THEN "open" ELSE pc[v]
      BY <1>1 DEF ShareInv, Typed
    <3>2. QED
      BY <1>1, <3>1, Ends
  <2>2. awake' \in [Son -> Seq(Session)]
    BY <1>1, SeqFacts
  <2>3. ASSUME NEW m \in Son, NEW i \in 1..Len(awake'[m])
        PROVE  LET u == awake'[m][i] IN
                 /\ To[u] = m /\ pc'[R(u)] = "none" /\ pc'[S(u)] \notin Early
                 /\ \A j \in 1..Len(awake'[m]) : awake'[m][j] = u => j = i
    <3>1. CASE m # n
      <4>1. awake'[m] = awake[m]
        BY <1>1, <3>1
      <4>2. awake[m][i] \in Session
        BY <1>1, <2>3, <4>1
      <4>3. /\ To[awake[m][i]] = m /\ pc[R(awake[m][i])] = "none" /\ pc[S(awake[m][i])] \notin Early
            /\ \A j \in 1..Len(awake[m]) : awake[m][j] = awake[m][i] => j = i
        BY <2>3, <4>1 DEF ShareInv, CalledOnce
      <4>4. QED
        BY <1>3, <2>1, <3>1, <4>1, <4>2, <4>3
    <3>2. CASE m = n
      <4>1. /\ Len(awake'[n]) = Len(awake[n]) - 1
            /\ \A j \in 1..Len(awake'[n]) : /\ awake'[n][j] = awake[n][j + 1]
                                            /\ j + 1 \in 2..Len(awake[n]) /\ awake[n][j + 1] \in Session
        <5>1. \A q \in Seq(Session) : q # <<>> =>
                /\ Len(Tail(q)) = Len(q) - 1
                /\ \A j \in 1..Len(Tail(q)) : Tail(q)[j] = q[j + 1] /\ j + 1 \in 2..Len(q) /\ q[j + 1] \in Session
          OBVIOUS
        <5>2. awake'[n] = Tail(awake[n]) /\ awake[n] \in Seq(Session)
          BY <1>1
        <5>3. QED
          BY <1>1, <5>1, <5>2
      <4>2. i \in 1..Len(awake'[n])
        BY <2>3, <3>2
      <4>3. /\ To[awake[n][i + 1]] = n /\ pc[R(awake[n][i + 1])] = "none" /\ pc[S(awake[n][i + 1])] \notin Early
            /\ \A j \in 1..Len(awake[n]) : awake[n][j] = awake[n][i + 1] => j = i + 1
        BY <1>1, <4>1, <4>2 DEF ShareInv, CalledOnce
      <4>4. awake[n][i + 1] # s
        BY <1>1, <1>3, <4>1, <4>2
      <4>5. \A j \in 1..Len(awake'[n]) : awake'[n][j] = awake'[n][i] => j = i
        BY <1>1, <4>1, <4>2, <4>3
      <4>6. QED
        BY <2>1, <3>2, <4>1, <4>2, <4>3, <4>4, <4>5
    <3>3. QED
      BY <3>1, <3>2
  <2>4. \A u \in Session : pc'[S(u)] \in Early => pc'[R(u)] = "none"
    BY <1>3, <2>1 DEF ShareInv, CalledOnce
  <2>5. QED
    BY <2>2, <2>3, <2>4 DEF CalledOnce
<1>8. QED
  BY <1>4, <1>5, <1>6, <1>7 DEF ShareInv

LEMMA ReadPacketShare == ASSUME ShareInv, NEW s \in Session, ReadPacket(s) PROVE ShareInv'
<1>1. /\ pc[R(s)] = "read" /\ R(s) \in End /\ R(s)[2] = "receives"
      /\ \E l \in {"stop", "reply", "read"} : pc' = [pc EXCEPT ![R(s)] = l]
      /\ UNCHANGED <<awake, fds, sent, told, shown>>
      /\ UNCHANGED queue \/ \E p \in Sent : Take(R(s), p)
  <2>1. CASE TimesOut(R(s)) /\ Leave(s) /\ UNCHANGED queue
    BY <2>1, Ends DEF ReadPacket, Leave, Goto, sonVars
  <2>2. ASSUME NEW p \in Sent, Take(R(s), p),
               LET taken   == Append(got[s], p)
                   unknown == got[s] = <<>> /\ p.i > 0
                   stopped == got[s] # <<>> /\ ~run[To[s]]
                   all     == Len(taken) > Data[taken[1].of]
               IN  IF unknown \/ stopped
                   THEN Leave(s)
                   ELSE /\ got' = [got EXCEPT ![s] = taken]
                        /\ Goto(R(s), IF all THEN "reply" ELSE "read")
        PROVE  \E l \in {"stop", "reply", "read"} : pc' = [pc EXCEPT ![R(s)] = l]
    BY <2>2 DEF Leave, Goto
  <2>3. QED
    BY <2>1, <2>2, Ends DEF ReadPacket, sonVars
<1>2. CalledOnce' /\ ShownOnce' /\ Opened'
  BY <1>1, CalledMoves, ShownMoves, OpenedMoves DEF ShareInv, Early, Late, Busy
<1>3. /\ queue' \in [End -> [Queue -> Seq(AnyPacket \cup Replies)]]
      /\ \A e \in End : queue'[e]["rw"] \in Seq(Replies) /\ queue'[e]["rw"] = queue[e]["rw"]
  <2>1. CASE UNCHANGED queue
    BY <2>1 DEF ShareInv, Typed
  <2>2. CASE \E p \in Sent : Take(R(s), p)
    <3> DEFINE c == fds[R(s)]["wr"]
               x == Tail(queue[c]["wr"])
    <3>1. queue' = [queue EXCEPT ![c]["wr"] = x] /\ queue[c]["wr"] # <<>>
      BY <2>2, Ends DEF Take, CanTake, In, Of
    <3>2. c \in End
      BY <1>1, Ends DEF ShareInv, Opened, Busy
    <3>3. x \in Seq(AnyPacket \cup Replies)
      <4>1. queue[c]["wr"] \in Seq(AnyPacket \cup Replies)
        BY <3>2, Ends DEF ShareInv, Typed
      <4>2. QED
        BY <3>1, <4>1, SeqFacts
    <3> HIDE DEF c, x
    <3>4. "wr" \in Queue /\ Typed
      BY Ends DEF ShareInv
    <3>5. QED
      BY <3>1, <3>2, <3>3, <3>4, QueueChanges DEF Typed
  <2>3. QED
    BY <1>1, <2>1, <2>2
<1>4. Typed'
  BY <1>1, <1>3 DEF ShareInv, Typed
<1>5. Shared'
  BY <1>1, <1>3, NoNewTokens DEF ShareInv
<1>6. QED
  BY <1>2, <1>4, <1>5 DEF ShareInv

(* Good news is sent of what was shown just now.                            *)
LEMMA PutShared ==
  ASSUME Typed, Shared, UNCHANGED told, NEW s \in Session, R(s) \notin shown, NEW c \in End,
         NameOf(c) = NameOf(R(s)), NEW p \in Replies,
         shown' = IF p = Reply("CHECK_KO") THEN shown ELSE shown \cup {R(s)},
         \A e \in End : queue'[e]["rw"] = IF e = c THEN Append(queue[c]["rw"], p) ELSE queue[e]["rw"]
  PROVE  Shared'
<1> DEFINE k == Len(queue[c]["rw"]) + 1
<1>1. /\ Len(queue[c]["rw"]) \in Nat /\ Len(queue'[c]["rw"]) = k
      /\ \A i \in 1..k : queue'[c]["rw"][i] = IF i = k THEN p ELSE queue[c]["rw"][i]
  <2>1. \A q \in Seq(Replies) :
          /\ Len(q) \in Nat /\ Len(Append(q, p)) = Len(q) + 1
          /\ \A i \in 1..Len(q) + 1 : Append(q, p)[i] = IF i = Len(q) + 1 THEN p ELSE q[i]
    OBVIOUS
  <2>2. queue'[c]["rw"] = Append(queue[c]["rw"], p) /\ queue[c]["rw"] \in Seq(Replies)
    BY DEF Typed
  <2>3. QED
    BY <2>1, <2>2
<1>2. Tokens' \subseteq Tokens \cup (IF p \in Good THEN {<<c, k>>} ELSE {})
  <2> SUFFICES ASSUME NEW t \in Tokens' PROVE t \in Tokens \cup (IF p \in Good THEN {<<c, k>>} ELSE {})
    OBVIOUS
  <2>1. CASE t \in {<<S(u), 0>> : u \in {v \in Session : told'[v] = "correctly"}}
    BY <2>1 DEF Tokens
  <2>2. ASSUME NEW e \in End, NEW i \in 1..Len(queue'[e]["rw"]), queue'[e]["rw"][i] \in Good, t = <<e, i>>
        PROVE  t \in Tokens \cup (IF p \in Good THEN {<<c, k>>} ELSE {})
    <3>1. CASE e = c /\ i = k
      BY <1>1, <2>2, <3>1
    <3>2. CASE e = c /\ i # k
      <4>1. i \in 1..Len(queue[c]["rw"]) /\ queue[c]["rw"][i] \in Good
        BY <1>1, <2>2, <3>2
      <4>2. QED
        BY <2>2, <3>2, <4>1 DEF Tokens
    <3>3. CASE e # c
      <4>1. queue'[e]["rw"] = queue[e]["rw"]
        BY <3>3
      <4>2. QED
        BY <2>2, <4>1 DEF Tokens
    <3>4. QED
      BY <3>1, <3>2, <3>3
  <2>3. QED
    BY <2>1, <2>2 DEF Tokens
<1> HIDE DEF k
<1>3. CASE p \in Good
  <2>1. p # Reply("CHECK_KO")
    <3>1. Reply("CHECK_KO").header = "CHECK_KO" /\ Reply("MSGOK").header = "MSGOK" /\ Reply("CHECK_OK").header = "CHECK_OK"
      BY DEF Reply
    <3>2. QED
      BY <1>3, <3>1 DEF Good
  <2>2. shown' = shown \cup {R(s)}
    BY <2>1
  <2>3. Tokens' \subseteq Tokens \cup {<<c, k>>}
    BY <1>2, <1>3
  <2>4. Matched(Tokens', shown \cup {R(s)})
    BY <2>3, OneMore DEF Shared
  <2>5. QED
    BY <2>2, <2>4 DEF Shared
<1>4. CASE p \notin Good
  <2>1. Tokens' \subseteq Tokens /\ shown \subseteq shown'
    BY <1>2, <1>4
  <2>2. Matched(Tokens', shown')
    BY <2>1, Fewer DEF Shared
  <2>3. QED
    BY <2>2 DEF Shared
<1>5. QED
  BY <1>3, <1>4

LEMMA WriteReplyShare == ASSUME ShareInv, NEW s \in Session, WriteReply(s) PROVE ShareInv'
<1>1. /\ pc[R(s)] = "reply" /\ R(s) \in End /\ R(s)[2] = "receives" /\ pc' = [pc EXCEPT ![R(s)] = "stop"]
      /\ UNCHANGED <<awake, fds, sent, told>>
  BY Ends DEF WriteReply, Leave, Goto, sonVars
<1>2. R(s) \notin shown
  BY <1>1 DEF ShareInv, ShownOnce, Late
<1>3. PICK h \in {"MSGOK", "CHECK_OK", "CHECK_KO"} :
        /\ Put(R(s), Reply(h)) \/ UNCHANGED queue
        /\ shown' = IF h = "CHECK_KO" THEN shown ELSE shown \cup {R(s)}
  <2> DEFINE h == IF Data[Asked(s)] = 0 THEN "MSGOK" ELSE IF IsWhole(s) THEN "CHECK_OK" ELSE "CHECK_KO"
  <2>1. h \in {"MSGOK", "CHECK_OK", "CHECK_KO"}
    OBVIOUS
  <2>2. /\ Put(R(s), Reply(h)) \/ UNCHANGED queue
        /\ shown' = IF h = "CHECK_KO" THEN shown ELSE shown \cup {R(s)}
    BY DEF WriteReply
  <2> HIDE DEF h
  <2>3. QED
    BY <2>1, <2>2
<1>4. CalledOnce' /\ Opened'
  BY <1>1, CalledMoves, OpenedMoves DEF ShareInv, Early, Busy
<1>5. ShownOnce'
  BY <1>1, <1>3, ShownMoves DEF ShareInv, Late
<1>6. CASE UNCHANGED queue
  <2>1. Typed'
    BY <1>1, <1>6 DEF ShareInv, Typed
  <2>2. Shared'
    BY <1>1, <1>3, <1>6, NoNewTokens DEF ShareInv
  <2>3. QED
    BY <1>4, <1>5, <2>1, <2>2 DEF ShareInv
<1>7. CASE Put(R(s), Reply(h))
  <2> DEFINE c == fds[R(s)]["rw"]
             x == Append(queue[c]["rw"], Reply(h))
  <2>1. queue' = [queue EXCEPT ![c]["rw"] = x]
    BY <1>1, <1>7 DEF Put, Out
  <2>2. c \in End /\ NameOf(c) = NameOf(R(s)) /\ "rw" \in Queue
    BY <1>1, Ends DEF ShareInv, Opened, Busy
  <2>3. Reply(h) \in Replies
    BY DEF Replies
  <2>4. x \in Seq(Replies) /\ x \in Seq(AnyPacket \cup Replies)
    <3>1. queue[c]["rw"] \in Seq(Replies) /\ queue[c]["rw"] \in Seq(AnyPacket \cup Replies)
      BY <2>2 DEF ShareInv, Typed
    <3>2. QED
      BY <2>3, <3>1, SeqFacts
  <2>5. /\ queue' \in [End -> [Queue -> Seq(AnyPacket \cup Replies)]]
        /\ \A e \in End : queue'[e]["rw"] \in Seq(Replies)
        /\ \A e \in End : queue'[e]["rw"] = IF e = c THEN x ELSE queue[e]["rw"]
    <3>1. Typed
      BY DEF ShareInv
    <3>2. c \in End /\ "rw" \in Queue
      BY <2>2
    <3> HIDE DEF c, x
    <3>3. QED
      BY <2>1, <2>4, <3>1, <3>2, QueueChanges
  <2>6. shown' = IF Reply(h) = Reply("CHECK_KO") THEN shown ELSE shown \cup {R(s)}
    <3>1. Reply(h).header = h /\ Reply("CHECK_KO").header = "CHECK_KO"
      BY DEF Reply
    <3>2. QED
      BY <1>3, <3>1
  <2> HIDE DEF c
  <2>7. Shared'
    BY <1>1, <1>2, <2>2, <2>3, <2>5, <2>6, PutShared DEF ShareInv
  <2>8. Typed'
    BY <1>1, <2>5 DEF ShareInv, Typed
  <2>9. QED
    BY <1>4, <1>5, <2>7, <2>8 DEF ShareInv
<1>8. QED
  BY <1>3, <1>6, <1>7

LEMMA StartShare == ASSUME Inv, ShareInv, NEW e \in End, QueueCalls(e), IPC_startQueues(e) PROVE ShareInv'
<1>1. /\ pc[e] = "open" /\ \E l \in {"write", "read"} : pc' = [pc EXCEPT ![e] = l]
      /\ UNCHANGED <<awake, queue, sent, told, shown>>
  BY DEF QueueCalls, IPC_startQueues, Goto, sonVars
<1>2. CalledOnce' /\ ShownOnce'
  BY <1>1, CalledMoves, ShownMoves DEF ShareInv, Early, Late
<1>3. Typed'
  BY <1>1 DEF ShareInv, Typed
<1>4. Shared'
  BY <1>1, NoNewTokens DEF ShareInv
<1>5. Opened'
  <2> DEFINE opened == [q \in Queue |-> IF queueOf[NameOf(e)][q] = NULL THEN e ELSE queueOf[NameOf(e)][q]]
  <2>1. fds' = [fds EXCEPT ![e] = opened]
    BY DEF IPC_startQueues
  <2>2. \A q \in Queue : opened[q] \in End /\ NameOf(opened[q]) = NameOf(e)
    BY EndFacts DEF Inv, Creators
  <2>3. opened \in [Queue -> End \cup {NULL}]
    BY <2>2
  <2> HIDE DEF opened
  <2>4. /\ fds' \in [End -> [Queue -> End \cup {NULL}]]
        /\ \A u \in End : fds'[u] = IF u = e THEN opened ELSE fds[u]
        /\ \A u \in End : u # e => pc'[u] = pc[u]
    BY <1>1, <2>1, <2>3 DEF ShareInv, Opened, Typed
  <2>5. QED
    BY <2>2, <2>4, EndFacts DEF ShareInv, Opened
<1>6. QED
  BY <1>2, <1>3, <1>4, <1>5 DEF ShareInv

LEMMA StopShare == ASSUME ShareInv, NEW e \in End, QueueCalls(e), IPC_stopQueues(e) PROVE ShareInv'
<1>1. /\ pc[e] \in {"stop", "stopWr"} /\ \E l \in {"stopWr", "over"} : pc' = [pc EXCEPT ![e] = l]
      /\ UNCHANGED <<awake, sent, told, shown>> /\ Destroy
      /\ UNCHANGED fds \/ fds' = [fds EXCEPT ![e] = [q \in Queue |-> NULL]]
  BY DEF QueueCalls, IPC_stopQueues, StopWr, Goto, sonVars
<1>2. CalledOnce' /\ ShownOnce'
  BY <1>1, CalledMoves, ShownMoves DEF ShareInv, Early, Late
<1>3. Typed'
  BY <1>1, DestroyFacts DEF ShareInv, Typed
<1>4. Shared'
  BY <1>1, DestroyFacts, NoNewTokens DEF ShareInv
<1>5. Opened'
  <2>1. /\ \A u \in End : u # e => pc'[u] = pc[u]
        /\ pc'[e] \notin Busy
    BY <1>1 DEF ShareInv, Typed, Busy
  <2>2. fds' \in [End -> [Queue -> End \cup {NULL}]]
    BY <1>1 DEF ShareInv, Opened
  <2>3. \A u \in End, q \in Queue : fds'[u][q] = fds[u][q] \/ (u = e /\ fds'[u][q] = NULL)
    BY <1>1 DEF ShareInv, Opened
  <2>4. QED
    BY <2>1, <2>2, <2>3 DEF ShareInv, Opened
<1>6. QED
  BY <1>2, <1>3, <1>4, <1>5 DEF ShareInv

LEMMA GoneShare == ASSUME ShareInv, NEW n \in Son, Gone(n) PROVE ShareInv'
<1>1. /\ pc' = [e \in End |-> IF SonOf(e) = n /\ Alive(e) THEN "gone" ELSE pc[e]]
      /\ fds' = [e \in End |-> IF SonOf(e) = n THEN [q \in Queue |-> NULL] ELSE fds[e]]
      /\ UNCHANGED <<awake, sent, told, shown>> /\ Destroy
  BY DEF Gone
<1>2. /\ \A e \in End : pc'[e] = pc[e] \/ (pc'[e] = "gone" /\ pc[e] # "none")
      /\ \A e \in End : pc'[e] \in Busy => SonOf(e) # n /\ pc'[e] = pc[e]
  BY <1>1 DEF Alive, Busy
<1>3. CalledOnce'
  <2>1. /\ \A s \in Session : pc'[S(s)] \in Early => pc[S(s)] \in Early
        /\ \A s \in Session : pc[S(s)] \notin Early => pc'[S(s)] \notin Early
        /\ \A s \in Session : pc[R(s)] = "none" => pc'[R(s)] = "none"
    BY <1>2, Ends DEF Early
  <2>2. QED
    BY <1>1, <2>1, CalledKept DEF ShareInv
<1>4. ShownOnce'
  BY <1>1, <1>2, Ends DEF ShareInv, ShownOnce, Late
<1>5. Opened'
  BY <1>1, <1>2 DEF ShareInv, Opened
<1>6. Typed'
  BY <1>1, DestroyFacts DEF ShareInv, Typed
<1>7. Shared'
  BY <1>1, DestroyFacts, NoNewTokens DEF ShareInv
<1>8. QED
  BY <1>3, <1>4, <1>5, <1>6, <1>7 DEF ShareInv

LEMMA IdleShare == ASSUME ShareInv, UNCHANGED <<pc, awake, fds, queue, sent, told, shown>> PROVE ShareInv'
<1>1. Shared'
  BY NoNewTokens DEF ShareInv
<1>2. Typed' /\ CalledOnce' /\ ShownOnce' /\ Opened'
  BY DEF ShareInv, Typed, CalledOnce, ShownOnce, Opened
<1>3. QED
  BY <1>1, <1>2 DEF ShareInv

LEMMA NextShare == ASSUME Inv, ShareInv, [Next]_vars PROVE ShareInv'
<1>1. ASSUME NEW e \in End, Thread(e) PROVE ShareInv'
  <2>1. CASE QueueCalls(e)
    BY <2>1, StartShare, StopShare DEF QueueCalls
  <2>2. CASE e[2] = "sends" /\ Sender(e[1])
    BY <2>2, DialShare, CallShare, SendShare, ReadReplyShare DEF End, Sender
  <2>3. CASE e[2] # "sends" /\ Receiver(e[1])
    BY <2>3, ReadPacketShare, WriteReplyShare DEF End, Receiver
  <2>4. QED
    BY <1>1, <2>1, <2>2, <2>3 DEF Thread
<1>2. ASSUME NEW n \in Son, EndSon(n) \/ Exit(n) \/ Kill(n) PROVE ShareInv'
  BY <1>2, IdleShare, GoneShare DEF EndSon, Exit, Kill, queues
<1>3. CASE UNCHANGED vars
  BY <1>3, IdleShare DEF vars, sonVars, queues
<1>4. QED
  BY <1>1, <1>2, <1>3, BeginShare, CheckShare DEF Next

LEMMA MatchedCounts == ASSUME IsFiniteSet(Session), ShownOnce, Shared PROVE SuccessIsShared
<1> SUFFICES ASSUME NEW n \in Name
             PROVE  Cardinality({s \in Session : nameOf[s] = n /\ told[s] = "correctly"})
                      <= Cardinality({e \in shown : NameOf(e) = n})
  BY DEF SuccessIsShared
<1> DEFINE A == {s \in Session : nameOf[s] = n /\ told[s] = "correctly"}
           B == {e \in shown : NameOf(e) = n}
<1>1. PICK f \in [Tokens -> shown] : /\ \A t, u \in Tokens : f[t] = f[u] => t = u
                                     /\ \A t \in Tokens : NameOf(f[t]) = NameOf(t[1])
  BY DEF Shared, Matched
<1>2. \A s \in A : <<S(s), 0>> \in Tokens
  BY DEF Tokens
<1> DEFINE g == [s \in A |-> f[<<S(s), 0>>]]
<1>3. \A s \in A : f[<<S(s), 0>>] \in B
  BY <1>1, <1>2, Ends
<1>4. g \in [A -> B]
  BY <1>3
<1>5. \A s, u \in A : g[s] = g[u] => s = u
  BY <1>1, <1>2, Ends
<1>6. IsFiniteSet(B)
  <2>1. IsFiniteSet({"sends", "receives"})
    <3>1. IsFiniteSet({} \cup {"sends"})
      BY FS_AddElement, FS_EmptySet
    <3>2. IsFiniteSet(({} \cup {"sends"}) \cup {"receives"})
      BY <3>1, FS_AddElement
    <3>3. ({} \cup {"sends"}) \cup {"receives"} = {"sends", "receives"}
      OBVIOUS
    <3>4. QED
      BY <3>2, <3>3
  <2>2. IsFiniteSet(End)
    BY <2>1, FS_Product DEF End
  <2>3. B \in SUBSET End
    BY Ends DEF ShownOnce
  <2>4. QED
    BY <2>2, <2>3, FS_Subset
<1> HIDE DEF A, B, g
<1>7. g \in Injection(A, B)
  BY <1>4, <1>5 DEF Injection, IsInjective
<1>8. Cardinality(A) <= Cardinality(B)
  BY <1>6, <1>7, FS_Injection
<1>9. QED
  BY <1>8 DEF A, B

(* However many sessions share a name, take each other's packets, time out,  *)
(* or are interrupted: no more are told that they succeeded than were shown *)
(* or stored under that name.                                               *)
THEOREM SuccessesAreShared == ASSUME IsFiniteSet(Session) PROVE Spec => []SuccessIsShared
<1>1. Inv /\ ShareInv /\ [Next]_vars => Inv' /\ ShareInv'
  BY NextInv, NextShare
<1>2. Inv /\ ShareInv => SuccessIsShared
  BY MatchedCounts DEF ShareInv
<1>3. QED
  BY <1>1, <1>2, InitInv, InitShare, PTL DEF Spec

=============================================================================
