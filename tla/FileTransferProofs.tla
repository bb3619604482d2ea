------------------------- MODULE FileTransferProofs -------------------------
(***************************************************************************)
(* Theorems about FileTransfer, for any Sons, transfers, routes, sizes and  *)
(* disturbances: what "correctly sent" means, who holds a lock, and that    *)
(* FileTransfer implements Delivery.                                        *)
(***************************************************************************)
EXTENDS FileTransfer, TLAPS

-----------------------------------------------------------------------------
(* The inductive invariant.                                                 *)

Past == {"none", "over", "gone"}

Shape ==
  /\ \A s \in Session :
       route[s].from \in Son /\ route[s].to \in Son /\ route[s].from # route[s].to
  /\ DOMAIN file = Son /\ DOMAIN pc = Thread
  /\ lock \in [Son -> Thread \cup {NULL}]
  /\ offset \in [Session -> Int]
  /\ keptFiles \subseteq Thread
  /\ DOMAIN hash = Session /\ DOMAIN told = Session /\ DOMAIN meant = Session
  /\ DOMAIN stands = Session /\ DOMAIN reply = Session /\ DOMAIN sock = Session

(* The states of a sender in which it has the file, and those before there  *)
(* is a connection, before it knows the hash, and before it tells anything. *)
Sending     == {"size", "hash", "connect", "data", "check", "close"}
Unconnected == {"none", "size", "hash", "connect"}
Unhashed    == {"none", "size", "hash"}
Untold      == {"none", "size", "hash", "connect", "data", "check"}
Unchecked   == {"none", "lock", "data", "verify"}

SendersLock == \A s \in Session : pc[S(s)] \in Sending => lock[route[s].from] = S(s)

ReceiversLock ==
  \A s \in Session :
    /\ pc[R(s)] \in {"none", "lock"} => HasFile(s)
    /\ pc[R(s)] = "data" /\ HasFile(s) => lock[route[s].to] = R(s)
    /\ pc[R(s)] = "refuse" => ~HasFile(s)

(* A lock is of a thread that has the file of its own Son open, or of a      *)
(* command that has it too.                                                 *)
Holders ==
  \A n \in Son, s \in Session :
    /\ lock[n] = S(s) =>
         /\ n = route[s].from
         /\ \/ pc[S(s)] \notin Past \/ S(s) \in keptFiles
            \/ told[s] = "unreachable" /\ route[s].from \in up
    /\ lock[n] = R(s) =>
         /\ n = route[s].to /\ pc[R(s)] # "lock" /\ HasFile(s)
         /\ pc[R(s)] \notin Past \/ R(s) \in keptFiles

(* Threads run in a process that does, and commands have files of threads    *)
(* that were started.                                                       *)
Living ==
  \A s \in Session :
    /\ pc[S(s)] \notin Past => route[s].from \in up
    /\ pc[R(s)] \notin Past => route[s].to \in up
    /\ S(s) \in keptFiles => pc[S(s)] # "none" /\ route[s].from \in children
    /\ R(s) \in keptFiles => pc[R(s)] # "none" /\ route[s].to \in children

(* What a sender reads and hashes is what it locked. *)
FileIsMeant ==
  \A s \in Session \ damaged :
    /\ pc[S(s)] \in Sending => file[route[s].from] = meant[s]
    /\ hash[s] \in {NULL, meant[s]}

(* What has not happened yet. *)
NotYet ==
  \A s \in Session :
    /\ pc[S(s)] \in Unconnected =>
         sock[s] = {} /\ pc[R(s)] = "none" /\ reply[s] = NULL
    /\ pc[S(s)] \in Unhashed  => hash[s] = NULL
    /\ pc[S(s)] \in Untold    => told[s] = NULL
    /\ pc[R(s)] \in Unchecked => stands[s] = NULL

(* Good news is true. *)
NewsIsTrue ==
  \A s \in Session :
    reply[s] = "CHECK_OK" \/ told[s] = "correctly" => stands[s] = hash[s] /\ hash[s] # NULL

Inv == /\ Shape /\ SendersLock /\ ReceiversLock /\ Holders
       /\ FileIsMeant /\ NotYet /\ NewsIsTrue /\ Living

-----------------------------------------------------------------------------
LEMMA ThreadFacts ==
  /\ NULL \notin Thread
  /\ \A s \in Session : S(s) \in Thread /\ R(s) \in Thread
  /\ \A s, u \in Session : S(s) # R(u)
  /\ \A s, u \in Session : (S(s) = S(u) => s = u) /\ (R(s) = R(u) => s = u)
  /\ \A t \in Thread : \E s \in Session : t = S(s) \/ t = R(s)
  /\ \A s \in Session : S(s)[1] = s /\ R(s)[1] = s
BY FileTransferAssumption DEF Thread, S, R

LEMMA SonFacts ==
  \A s \in Session : SonOf(S(s)) = route[s].from /\ SonOf(R(s)) = route[s].to
BY DEF SonOf, S, R

LEMMA InitInv == Init => Inv
<1> SUFFICES ASSUME Init PROVE Inv
  OBVIOUS
<1> USE ThreadFacts DEF Init
<1>1. Shape
  BY FileTransferAssumption DEF Shape
<1>2. SendersLock /\ ReceiversLock
  BY DEF SendersLock, ReceiversLock, HasFile, Sending
<1>3. Holders
  BY DEF Holders
<1>4. FileIsMeant /\ NotYet /\ NewsIsTrue
  BY FileTransferAssumption DEF FileIsMeant, NotYet, NewsIsTrue, Sending
<1>5. Living
  BY DEF Living, Past
<1> QED
  BY <1>1, <1>2, <1>3, <1>4, <1>5 DEF Inv

LEMMA SendOpenInv == ASSUME Inv, NEW s \in Session, SendOpen(s) PROVE Inv'
<1> USE ThreadFacts DEF Inv, Shape, SendOpen, SenderStays, given, sonVars, childVars, receiverVars,
      Goto, socketVars, Tell
<1>1. Shape'
  BY DEF Shape
<1>2. SendersLock'
  BY DEF SendersLock, Sending
<1>3. ReceiversLock'
  BY DEF ReceiversLock, HasFile
<1>4. Holders'
  <2>1. \A n \in Son : lock[n] # S(s)
    BY FileTransferAssumption DEF Holders, Living, NotYet, Past, Untold
  <2> QED
    BY <2>1 DEF Holders, HasFile, Past
<1>5. FileIsMeant'
  BY DEF FileIsMeant, Sending, Unhashed, NotYet
<1>6. NotYet'
  BY DEF NotYet, Unconnected, Unhashed, Untold, Unchecked
<1>7. NewsIsTrue'
  BY DEF NewsIsTrue, Untold, Unchecked, Unconnected, Unhashed, NotYet
<1>8. Living'
  BY DEF Living, Past
<1> QED
  BY <1>1, <1>2, <1>3, <1>4, <1>5, <1>6, <1>7, <1>8

LEMMA SendSizeInv == ASSUME Inv, NEW s \in Session, SendSize(s) PROVE Inv'
<1> USE ThreadFacts DEF Inv, Shape, SendSize, SenderStays, given, sonVars, childVars, receiverVars,
      Goto, fileVars, socketVars
<1>1. Shape'
  BY DEF Shape
<1>2. SendersLock'
  BY DEF SendersLock, Sending
<1>3. ReceiversLock'
  BY DEF ReceiversLock, HasFile
<1>4. Holders'
  BY DEF Holders, Past, HasFile, Living, NotYet, Untold
<1>5. FileIsMeant'
  BY DEF FileIsMeant, Sending, Unhashed, NotYet
<1>6. NotYet'
  BY DEF NotYet, Unconnected, Unhashed, Untold, Unchecked
<1>7. NewsIsTrue'
  BY DEF NewsIsTrue, Untold, Unchecked, Unconnected, Unhashed, NotYet
<1>8. Living'
  BY DEF Living, Past
<1> QED
  BY <1>1, <1>2, <1>3, <1>4, <1>5, <1>6, <1>7, <1>8

LEMMA SendHashInv == ASSUME Inv, NEW s \in Session, SendHash(s) PROVE Inv'
<1> USE ThreadFacts DEF Inv, Shape, SendHash, SenderStays, given, sonVars, childVars, receiverVars,
      Goto, socketVars, Tell, Unlock, CloseFile
<1>1. Shape'
  BY DEF Shape
<1>2. SendersLock'
  BY DEF SendersLock, Sending
<1>3. ReceiversLock'
  BY DEF ReceiversLock, HasFile
<1>4. Holders'
  BY DEF Holders, Past, HasFile, Living, NotYet, Untold
<1>5. FileIsMeant'
  BY DEF FileIsMeant, Sending, Unhashed, NotYet
<1>6. NotYet'
  BY DEF NotYet, Unconnected, Unhashed, Untold, Unchecked
<1>7. NewsIsTrue'
  BY DEF NewsIsTrue, Untold, Unchecked, Unconnected, Unhashed, NotYet
<1>8. Living'
  BY DEF Living, Past
<1> QED
  BY <1>1, <1>2, <1>3, <1>4, <1>5, <1>6, <1>7, <1>8

LEMMA ConnectInv == ASSUME Inv, NEW s \in Session, Connect(s) PROVE Inv'
<1> USE ThreadFacts DEF Inv, Shape, Connect, SenderStays, given, sonVars, childVars, receiverVars,
      Goto, fileVars, senderVars
<1>1. Shape'
  BY DEF Shape
<1>2. SendersLock'
  BY DEF SendersLock, Sending
<1>3. ReceiversLock'
  BY DEF ReceiversLock, HasFile
<1>4. Holders'
  BY DEF Holders, Past, HasFile, Living, NotYet, Untold
<1>5. FileIsMeant'
  BY DEF FileIsMeant, Sending, Unhashed, NotYet
<1>6. NotYet'
  BY DEF NotYet, Unconnected, Unhashed, Untold, Unchecked
<1>7. NewsIsTrue'
  BY DEF NewsIsTrue, Untold, Unchecked, Unconnected, Unhashed, NotYet
<1>8. Living'
  BY DEF Living, Past
<1> QED
  BY <1>1, <1>2, <1>3, <1>4, <1>5, <1>6, <1>7, <1>8

LEMMA UnreachableInv == ASSUME Inv, NEW s \in Session, Unreachable(s) PROVE Inv'
<1> USE ThreadFacts DEF Inv, Shape, Unreachable, SenderStays, given, sonVars, childVars, receiverVars,
      Goto, fileVars, socketVars, Tell
<1>1. Shape'
  BY DEF Shape
<1>2. SendersLock'
  BY DEF SendersLock, Sending
<1>3. ReceiversLock'
  BY DEF ReceiversLock, HasFile
<1>4. Holders'
  BY DEF Holders, Past, HasFile, Living, NotYet, Untold
<1>5. FileIsMeant'
  BY DEF FileIsMeant, Sending, Unhashed, NotYet
<1>6. NotYet'
  BY DEF NotYet, Unconnected, Unhashed, Untold, Unchecked
<1>7. NewsIsTrue'
  BY DEF NewsIsTrue, Untold, Unchecked, Unconnected, Unhashed, NotYet
<1>8. Living'
  BY DEF Living, Past
<1> QED
  BY <1>1, <1>2, <1>3, <1>4, <1>5, <1>6, <1>7, <1>8

LEMMA SendDataInv == ASSUME Inv, NEW s \in Session, SendData(s) PROVE Inv'
<1> USE ThreadFacts DEF Inv, Shape, SendData, SenderStays, given, sonVars, childVars, receiverVars,
      Goto, fileVars, Stopped, Tell
<1>1. Shape'
  BY DEF Shape
<1>2. SendersLock'
  BY DEF SendersLock, Sending
<1>3. ReceiversLock'
  BY DEF ReceiversLock, HasFile
<1>4. Holders'
  BY DEF Holders, Past, HasFile, Living, NotYet, Untold
<1>5. FileIsMeant'
  BY DEF FileIsMeant, Sending, Unhashed, NotYet
<1>6. NotYet'
  BY DEF NotYet, Unconnected, Unhashed, Untold, Unchecked
<1>7. NewsIsTrue'
  BY DEF NewsIsTrue, Untold, Unchecked, Unconnected, Unhashed, NotYet
<1>8. Living'
  BY DEF Living, Past
<1> QED
  BY <1>1, <1>2, <1>3, <1>4, <1>5, <1>6, <1>7, <1>8

LEMMA SendCheckInv == ASSUME Inv, NEW s \in Session, SendCheck(s) PROVE Inv'
<1> USE ThreadFacts DEF Inv, Shape, SendCheck, SenderStays, given, sonVars, childVars, receiverVars,
      Goto, fileVars, socketVars, Tell
<1>1. Shape'
  BY DEF Shape
<1>2. SendersLock'
  BY DEF SendersLock, Sending
<1>3. ReceiversLock'
  BY DEF ReceiversLock, HasFile
<1>4. Holders'
  BY DEF Holders, Past, HasFile, Living, NotYet, Untold
<1>5. FileIsMeant'
  BY DEF FileIsMeant, Sending, Unhashed, NotYet
<1>6. NotYet'
  BY DEF NotYet, Unconnected, Unhashed, Untold, Unchecked
<1>7. NewsIsTrue'
  BY DEF NewsIsTrue, Untold, Unchecked, Unconnected, Unhashed, NotYet
<1>8. Living'
  BY DEF Living, Past
<1> QED
  BY <1>1, <1>2, <1>3, <1>4, <1>5, <1>6, <1>7, <1>8

LEMMA SendCloseInv == ASSUME Inv, NEW s \in Session, SendClose(s) PROVE Inv'
<1> USE ThreadFacts DEF Inv, Shape, SendClose, CloseEnd, SenderStays, given, sonVars, childVars,
      receiverVars, Goto, senderVars, Unlock
<1>1. Shape'
  BY DEF Shape
<1>2. SendersLock'
  BY DEF SendersLock, Sending
<1>3. ReceiversLock'
  BY DEF ReceiversLock, HasFile
<1>4. Holders'
  BY DEF Holders, Past, HasFile, Living, NotYet, Untold
<1>5. FileIsMeant'
  BY DEF FileIsMeant, Sending, Unhashed, NotYet
<1>6. NotYet'
  BY DEF NotYet, Unconnected, Unhashed, Untold, Unchecked
<1>7. NewsIsTrue'
  BY DEF NewsIsTrue, Untold, Unchecked, Unconnected, Unhashed, NotYet
<1>8. Living'
  BY DEF Living, Past
<1> QED
  BY <1>1, <1>2, <1>3, <1>4, <1>5, <1>6, <1>7, <1>8

LEMMA ReceiveOpenInv == ASSUME Inv, NEW s \in Session, ReceiveOpen(s) PROVE Inv'
<1> USE ThreadFacts DEF Inv, Shape, ReceiveOpen, ReceiverStays, given, sonVars, childVars, senderVars,
      Goto, receiverVars
<1>1. Shape'
  BY DEF Shape
<1>2. SendersLock'
  BY DEF SendersLock, Sending
<1>3. ReceiversLock'
  BY DEF ReceiversLock, HasFile
<1>4. Holders'
  BY DEF Holders, Past, HasFile, Living, NotYet, Untold
<1>5. FileIsMeant'
  BY DEF FileIsMeant, Sending, Unhashed, NotYet, SendersLock, Alive
<1>6. NotYet'
  BY DEF NotYet, Unconnected, Unhashed, Untold, Unchecked
<1>7. NewsIsTrue'
  BY DEF NewsIsTrue, Untold, Unchecked, Unconnected, Unhashed, NotYet
<1>8. Living'
  BY DEF Living, Past
<1> QED
  BY <1>1, <1>2, <1>3, <1>4, <1>5, <1>6, <1>7, <1>8

LEMMA ReceiveLockInv == ASSUME Inv, NEW s \in Session, ReceiveLock(s) PROVE Inv'
<1> USE ThreadFacts DEF Inv, Shape, ReceiveLock, ReceiverStays, given, sonVars, childVars, senderVars,
      Goto, socketVars
<1>1. Shape'
  BY DEF Shape
<1>2. SendersLock'
  BY DEF SendersLock, Sending
<1>3. ReceiversLock'
  BY SMTT(30) DEF ReceiversLock, HasFile
<1>4. Holders'
  BY DEF Holders, Past, HasFile, Living, NotYet, Untold, ReceiversLock
<1>5. FileIsMeant'
  BY DEF FileIsMeant, Sending, Unhashed, NotYet
<1>6. NotYet'
  BY DEF NotYet, Unconnected, Unhashed, Untold, Unchecked
<1>7. NewsIsTrue'
  BY DEF NewsIsTrue, Untold, Unchecked, Unconnected, Unhashed, NotYet
<1>8. Living'
  BY DEF Living, Past
<1> QED
  BY <1>1, <1>2, <1>3, <1>4, <1>5, <1>6, <1>7, <1>8

LEMMA ReceiveDataInv == ASSUME Inv, NEW s \in Session, ReceiveData(s) PROVE Inv'
<1> USE ThreadFacts DEF Inv, Shape, ReceiveData, ReceiverStays, given, sonVars, childVars, senderVars, Goto
<1>0. \A u \in Session : HasFile(u)' <=> HasFile(u)
  <2>1. offset' = offset \/ (HasFile(s) /\ offset' = [offset EXCEPT ![s] = @ + 1])
    OBVIOUS
  <2> QED
    BY ONLY <2>1, offset \in [Session -> Int] DEF HasFile
<1>1. Shape'
  BY DEF Shape
<1>2. SendersLock'
  BY DEF SendersLock, Sending
<1>3. ReceiversLock'
  BY <1>0 DEF ReceiversLock
<1>4. Holders'
  BY <1>0 DEF Holders, Past, Living, NotYet, Untold
<1>5. FileIsMeant'
  BY DEF FileIsMeant, Sending, Unhashed, NotYet, SendersLock, ReceiversLock, HasFile
<1>6. NotYet'
  BY DEF NotYet, Unconnected, Unhashed, Untold, Unchecked
<1>7. NewsIsTrue'
  BY DEF NewsIsTrue, Untold, Unchecked, Unconnected, Unhashed, NotYet
<1>8. Living'
  BY DEF Living, Past
<1> QED
  BY <1>1, <1>2, <1>3, <1>4, <1>5, <1>6, <1>7, <1>8

LEMMA ReceiveRefuseInv == ASSUME Inv, NEW s \in Session, ReceiveRefuse(s) PROVE Inv'
<1> USE ThreadFacts DEF Inv, Shape, ReceiveRefuse, ReceiverStays, given, sonVars, childVars,
      senderVars, Goto, fileVars, receiverVars, Answer, CloseEnd
<1>1. Shape'
  BY DEF Shape
<1>2. SendersLock'
  BY DEF SendersLock, Sending
<1>3. ReceiversLock'
  BY DEF ReceiversLock, HasFile
<1>4. Holders'
  BY DEF Holders, Past, HasFile, Living, NotYet, Untold, ReceiversLock
<1>5. FileIsMeant'
  BY DEF FileIsMeant, Sending, Unhashed, NotYet
<1>6. NotYet'
  BY DEF NotYet, Unconnected, Unhashed, Untold, Unchecked
<1>7. NewsIsTrue'
  BY DEF NewsIsTrue, Untold, Unchecked, Unconnected, Unhashed, NotYet
<1>8. Living'
  BY DEF Living, Past
<1> QED
  BY <1>1, <1>2, <1>3, <1>4, <1>5, <1>6, <1>7, <1>8

LEMMA ReceiveCheckInv == ASSUME Inv, NEW s \in Session, ReceiveCheck(s) PROVE Inv'
<1> USE ThreadFacts DEF Inv, Shape, ReceiveCheck, ReceiverStays, given, sonVars, childVars, senderVars,
      Goto, fileVars, Answer, SameHash
<1>1. Shape'
  BY DEF Shape
<1>2. SendersLock'
  BY DEF SendersLock, Sending
<1>3. ReceiversLock'
  BY DEF ReceiversLock, HasFile
<1>4. Holders'
  BY DEF Holders, Past, HasFile, Living, NotYet, Untold
<1>5. FileIsMeant'
  BY DEF FileIsMeant, Sending, Unhashed, NotYet
<1>6. NotYet'
  BY DEF NotYet, Unconnected, Unhashed, Untold, Unchecked
<1>7. NewsIsTrue'
  BY DEF NewsIsTrue, Untold, Unchecked, Unconnected, Unhashed, NotYet
<1>8. Living'
  BY DEF Living, Past
<1> QED
  BY <1>1, <1>2, <1>3, <1>4, <1>5, <1>6, <1>7, <1>8

LEMMA ReceiveCloseInv == ASSUME Inv, NEW s \in Session, ReceiveClose(s) PROVE Inv'
<1> USE ThreadFacts DEF Inv, Shape, ReceiveClose, ReceiverStays, given, sonVars, childVars, senderVars,
      Goto, receiverVars, CloseEnd, Unlock
<1>1. Shape'
  BY DEF Shape
<1>2. SendersLock'
  BY DEF SendersLock, Sending
<1>3. ReceiversLock'
  BY DEF ReceiversLock, HasFile
<1>4. Holders'
  BY DEF Holders, Past, HasFile, Living, NotYet, Untold
<1>5. FileIsMeant'
  BY DEF FileIsMeant, Sending, Unhashed, NotYet
<1>6. NotYet'
  BY DEF NotYet, Unconnected, Unhashed, Untold, Unchecked
<1>7. NewsIsTrue'
  BY DEF NewsIsTrue, Untold, Unchecked, Unconnected, Unhashed, NotYet
<1>8. Living'
  BY DEF Living, Past
<1> QED
  BY <1>1, <1>2, <1>3, <1>4, <1>5, <1>6, <1>7, <1>8

(* Steps of the Sons.  The end of one ends its threads.  This, and that of a *)
(* command, take no connection or lock from a thread that goes on.          *)
LEMMA KeepEndsFrame ==
  ASSUME Inv, NEW n \in Son, NEW ends, KeepEnds(n, ends)
  PROVE  DOMAIN sock' = Session /\ \A s \in Session : sock'[s] \subseteq sock[s]
BY DEF KeepEnds, Inv, Shape

LEMMA GoneFrame ==
  ASSUME Inv, NEW n \in Son, Gone(n)
  PROVE  /\ \A t \in Thread : pc'[t] = pc[t] \/ (pc'[t] = "gone" /\ pc[t] \notin Past)
         /\ \A s \in Session : route[s].from = n => pc'[S(s)] \in Past
         /\ \A s \in Session : route[s].from # n => pc'[S(s)] = pc[S(s)]
         /\ \A s \in Session : route[s].to = n => pc'[R(s)] \in Past
         /\ \A s \in Session : route[s].to # n => pc'[R(s)] = pc[R(s)]
         /\ \A s \in Session : sock'[s] \subseteq sock[s]
         /\ DOMAIN pc' = Thread /\ DOMAIN sock' = Session
<1>1. DOMAIN pc' = Thread /\ DOMAIN sock' = Session /\ \A s \in Session : sock'[s] \subseteq sock[s]
  BY KeepEndsFrame DEF Gone
<1>2. \A t \in Thread : pc'[t] = pc[t] \/ (pc'[t] = "gone" /\ pc[t] \notin Past)
  BY DEF Gone, Alive, Past
<1>3. \A t \in Thread : (SonOf(t) = n => pc'[t] \in Past) /\ (SonOf(t) # n => pc'[t] = pc[t])
  BY DEF Gone, Alive, Past
<1> QED
  BY <1>1, <1>2, <1>3, ThreadFacts, SonFacts

LEMMA GoneInv == ASSUME Inv, NEW n \in Son, Gone(n) PROVE Inv'
<1> USE ThreadFacts, GoneFrame DEF Inv, Shape
<1>0. /\ UNCHANGED <<given, childVars, file, damaged, senderVars, receiverVars, reply>>
      /\ up' = up \ {n} /\ lock' = [lock EXCEPT ![n] = IF @ \in keptFiles THEN @ ELSE NULL]
  BY DEF Gone
<1> USE <1>0 DEF given, childVars, senderVars, receiverVars
<1>1. Shape'
  OBVIOUS
<1>2. SendersLock'
  BY DEF SendersLock, Sending, Past
<1>3. ReceiversLock'
  BY DEF ReceiversLock, HasFile, Past
<1>4. Holders'
  BY DEF Holders, Past, HasFile
<1>5. FileIsMeant'
  BY DEF FileIsMeant, Sending
<1>6. NotYet'
  BY DEF NotYet, Unconnected, Unhashed, Untold, Unchecked, Past
<1>7. NewsIsTrue'
  BY DEF NewsIsTrue
<1>8. Living'
  BY DEF Living, Past
<1> QED
  BY <1>1, <1>2, <1>3, <1>4, <1>5, <1>6, <1>7, <1>8

LEMMA ForkChildInv == ASSUME Inv, NEW n \in Son, ForkChild(n) PROVE Inv'
<1> USE ThreadFacts, SonFacts DEF Inv, Shape
<1>0. /\ UNCHANGED <<up, given, lock, file, damaged, senderVars, receiverVars, sock, reply, pc>>
      /\ keptFiles \subseteq keptFiles' /\ children' = children \cup {n}
      /\ keptFiles' \subseteq keptFiles \cup {t \in Thread : SonOf(t) = n /\ (lock[n] = t \/ pc[t] = "lock")}
  BY DEF ForkChild, fileVars, socketVars
<1> USE <1>0 DEF given, senderVars, receiverVars
<1>1. Shape'
  OBVIOUS
<1>2. SendersLock'
  BY DEF SendersLock, Sending
<1>3. ReceiversLock'
  BY DEF ReceiversLock, HasFile
<1>4. Holders'
  BY DEF Holders, Past, HasFile
<1>5. FileIsMeant'
  BY DEF FileIsMeant, Sending
<1>6. NotYet' /\ NewsIsTrue'
  BY DEF NotYet, NewsIsTrue
<1>7. Living'
  <2>1. \A t \in Thread : lock[n] = t => pc[t] # "none"
    <3>1. \A s \in Session : lock[n] = S(s) => pc[S(s)] # "none"
      BY FileTransferAssumption DEF Holders, Living, NotYet, Past, Untold
    <3>2. \A s \in Session : lock[n] = R(s) => pc[R(s)] # "none"
      BY DEF Holders, Living, Past
    <3> QED
      BY <3>1, <3>2
  <2>2. \A t \in keptFiles' : t \in keptFiles \/ (pc[t] # "none" /\ SonOf(t) = n)
    BY <2>1
  <2> QED
    BY <2>2 DEF Living
<1> QED
  BY <1>1, <1>2, <1>3, <1>4, <1>5, <1>6, <1>7

LEMMA ChildExitsInv == ASSUME Inv, NEW n \in Son, ChildExits(n) PROVE Inv'
<1> USE ThreadFacts, SonFacts, KeepEndsFrame DEF Inv, Shape
<1>0. /\ UNCHANGED <<up, given, file, damaged, senderVars, receiverVars, reply, pc>>
      /\ children' = children \ {n} /\ keptFiles' = {t \in keptFiles : SonOf(t) # n}
      /\ lock' = [lock EXCEPT ![n] = IF @ # NULL /\ HasOpen(@) THEN @ ELSE NULL]
      /\ DOMAIN sock' = Session /\ \A s \in Session : sock'[s] \subseteq sock[s]
  BY DEF ChildExits
<1> USE <1>0 DEF given, senderVars, receiverVars
<1>1. Shape'
  OBVIOUS
<1>2. SendersLock'
  BY DEF SendersLock, Sending, HasOpen, Alive
<1>3. ReceiversLock'
  BY DEF ReceiversLock, HasFile, HasOpen, Alive
<1>4. Holders'
  <2>1. ASSUME NEW m \in Son, NEW s \in Session, lock'[m] = S(s)
        PROVE  /\ m = route[s].from
               /\ \/ pc[S(s)] \notin Past \/ S(s) \in keptFiles'
                  \/ told[s] = "unreachable" /\ route[s].from \in up
    <3>1. lock[m] = S(s) /\ (m = n => HasOpen(S(s)))
      BY <2>1
    <3> QED
      BY <3>1 DEF Holders, HasOpen, Alive, Past
  <2>2. ASSUME NEW m \in Son, NEW s \in Session, lock'[m] = R(s)
        PROVE  /\ m = route[s].to /\ pc[R(s)] # "lock" /\ HasFile(s)
               /\ pc[R(s)] \notin Past \/ R(s) \in keptFiles'
    <3>1. lock[m] = R(s) /\ (m = n => HasOpen(R(s)))
      BY <2>2
    <3>2. HasOpen(R(s)) => pc[R(s)] \notin Past
      BY DEF HasOpen, Alive, Past, R
    <3> QED
      BY <3>1, <3>2 DEF Holders
  <2> QED
    BY <2>1, <2>2 DEF Holders, HasFile
<1>5. FileIsMeant'
  BY DEF FileIsMeant, Sending
<1>6. NotYet' /\ NewsIsTrue'
  BY DEF NotYet, NewsIsTrue
<1>7. Living'
  BY DEF Living
<1> QED
  BY <1>1, <1>2, <1>3, <1>4, <1>5, <1>6, <1>7

LEMMA BrokenPipeInv == ASSUME Inv, NEW t \in Thread, BrokenPipe(t) PROVE Inv'
<1> USE ThreadFacts DEF Inv, Shape, BrokenPipe, Ends, Goto, given, childVars, fileVars, senderVars,
      receiverVars, socketVars
<1>1. Shape'
  BY DEF Shape
<1>2. SendersLock'
  BY DEF SendersLock, Sending
<1>3. ReceiversLock'
  BY DEF ReceiversLock, HasFile
<1>4. Holders'
  BY DEF Holders, Past, HasFile
<1>5. FileIsMeant'
  BY DEF FileIsMeant, Sending, Unhashed, NotYet
<1>6. NotYet'
  BY DEF NotYet, Unconnected, Unhashed, Untold, Unchecked
<1>7. NewsIsTrue'
  BY DEF NewsIsTrue, Untold, Unchecked, Unconnected, Unhashed, NotYet
<1>8. Living'
  BY DEF Living, Past
<1> QED
  BY <1>1, <1>2, <1>3, <1>4, <1>5, <1>6, <1>7, <1>8

(* end() on the main thread, and a new start, change nothing that Inv sees, *)
(* but that a Son runs.                                                     *)
LEMMA IdleInv ==
  ASSUME Inv, up \subseteq up',
         UNCHANGED <<route, file, lock, pc, hash, told, meant, stands, reply, sock, offset, damaged,
                     keptFiles, children>>
  PROVE  Inv'
<1>1. (Shape /\ SendersLock /\ ReceiversLock)'
  BY DEF Inv, Shape, SendersLock, ReceiversLock, HasFile
<1>2. (FileIsMeant /\ NotYet /\ NewsIsTrue)'
  BY DEF Inv, FileIsMeant, NotYet, NewsIsTrue
<1>3. Holders' /\ Living'
  BY DEF Inv, Holders, Living, HasFile
<1> QED
  BY <1>1, <1>2, <1>3 DEF Inv

LEMMA SonInv ==
  ASSUME Inv, NEW n \in Son,
         End(n) \/ Hang(n) \/ Exit(n) \/ Kill(n) \/ Start(n) \/ ForkChild(n) \/ ChildExits(n)
  PROVE  Inv'
<1> USE DEF given, childVars, fileVars, senderVars, receiverVars, socketVars
<1>1. CASE End(n) \/ Hang(n) \/ Start(n)
  BY <1>1, IdleInv DEF End, Ends, Hang, Start
<1>2. CASE Exit(n) \/ Kill(n)
  BY <1>2, GoneInv DEF Exit, Kill
<1> QED
  BY <1>1, <1>2, ForkChildInv, ChildExitsInv

LEMMA NextInv == Inv /\ [Next]_vars => Inv'
<1> SUFFICES ASSUME Inv, [Next]_vars PROVE Inv'
  OBVIOUS
<1>1. ASSUME NEW s \in Session, SendOpen(s) \/ ITH_sendFile(s) PROVE Inv'
  BY <1>1, SendOpenInv, SendSizeInv, SendHashInv, ConnectInv, UnreachableInv, SendDataInv,
     SendCheckInv, SendCloseInv DEF ITH_sendFile
<1>2. ASSUME NEW s \in Session, ReceiveOpen(s) \/ receiveFile(s) PROVE Inv'
  BY <1>2, ReceiveOpenInv, ReceiveLockInv, ReceiveDataInv, ReceiveRefuseInv, ReceiveCheckInv,
     ReceiveCloseInv DEF receiveFile
<1>3. ASSUME NEW t \in Thread, BrokenPipe(t) PROVE Inv'
  BY <1>3, BrokenPipeInv
<1>4. CASE UNCHANGED vars
  BY <1>4, IdleInv DEF vars, given, sonVars, childVars, fileVars, senderVars, receiverVars, socketVars
<1> QED
  BY <1>1, <1>2, <1>3, <1>4, SonInv DEF Next

LEMMA Invariance == Spec => []Inv
BY InitInv, NextInv, PTL DEF Spec

-----------------------------------------------------------------------------
(* Whoever was told that a file was sent correctly sent the file that it    *)
(* locked, and the receiver found it whole: in any number of transfers, of  *)
(* files of any size, however Sons stop and die.                            *)
THEOREM CorrectIsWhole == Spec => []CorrectlyMeansWhole
<1>1. Inv => CorrectlyMeansWhole
  BY DEF Inv, CorrectlyMeansWhole, FileIsMeant, NewsIsTrue
<1> QED
  BY <1>1, Invariance, PTL

(* A lock is of a thread at work, of a sender that could not connect and     *)
(* whose process runs, or is kept by a command that had the file open too.  *)
THEOREM LocksHaveUsers == Spec => []LocksAreUsed
<1>1. Inv => LocksAreUsed
  <2> SUFFICES ASSUME Inv, NEW n \in Son, lock[n] # NULL
               PROVE  HasOpen(lock[n]) \/ (lock[n] \in keptFiles /\ n \in children)
    BY DEF LocksAreUsed
  <2>1. PICK s \in Session : lock[n] = S(s) \/ lock[n] = R(s)
    BY ThreadFacts DEF Inv, Shape
  <2>2. CASE lock[n] = S(s)
    <3>1. S(s)[1] = s /\ S(s)[2] = "sends" /\ SonOf(S(s)) = route[s].from
      BY SonFacts DEF S
    <3> QED
      BY <2>2, <3>1 DEF Inv, Holders, Living, HasOpen, Alive, Past
  <2>3. CASE lock[n] = R(s)
    BY <2>3 DEF Inv, Holders, Living, HasOpen, Alive, Past
  <2> QED
    BY <2>1, <2>2, <2>3
<1> QED
  BY <1>1, Invariance, PTL

-----------------------------------------------------------------------------
(* The refinement.  What Delivery calls arrived.                            *)
Arrived == {s \in Session : meant[s] # NULL /\ stands[s] = meant[s]}

LEMMA TellStep ==
  ASSUME NEW s \in Session, NEW n \in D!News,
         UNCHANGED <<Arrived, damaged>>, told[s] = NULL, Tell(s, n),
         n = "correctly" => s \in Arrived \cup damaged
  PROVE  D!Next
BY DEF D!Next, D!Tell, Tell, Arrived

LEMMA KeepsArrived == ASSUME UNCHANGED <<meant, stands>> PROVE UNCHANGED Arrived
BY DEF Arrived

LEMMA SenderSteps ==
  ASSUME Inv, Inv', NEW s \in Session, SendOpen(s) \/ ITH_sendFile(s)
  PROVE  D!Next \/ UNCHANGED <<Arrived, damaged, told>>
<1> USE DEF SenderStays, given, sonVars, receiverVars, fileVars, senderVars, socketVars
<1>1. pc[S(s)] \in Untold => told[s] = NULL
  BY DEF Inv, NotYet
<1>2. CASE SendOpen(s)
  <2>1. UNCHANGED <<Arrived, damaged>>
    <3>1. meant' = meant \/ \E f : meant' = [meant EXCEPT ![s] = f]
      BY <1>2 DEF SendOpen
    <3>2. stands[s] = NULL /\ stands' = stands
      BY <1>2 DEF SendOpen, Inv, NotYet, Unconnected, Unchecked
    <3> QED
      BY <1>2, <3>1, <3>2 DEF Arrived, SendOpen, Inv, Shape
  <2> QED
    BY <1>1, <1>2, <2>1, TellStep DEF SendOpen, D!News, Untold
<1>3. CASE SendSize(s) \/ Connect(s) \/ SendClose(s)
  BY <1>3, KeepsArrived DEF SendSize, Connect, SendClose
<1>4. CASE SendHash(s)
  BY <1>1, <1>4, KeepsArrived, TellStep DEF SendHash, D!News, Untold
<1>5. CASE Unreachable(s)
  BY <1>1, <1>5, KeepsArrived, TellStep DEF Unreachable, D!News, Untold
<1>6. CASE SendData(s)
  BY <1>1, <1>6, KeepsArrived, TellStep DEF SendData, Stopped, D!News, Untold
<1>7. CASE SendCheck(s)
  <2>1. reply[s] = "CHECK_OK" => s \in Arrived \cup damaged
    BY DEF Inv, NewsIsTrue, FileIsMeant, Arrived
  <2> QED
    BY <1>1, <1>7, <2>1, KeepsArrived, TellStep DEF SendCheck, D!News, Untold
<1> QED
  BY <1>2, <1>3, <1>4, <1>5, <1>6, <1>7 DEF ITH_sendFile

LEMMA ReceiverSteps ==
  ASSUME Inv, NEW s \in Session, ReceiveOpen(s) \/ receiveFile(s)
  PROVE  D!Next \/ UNCHANGED <<Arrived, damaged, told>>
<1> USE DEF ReceiverStays, given, sonVars, senderVars, receiverVars, fileVars
<1>1. CASE ReceiveOpen(s)
  <2>1. UNCHANGED <<Arrived, told>>
    BY <1>1, KeepsArrived DEF ReceiveOpen
  <2>2. damaged' = damaged \/ \E u \in Session : damaged' = damaged \cup {u}
    BY <1>1, ThreadFacts DEF ReceiveOpen
  <2> QED
    BY <2>1, <2>2 DEF D!Next, D!Change, Arrived
<1>2. CASE ReceiveCheck(s)
  <2>1. UNCHANGED <<damaged, told, meant>>
    BY <1>2 DEF ReceiveCheck
  <2>2. stands' = stands \/ \E f : stands' = [stands EXCEPT ![s] = f]
    BY <1>2 DEF ReceiveCheck
  <2>3. stands[s] = NULL
    BY <1>2 DEF ReceiveCheck, Inv, NotYet, Unchecked
  <2>4. Arrived' = Arrived \/ Arrived' = Arrived \cup {s}
    BY <2>1, <2>2, <2>3 DEF Arrived, Inv, Shape
  <2> QED
    BY <2>1, <2>4 DEF D!Next, D!Arrive, Arrived
<1>3. CASE ReceiveLock(s) \/ ReceiveData(s) \/ ReceiveRefuse(s) \/ ReceiveClose(s)
  BY <1>3, KeepsArrived DEF ReceiveLock, ReceiveData, ReceiveRefuse, ReceiveClose
<1> QED
  BY <1>1, <1>2, <1>3 DEF receiveFile

LEMMA SonSteps ==
  ASSUME \/ \E t \in Thread : BrokenPipe(t)
         \/ \E n \in Son : End(n) \/ Hang(n) \/ Exit(n) \/ Kill(n) \/ Start(n)
         \/ \E n \in Son : ForkChild(n) \/ ChildExits(n)
  PROVE  UNCHANGED <<Arrived, damaged, told>>
BY KeepsArrived DEF BrokenPipe, End, Ends, Hang, ForkChild, ChildExits, Exit, Kill, Gone, Start,
    fileVars, senderVars, receiverVars

(* FileTransfer implements Delivery: the user is told the outcome once, and *)
(* "correctly" only of a file that arrived whole or was changed under way.  *)
THEOREM Implements == Spec => ImplementsDelivery
<1>1. Init => D!Init
  BY DEF Init, D!Init
<1>2. Inv /\ Inv' /\ [Next]_vars => [D!Next]_(D!vars)
  <2> SUFFICES ASSUME Inv, Inv', [Next]_vars
               PROVE  D!Next \/ UNCHANGED <<Arrived, damaged, told>>
    BY DEF D!vars, Arrived
  <2>1. CASE UNCHANGED vars
    BY <2>1, KeepsArrived DEF vars, fileVars, senderVars, receiverVars
  <2> QED
    BY <2>1, SenderSteps, ReceiverSteps, SonSteps DEF Next
<1> QED
  BY <1>1, <1>2, Invariance, PTL DEF Spec, ImplementsDelivery, D!Spec

=============================================================================
