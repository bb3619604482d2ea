------------------------- MODULE ArdaSessionProofs --------------------------
(***************************************************************************)
(* Theorems about what Arda's users see: Arda implements Registry, nobody   *)
(* loses a session without cause, and the lists sent can be used.  They     *)
(* rest on ArdaProofs' Inv and, for a hashmap without collisions, on Clean. *)
(* And the bound on the descriptors that are handed to FD_SET.  The second  *)
(* half is about each connection: Arda implements Line, for any sessions,   *)
(* names, descriptor limit, MAX_CLIENTS and hashmap layout.                 *)
(***************************************************************************)
EXTENDS ArdaProofs, FiniteSetTheorems, SequenceTheorems

USE DEF Listening

-----------------------------------------------------------------------------
(* FD_SET.  accept() gives the lowest free descriptor, so every lower one   *)
(* belongs to a registered son, and Full leaves at most MaxClients of them. *)
FdBound == FdListen + MaxClients + 1

BoundInv == FdSetBounded /\ (pc = "firstPacket" => cur <= FdBound)

LEMMA AcceptBounded ==
  ASSUME Inv, Accept
  PROVE  cur' <= FdBound
<1>1. PICK f \in ClientFds : LowestFree(f) /\ cur' = f
  BY DEF Accept
<1>2. Open = Registered
  BY DEF Inv, DescriptorsAccounted, Accept, Visit
<1>3. (FdListen + 1)..(f - 1) \subseteq Registered
  BY <1>1, <1>2, ArdaAssumption DEF LowestFree, ClientFds, FdListen
<1>4. f \in Int /\ f >= FdListen + 1 /\ LastFd \in Int
  BY ArdaAssumption DEF ClientFds, FdListen
<1>5. IsFiniteSet(Registered)
  <2>1. IsFiniteSet(ClientFds)
    BY <1>4, FS_Interval DEF ClientFds, FdListen
  <2> QED
    BY <2>1, FS_Subset DEF Registered
<1>6. Cardinality((FdListen + 1)..(f - 1)) <= Cardinality(Registered)
  BY <1>3, <1>5, FS_Subset
<1>7. Cardinality((FdListen + 1)..(f - 1)) = f - FdListen - 1
  <2>1. Cardinality((FdListen + 1)..(f - 1)) =
          IF FdListen + 1 > f - 1 THEN 0 ELSE (f - 1) - (FdListen + 1) + 1
    BY <1>4, FS_Interval DEF FdListen
  <2> QED
    BY <1>4, <2>1 DEF FdListen
<1>8. Cardinality(Registered) \in Nat /\ ~(Cardinality(Registered) > MaxClients)
  BY <1>5, FS_CardinalityType DEF Accept, Full
<1> QED
  BY <1>1, <1>4, <1>6, <1>7, <1>8, ArdaAssumption DEF FdBound, FdListen

LEMMA BoundNext ==
  ASSUME Inv, BoundInv, [Next]_vars
  PROVE  BoundInv'
<1>1. CASE Accept
  BY <1>1, AcceptBounded DEF Accept, BoundInv, FdSetBounded
<1>2. CASE FirstPacketLogin \/ FirstPacketReplace
  BY <1>2 DEF FirstPacketLogin, FirstPacketReplace, IsNewSon, FirstPacketArrived,
              WatchNewcomer, BoundInv, FdSetBounded, FdBound
<1>3. CASE FirstPacketNull \/ StaleVisit \/ Signal \/ Kill
  BY <1>3, ArdaAssumption
     DEF FirstPacketNull, StaleVisit, Signal, Kill, stop, dieUnsaved, ShutDown,
         BoundInv, FdSetBounded, FdListen
<1>4. CASE biggerFd' = biggerFd /\ cur' = cur /\ pc' = pc
  BY <1>4 DEF BoundInv, FdSetBounded
<1>5. CASE biggerFd' = biggerFd /\ pc' = "loop"
  BY <1>5 DEF BoundInv, FdSetBounded
<1>6. CASE Select \/ AcceptError \/ AcceptFull
  BY <1>4, <1>6 DEF Select, AcceptError, AcceptFull
<1>7. CASE FirstPacketNotSon \/ FirstPacketNameTaken \/ Welcome \/ WelcomeFails \/ Start
  BY <1>5, <1>7 DEF FirstPacketNotSon, FirstPacketNameTaken, Welcome, WelcomeFails, Start
<1>8. ASSUME NEW f \in ClientFds, handleRequest(f)
      PROVE  BoundInv'
  <2>1. \/ DropsOut(f) \/ RequestNewMsg(f)
        \/ \E h, d, e : Answer(f, h, d, e)
    BY <1>8 DEF handleRequest, RequestLost, RequestList, RequestListFails, RequestExit,
                RequestExitRefused, RequestUnknown, RequestUnknownFails
  <2> QED
    BY <1>4, <2>1 DEF DropsOut, RequestNewMsg, Answer
<1>9. ASSUME NEW s \in Session, ClientStep(s)
      PROVE  BoundInv'
  BY <1>4, <1>9 DEF ClientStep, Connect, Send, Receive, Close, procVars
<1>10. CASE UNCHANGED vars
  BY <1>4, <1>10 DEF vars, procVars
<1>11. CASE OffTheLoop
  BY <1>11, OffTheLoopFacts DEF BoundInv, FdSetBounded
<1> QED
  BY <1>1, <1>2, <1>3, <1>6, <1>7, <1>8, <1>9, <1>10, <1>11
     DEF Next, Undisturbed, Interruption, ArdaStep, EventLoop, OffTheLoop, handleNewConnection

(* FD_SET is never given a descriptor beyond what MAX_CLIENTS allows. *)
THEOREM FdSetStaysBounded == Spec => []FdSetBounded
<1>1. Init => BoundInv
  BY ArdaAssumption DEF Init, BoundInv, FdSetBounded, FdListen
<1>2. Inv /\ BoundInv /\ [Next]_vars => BoundInv'
  BY BoundNext
<1>3. BoundInv => FdSetBounded
  BY DEF BoundInv
<1> QED
  BY <1>1, <1>2, <1>3, Invariance, PTL DEF Spec

-----------------------------------------------------------------------------
(* Inv and Clean together, along every behaviour.                           *)

LEMMA CleanInvariance == ASSUME NoSlide PROVE Spec => [](Inv /\ Clean)
<1>1. Inv /\ Clean /\ [Next]_vars => Clean'
  BY CleanNext
<1> QED
  BY <1>1, CleanInit, Invariance, PTL DEF Spec

(* Every registered record is the session open on its descriptor, and       *)
(* nobody has two.                                                          *)
LEMMA RecordIsPeer ==
  ASSUME Inv, NEW f \in Registered
  PROVE  /\ f \in ClientFds /\ f \in Open
         /\ table[f] \in Session /\ table[f] = peer[f]
         /\ link[table[f]] = "open"
         /\ \A g \in ClientFds : table[g] = table[f] => g = f
<1>1. f \in ClientFds /\ f \in Open /\ table[f] \in Session /\ table[f] = peer[f]
  BY OpenPeer DEF Inv, DescriptorsAccounted
<1>2. link[table[f]] = "open"
  BY <1>1 DEF Inv, DescriptorsAccounted
<1>3. \A g \in ClientFds : table[g] = table[f] => g = f
  <2> SUFFICES ASSUME NEW g \in ClientFds, table[g] = table[f]
               PROVE  g = f
    OBVIOUS
  <2>1. g \in Registered
    BY <1>1, ArdaAssumption DEF Registered
  <2>2. g \in Open /\ table[g] = peer[g]
    BY <2>1 DEF Inv, DescriptorsAccounted
  <2> QED
    BY <1>1, <2>2 DEF Inv, DescriptorsAccounted
<1> QED
  BY <1>1, <1>2, <1>3

(* The record an unambiguous search by name finds. *)
LEMMA FoundClean ==
  ASSUME Clean
  PROVE  /\ \A f \in Found \ {NULL} :
              f \in Registered /\ UserOf[table[f]] = UserOf[newcomer]
         /\ NULL \in Found =>
              \A f \in Registered : UserOf[table[f]] # UserOf[newcomer]
<1>1. dangling = {} /\ NULL \notin ClientFds
  BY ArdaAssumption DEF Clean
<1> QED
  BY <1>1 DEF Found, SameName, Registered

-----------------------------------------------------------------------------
(* Arda implements Registry.  Each lemma maps one kind of step.             *)

LEMMA StandingFacts ==
  ASSUME Inv
  PROVE  \A s \in Session :
           /\ standing[s] = "in" <=> \E f \in Registered : table[f] = s
           /\ standing[s] = "in" => link[s] = "open"
           /\ standing[s] = "gone" <=> link[s] = "closed"
           /\ standing[s] \in {"in", "out", "gone"}
<1> SUFFICES ASSUME NEW s \in Session
             PROVE  /\ standing[s] = "in" <=> \E f \in Registered : table[f] = s
                    /\ standing[s] = "in" => link[s] = "open"
                    /\ standing[s] = "gone" <=> link[s] = "closed"
                    /\ standing[s] \in {"in", "out", "gone"}
  OBVIOUS
<1>1. standing[s] = IF \E f \in ClientFds : table[f] = s THEN "in"
                    ELSE IF link[s] = "closed" THEN "gone" ELSE "out"
  BY DEF standing
<1>2. (\E f \in ClientFds : table[f] = s) <=> \E f \in Registered : table[f] = s
  BY ArdaAssumption DEF Registered
<1>3. (\E f \in Registered : table[f] = s) => link[s] = "open"
  BY RecordIsPeer
<1> QED
  BY <1>1, <1>2, <1>3

(* Steps that register nobody, remove nobody and close no connection. *)
LEMMA StandingSame ==
  ASSUME table' = table,
         \A s \in Session : link'[s] = "closed" <=> link[s] = "closed"
  PROVE  standing' = standing
BY DEF standing

(* A refusal or a logout: the connection of s is closed, and s is in the    *)
(* hashmap no more.                                                         *)
LEMMA LeaveMaps ==
  ASSUME Inv, NEW s \in Session, link[s] # "closed",
         Listening, Listening',
         link' = [link EXCEPT ![s] = "closed"],
         \A f \in ClientFds : table'[f] # s,
         \A t \in Session \ {s} : (\E f \in ClientFds : table'[f] = t)
                                    <=> (\E f \in ClientFds : table[f] = t)
  PROVE  R!Leave(s)
<1>1. link'[s] = "closed" /\ \A t \in Session \ {s} : link'[t] = link[t]
  BY DEF Inv, TypesOK
<1>2. standing[s] # "gone"
  BY StandingFacts
<1>3. standing' = [standing EXCEPT ![s] = "gone"]
  <2>1. standing'[s] = "gone" /\ \A t \in Session \ {s} : standing'[t] = standing[t]
    BY <1>1 DEF standing
  <2>2. /\ standing  = [t \in Session |-> standing[t]]
        /\ standing' = [t \in Session |-> standing'[t]]
    BY DEF standing
  <2> QED
    BY <2>1, <2>2
<1> QED
  BY <1>2, <1>3 DEF R!Leave

LEMMA RefuseMaps ==
  ASSUME Inv, pc = "firstPacket", pc' = "loop", ClosePeer(cur), table' = table
  PROVE  R!Leave(newcomer)
<1>1. /\ newcomer \in Session /\ cur \notin Registered /\ link[newcomer] = "open"
      /\ \A f \in Open : peer[f] = newcomer => f = cur
  BY NewcomerFacts
<1>2. \A f \in ClientFds : table[f] # newcomer
  <2> SUFFICES ASSUME NEW f \in ClientFds, table[f] = newcomer PROVE FALSE
    OBVIOUS
  <2>1. f \in Registered
    BY <1>1, ArdaAssumption DEF Registered
  <2> QED
    BY <1>1, <2>1, RecordIsPeer
<1> QED
  BY <1>1, <1>2, LeaveMaps DEF ClosePeer, newcomer

LEMMA DisconnectMaps ==
  ASSUME Inv, NEW f \in Registered, disconnect(f), Listening, Listening'
  PROVE  R!Leave(table[f])
<1>1. /\ f \in ClientFds /\ table[f] \in Session /\ table[f] = peer[f]
      /\ link[table[f]] = "open"
      /\ \A g \in ClientFds : table[g] = table[f] => g = f
  BY RecordIsPeer
<1>2. /\ table' = [table EXCEPT ![f] = NULL] /\ table \in [ClientFds -> Session \cup {NULL}]
      /\ link' = [link EXCEPT ![table[f]] = "closed"]
  BY <1>1 DEF disconnect, ClosePeer, Inv, TypesOK
<1>3. table'[f] = NULL /\ \A g \in ClientFds \ {f} : table'[g] = table[g]
  BY <1>1, <1>2
<1>4. \A g \in ClientFds : table'[g] # table[f]
  BY <1>1, <1>3, ArdaAssumption
<1>5. \A t \in Session \ {table[f]} : (\E g \in ClientFds : table'[g] = t)
                                        <=> (\E g \in ClientFds : table[g] = t)
  BY <1>3, ArdaAssumption
<1> QED
  BY <1>1, <1>2, <1>4, <1>5, LeaveMaps

LEMMA AcceptFullMaps ==
  ASSUME Inv, AcceptFull
  PROVE  R!Leave(Head(backlog))
<1>1. backlog # <<>> /\ backlog \in Seq(Session)
  BY DEF Inv, TypesOK, AcceptNeverBlocks, AcceptFull, Visit
<1>2. Head(backlog) \in Session /\ link[Head(backlog)] = "backlog"
  BY <1>1, BacklogHead DEF Inv, AcceptNeverBlocks
<1>3. \A f \in ClientFds : table[f] # Head(backlog)
  BY <1>2, StandingFacts, ArdaAssumption DEF Registered
<1>4. Listening /\ Listening' /\ table' = table
      /\ link' = [link EXCEPT ![Head(backlog)] = "closed"]
  BY DEF AcceptFull, Visit
<1> QED
  BY <1>2, <1>3, <1>4, LeaveMaps

LEMMA LoginMaps ==
  ASSUME Inv, Clean, FirstPacketLogin
  PROVE  R!Login(newcomer)
<1>1. /\ cur \in ClientFds /\ newcomer \in Session /\ cur \notin Registered
      /\ link[newcomer] = "open" /\ pc = "firstPacket"
      /\ \A f \in Open : peer[f] = newcomer => f = cur
  BY NewcomerFacts DEF FirstPacketLogin, IsNewSon, FirstPacketArrived
<1>2. /\ table' = [table EXCEPT ![cur] = newcomer] /\ table \in [ClientFds -> Session \cup {NULL}]
      /\ link' = link /\ pc' = "welcome" /\ NULL \in Found
  BY DEF FirstPacketLogin, Inv, TypesOK
<1>3. table[cur] = NULL /\ table'[cur] = newcomer /\ \A g \in ClientFds \ {cur} : table'[g] = table[g]
  BY <1>1, <1>2 DEF Registered
<1>4. standing[newcomer] = "out"
  BY <1>1, RecordIsPeer, StandingFacts
<1>5. \A t \in R!In : UserOf[t] # UserOf[newcomer]
  BY <1>2, FoundClean, StandingFacts DEF R!In
<1>6. standing' = [standing EXCEPT ![newcomer] = "in"]
  <2>1. standing'[newcomer] = "in"
    BY <1>1, <1>3 DEF standing
  <2>2. \A t \in Session \ {newcomer} : standing'[t] = standing[t]
    BY <1>2, <1>3, ArdaAssumption DEF standing
  <2>3. /\ standing  = [t \in Session |-> standing[t]]
        /\ standing' = [t \in Session |-> standing'[t]]
    BY DEF standing
  <2> QED
    BY <2>1, <2>2, <2>3
<1> QED
  BY <1>1, <1>2, <1>4, <1>5, <1>6 DEF R!Login

LEMMA ReplaceMaps ==
  ASSUME Inv, Clean, FirstPacketReplace
  PROVE  \E t \in Session : R!TakeOver(newcomer, t)
<1>1. /\ cur \in ClientFds /\ newcomer \in Session /\ cur \notin Registered
      /\ link[newcomer] = "open" /\ pc = "firstPacket" /\ pc' = "welcome"
      /\ \A g \in Open : peer[g] = newcomer => g = cur
  BY NewcomerFacts DEF FirstPacketReplace, IsNewSon, FirstPacketArrived
<1>2. PICK f \in Found \ {NULL} :
        /\ SameAddr(f) /\ ClosePeer(f)
        /\ table' = [table EXCEPT ![f] = NULL, ![cur] = newcomer]
  BY DEF FirstPacketReplace
<1>3. f \in Registered /\ UserOf[table[f]] = UserOf[newcomer]
  BY FoundClean
<1>4. /\ f \in ClientFds /\ table[f] \in Session /\ table[f] = peer[f]
      /\ link[table[f]] = "open"
      /\ \A g \in ClientFds : table[g] = table[f] => g = f
  BY <1>3, RecordIsPeer
<1>5. AddrOf[table[f]] = AddrOf[newcomer]
  BY <1>2 DEF SameAddr, Clean
<1>6. f # cur /\ table[cur] = NULL
  BY <1>1, <1>3 DEF Registered
<1>7. /\ table'[f] = NULL /\ table'[cur] = newcomer
      /\ \A g \in ClientFds \ {f, cur} : table'[g] = table[g]
  BY <1>1, <1>2, <1>4, <1>6 DEF Inv, TypesOK
<1>8. link' = [link EXCEPT ![table[f]] = "closed"]
  BY <1>2, <1>4 DEF ClosePeer
<1>9. standing[newcomer] = "out"
  BY <1>1, RecordIsPeer, StandingFacts
<1>10. table[f] \in R!In /\ table[f] # newcomer
  BY <1>1, <1>3, <1>4, <1>9, StandingFacts DEF R!In
<1>11. standing' = [standing EXCEPT ![newcomer] = "in", ![table[f]] = "gone"]
  <2>1. standing'[newcomer] = "in"
    BY <1>1, <1>7 DEF standing
  <2>2. \A g \in ClientFds : table'[g] # table[f]
    BY <1>4, <1>7, <1>10, ArdaAssumption
  <2>3. standing'[table[f]] = "gone"
    BY <1>4, <1>8, <2>2 DEF standing, Inv, TypesOK
  <2>4. ASSUME NEW t \in Session \ {newcomer, table[f]}
        PROVE  standing'[t] = standing[t]
    <3>1. link'[t] = link[t]
      BY <1>4, <1>8 DEF Inv, TypesOK
    <3>2. t # NULL
      BY ArdaAssumption
    <3>3. \A g \in ClientFds : table'[g] = t <=> table[g] = t
      BY <1>6, <1>7, <3>2
    <3> QED
      BY <3>1, <3>3 DEF standing
  <2>5. \A t \in Session \ {newcomer, table[f]} : standing'[t] = standing[t]
    BY <2>4
  <2>6. /\ standing  = [t \in Session |-> standing[t]]
        /\ standing' = [t \in Session |-> standing'[t]]
    BY DEF standing
  <2> QED
    BY <1>10, <2>1, <2>3, <2>5, <2>6
<1> QED
  BY <1>1, <1>3, <1>4, <1>5, <1>9, <1>10, <1>11 DEF R!TakeOver

LEMMA EndMaps ==
  ASSUME Inv, ShutDown, Listening
  PROVE  R!Stop
<1> DEFINE N == {s \in Session : link[s] \in {"backlog", "open"}}
<1>1. /\ pc' = "down" /\ table' = [f \in ClientFds |-> NULL]
      /\ link' = [s \in Session |->
                    IF link[s] \in {"backlog", "open"} THEN "closed" ELSE link[s]]
  BY DEF ShutDown
<1>2. \A s \in Session : ~\E f \in ClientFds : table'[f] = s
  BY <1>1, ArdaAssumption
<1>3. \A s \in Session :
        standing'[s] = IF s \in N \/ link[s] = "closed" THEN "gone" ELSE "out"
  BY <1>1, <1>2 DEF standing
<1>4. \A s \in Session : standing'[s] = IF s \in R!In \cup N THEN "gone" ELSE standing[s]
  BY <1>3, StandingFacts DEF R!In
<1>5. standing' = [s \in Session |-> IF s \in R!In \cup N THEN "gone" ELSE standing[s]]
  <2>1. standing' = [s \in Session |-> standing'[s]]
    BY DEF standing
  <2> QED
    BY <1>4, <2>1
<1>6. N \in SUBSET Session
  OBVIOUS
<1> QED
  BY <1>1, <1>5, <1>6 DEF R!Stop

LEMMA StepMaps ==
  ASSUME NoSlide, Inv, Clean, [Next]_vars
  PROVE  [R!Next]_(R!vars)
<1>1. CASE Select \/ AcceptError \/ Welcome
  BY <1>1, StandingSame DEF Select, AcceptError, Visit, Welcome, netVars, R!vars
<1>2. CASE Accept
  <2>1. backlog # <<>> /\ backlog \in Seq(Session)
    BY <1>2 DEF Inv, TypesOK, AcceptNeverBlocks, Accept, Visit
  <2>2. Head(backlog) \in Session /\ link[Head(backlog)] = "backlog"
    BY <2>1, BacklogHead DEF Inv, AcceptNeverBlocks
  <2>3. \A s \in Session : link'[s] = "closed" <=> link[s] = "closed"
    BY <1>2, <2>2 DEF Accept, Inv, TypesOK
  <2> QED
    BY <1>2, <2>3, StandingSame DEF Accept, Visit, R!vars
<1>3. CASE AcceptFull
  <2>1. Head(backlog) \in Session
    BY <1>3, BacklogHead DEF Inv, TypesOK, AcceptNeverBlocks, AcceptFull, Visit
  <2> QED
    BY <1>3, <2>1, AcceptFullMaps DEF R!Next
<1>4. CASE FirstPacketNotSon \/ FirstPacketNameTaken
  <2>1. pc = "firstPacket" /\ pc' = "loop" /\ ClosePeer(cur) /\ table' = table
    BY <1>4 DEF FirstPacketNotSon, FirstPacketNameTaken, IsNewSon, FirstPacketArrived
  <2> QED
    BY <2>1, NewcomerFacts, RefuseMaps DEF R!Next
<1>5. CASE FirstPacketLogin
  BY <1>5, LoginMaps, NewcomerFacts
     DEF FirstPacketLogin, IsNewSon, FirstPacketArrived, R!Next
<1>6. CASE FirstPacketReplace
  BY <1>6, ReplaceMaps, NewcomerFacts
     DEF FirstPacketReplace, IsNewSon, FirstPacketArrived, R!Next
<1>7. CASE WelcomeFails
  <2>1. cur \in Registered /\ disconnect(cur) /\ Listening /\ Listening'
    BY <1>7, NewcomerFacts DEF WelcomeFails
  <2> QED
    BY <2>1, DisconnectMaps, OpenPeer DEF Inv, R!Next
<1>8. CASE FirstPacketNull \/ StaleVisit \/ Signal \/ Kill
  <2>1. ShutDown /\ Listening
    BY <1>8 DEF FirstPacketNull, FirstPacketArrived, StaleVisit, Signal, Kill, stop, dieUnsaved
  <2> QED
    BY <2>1, EndMaps DEF R!Next
<1>9. CASE Start
  <2>1. standing' = standing
    BY <1>9, StandingSame DEF Start, netVars
  <2> QED
    BY <1>9, <2>1 DEF Start, R!Start, R!Next
<1>10. ASSUME NEW f \in ClientFds, handleRequest(f)
       PROVE  [R!Next]_(R!vars)
  <2>1. Reading(f) /\ (DropsOut(f) \/ RequestNewMsg(f) \/ \E h, d, e : Answer(f, h, d, e))
    BY <1>10 DEF handleRequest, RequestLost, RequestList, RequestListFails, RequestNewMsg,
                 RequestExit, RequestExitRefused, RequestUnknown, RequestUnknownFails,
                 UnknownRequest, Request
  <2>2. f \in Registered /\ pc = "loop" /\ table[f] \in Session
    BY <2>1, ReadingFacts, OpenPeer DEF Inv
  <2>3. CASE DropsOut(f)
    BY <2>2, <2>3, DisconnectMaps DEF DropsOut, R!Next
  <2>4. CASE RequestNewMsg(f) \/ \E h, d, e : Answer(f, h, d, e)
    BY <2>4, StandingSame DEF RequestNewMsg, Answer, R!vars
  <2> QED
    BY <2>1, <2>3, <2>4
<1>11. ASSUME NEW s \in Session, ClientStep(s)
       PROVE  [R!Next]_(R!vars)
  <2>1. \A t \in Session : link'[t] = "closed" <=> link[t] = "closed"
    BY <1>11 DEF ClientStep, Connect, Send, Receive, Close, Inv, TypesOK, AcceptNeverBlocks
  <2> QED
    BY <1>11, <2>1, StandingSame
       DEF ClientStep, Connect, Send, Receive, Close, procVars, R!vars
<1>12. CASE UNCHANGED vars
  BY <1>12, StandingSame DEF vars, netVars, procVars, R!vars
<1>13. CASE OffTheLoop
  BY <1>13, OffTheLoopFacts, StandingSame DEF netVars, R!vars
<1> QED
  BY <1>1, <1>2, <1>3, <1>4, <1>5, <1>6, <1>7, <1>8, <1>9, <1>10, <1>11, <1>12, <1>13
     DEF Next, Undisturbed, Interruption, ArdaStep, EventLoop, OffTheLoop, handleNewConnection

LEMMA InitMaps == Init => R!Init
<1> SUFFICES ASSUME Init PROVE R!Init
  OBVIOUS
<1>1. Listening = FALSE
  BY DEF Init
<1>2. \A s \in Session : ~(\E f \in ClientFds : table[f] = s) /\ link[s] # "closed"
  BY ArdaAssumption DEF Init
<1>3. standing = [s \in Session |-> "out"]
  BY <1>2 DEF standing
<1> QED
  BY <1>1, <1>3 DEF R!Init

(* The server, with its descriptors, its hashmap and its packets, keeps the *)
(* promise of Registry: whoever is logged in got in by a free name, or took *)
(* over its own session, and leaves for good.                               *)
THEOREM ArdaImplementsRegistry == ASSUME NoSlide PROVE Spec => ImplementsRegistry
<1>1. Inv /\ Clean /\ [Next]_vars => [R!Next]_(R!vars)
  BY StepMaps
<1> QED
  BY <1>1, InitMaps, CleanInvariance, PTL DEF Spec, ImplementsRegistry, R!Spec

-----------------------------------------------------------------------------
(* Nobody is thrown out.  disconnect(f) runs only where the session on f    *)
(* gave up, or for the record that a newcomer takes over.                   *)
KeepsSessions ==
  pc' # "down" =>
    \A f \in Registered :
      \/ table'[f] = table[f]
      \/ GivesUp(table[f])
      \/ \E g \in ClientFds \ Registered :
           table'[g] # NULL /\ TakenOver(table[f], table'[g])

LEMMA OnlyThatOne ==
  ASSUME Inv, NEW f \in Registered, disconnect(f), GivesUp(table[f])
  PROVE  KeepsSessions
<1>1. \A g \in Registered \ {f} : table'[g] = table[g]
  BY DEF disconnect, Inv, TypesOK, Registered
<1> QED
  BY <1>1 DEF KeepsSessions

LEMMA DropsOutCause ==
  ASSUME Inv, Clean, NEW f \in ClientFds,
         RequestLost(f) \/ RequestListFails(f) \/ RequestExit(f) \/ RequestUnknownFails(f)
  PROVE  Reading(f) /\ disconnect(f) /\ GivesUp(table[f])
<1>1. Reading(f) /\ disconnect(f)
  BY DEF RequestLost, RequestListFails, RequestExit, RequestUnknownFails,
         UnknownRequest, Request, DropsOut
<1>2. table[f] = peer[f] /\ dangling = {}
  BY <1>1, ReadingFacts, RecordIsPeer DEF Clean
<1>3. CASE RequestListFails(f) \/ RequestUnknownFails(f)
  BY <1>1, <1>2, <1>3 DEF RequestListFails, RequestUnknownFails, MayFail, GivesUp
<1>4. CASE RequestLost(f)
  <2>1. CASE toArda[peer[f]] = <<>>
    BY <1>1, <1>2, <2>1 DEF Reading, Readable, GivesUp
  <2>2. CASE toArda[peer[f]] # <<>>
    <3>1. peer[f] \in Session /\ toArda[peer[f]] \in Seq(Packet)
      BY <1>1, ReadingFacts DEF Inv, TypesOK
    <3>2. Head(toArda[peer[f]]) # NULL
      BY <2>2, <3>1, PacketAssumption
    <3>3. ~isPacketValid(Head(toArda[peer[f]]))
      BY <1>4, <2>2, <3>2 DEF RequestLost, Requested, COM_readPacket
    <3> QED
      BY <1>1, <1>2, <2>2, <3>3 DEF GivesUp
  <2> QED
    BY <2>1, <2>2
<1>5. CASE RequestExit(f)
  <2>1. Requested(f) # NULL /\ Requested(f).header = EXIT /\ Requested(f).data = UserOf[table[f]]
    BY <1>2, <1>5 DEF RequestExit, Request
  <2>2. toArda[peer[f]] # <<>> /\ Requested(f) = Head(toArda[peer[f]])
    BY <2>1 DEF Requested, COM_readPacket
  <2> QED
    BY <1>1, <1>2, <2>1, <2>2 DEF GivesUp
<1> QED
  BY <1>1, <1>3, <1>4, <1>5

LEMMA ReplaceKeeps ==
  ASSUME Inv, Clean, FirstPacketReplace
  PROVE  KeepsSessions
<1>1. cur \in ClientFds \ Registered /\ newcomer \in Session
  BY NewcomerFacts DEF FirstPacketReplace, IsNewSon, FirstPacketArrived
<1>2. PICK f \in Found \ {NULL} :
        /\ SameAddr(f)
        /\ table' = [table EXCEPT ![f] = NULL, ![cur] = newcomer]
  BY DEF FirstPacketReplace
<1>3. f \in Registered /\ UserOf[table[f]] = UserOf[newcomer] /\ AddrOf[table[f]] = AddrOf[newcomer]
  BY <1>2, FoundClean DEF SameAddr, Clean
<1>4. table'[cur] = newcomer /\ \A g \in Registered \ {f} : table'[g] = table[g]
  BY <1>1, <1>2, <1>3 DEF Inv, TypesOK, Registered
<1>5. newcomer # NULL
  BY <1>1, ArdaAssumption
<1> QED
  BY <1>1, <1>3, <1>4, <1>5 DEF KeepsSessions, TakenOver

LEMMA StepKeeps ==
  ASSUME Inv, Clean, [Next]_vars
  PROVE  KeepsSessions
<1>1. CASE table' = table
  BY <1>1 DEF KeepsSessions
<1>2. CASE Select \/ AcceptError \/ AcceptFull \/ Accept \/ FirstPacketNotSon
           \/ FirstPacketNameTaken \/ Welcome \/ Start
  BY <1>1, <1>2
     DEF Select, AcceptError, AcceptFull, Accept, FirstPacketNotSon,
         FirstPacketNameTaken, Welcome, Start
<1>3. CASE FirstPacketNull \/ StaleVisit \/ Signal \/ Kill
  BY <1>3 DEF FirstPacketNull, StaleVisit, Signal, Kill, stop, dieUnsaved, ShutDown, KeepsSessions
<1>4. CASE FirstPacketLogin
  <2>1. cur \notin Registered /\ table' = [table EXCEPT ![cur] = newcomer]
    BY <1>4, NewcomerFacts DEF FirstPacketLogin, IsNewSon, FirstPacketArrived
  <2>2. \A g \in Registered : table'[g] = table[g]
    BY <2>1 DEF Inv, TypesOK, Registered
  <2> QED
    BY <2>2 DEF KeepsSessions
<1>5. CASE WelcomeFails
  <2>1. cur \in Registered /\ disconnect(cur) /\ table[cur] = newcomer
    BY <1>5, NewcomerFacts, RecordIsPeer DEF WelcomeFails, newcomer
  <2>2. GivesUp(table[cur])
    BY <1>5, <2>1 DEF WelcomeFails, MayFail, GivesUp
  <2> QED
    BY <2>1, <2>2, OnlyThatOne
<1>6. ASSUME NEW f \in ClientFds, handleRequest(f)
      PROVE  KeepsSessions
  <2>1. CASE RequestLost(f) \/ RequestListFails(f) \/ RequestExit(f) \/ RequestUnknownFails(f)
    BY <2>1, DropsOutCause, ReadingFacts, OnlyThatOne
  <2>2. CASE RequestList(f) \/ RequestExitRefused(f) \/ RequestUnknown(f) \/ RequestNewMsg(f)
    BY <1>1, <2>2 DEF RequestList, RequestExitRefused, RequestUnknown, RequestNewMsg, Answer
  <2> QED
    BY <1>6, <2>1, <2>2 DEF handleRequest
<1>7. ASSUME NEW s \in Session, ClientStep(s)
      PROVE  KeepsSessions
  BY <1>1, <1>7 DEF ClientStep, Connect, Send, Receive, Close, procVars
<1>8. CASE UNCHANGED vars
  BY <1>1, <1>8 DEF vars, procVars
<1>9. CASE OffTheLoop
  BY <1>1, <1>9, OffTheLoopFacts
<1> QED
  BY <1>2, <1>3, <1>4, <1>5, <1>6, <1>7, <1>8, <1>9, ReplaceKeeps
     DEF Next, Undisturbed, Interruption, ArdaStep, EventLoop, OffTheLoop, handleNewConnection

(* A user loses the session only by its own doing. *)
THEOREM NobodyThrownOut == ASSUME NoSlide PROVE Spec => NoSpuriousLogout
<1>1. Inv /\ Clean /\ [Next]_vars => [KeepsSessions]_vars
  BY StepKeeps
<1>2. NoSpuriousLogout <=> [][KeepsSessions]_vars
  BY DEF NoSpuriousLogout, KeepsSessions
<1> QED
  BY <1>1, <1>2, CleanInvariance, PTL DEF Spec

-----------------------------------------------------------------------------
(* The lists that are sent.  A list is written to a session that is         *)
(* registered, while the cache is coherent and the names in it are unique;  *)
(* and it does not change on its way.                                       *)
Usable(s, p) ==
  p.data # NULL =>
    /\ s \in p.data
    /\ \A r, t \in p.data : UserOf[r] = UserOf[t] => r = t

LEMMA UsableDef ==
  ListsAreUsable <=> \A s \in Session : \A i \in 1..Len(toSon[s]) : Usable(s, toSon[s][i])
BY DEF ListsAreUsable, Usable

LEMMA CachedListUsable ==
  ASSUME Inv, Clean, NEW f \in Registered, NEW header, NEW exit \in BOOLEAN
  PROVE  Usable(table[f], COM_writePacket(header, list, exit))
<1>1. table[f] \in list
  BY DEF Clean, CacheCoherent
<1>2. \A r, t \in list : UserOf[r] = UserOf[t] => r = t
  BY DEF Clean, CacheCoherent, UniqueNames
<1>3. COM_writePacket(header, list, exit).data \in {list, NULL}
  BY WrittenIsValid
<1> QED
  BY <1>1, <1>2, <1>3 DEF Usable

LEMMA NoListUsable ==
  ASSUME NEW s \in Session, NEW header, NEW exit \in BOOLEAN
  PROVE  Usable(s, COM_writePacket(header, NULL, exit))
<1>1. COM_writePacket(header, NULL, exit).data \in {NULL}
  BY WrittenIsValid
<1> QED
  BY <1>1 DEF Usable

LEMMA WriteUsable ==
  ASSUME TypesOK, ListsAreUsable, NEW s \in Session,
         NEW header, NEW data, NEW exit,
         Usable(s, COM_writePacket(header, data, exit)),
         toSon' = WriteTo(s, header, data, exit)
  PROVE  ListsAreUsable'
<1> DEFINE p == COM_writePacket(header, data, exit)
<1>1. toSon \in [Session -> Seq(ValidReply)]
  BY DEF TypesOK, ValidReply
<1>2. ASSUME NEW t \in Session, NEW i \in 1..Len(toSon'[t])
      PROVE  Usable(t, toSon'[t][i])
  <2>1. CASE t # s \/ son[s] # "open"
    <3>1. toSon'[t] = toSon[t]
      BY <1>1, <2>1 DEF WriteTo
    <3> QED
      BY <1>2, <3>1, UsableDef
  <2>2. CASE t = s /\ son[s] = "open"
    <3>1. toSon'[t] = Append(toSon[t], p) /\ toSon[t] \in Seq(ValidReply)
      BY <1>1, <2>2 DEF WriteTo
    <3> HIDE DEF p
    <3>2. \/ i \in 1..Len(toSon[t]) /\ toSon'[t][i] = toSon[t][i]
          \/ toSon'[t][i] = p
      BY <1>2, <3>1
    <3>3. Usable(s, p)
      BY DEF p
    <3> QED
      BY <2>2, <3>2, <3>3, UsableDef
  <2> QED
    BY <2>1, <2>2
<1>3. \A t \in Session : \A i \in 1..Len(toSon'[t]) : Usable(t, toSon'[t][i])
  BY <1>2
<1> QED
  BY <1>3 DEF ListsAreUsable, Usable

LEMMA NoticeUsable ==
  ASSUME TypesOK, ListsAreUsable, NEW s \in Session,
         NEW header, NEW exit \in BOOLEAN,
         toSon' = WriteTo(s, header, NULL, exit)
  PROVE  ListsAreUsable'
BY NoListUsable, WriteUsable

LEMMA CachedListWritten ==
  ASSUME Inv, Clean, ListsAreUsable, NEW f \in Registered,
         toSon' = WriteTo(table[f], CONOK, list, FALSE)
  PROVE  ListsAreUsable'
<1>1. Usable(table[f], COM_writePacket(CONOK, list, FALSE))
  BY CachedListUsable
<1> QED
  BY <1>1, RecordIsPeer, WriteUsable DEF Inv

LEMMA ClientKeepsUsable ==
  ASSUME Inv, ListsAreUsable, NEW s \in Session, Receive(s) \/ Close(s)
  PROVE  ListsAreUsable'
<1>1. toSon \in [Session -> Seq(ValidReply)]
  BY DEF Inv, TypesOK, ValidReply
<1>2. ASSUME NEW t \in Session, NEW i \in 1..Len(toSon'[t])
      PROVE  \E j \in 1..Len(toSon[t]) : toSon'[t][i] = toSon[t][j]
  <2>1. CASE toSon'[t] = toSon[t]
    BY <1>2, <2>1
  <2>2. CASE toSon'[t] = <<>>
    BY <1>2, <2>2
  <2>3. CASE toSon'[t] = Tail(toSon[t]) /\ toSon[t] # <<>>
    <3>1. toSon[t] \in Seq(ValidReply) /\ Len(toSon[t]) \in Nat
      BY <1>1
    <3>2. i + 1 \in 1..Len(toSon[t]) /\ toSon'[t][i] = toSon[t][i + 1]
      BY <1>2, <2>3, <3>1
    <3> QED
      BY <3>2
  <2>4. toSon'[t] = toSon[t] \/ toSon'[t] = <<>> \/ (toSon'[t] = Tail(toSon[t]) /\ toSon[t] # <<>>)
    BY <1>1 DEF Receive, Close
  <2> QED
    BY <2>1, <2>2, <2>3, <2>4
<1> QED
  BY <1>2 DEF ListsAreUsable

LEMMA StepUsable ==
  ASSUME NoSlide, Inv, Clean, ListsAreUsable, [Next]_vars
  PROVE  ListsAreUsable'
<1>1. CASE toSon' = toSon
  BY <1>1 DEF ListsAreUsable
<1>2. CASE Select \/ AcceptError \/ AcceptFull \/ Accept \/ FirstPacketLogin \/ Start
  BY <1>1, <1>2
     DEF Select, AcceptError, AcceptFull, Accept, FirstPacketLogin, Start, netVars
<1>3. CASE FirstPacketNull \/ StaleVisit \/ Signal \/ Kill
  BY <1>1, <1>3 DEF FirstPacketNull, StaleVisit, Signal, Kill, stop, dieUnsaved, ShutDown
<1>4. CASE FirstPacketNotSon \/ FirstPacketNameTaken
  <2>1. newcomer \in Session /\ toSon' = WriteTo(newcomer, CONKO, NULL, FALSE)
    BY <1>4, NewcomerFacts
       DEF FirstPacketNotSon, FirstPacketNameTaken, IsNewSon, FirstPacketArrived
  <2> QED
    BY <2>1, NoticeUsable DEF Inv
<1>5. CASE FirstPacketReplace
  <2>1. PICK f \in Found \ {NULL} : toSon' = WriteTo(peer[f], CONOK, NULL, TRUE)
    BY <1>5 DEF FirstPacketReplace
  <2>2. peer[f] \in Session
    BY FoundClean, RecordIsPeer
  <2> QED
    BY <2>1, <2>2, NoticeUsable DEF Inv
<1>6. CASE Welcome
  <2>1. cur \in Registered /\ table[cur] = newcomer
    BY <1>6, NewcomerFacts, RecordIsPeer DEF Welcome, newcomer
  <2> QED
    BY <1>6, <2>1, CachedListWritten DEF Welcome
<1>7. CASE WelcomeFails
  BY <1>7, NewcomerFacts, NoticeUsable DEF WelcomeFails, HangUp, Inv
<1>8. ASSUME NEW f \in ClientFds, handleRequest(f)
      PROVE  ListsAreUsable'
  <2>1. Reading(f)
    BY <1>8 DEF handleRequest, RequestLost, RequestList, RequestListFails, RequestNewMsg,
                RequestExit, RequestExitRefused, RequestUnknown, RequestUnknownFails,
                UnknownRequest, Request
  <2>2. f \in Registered /\ peer[f] \in Session /\ table[f] = peer[f]
    BY <2>1, ReadingFacts, RecordIsPeer
  <2>3. CASE RequestList(f)
    BY <2>2, <2>3, CachedListWritten DEF RequestList, Answer
  <2>4. CASE RequestNewMsg(f)
    BY <1>1, <2>4 DEF RequestNewMsg
  <2>5. CASE RequestExitRefused(f) \/ RequestUnknown(f)
    BY <2>2, <2>5, NoticeUsable DEF RequestExitRefused, RequestUnknown, Answer, Inv
  <2>6. CASE DropsOut(f)
    BY <2>2, <2>6, NoticeUsable DEF DropsOut, HangUp, Inv
  <2> QED
    BY <1>8, <2>3, <2>4, <2>5, <2>6
       DEF handleRequest, RequestLost, RequestListFails, RequestExit, RequestUnknownFails
<1>9. ASSUME NEW s \in Session, ClientStep(s)
      PROVE  ListsAreUsable'
  <2>1. CASE Receive(s) \/ Close(s)
    BY <2>1, ClientKeepsUsable
  <2>2. CASE Connect(s) \/ \E p \in ClientPackets(s) : Send(s, p)
    BY <1>1, <2>2 DEF Connect, Send
  <2> QED
    BY <1>9, <2>1, <2>2 DEF ClientStep
<1>10. CASE UNCHANGED vars
  BY <1>1, <1>10 DEF vars, netVars
<1>11. CASE OffTheLoop
  BY <1>1, <1>11, OffTheLoopFacts DEF netVars
<1> QED
  BY <1>2, <1>3, <1>4, <1>5, <1>6, <1>7, <1>8, <1>9, <1>10, <1>11
     DEF Next, Undisturbed, Interruption, ArdaStep, EventLoop, OffTheLoop, handleNewConnection

(* Every list on its way to a client holds the client and no name twice. *)
THEOREM ListsCanBeUsed == ASSUME NoSlide PROVE Spec => []ListsAreUsable
<1>1. Init => ListsAreUsable
  BY DEF Init, ListsAreUsable
<1>2. Inv /\ Clean /\ ListsAreUsable /\ [Next]_vars => ListsAreUsable'
  BY StepUsable
<1> QED
  BY <1>1, <1>2, CleanInvariance, PTL DEF Spec

-----------------------------------------------------------------------------
(* Queues of packets, and the requests and answers they stand for.          *)
Mapped(F, q) == [i \in 1..Len(q) |-> F[q[i]]]

LEMMA MappedRead ==
  ASSUME NEW S, NEW T, NEW F \in [S -> T], NEW q \in Seq(S), q # <<>>
  PROVE  /\ Mapped(F, q) # <<>> /\ Head(Mapped(F, q)) = F[Head(q)]
         /\ Mapped(F, Tail(q)) = Tail(Mapped(F, q))
<1> DEFINE r == Mapped(F, q)
           t == Mapped(F, Tail(q))
<1>1. r \in Seq(T) /\ Len(r) = Len(q) /\ \A i \in 1..Len(q) : r[i] = F[q[i]]
  BY DEF Mapped
<1>2. Tail(q) \in Seq(S)
  OBVIOUS
<1>3. /\ t \in Seq(T) /\ Len(t) = Len(Tail(q))
      /\ \A i \in 1..Len(Tail(q)) : t[i] = F[Tail(q)[i]]
  BY <1>2 DEF Mapped
<1> HIDE DEF r, t
<1>4. r # <<>> /\ Head(r) = r[1] /\ Head(q) = q[1] /\ 1 \in 1..Len(q)
  BY <1>1
<1>5. Tail(r) \in Seq(T) /\ Len(Tail(r)) = Len(Tail(q))
  BY <1>1, <1>4
<1>6. \A i \in 1..Len(Tail(q)) : Tail(r)[i] = r[i + 1] /\ Tail(q)[i] = q[i + 1] /\ i + 1 \in 1..Len(q)
  BY <1>1, <1>4
<1>7. \A i \in 1..Len(t) : t[i] = Tail(r)[i]
  BY <1>1, <1>3, <1>6
<1>8. t = Tail(r)
  BY <1>3, <1>5, <1>7, SeqEqual
<1> QED
  BY <1>1, <1>4, <1>8 DEF r, t

LEMMA MappedWritten ==
  ASSUME NEW S, NEW T, NEW F \in [S -> T], NEW q \in Seq(S), NEW p \in S
  PROVE  Mapped(F, Append(q, p)) = Append(Mapped(F, q), F[p])
<1> DEFINE r == Mapped(F, q)
           t == Mapped(F, Append(q, p))
<1>1. r \in Seq(T) /\ Len(r) = Len(q) /\ \A i \in 1..Len(q) : r[i] = F[q[i]]
  BY DEF Mapped
<1>2. Append(q, p) \in Seq(S)
  OBVIOUS
<1>3. /\ t \in Seq(T) /\ Len(t) = Len(Append(q, p))
      /\ \A i \in 1..Len(Append(q, p)) : t[i] = F[Append(q, p)[i]]
  BY <1>2 DEF Mapped
<1> HIDE DEF r, t
<1>4. Append(r, F[p]) \in Seq(T) /\ Len(Append(r, F[p])) = Len(Append(q, p))
  BY <1>1
<1>5. \A i \in 1..Len(Append(q, p)) :
        \/ i \in 1..Len(q) /\ Append(q, p)[i] = q[i] /\ Append(r, F[p])[i] = r[i]
        \/ Append(q, p)[i] = p /\ Append(r, F[p])[i] = F[p]
  BY <1>1
<1>6. \A i \in 1..Len(t) : t[i] = Append(r, F[p])[i]
  BY <1>1, <1>3, <1>5
<1>7. t = Append(r, F[p])
  BY <1>3, <1>4, <1>6, SeqEqual
<1> QED
  BY <1>7 DEF r, t

RequestKinds == {"NEW_SON", "LIST_REQUEST", "NEW_MSG", "EXIT", "another's EXIT", "other", "invalid"}
AnswerKinds  == {"list", "bye", "conko", "unknown"}

RequestMap(s) == [p \in Packet |-> RequestOf(s, p)]
AnswerMap     == [p \in ValidReply |-> AnswerOf(p)]

LEMMA Kinds ==
  /\ \A s : RequestMap(s) \in [Packet -> RequestKinds]
  /\ AnswerMap \in [ValidReply -> AnswerKinds]
BY DEF RequestMap, RequestOf, RequestKinds, AnswerMap, AnswerOf, AnswerKinds

RequestsIn(s, q) == [i \in 1..Len(q) |-> RequestOf(s, q[i])]
AnswersIn(q)     == [i \in 1..Len(q) |-> AnswerOf(q[i])]

LEMMA RequestsInQueue ==
  ASSUME NEW s, NEW q \in Seq(Packet)
  PROVE  /\ RequestsIn(s, q) \in Seq(RequestKinds)
         /\ q = <<>> => RequestsIn(s, q) = <<>>
         /\ q # <<>> => /\ RequestsIn(s, q) # <<>>
                        /\ Head(RequestsIn(s, q)) = RequestOf(s, Head(q))
                        /\ RequestsIn(s, Tail(q)) = Tail(RequestsIn(s, q))
         /\ \A p \in Packet : RequestsIn(s, Append(q, p)) = Append(RequestsIn(s, q), RequestOf(s, p))
<1>1. \A r \in Seq(Packet) : RequestsIn(s, r) = Mapped(RequestMap(s), r)
  BY DEF RequestsIn, Mapped, RequestMap
<1>2. \A p \in Packet : RequestMap(s)[p] = RequestOf(s, p)
  BY DEF RequestMap
<1>3. RequestMap(s) \in [Packet -> RequestKinds]
  BY Kinds
<1>4. RequestsIn(s, q) \in Seq(RequestKinds) /\ Len(RequestsIn(s, q)) = Len(q)
  BY <1>1, <1>3 DEF Mapped
<1>5. q = <<>> => RequestsIn(s, q) = <<>>
  BY <1>4
<1>6. ASSUME q # <<>>
      PROVE  /\ RequestsIn(s, q) # <<>>
             /\ Head(RequestsIn(s, q)) = RequestOf(s, Head(q))
             /\ RequestsIn(s, Tail(q)) = Tail(RequestsIn(s, q))
  <2>1. Tail(q) \in Seq(Packet) /\ Head(q) \in Packet
    BY <1>6
  <2> DEFINE F == RequestMap(s)
  <2>2. F \in [Packet -> RequestKinds]
    BY <1>3
  <2> HIDE DEF F
  <2>3. /\ Mapped(F, q) # <<>>
        /\ Head(Mapped(F, q)) = F[Head(q)]
        /\ Mapped(F, Tail(q)) = Tail(Mapped(F, q))
    BY <2>2, <1>6, MappedRead, ZenonT(120)
  <2>4. /\ Mapped(RequestMap(s), q) # <<>>
        /\ Head(Mapped(RequestMap(s), q)) = RequestMap(s)[Head(q)]
        /\ Mapped(RequestMap(s), Tail(q)) = Tail(Mapped(RequestMap(s), q))
    BY <2>3 DEF F
  <2> QED
    BY <1>1, <1>2, <2>1, <2>4
<1>7. ASSUME NEW p \in Packet
      PROVE  RequestsIn(s, Append(q, p)) = Append(RequestsIn(s, q), RequestOf(s, p))
  <2>1. Append(q, p) \in Seq(Packet)
    OBVIOUS
  <2>2. Mapped(RequestMap(s), Append(q, p)) = Append(Mapped(RequestMap(s), q), RequestMap(s)[p])
    BY <1>3, <1>7, MappedWritten, ZenonT(60)
  <2> QED
    BY <1>1, <1>2, <2>1, <2>2
<1> QED
  BY <1>4, <1>5, <1>6, <1>7

LEMMA AnswersInQueue ==
  ASSUME NEW q \in Seq(ValidReply)
  PROVE  /\ q = <<>> => AnswersIn(q) = <<>>
         /\ q # <<>> => AnswersIn(q) # <<>> /\ AnswersIn(Tail(q)) = Tail(AnswersIn(q))
         /\ \A p \in ValidReply : AnswersIn(Append(q, p)) = Append(AnswersIn(q), AnswerOf(p))
<1>1. \A r \in Seq(ValidReply) : AnswersIn(r) = Mapped(AnswerMap, r)
  BY DEF AnswersIn, Mapped, AnswerMap
<1>2. \A p \in ValidReply : AnswerMap[p] = AnswerOf(p)
  BY DEF AnswerMap
<1>3. AnswerMap \in [ValidReply -> AnswerKinds]
  BY Kinds
<1>4. q = <<>> => AnswersIn(q) = <<>>
  BY DEF AnswersIn
<1>5. ASSUME q # <<>>
      PROVE  AnswersIn(q) # <<>> /\ AnswersIn(Tail(q)) = Tail(AnswersIn(q))
  <2>1. Tail(q) \in Seq(ValidReply)
    BY <1>5
  <2>2. Mapped(AnswerMap, q) # <<>> /\ Mapped(AnswerMap, Tail(q)) = Tail(Mapped(AnswerMap, q))
    BY <1>3, <1>5, MappedRead, ZenonT(120)
  <2> QED
    BY <1>1, <2>1, <2>2
<1>6. ASSUME NEW p \in ValidReply
      PROVE  AnswersIn(Append(q, p)) = Append(AnswersIn(q), AnswerOf(p))
  <2>1. Append(q, p) \in Seq(ValidReply)
    OBVIOUS
  <2>2. Mapped(AnswerMap, Append(q, p)) = Append(Mapped(AnswerMap, q), AnswerMap[p])
    BY <1>3, <1>6, MappedWritten, ZenonT(60)
  <2> QED
    BY <1>1, <1>2, <2>1, <2>2
<1> QED
  BY <1>4, <1>5, <1>6

-----------------------------------------------------------------------------
(* The mapping.  Who is in, is registered; a connection that is not open    *)
(* has nothing unanswered.                                                  *)
In(s)   == \E f \in Registered : table[f] = s
Drained == \A s \in Session : link[s] \in {"none", "closed"} => toArda[s] = <<>>
LineInv == Inv /\ Drained /\ (NoSlide => Clean)

LEMMA PhaseIs ==
  ASSUME NEW s
  PROVE  /\ link[s] = "closed" => Phase(s) = "over"
         /\ link[s] # "closed" /\ (~In(s) \/ Welcoming(s)) => Phase(s) = "greeting"
         /\ link[s] # "closed" /\ In(s) /\ ~Welcoming(s) => Phase(s) = "talking"
BY DEF Phase, In

LEMMA PhaseWillBe ==
  ASSUME NEW s
  PROVE  /\ link'[s] = "closed" => Phase(s)' = "over"
         /\ link'[s] # "closed" /\ (~In(s)' \/ Welcoming(s)') => Phase(s)' = "greeting"
         /\ link'[s] # "closed" /\ In(s)' /\ ~Welcoming(s)' => Phase(s)' = "talking"
BY DEF Phase, In

LEMMA InIs ==
  ASSUME Inv, NEW s \in Session
  PROVE  /\ In(s) => link[s] = "open"
         /\ pc = "firstPacket" /\ newcomer = s => ~In(s) /\ link[s] = "open"
         /\ Welcoming(s) => In(s)
<1>1. In(s) => link[s] = "open"
  BY RecordIsPeer DEF In
<1>2. ASSUME pc = "firstPacket", newcomer = s
      PROVE  ~In(s) /\ link[s] = "open"
  <2>1. cur \notin Registered /\ link[s] = "open" /\ \A f \in Open : peer[f] = s => f = cur
    BY <1>2, NewcomerFacts
  <2>2. \A f \in Registered : f \in Open /\ table[f] = peer[f]
    BY RecordIsPeer
  <2> QED
    BY <2>1, <2>2 DEF In
<1>3. ASSUME Welcoming(s) PROVE In(s)
  BY <1>3, NewcomerFacts, RecordIsPeer DEF Welcoming, newcomer, In
<1> QED
  BY <1>1, <1>2, <1>3

(* Nothing happens on a connection that a step leaves alone. *)
LEMMA LineSame ==
  ASSUME NEW s,
         son'[s] = son[s], toArda'[s] = toArda[s], toSon'[s] = toSon[s],
         link'[s] = "closed" <=> link[s] = "closed",
         In(s)' <=> In(s), Welcoming(s)' <=> Welcoming(s)
  PROVE  UNCHANGED L(s)!vars
<1>1. Phase(s)' = Phase(s)
  BY PhaseIs, PhaseWillBe
<1>2. Requests(s)' = Requests(s) /\ Answers(s)' = Answers(s)
  BY DEF Requests, Answers
<1>3. CASE Welcoming(s)
  BY <1>1, <1>2, <1>3 DEF L!vars
<1>4. CASE ~Welcoming(s)
  BY <1>1, <1>2, <1>4 DEF L!vars
<1> QED
  BY <1>3, <1>4

LEMMA InSame ==
  ASSUME NEW s, table' = table
  PROVE  In(s)' <=> In(s)
BY DEF In, Registered

-----------------------------------------------------------------------------
(* What Arda writes.                                                        *)

LEMMA Words ==
  /\ \A d : AnswerOf(COM_writePacket(CONOK, d, FALSE)) = "list"
  /\ AnswerOf(COM_writePacket(CONOK, NULL, TRUE)) = "bye"
  /\ \A e \in BOOLEAN : AnswerOf(COM_writePacket(CONKO, NULL, e)) = "conko"
  /\ AnswerOf(COM_writePacket(UNKNOWN, NULL, FALSE)) = "unknown"
<1> USE DEF UNKNOWN, NEW_SON, CONOK, CONKO, LIST_REQUEST, LIST_RESPONSE, SEND_MSG, MSGOK,
            SEND_FILE, FILE_DATA, CHECK_OK, CHECK_KO, EXIT, NEW_MSG
<1>1. \A e \in BOOLEAN : getType(CONOK, e) = IF e THEN 6 ELSE 1
  <2>1. \A i \in {1, 6} : CONOK \in HeadersOfType[i]
    BY HeaderTable
  <2>2. \A i \in {2, 3, 4, 5, 8} : CONOK \notin HeadersOfType[i]
    BY HeaderTable
  <2> QED
    BY <2>1, <2>2 DEF getType
<1>2. \A e \in BOOLEAN : getType(CONKO, e) \in {1, 6}
  <2>1. \A i \in {1, 6} : CONKO \in HeadersOfType[i]
    BY HeaderTable
  <2>2. \A i \in {2, 3, 4, 5, 8} : CONKO \notin HeadersOfType[i]
    BY HeaderTable
  <2> QED
    BY <2>1, <2>2 DEF getType
<1>3. getType(UNKNOWN, FALSE) = 7
  BY HeaderTable DEF getType
<1>4. \A d : \A e \in BOOLEAN : COM_writePacket(CONOK, d, e) =
                                  [type |-> getType(CONOK, e), header |-> CONOK, data |-> d]
  BY <1>1 DEF COM_writePacket
<1>5. \A d : COM_writePacket(CONOK, d, FALSE) = [type |-> 1, header |-> CONOK, data |-> d]
  BY <1>1, <1>4
<1>6. \A e \in BOOLEAN : COM_writePacket(CONKO, NULL, e) =
                          [type |-> getType(CONKO, e), header |-> CONKO, data |-> NULL]
  BY <1>2 DEF COM_writePacket
<1>7. COM_writePacket(UNKNOWN, NULL, FALSE) = [type |-> 7, header |-> UNKNOWN, data |-> NULL]
  BY <1>3 DEF COM_writePacket
<1>8. \A d : AnswerOf([type |-> 1, header |-> CONOK, data |-> d]) = "list"
  BY DEF AnswerOf
<1>9. AnswerOf(COM_writePacket(CONOK, NULL, TRUE)) = "bye"
  <2>1. COM_writePacket(CONOK, NULL, TRUE) = [type |-> 6, header |-> CONOK, data |-> NULL]
    BY <1>1, <1>4
  <2>2. AnswerOf([type |-> 6, header |-> CONOK, data |-> NULL]) = "bye"
    BY DEF AnswerOf
  <2> QED
    BY <2>1, <2>2
<1>10. \A n : AnswerOf([type |-> n, header |-> CONKO, data |-> NULL]) = "conko"
  BY DEF AnswerOf
<1>11. AnswerOf([type |-> 7, header |-> UNKNOWN, data |-> NULL]) = "unknown"
  BY DEF AnswerOf
<1> QED
  BY <1>5, <1>6, <1>7, <1>8, <1>9, <1>10, <1>11

LEMMA Said ==
  ASSUME Inv, NEW s \in Session, link[s] # "none",
         NEW header, NEW exit \in BOOLEAN,
         NEW data \in {NULL} \cup SUBSET (Session \cup {Garbage}),
         toSon' = WriteTo(s, header, data, exit)
  PROVE  /\ Answers(s)' = IF son[s] = "closed" THEN Answers(s)
                          ELSE Append(Answers(s), AnswerOf(COM_writePacket(header, data, exit)))
         /\ \A t \in Session \ {s} : toSon'[t] = toSon[t]
<1> DEFINE p == COM_writePacket(header, data, exit)
<1>1. p \in ValidReply
  BY WrittenIsValid DEF ValidReply, Reply
<1>2. toSon \in [Session -> Seq(ValidReply)] /\ son[s] \in {"open", "closed"}
  BY DEF Inv, TypesOK, ValidReply, AcceptNeverBlocks
<1>3. Answers(s) = AnswersIn(toSon[s]) /\ Answers(s)' = AnswersIn(toSon'[s])
  BY DEF Answers, AnswersIn
<1>4. toSon'[s] = IF son[s] = "open" THEN Append(toSon[s], p) ELSE toSon[s]
  BY <1>2 DEF WriteTo
<1>5. \A t \in Session \ {s} : toSon'[t] = toSon[t]
  BY <1>2 DEF WriteTo
<1> HIDE DEF p
<1>6. AnswersIn(Append(toSon[s], p)) = Append(AnswersIn(toSon[s]), AnswerOf(p))
  BY <1>1, <1>2, AnswersInQueue
<1>7. Answers(s)' = IF son[s] = "closed" THEN Answers(s) ELSE Append(Answers(s), AnswerOf(p))
  BY <1>2, <1>3, <1>4, <1>6
<1> QED
  BY <1>5, <1>7 DEF p

-----------------------------------------------------------------------------
(* The actions of Line, from what a step of Arda does on one connection.    *)

LEMMA Emptied ==
  ASSUME NEW s, toArda'[s] = <<>>
  PROVE  Requests(s)' = <<>>
BY DEF Requests

LEMMA BidsFarewell ==
  ASSUME Inv, NEW s \in Session, In(s), ~Welcoming(s), ~Welcoming(s)',
         link'[s] = "closed", toArda'[s] = <<>>, son' = son,
         toSon' = WriteTo(s, CONOK, NULL, TRUE)
  PROVE  L(s)!Next
<1>1. Phase(s) = "talking" /\ Phase(s)' = "over" /\ link[s] = "open"
  BY InIs, PhaseIs, PhaseWillBe
<1>2. Answers(s)' = IF son[s] = "closed" THEN Answers(s) ELSE Append(Answers(s), "bye")
  <2>1. Answers(s)' = IF son[s] = "closed" THEN Answers(s)
                      ELSE Append(Answers(s), AnswerOf(COM_writePacket(CONOK, NULL, TRUE)))
    BY <1>1, Said
  <2> QED
    BY <2>1, Words
<1>3. Requests(s)' = <<>>
  BY Emptied
<1>4. L(s)!Says("bye")
  BY <1>2 DEF L!Says
<1>5. L(s)!HangsUp
  BY <1>1, <1>3 DEF L!HangsUp
<1> QED
  BY <1>1, <1>4, <1>5 DEF L!Next, L!ArdaStep, L!Farewell

LEMMA FirstInLine ==
  ASSUME TypesOK, NEW s \in Session, COM_readPacket(s) # NULL
  PROVE  /\ toArda[s] \in Seq(Packet) /\ toArda[s] # <<>>
         /\ COM_readPacket(s) = Head(toArda[s]) /\ isPacketValid(COM_readPacket(s))
         /\ Requests(s) # <<>> /\ Head(Requests(s)) = RequestOf(s, COM_readPacket(s))
         /\ Requests(s) \in Seq(RequestKinds)
         /\ toArda'[s] = Tail(toArda[s]) => Requests(s)' = Tail(Requests(s))
<1>1. toArda[s] \in Seq(Packet) /\ toArda[s] # <<>>
      /\ COM_readPacket(s) = Head(toArda[s]) /\ isPacketValid(COM_readPacket(s))
  BY DEF TypesOK, COM_readPacket
<1>2. Requests(s) = RequestsIn(s, toArda[s]) /\ Requests(s)' = RequestsIn(s, toArda'[s])
  BY DEF Requests, RequestsIn
<1> QED
  BY <1>1, <1>2, RequestsInQueue

LEMMA RefusesFirst ==
  ASSUME Inv, NEW s \in Session, pc = "firstPacket", newcomer = s,
         COM_readPacket(s) # NULL,
         pc' = "loop", link'[s] = "closed", toArda'[s] = <<>>, son' = son,
         toSon' = WriteTo(s, CONKO, NULL, FALSE)
  PROVE  L(s)!Next
<1>1. ~Welcoming(s) /\ ~Welcoming(s)'
  BY DEF Welcoming
<1>2. Phase(s) = "greeting" /\ Phase(s)' = "over" /\ link[s] = "open"
  BY InIs, PhaseIs, PhaseWillBe
<1>3. Answers(s)' = IF son[s] = "closed" THEN Answers(s) ELSE Append(Answers(s), "conko")
  <2>1. Answers(s)' = IF son[s] = "closed" THEN Answers(s)
                      ELSE Append(Answers(s), AnswerOf(COM_writePacket(CONKO, NULL, FALSE)))
    BY <1>2, Said
  <2> QED
    BY <2>1, Words
<1>4. Requests(s)' = <<>>
  BY Emptied
<1>5. Requests(s) # <<>> /\ Head(Requests(s)) \in RequestKinds \ {"invalid"}
  BY FirstInLine DEF Inv, RequestOf, RequestKinds
<1>6. \E p \in L(s)!Requests \ {"invalid"} : L(s)!Asked(p)
  BY <1>1, <1>5 DEF L!Asked, L!Requests, RequestKinds
<1>7. L(s)!Says("conko")
  BY <1>3 DEF L!Says
<1>8. L(s)!HangsUp
  BY <1>1, <1>2, <1>4 DEF L!HangsUp
<1> QED
  BY <1>2, <1>6, <1>7, <1>8 DEF L!Next, L!ArdaStep, L!Refuse

LEMMA SaysNothing ==
  ASSUME Inv, NEW s \in Session, link[s] \in {"backlog", "open"},
         ~In(s) \/ Welcoming(s) \/ pc' = "down",
         pc' # "welcome", link'[s] = "closed", toArda'[s] = <<>>,
         son'[s] = son[s], toSon'[s] = toSon[s]
  PROVE  L(s)!Next
<1>1. ~Welcoming(s)' /\ Requests(s)' = <<>> /\ Answers(s)' = Answers(s)
  BY Emptied DEF Welcoming, Answers
<1>2. Phase(s)' = "over" /\ Phase(s) # "over"
      /\ (Phase(s) = "greeting" \/ pc' = "down")
  BY InIs, PhaseIs, PhaseWillBe
<1>3. L(s)!HangsUp
  BY <1>1, <1>2 DEF L!HangsUp
<1>4. pc' = "down" => ~Listening'
  OBVIOUS
<1> QED
  BY <1>1, <1>2, <1>3, <1>4 DEF L!Next, L!ArdaStep, L!Silence

(* The end of the process, for every connection. *)
LEMMA LineEnds ==
  ASSUME LineInv, ShutDown, NEW s \in Session
  PROVE  [L(s)!Next]_(L(s)!vars)
<1>1. pc' = "down" /\ toArda'[s] = <<>> /\ son'[s] = son[s] /\ toSon'[s] = toSon[s]
  BY DEF ShutDown
<1>2. link'[s] = IF link[s] \in {"backlog", "open"} THEN "closed" ELSE link[s]
  BY DEF ShutDown
<1>3. CASE link[s] \in {"backlog", "open"}
  BY <1>1, <1>2, <1>3, SaysNothing DEF LineInv
<1>4. CASE link[s] \notin {"backlog", "open"}
  <2>1. toArda[s] = <<>>
    BY <1>4 DEF LineInv, Drained, Inv, TypesOK
  <2>2. ~In(s) /\ ~Welcoming(s) /\ ~Welcoming(s)'
    BY <1>1, <1>4, InIs DEF LineInv, Welcoming
  <2>3. ~In(s)'
    BY ArdaAssumption DEF ShutDown, In, Registered
  <2> QED
    BY <1>1, <1>2, <1>4, <2>1, <2>2, <2>3, LineSame
<1> QED
  BY <1>3, <1>4

-----------------------------------------------------------------------------
(* A descriptor is disconnected.                                            *)
LEMMA OneLeaves ==
  ASSUME Inv, NEW f \in Registered, NEW s \in Session, s = peer[f],
         table' = [table EXCEPT ![f] = NULL], link' = [link EXCEPT ![s] = "closed"]
  PROVE  /\ link'[s] = "closed"
         /\ \A t \in Session \ {s} : link'[t] = link[t] /\ (In(t)' <=> In(t))
<1>1. f \in ClientFds /\ table[f] = s /\ table \in [ClientFds -> Session \cup {NULL}]
  BY RecordIsPeer DEF Inv, TypesOK
<1>2. Registered' = Registered \ {f} /\ \A g \in Registered' : table'[g] = table[g]
  BY <1>1 DEF Registered
<1>3. \A t \in Session \ {s} : In(t)' <=> In(t)
  BY <1>1, <1>2 DEF In
<1> QED
  BY <1>3 DEF Inv, TypesOK

LEMMA HungUp ==
  ASSUME Inv, NEW f \in Registered, disconnect(f), HangUp(peer[f]),
         son' = son, pc' = "loop", pc = "loop" \/ (pc = "welcome" /\ cur = f)
  PROVE  /\ link'[peer[f]] = "closed" /\ toArda'[peer[f]] = <<>>
         /\ \A t \in Session \ {peer[f]} : UNCHANGED L(t)!vars
<1> DEFINE s == peer[f]
<1>1. s \in Session
  BY RecordIsPeer
<1>2. link' = [link EXCEPT ![s] = "closed"] /\ table' = [table EXCEPT ![f] = NULL]
  BY DEF disconnect, ClosePeer
<1>3. toSon' = WriteTo(s, CONOK, NULL, TRUE) /\ toArda' = [toArda EXCEPT ![s] = <<>>]
  BY DEF HangUp
<1>4. link'[s] = "closed" /\ \A t \in Session \ {s} : link'[t] = link[t] /\ (In(t)' <=> In(t))
  BY <1>1, <1>2, OneLeaves
<1>5. \A t \in Session \ {s} : toSon'[t] = toSon[t] /\ toArda'[t] = toArda[t]
  BY <1>3 DEF Inv, TypesOK, WriteTo
<1>6. \A t \in Session \ {s} : ~Welcoming(t) /\ ~Welcoming(t)'
  BY DEF Welcoming, newcomer
<1>7. toArda'[s] = <<>>
  BY <1>1, <1>3 DEF Inv, TypesOK
<1> QED
  BY <1>4, <1>5, <1>6, <1>7, LineSame

(* handleRequest drops its client. *)
LEMMA LineDropsOut ==
  ASSUME Inv, NEW f \in ClientFds, Reading(f), DropsOut(f), NEW s \in Session
  PROVE  [L(s)!Next]_(L(s)!vars)
<1>1. /\ f \in Registered /\ peer[f] \in Session /\ table[f] = peer[f] /\ pc = "loop"
      /\ disconnect(f) /\ HangUp(peer[f]) /\ son' = son /\ pc' = "loop"
  BY ReadingFacts, RecordIsPeer DEF DropsOut
<1>2. CASE s = peer[f]
  <2>1. In(s) /\ ~Welcoming(s) /\ ~Welcoming(s)'
    BY <1>1, <1>2 DEF In, Welcoming
  <2>2. toSon' = WriteTo(s, CONOK, NULL, TRUE)
    BY <1>1, <1>2 DEF HangUp
  <2> QED
    BY <1>1, <1>2, <2>1, <2>2, HungUp, BidsFarewell
<1>3. CASE s # peer[f]
  BY <1>1, <1>3, HungUp
<1> QED
  BY <1>2, <1>3

-----------------------------------------------------------------------------
(* A request is answered.                                                   *)
LEMMA OneIsAsked ==
  ASSUME Inv, NEW f \in ClientFds, Reading(f), Requested(f) # NULL,
         toArda' = ReadFrom(peer[f]), UNCHANGED <<son, link, pc, cur, peer, table>>
  PROVE  /\ peer[f] \in Session /\ link[peer[f]] = "open"
         /\ table[f] = peer[f] /\ isPacketValid(Requested(f))
         /\ Phase(peer[f]) = "talking" /\ UNCHANGED Phase(peer[f])
         /\ L(peer[f])!Goes
         /\ \A p : RequestOf(peer[f], Requested(f)) = p => L(peer[f])!Asked(p)
         /\ \A t \in Session \ {peer[f]} : toSon'[t] = toSon[t] => UNCHANGED L(t)!vars
<1> DEFINE s == peer[f]
<1>1. f \in Registered /\ s \in Session /\ table[f] = s /\ pc = "loop" /\ link[s] = "open"
  BY ReadingFacts, RecordIsPeer
<1>2. In(s) /\ ~Welcoming(s) /\ In(s)' /\ ~Welcoming(s)' /\ link'[s] = "open"
  BY <1>1 DEF In, Welcoming, Registered
<1>3. Phase(s) = "talking" /\ UNCHANGED Phase(s)
  BY <1>1, <1>2, PhaseIs, PhaseWillBe
<1>4. COM_readPacket(s) = Requested(f) /\ COM_readPacket(s) # NULL
  BY DEF Requested
<1>5. toArda[s] # <<>> /\ toArda \in [Session -> Seq(Packet)]
  BY <1>4 DEF COM_readPacket, Inv, TypesOK
<1>6. toArda'[s] = Tail(toArda[s]) /\ \A t \in Session \ {s} : toArda'[t] = toArda[t]
  BY <1>1, <1>5 DEF ReadFrom
<1>7. Requests(s) # <<>> /\ Head(Requests(s)) = RequestOf(s, Requested(f))
      /\ Requests(s)' = Tail(Requests(s)) /\ isPacketValid(Requested(f))
  BY <1>1, <1>4, <1>6, FirstInLine DEF Inv
<1>8. L(s)!Goes
  BY <1>2, <1>7 DEF L!Goes
<1>9. \A p : RequestOf(s, Requested(f)) = p => L(s)!Asked(p)
  BY <1>2, <1>7 DEF L!Asked
<1>10. \A t \in Session \ {s} : toSon'[t] = toSon[t] => UNCHANGED L(t)!vars
  <2>1. \A t \in Session : (In(t)' <=> In(t)) /\ ~Welcoming(t) /\ ~Welcoming(t)'
    BY <1>1, InSame DEF Welcoming
  <2> QED
    BY <1>6, <2>1, LineSame
<1> QED
  BY <1>1, <1>3, <1>7, <1>8, <1>9, <1>10

LEMMA RequestNames ==
  ASSUME NEW s, NEW p, isPacketValid(p)
  PROVE  /\ p.header = LIST_REQUEST => RequestOf(s, p) = "LIST_REQUEST"
         /\ p.header = NEW_MSG => RequestOf(s, p) = "NEW_MSG"
         /\ p.header = NEW_SON => RequestOf(s, p) = "NEW_SON"
         /\ p.header = EXIT => RequestOf(s, p) = IF p.data = UserOf[s] THEN "EXIT" ELSE "another's EXIT"
         /\ p.header \notin {LIST_REQUEST, NEW_MSG, EXIT} => RequestOf(s, p) \in {"NEW_SON", "other"}
BY DEF RequestOf, NEW_SON, LIST_REQUEST, NEW_MSG, EXIT

LEMMA LineAnswers ==
  ASSUME Inv, NEW f \in ClientFds, Reading(f), Requested(f) # NULL,
         NEW header, NEW exit \in BOOLEAN,
         NEW data \in {NULL} \cup SUBSET (Session \cup {Garbage}),
         Answer(f, header, data, exit)
  PROVE  /\ L(peer[f])!Says(AnswerOf(COM_writePacket(header, data, exit)))
         /\ \A t \in Session \ {peer[f]} : UNCHANGED L(t)!vars
<1>1. /\ toSon' = WriteTo(peer[f], header, data, exit) /\ toArda' = ReadFrom(peer[f])
      /\ UNCHANGED <<son, link, pc, cur, peer, table>>
  BY DEF Answer
<1>2. peer[f] \in Session /\ link[peer[f]] = "open"
      /\ \A t \in Session \ {peer[f]} : toSon'[t] = toSon[t] => UNCHANGED L(t)!vars
  BY <1>1, OneIsAsked
<1>3. /\ Answers(peer[f])' = IF son[peer[f]] = "closed" THEN Answers(peer[f])
                             ELSE Append(Answers(peer[f]), AnswerOf(COM_writePacket(header, data, exit)))
      /\ \A t \in Session \ {peer[f]} : toSon'[t] = toSon[t]
  BY <1>1, <1>2, Said
<1> QED
  BY <1>2, <1>3 DEF L!Says

LEMMA LineRequest ==
  ASSUME LineInv, NEW f \in ClientFds, handleRequest(f), NEW s \in Session
  PROVE  [L(s)!Next]_(L(s)!vars)
<1> DEFINE c == peer[f]
           p == Requested(f)
<1>1. Inv /\ Reading(f)
  BY DEF LineInv, handleRequest, RequestLost, RequestList, RequestListFails, RequestNewMsg,
         RequestExit, RequestExitRefused, RequestUnknown, RequestUnknownFails,
         UnknownRequest, Request
<1>2. CASE DropsOut(f)
  BY <1>1, <1>2, LineDropsOut
<1>3. CASE RequestList(f)
  <2>1. p # NULL /\ p.header = LIST_REQUEST /\ Answer(f, CONOK, list, FALSE)
    BY <1>3 DEF RequestList, Request
  <2>2. list \in {NULL} \cup SUBSET (Session \cup {Garbage})
    BY <1>1 DEF Inv, TypesOK
  <2>3. L(c)!Says("list") /\ \A t \in Session \ {c} : UNCHANGED L(t)!vars
    <3>1. /\ L(c)!Says(AnswerOf(COM_writePacket(CONOK, list, FALSE)))
          /\ \A t \in Session \ {c} : UNCHANGED L(t)!vars
      BY <1>1, <2>1, <2>2, LineAnswers
    <3>2. AnswerOf(COM_writePacket(CONOK, list, FALSE)) = "list"
      BY Words, Zenon
    <3> QED
      BY <3>1, <3>2
  <2>4. /\ \A q : RequestOf(c, p) = q => L(c)!Asked(q)
        /\ L(c)!Goes /\ Phase(c) = "talking" /\ UNCHANGED Phase(c) /\ isPacketValid(p)
    BY <1>1, <2>1, OneIsAsked DEF Answer
  <2>5. L(c)!Asked("LIST_REQUEST")
    BY <2>1, <2>4, RequestNames
  <2>6. L(c)!Answer
    BY <2>3, <2>4, <2>5 DEF L!Answer, L!Asked
  <2> QED
    BY <2>3, <2>6 DEF L!Next, L!ArdaStep
<1>4. CASE RequestNewMsg(f)
  <2>1. /\ p # NULL /\ p.header = NEW_MSG /\ toArda' = ReadFrom(c)
        /\ UNCHANGED <<son, link, toSon, pc, cur, peer, table>>
    BY <1>4 DEF RequestNewMsg, Request
  <2>2. /\ L(c)!Asked("NEW_MSG") /\ L(c)!Goes /\ Phase(c) = "talking" /\ UNCHANGED Phase(c)
        /\ \A t \in Session \ {c} : UNCHANGED L(t)!vars
    BY <1>1, <2>1, OneIsAsked, RequestNames
  <2>3. Answers(c)' = Answers(c)
    BY <2>1 DEF Answers
  <2>4. L(c)!Answer
    BY <2>2, <2>3 DEF L!Answer, L!Asked
  <2> QED
    BY <2>2, <2>4 DEF L!Next, L!ArdaStep
<1>5. CASE RequestExitRefused(f)
  <2>1. p # NULL /\ p.header = EXIT /\ Answer(f, CONKO, NULL, TRUE)
    BY <1>5 DEF RequestExitRefused, Request
  <2>2. L(c)!Says("conko") /\ \A t \in Session \ {c} : UNCHANGED L(t)!vars
    BY <1>1, <2>1, LineAnswers, Words
  <2>3. /\ \A q : RequestOf(c, p) = q => L(c)!Asked(q)
        /\ L(c)!Goes /\ Phase(c) = "talking" /\ UNCHANGED Phase(c)
        /\ isPacketValid(p) /\ table[f] = c /\ c \in Session
    BY <1>1, <2>1, OneIsAsked DEF Answer
  <2>4. p.data = UserOf[c] => ~NoSlide
    <3>1. UserOf[c] # NULL
      BY <2>3, ArdaAssumption
    <3>2. f \notin dangling => p.data # UserOf[c]
      BY <1>5, <2>3, <3>1 DEF RequestExitRefused
    <3> QED
      BY <3>2 DEF LineInv, Clean
  <2>5. L(c)!Asked("another's EXIT") \/ (L(c)!Asked("EXIT") /\ ~NoSlide)
    BY <2>1, <2>3, <2>4, RequestNames
  <2>6. L(c)!Answer
    BY <2>2, <2>3, <2>5 DEF L!Answer, L!Asked
  <2> QED
    BY <2>2, <2>6 DEF L!Next, L!ArdaStep
<1>6. CASE RequestUnknown(f)
  <2>1. p # NULL /\ p.header \notin {LIST_REQUEST, NEW_MSG, EXIT} /\ Answer(f, UNKNOWN, NULL, FALSE)
    BY <1>6 DEF RequestUnknown, UnknownRequest
  <2>2. L(c)!Says("unknown") /\ \A t \in Session \ {c} : UNCHANGED L(t)!vars
    BY <1>1, <2>1, LineAnswers, Words
  <2>3. /\ \A q : RequestOf(c, p) = q => L(c)!Asked(q)
        /\ L(c)!Goes /\ Phase(c) = "talking" /\ UNCHANGED Phase(c) /\ isPacketValid(p)
    BY <1>1, <2>1, OneIsAsked DEF Answer
  <2>4. \E q \in {"NEW_SON", "other"} : L(c)!Asked(q)
    BY <2>1, <2>3, RequestNames
  <2>5. L(c)!Answer
    BY <2>2, <2>3, <2>4 DEF L!Answer, L!Asked
  <2> QED
    BY <2>2, <2>5 DEF L!Next, L!ArdaStep
<1> QED
  BY <1>2, <1>3, <1>4, <1>5, <1>6
     DEF handleRequest, RequestLost, RequestListFails, RequestExit, RequestUnknownFails

-----------------------------------------------------------------------------
(* A newcomer.                                                              *)

(* Its NEW_SON is read, and counts as unanswered until the list is written. *)
LEMMA NewSonIsRead ==
  ASSUME Inv, IsNewSon, NEW s \in Session, s = newcomer,
         pc' = "welcome", newcomer' = s, son' = son, link'[s] = link[s],
         toSon'[s] = toSon[s], toArda'[s] = ReadFrom(s)[s]
  PROVE  UNCHANGED L(s)!vars
<1>1. /\ COM_readPacket(s) # NULL /\ COM_readPacket(s).header = NEW_SON /\ pc = "firstPacket"
  BY DEF IsNewSon, FirstPacketArrived
<1>2. toArda[s] # <<>> /\ toArda \in [Session -> Seq(Packet)]
  BY <1>1 DEF COM_readPacket, Inv, TypesOK
<1>3. toArda'[s] = Tail(toArda[s])
  BY <1>2 DEF ReadFrom
<1>4. /\ Requests(s) # <<>> /\ Head(Requests(s)) = "NEW_SON" /\ Requests(s)' = Tail(Requests(s))
      /\ Requests(s) \in Seq(RequestKinds)
  BY <1>1, <1>3, FirstInLine, RequestNames DEF Inv
<1>5. <<"NEW_SON">> \o Tail(Requests(s)) = Requests(s)
  BY <1>4
<1>6. ~Welcoming(s) /\ Welcoming(s)'
  BY <1>1 DEF Welcoming
<1>7. Phase(s)' = Phase(s) /\ Answers(s)' = Answers(s)
  BY <1>1, <1>6, InIs, PhaseIs, PhaseWillBe DEF Answers
<1> QED
  BY <1>4, <1>5, <1>6, <1>7 DEF L!vars

LEMMA LineRefusal ==
  ASSUME Inv, FirstPacketNotSon \/ FirstPacketNameTaken, NEW s \in Session
  PROVE  [L(s)!Next]_(L(s)!vars)
<1>1. /\ pc = "firstPacket" /\ pc' = "loop" /\ COM_readPacket(newcomer) # NULL
      /\ toSon' = WriteTo(newcomer, CONKO, NULL, FALSE)
      /\ toArda' = [toArda EXCEPT ![newcomer] = <<>>]
      /\ link' = [link EXCEPT ![newcomer] = "closed"]
      /\ son' = son /\ table' = table
  BY DEF FirstPacketNotSon, FirstPacketNameTaken, IsNewSon, FirstPacketArrived, ClosePeer, newcomer
<1>2. newcomer \in Session
  BY <1>1, NewcomerFacts
<1>3. CASE s = newcomer
  <2>1. link'[s] = "closed" /\ toArda'[s] = <<>>
    BY <1>1, <1>2, <1>3 DEF Inv, TypesOK
  <2> QED
    BY <1>1, <1>3, <2>1, RefusesFirst
<1>4. CASE s # newcomer
  <2>1. link'[s] = link[s] /\ toArda'[s] = toArda[s] /\ toSon'[s] = toSon[s]
    BY <1>1, <1>2, <1>4 DEF Inv, TypesOK, WriteTo
  <2>2. ~Welcoming(s) /\ ~Welcoming(s)'
    BY <1>1 DEF Welcoming
  <2> QED
    BY <1>1, <2>1, <2>2, InSame, LineSame
<1> QED
  BY <1>3, <1>4

LEMMA LineLogin ==
  ASSUME Inv, FirstPacketLogin, NEW s \in Session
  PROVE  [L(s)!Next]_(L(s)!vars)
<1>1. /\ IsNewSon /\ pc = "firstPacket" /\ pc' = "welcome" /\ toArda' = ReadFrom(newcomer)
      /\ table' = [table EXCEPT ![cur] = newcomer]
      /\ UNCHANGED <<son, link, toSon, cur, peer>> /\ newcomer' = newcomer
  BY DEF FirstPacketLogin, IsNewSon, FirstPacketArrived, newcomer
<1>2. newcomer \in Session /\ cur \in ClientFds \ Registered
  BY <1>1, NewcomerFacts
<1>3. CASE s = newcomer
  BY <1>1, <1>3, NewSonIsRead
<1>4. CASE s # newcomer
  <2>1. toArda'[s] = toArda[s]
    BY <1>1, <1>2, <1>4 DEF Inv, TypesOK, ReadFrom
  <2>2. Registered' = Registered \cup {cur} /\ \A g \in Registered : table'[g] = table[g]
    BY <1>1, <1>2, ArdaAssumption DEF Inv, TypesOK, Registered
  <2>3. table'[cur] = newcomer
    BY <1>1, <1>2 DEF Inv, TypesOK
  <2>4. In(s)' <=> In(s)
    BY <1>4, <2>2, <2>3 DEF In
  <2>5. ~Welcoming(s) /\ ~Welcoming(s)'
    BY <1>1, <1>4 DEF Welcoming
  <2> QED
    BY <1>1, <2>1, <2>4, <2>5, LineSame
<1> QED
  BY <1>3, <1>4

LEMMA LineReplace ==
  ASSUME Inv, FirstPacketReplace, NEW s \in Session
  PROVE  [L(s)!Next]_(L(s)!vars)
<1>1. PICK f \in Found \ {NULL} :
        /\ table' = [table EXCEPT ![f] = NULL, ![cur] = newcomer]
        /\ ClosePeer(f)
        /\ toSon' = WriteTo(peer[f], CONOK, NULL, TRUE)
        /\ toArda' = [ReadFrom(newcomer) EXCEPT ![peer[f]] = <<>>]
  BY DEF FirstPacketReplace
<1>2. IsNewSon /\ pc = "firstPacket" /\ pc' = "welcome" /\ son' = son /\ cur' = cur
  BY DEF FirstPacketReplace, IsNewSon, FirstPacketArrived
<1>3. newcomer \in Session /\ cur \in ClientFds \ Registered /\ cur \in Open
  BY <1>2, NewcomerFacts
<1>4. f \in Registered
  BY <1>1 DEF Found, SameName, Inv, TypesOK
<1>5. f \in ClientFds /\ f # cur /\ peer[f] \in Session /\ table[f] = peer[f] /\ peer[f] # newcomer
  BY <1>3, <1>4, RecordIsPeer DEF Inv, DescriptorsAccounted, newcomer
<1>6. newcomer' = newcomer
  BY <1>1, <1>2, <1>5 DEF ClosePeer, newcomer, Inv, TypesOK
<1>7. link' = [link EXCEPT ![peer[f]] = "closed"]
  BY <1>1 DEF ClosePeer
<1>8. /\ toArda'[peer[f]] = <<>> /\ link'[peer[f]] = "closed"
      /\ \A t \in Session \ {peer[f]} :
           toArda'[t] = ReadFrom(newcomer)[t] /\ link'[t] = link[t] /\ toSon'[t] = toSon[t]
  BY <1>1, <1>3, <1>5, <1>7 DEF Inv, TypesOK, ReadFrom, WriteTo
<1>9. CASE s = newcomer
  BY <1>2, <1>5, <1>6, <1>8, <1>9, NewSonIsRead
<1>10. CASE s = peer[f]
  <2>1. In(s) /\ ~Welcoming(s) /\ ~Welcoming(s)'
    BY <1>2, <1>4, <1>5, <1>6, <1>10 DEF In, Welcoming
  <2> QED
    BY <1>1, <1>2, <1>8, <1>10, <2>1, BidsFarewell
<1>11. CASE s \notin {newcomer, peer[f]}
  <2>1. toArda'[s] = toArda[s]
    BY <1>3, <1>8, <1>11 DEF Inv, TypesOK, ReadFrom
  <2>2. /\ table'[cur] = newcomer /\ cur \in Registered'
        /\ Registered' = (Registered \ {f}) \cup {cur}
        /\ \A g \in Registered \ {f} : table'[g] = table[g]
    BY <1>1, <1>3, <1>4, <1>5, ArdaAssumption DEF Inv, TypesOK, Registered
  <2>3. In(s)' <=> In(s)
    BY <1>5, <1>11, <2>2 DEF In
  <2>4. ~Welcoming(s) /\ ~Welcoming(s)'
    BY <1>2, <1>6, <1>11 DEF Welcoming
  <2> QED
    BY <1>2, <1>8, <1>11, <2>1, <2>3, <2>4, LineSame
<1> QED
  BY <1>9, <1>10, <1>11

LEMMA LineWelcome ==
  ASSUME Inv, Welcome, NEW s \in Session
  PROVE  [L(s)!Next]_(L(s)!vars)
<1>1. /\ pc = "welcome" /\ pc' = "loop" /\ toSon' = WriteTo(newcomer, CONOK, list, FALSE)
      /\ UNCHANGED <<son, link, toArda, peer, table>>
  BY DEF Welcome
<1>2. newcomer \in Session /\ link[newcomer] = "open"
  BY <1>1, NewcomerFacts
<1>3. list \in {NULL} \cup SUBSET (Session \cup {Garbage})
  BY DEF Inv, TypesOK
<1>4. \A t \in Session \ {newcomer} : toSon'[t] = toSon[t]
  BY <1>1 DEF Inv, TypesOK, WriteTo
<1>5. CASE s = newcomer
  <2>1. Welcoming(s) /\ ~Welcoming(s)' /\ In(s) /\ In(s)'
    BY <1>1, <1>2, <1>5, InIs, InSame DEF Welcoming
  <2>2. Phase(s) = "greeting" /\ Phase(s)' = "talking"
    BY <1>1, <1>2, <1>5, <2>1, PhaseIs, PhaseWillBe
  <2>3. AnswerOf(COM_writePacket(CONOK, list, FALSE)) = "list"
    BY Words, Zenon
  <2>4. L(s)!Says("list")
    <3>1. Answers(s)' = IF son[s] = "closed" THEN Answers(s)
                        ELSE Append(Answers(s), AnswerOf(COM_writePacket(CONOK, list, FALSE)))
      BY <1>1, <1>2, <1>3, <1>5, Said
    <3> QED
      BY <2>3, <3>1 DEF L!Says
  <2>5. Requests(s)' = Requests(s) /\ Requests(s) \in Seq(RequestKinds)
    <3>1. Requests(s) = RequestsIn(s, toArda[s]) /\ toArda[s] \in Seq(Packet)
      BY DEF Requests, RequestsIn, Inv, TypesOK
    <3> QED
      BY <1>1, <3>1, RequestsInQueue DEF Requests
  <2>6. /\ <<"NEW_SON">> \o Requests(s) # <<>>
        /\ Head(<<"NEW_SON">> \o Requests(s)) = "NEW_SON"
        /\ Tail(<<"NEW_SON">> \o Requests(s)) = Requests(s)
    <3> DEFINE r == Requests(s)
    <3>1. r \in Seq(RequestKinds) /\ "NEW_SON" \in RequestKinds
      BY <2>5 DEF RequestKinds
    <3> HIDE DEF r
    <3>2. <<"NEW_SON">> \o r # <<>> /\ Head(<<"NEW_SON">> \o r) = "NEW_SON"
      BY <3>1
    <3>3. Tail(<<"NEW_SON">> \o r) = r
      <4> DEFINE t == Tail(<<"NEW_SON">> \o r)
      <4>1. t \in Seq(RequestKinds) /\ Len(t) = Len(r) /\ \A i \in 1..Len(t) : t[i] = r[i]
        BY <3>1
      <4> HIDE DEF t
      <4>2. t = r
        BY <3>1, <4>1, SeqEqual
      <4> QED
        BY <4>2 DEF t
    <3> QED
      BY <3>2, <3>3 DEF r
  <2>7. L(s)!Asked("NEW_SON")
    BY <1>1, <2>1, <2>6 DEF L!Asked
  <2>8. L(s)!Goes
    BY <2>1, <2>5, <2>6 DEF L!Goes
  <2> QED
    BY <2>2, <2>4, <2>7, <2>8 DEF L!Next, L!ArdaStep, L!Welcome
<1>6. CASE s # newcomer
  <2>1. ~Welcoming(s) /\ ~Welcoming(s)'
    BY <1>1, <1>6 DEF Welcoming
  <2> QED
    BY <1>1, <1>4, <1>6, <2>1, InSame, LineSame
<1> QED
  BY <1>5, <1>6

LEMMA LineWelcomeFails ==
  ASSUME Inv, WelcomeFails, NEW s \in Session
  PROVE  [L(s)!Next]_(L(s)!vars)
<1>1. /\ pc = "welcome" /\ pc' = "loop" /\ son' = son /\ son[newcomer] = "closed"
      /\ disconnect(cur) /\ HangUp(newcomer)
  BY DEF WelcomeFails, MayFail
<1>2. newcomer \in Session /\ cur \in Registered /\ newcomer = peer[cur] /\ link[newcomer] = "open"
  BY <1>1, NewcomerFacts DEF newcomer
<1>3. CASE s = newcomer
  <2>1. link'[s] = "closed" /\ toArda'[s] = <<>>
    BY <1>1, <1>2, <1>3, HungUp
  <2>2. toSon'[s] = toSon[s]
    BY <1>1, <1>3 DEF HangUp, WriteTo, Inv, TypesOK
  <2>3. Welcoming(s)
    BY <1>1, <1>3 DEF Welcoming
  <2> QED
    BY <1>1, <1>2, <1>3, <2>1, <2>2, <2>3, SaysNothing
<1>4. CASE s # newcomer
  BY <1>1, <1>2, <1>4, HungUp
<1> QED
  BY <1>3, <1>4

-----------------------------------------------------------------------------
(* Connections that are accepted or not.                                    *)

LEMMA LineAccept ==
  ASSUME Inv, Accept \/ AcceptFull, NEW s \in Session
  PROVE  [L(s)!Next]_(L(s)!vars)
<1> DEFINE h == Head(backlog)
<1>1. pc = "loop" /\ FdListen \in ready
  BY DEF Accept, AcceptFull, Visit
<1>2. h \in Session /\ link[h] = "backlog"
  BY <1>1, BacklogHead DEF Inv, AcceptNeverBlocks
<1>3. son' = son /\ toSon' = toSon /\ table' = table /\ pc' \in {"loop", "firstPacket"}
  BY <1>1 DEF Accept, AcceptFull
<1>4. ~Welcoming(s) /\ ~Welcoming(s)' /\ (In(s)' <=> In(s))
  BY <1>1, <1>3, InSame DEF Welcoming
<1>5. CASE Accept
  <2>1. toArda' = toArda /\ link' = [link EXCEPT ![h] = "open"]
    BY <1>5 DEF Accept
  <2>2. link'[s] = "closed" <=> link[s] = "closed"
    BY <1>2, <2>1 DEF Inv, TypesOK
  <2> QED
    BY <1>3, <1>4, <2>1, <2>2, LineSame
<1>6. CASE AcceptFull
  <2>1. toArda' = [toArda EXCEPT ![h] = <<>>] /\ link' = [link EXCEPT ![h] = "closed"]
    BY <1>6 DEF AcceptFull
  <2>2. CASE s = h
    <3>1. link'[s] = "closed" /\ toArda'[s] = <<>>
      BY <1>2, <2>1, <2>2 DEF Inv, TypesOK
    <3>2. ~In(s)
      BY <1>2, <2>2, InIs
    <3> QED
      BY <1>2, <1>3, <2>2, <3>1, <3>2, SaysNothing
  <2>3. CASE s # h
    <3>1. link'[s] = link[s] /\ toArda'[s] = toArda[s]
      BY <1>2, <2>1, <2>3 DEF Inv, TypesOK
    <3> QED
      BY <1>3, <1>4, <3>1, LineSame
  <2> QED
    BY <2>2, <2>3
<1> QED
  BY <1>5, <1>6

-----------------------------------------------------------------------------
(* The clients' steps.                                                      *)

LEMMA LineClient ==
  ASSUME Inv, NEW c \in Session, ClientStep(c), NEW s \in Session
  PROVE  [L(s)!Next]_(L(s)!vars)
<1>1. pc' = pc /\ cur' = cur /\ peer' = peer /\ table' = table
  BY DEF ClientStep, Connect, Send, Receive, Close, procVars
<1>2. (In(s)' <=> In(s)) /\ (Welcoming(s)' <=> Welcoming(s))
  BY <1>1, InSame DEF Welcoming, newcomer
<1>3. CASE s # c
  <2>1. son'[s] = son[s] /\ link'[s] = link[s] /\ toArda'[s] = toArda[s] /\ toSon'[s] = toSon[s]
    BY <1>3 DEF ClientStep, Connect, Send, Receive, Close, Inv, TypesOK
  <2> QED
    BY <1>2, <2>1, LineSame
<1>4. ASSUME s = c, link'[s] = "closed" <=> link[s] = "closed"
      PROVE  Phase(s)' = Phase(s)
  BY <1>2, <1>4, PhaseIs, PhaseWillBe
<1>5. CASE s = c /\ Connect(s)
  <2>1. son[s] = "new" /\ son'[s] = "open" /\ link[s] = "none" /\ link'[s] = "backlog"
        /\ toArda' = toArda /\ toSon' = toSon
    BY <1>5 DEF Connect, Inv, TypesOK, AcceptNeverBlocks
  <2>2. Phase(s)' = Phase(s) /\ Requests(s)' = Requests(s) /\ Answers(s)' = Answers(s)
    BY <1>4, <1>5, <2>1 DEF Requests, Answers
  <2>3. ~Welcoming(s) /\ ~Welcoming(s)'
    BY <1>2, <2>1, InIs
  <2> QED
    BY <2>1, <2>2, <2>3 DEF L!vars
<1>6. CASE s = c /\ \E p \in ClientPackets(s) : Send(s, p)
  <2>1. PICK p \in ClientPackets(s) : Send(s, p)
    BY <1>6
  <2>2. /\ son[s] = "open" /\ link[s] \in {"backlog", "open"}
        /\ link' = link /\ son' = son /\ toSon' = toSon
        /\ toArda'[s] = Append(toArda[s], p)
        /\ toArda[s] \in Seq(Packet) /\ p \in Packet
    BY <2>1, ClientPacketsType DEF Send, Inv, TypesOK
  <2>3. Phase(s)' = Phase(s) /\ Phase(s) # "over" /\ Answers(s)' = Answers(s)
    BY <1>4, <1>6, <2>2, PhaseIs DEF Answers
  <2>4. /\ Requests(s)' = Append(Requests(s), RequestOf(s, p))
        /\ Requests(s) \in Seq(RequestKinds) /\ RequestOf(s, p) \in RequestKinds
    <3>1. Requests(s) = RequestsIn(s, toArda[s]) /\ Requests(s)' = RequestsIn(s, toArda'[s])
      BY DEF Requests, RequestsIn
    <3>2. RequestOf(s, p) \in RequestKinds
      BY DEF RequestOf, RequestKinds
    <3> QED
      BY <2>2, <3>1, <3>2, RequestsInQueue
  <2>5. <<"NEW_SON">> \o Append(Requests(s), RequestOf(s, p)) =
          Append(<<"NEW_SON">> \o Requests(s), RequestOf(s, p))
    BY <2>4
  <2>6. L(s)!Write(RequestOf(s, p))
    BY <1>2, <2>2, <2>3, <2>4, <2>5 DEF L!Write
  <2> QED
    BY <2>4, <2>6 DEF L!Next, L!Requests, RequestKinds
<1>7. CASE s = c /\ Receive(s)
  <2>1. /\ toSon[s] # <<>> /\ toSon'[s] = Tail(toSon[s]) /\ toSon[s] \in Seq(ValidReply)
        /\ link' = link /\ son' = son /\ toArda' = toArda
    BY <1>7 DEF Receive, Inv, TypesOK, ValidReply
  <2>2. Answers(s) # <<>> /\ Answers(s)' = Tail(Answers(s))
    BY <2>1, AnswersInQueue DEF Answers, AnswersIn
  <2>3. Phase(s)' = Phase(s) /\ Requests(s)' = Requests(s)
    BY <1>4, <1>7, <2>1 DEF Requests
  <2>4. L(s)!Read
    BY <1>2, <2>1, <2>2, <2>3 DEF L!Read
  <2> QED
    BY <2>4 DEF L!Next
<1>8. CASE s = c /\ Close(s)
  <2>1. son'[s] = "closed" /\ toSon'[s] = <<>> /\ link' = link /\ toArda' = toArda
    BY <1>8 DEF Close, Inv, TypesOK
  <2>2. Answers(s)' = <<>>
    BY <2>1 DEF Answers
  <2>3. Phase(s)' = Phase(s) /\ Requests(s)' = Requests(s)
    BY <1>4, <1>8, <2>1 DEF Requests
  <2>4. L(s)!Leave
    BY <1>2, <2>1, <2>2, <2>3 DEF L!Leave
  <2> QED
    BY <2>4 DEF L!Next
<1> QED
  BY <1>3, <1>5, <1>6, <1>7, <1>8 DEF ClientStep

-----------------------------------------------------------------------------
(* Every step, on every connection. *)
LEMMA LineStep ==
  ASSUME LineInv, [Next]_vars, NEW s \in Session
  PROVE  [L(s)!Next]_(L(s)!vars)
<1>0. Inv
  BY DEF LineInv
<1>1. CASE Select \/ AcceptError \/ Start
  <2>1. /\ UNCHANGED <<son, link, toArda, toSon, table>>
        /\ pc \in {"loop", "starting"} /\ pc' = "loop"
    BY <1>1 DEF Select, AcceptError, Visit, Start, netVars
  <2>2. ~Welcoming(s) /\ ~Welcoming(s)' /\ (In(s)' <=> In(s))
    BY <2>1, InSame DEF Welcoming
  <2> QED
    BY <2>1, <2>2, LineSame
<1>2. CASE FirstPacketNull \/ StaleVisit \/ Signal \/ Kill
  BY <1>2, LineEnds DEF FirstPacketNull, StaleVisit, Signal, Kill, stop, dieUnsaved
<1>3. ASSUME NEW f \in ClientFds, handleRequest(f)
      PROVE  [L(s)!Next]_(L(s)!vars)
  BY <1>3, LineRequest
<1>4. ASSUME NEW c \in Session, ClientStep(c)
      PROVE  [L(s)!Next]_(L(s)!vars)
  BY <1>0, <1>4, LineClient
<1>5. CASE UNCHANGED vars
  <2>1. UNCHANGED <<son, link, toArda, toSon, table, pc, cur, peer>>
    BY <1>5 DEF vars, netVars, procVars
  <2>2. (Welcoming(s)' <=> Welcoming(s)) /\ (In(s)' <=> In(s))
    BY <2>1, InSame DEF Welcoming, newcomer
  <2> QED
    BY <2>1, <2>2, LineSame
<1>6. CASE Accept \/ AcceptFull \/ FirstPacketNotSon \/ FirstPacketNameTaken \/ FirstPacketLogin
           \/ FirstPacketReplace \/ Welcome \/ WelcomeFails
  BY <1>0, <1>6, LineAccept, LineRefusal, LineLogin, LineReplace, LineWelcome, LineWelcomeFails
<1>7. CASE OffTheLoop
  <2>1. UNCHANGED <<son, link, toArda, toSon, table, cur, peer>> /\ (pc = "welcome" <=> pc' = "welcome")
    BY <1>7, OffTheLoopFacts DEF netVars
  <2>2. (Welcoming(s)' <=> Welcoming(s)) /\ (In(s)' <=> In(s))
    BY <2>1, InSame DEF Welcoming, newcomer
  <2> QED
    BY <2>1, <2>2, LineSame
<1> QED
  BY <1>1, <1>2, <1>3, <1>4, <1>5, <1>6, <1>7
     DEF Next, Undisturbed, Interruption, ArdaStep, EventLoop, OffTheLoop, handleNewConnection

LEMMA DrainedStep ==
  ASSUME Inv, Drained, [Next]_vars
  PROVE  Drained'
<1> USE DEF Inv, TypesOK, Drained
<1>1. CASE link' = link /\ (toArda' = toArda \/ \E s \in Session : toArda' = ReadFrom(s))
  BY <1>1 DEF ReadFrom
<1>2. ASSUME NEW s \in Session, link' = [link EXCEPT ![s] = "closed"],
             toArda' = [toArda EXCEPT ![s] = <<>>]
      PROVE  Drained'
  BY <1>2
<1>3. CASE Select \/ AcceptError \/ Start \/ FirstPacketLogin \/ Welcome
  BY <1>1, <1>3, NewcomerFacts
     DEF Select, AcceptError, Start, FirstPacketLogin, Welcome, netVars, IsNewSon, FirstPacketArrived
<1>4. CASE FirstPacketNull \/ StaleVisit \/ Signal \/ Kill
  BY <1>4 DEF FirstPacketNull, StaleVisit, Signal, Kill, stop, dieUnsaved, ShutDown
<1>5. CASE Accept \/ AcceptFull
  <2>1. Head(backlog) \in Session
    BY <1>5, BacklogHead DEF Accept, AcceptFull, Visit, AcceptNeverBlocks
  <2> QED
    BY <1>2, <1>5, <2>1 DEF Accept, AcceptFull
<1>6. CASE FirstPacketNotSon \/ FirstPacketNameTaken
  BY <1>2, <1>6, NewcomerFacts
     DEF FirstPacketNotSon, FirstPacketNameTaken, IsNewSon, FirstPacketArrived, ClosePeer, newcomer
<1>7. CASE FirstPacketReplace
  <2>1. PICK f \in Found \ {NULL} :
          /\ ClosePeer(f)
          /\ toArda' = [ReadFrom(newcomer) EXCEPT ![peer[f]] = <<>>]
    BY <1>7 DEF FirstPacketReplace
  <2>2. f \in Registered
    BY DEF Found, SameName
  <2>3. peer[f] \in Session /\ newcomer \in Session
    BY <1>7, <2>2, RecordIsPeer, NewcomerFacts DEF FirstPacketReplace, IsNewSon, FirstPacketArrived
  <2>4. ReadFrom(newcomer) \in [Session -> Seq(Packet)]
    BY <2>3, ReadFromType
  <2>5. \A s \in Session : toArda[s] = <<>> => ReadFrom(newcomer)[s] = <<>>
    BY <2>3 DEF ReadFrom
  <2> QED
    BY <2>1, <2>3, <2>4, <2>5 DEF ClosePeer
<1>8. ASSUME NEW f \in Registered, disconnect(f), HangUp(peer[f])
      PROVE  Drained'
  BY <1>2, <1>8, RecordIsPeer DEF disconnect, ClosePeer, HangUp
<1>9. CASE WelcomeFails
  BY <1>8, <1>9, NewcomerFacts DEF WelcomeFails, newcomer
<1>10. ASSUME NEW f \in ClientFds, handleRequest(f)
       PROVE  Drained'
  <2>1. Reading(f) /\ (DropsOut(f) \/ RequestNewMsg(f) \/ \E h, d, e : Answer(f, h, d, e))
    BY <1>10 DEF handleRequest, RequestLost, RequestList, RequestListFails, RequestNewMsg,
                 RequestExit, RequestExitRefused, RequestUnknown, RequestUnknownFails,
                 UnknownRequest, Request
  <2>2. f \in Registered /\ peer[f] \in Session
    BY <2>1, ReadingFacts
  <2> QED
    BY <1>1, <1>8, <2>1, <2>2 DEF DropsOut, RequestNewMsg, Answer
<1>11. ASSUME NEW s \in Session, ClientStep(s)
       PROVE  Drained'
  BY <1>11 DEF ClientStep, Connect, Send, Receive, Close, AcceptNeverBlocks
<1>12. CASE UNCHANGED vars
  BY <1>1, <1>12 DEF vars, netVars
<1>13. CASE OffTheLoop
  BY <1>1, <1>13, OffTheLoopFacts DEF netVars
<1> QED
  BY <1>3, <1>4, <1>5, <1>6, <1>7, <1>9, <1>10, <1>11, <1>12, <1>13
     DEF Next, Undisturbed, Interruption, ArdaStep, EventLoop, OffTheLoop, handleNewConnection

LEMMA LineInvInit == Init => LineInv
BY InitInv, CleanInit DEF LineInv, Drained, Init

LEMMA LineInvNext == LineInv /\ [Next]_vars => LineInv'
BY NextInv, CleanNext, DrainedStep DEF LineInv, NoSlide

LEMMA LineInit ==
  ASSUME Init, NEW s \in Session
  PROVE  L(s)!Init
<1>1. link[s] = "none" /\ son[s] = "new" /\ toArda[s] = <<>> /\ toSon[s] = <<>> /\ pc = "down"
  BY DEF Init
<1>2. ~In(s) /\ ~Welcoming(s)
  BY <1>1, ArdaAssumption DEF Init, In, Registered, Welcoming
<1>3. Phase(s) = "greeting"
  BY <1>1, <1>2, PhaseIs
<1>4. Requests(s) = <<>> /\ Answers(s) = <<>>
  BY <1>1 DEF Requests, Answers
<1>5. (son[s] = "closed") = FALSE
  BY <1>1
<1> QED
  BY <1>2, <1>3, <1>4, <1>5 DEF L!Init

(* On every connection Arda does what Line allows: one answer to each       *)
(* request, in order and to the client that asked, a farewell before it     *)
(* hangs up on a user, and silence only towards who is not in or is gone.   *)
THEOREM ArdaImplementsLine == Spec => ImplementsLine
<1>1. Init => \A s \in Session : L(s)!Init
  BY LineInit
<1>2. LineInv /\ [Next]_vars => [\A s \in Session : [L(s)!Next]_(L(s)!vars)]_vars
  BY LineStep
<1> QED
  BY <1>1, <1>2, LineInvInit, LineInvNext, PTL DEF Spec, ImplementsLine

=============================================================================
