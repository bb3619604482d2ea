----------------------------- MODULE ArdaProofs -----------------------------
(***************************************************************************)
(* Theorems about Arda, for any sessions, names, addresses, descriptor      *)
(* limit, MAX_CLIENTS and hashmap layout.                                   *)
(***************************************************************************)
EXTENDS Arda, TLAPS

USE DEF Listening

LEMMA HeaderTable ==
  /\ HeadersOfType[1] = {NEW_SON, CONOK, CONKO}
  /\ HeadersOfType[2] = {LIST_REQUEST, LIST_RESPONSE}
  /\ HeadersOfType[3] = {SEND_MSG, MSGOK}
  /\ HeadersOfType[4] = {SEND_FILE, FILE_DATA}
  /\ HeadersOfType[5] = {CHECK_OK, CHECK_KO}
  /\ HeadersOfType[6] = {EXIT, CONOK, CONKO}
  /\ HeadersOfType[7] = {UNKNOWN}
  /\ HeadersOfType[8] = {NEW_MSG}
BY DEF HeadersOfType

(* Whatever COM_writePacket writes, isPacketValid accepts: the reader never *)
(* takes an answer for a lost connection.                                   *)
THEOREM WrittenIsValid ==
  ASSUME NEW header, NEW data, NEW exit \in BOOLEAN
  PROVE  /\ COM_writePacket(header, data, exit) \in
              [type : 1..8, header : Headers, data : {data, NULL}]
         /\ isPacketValid(COM_writePacket(header, data, exit))
<1> DEFINE t == getType(header, exit)
<1>1. t \in 1..8
  BY DEF getType
<1>2. t # 7 => header \in HeadersOfType[t]
  BY DEF getType
<1>3. t # 7 => header \in Headers
  BY <1>1, <1>2 DEF Headers
<1>4. UNKNOWN \in HeadersOfType[7] /\ UNKNOWN \in Headers
  BY HeaderTable DEF Headers
<1> QED
  BY <1>1, <1>2, <1>3, <1>4 DEF COM_writePacket, isPacketValid

-----------------------------------------------------------------------------
(* The types of what the actions are built from.                            *)

ValidReply == {p \in Reply : isPacketValid(p)}

LEMMA FdFacts ==
  /\ ClientFds \subseteq Nat
  /\ FdListen \notin ClientFds
  /\ \A f \in ClientFds : f \in FdListen..LastFd
  /\ FdListen \in FdListen..LastFd
BY ArdaAssumption DEF ClientFds, FdListen

LEMMA WriteToType ==
  ASSUME TypesOK, NEW s \in Session, NEW header, NEW exit \in BOOLEAN,
         NEW data \in {NULL} \cup SUBSET (Session \cup {Garbage})
  PROVE  WriteTo(s, header, data, exit) \in [Session -> Seq(ValidReply)]
<1> DEFINE p == COM_writePacket(header, data, exit)
<1>1. p \in ValidReply
  BY WrittenIsValid DEF ValidReply, Reply
<1>2. toSon \in [Session -> Seq(ValidReply)]
  BY DEF TypesOK, ValidReply
<1> HIDE DEF p
<1>3. Append(toSon[s], p) \in Seq(ValidReply)
  BY <1>1, <1>2
<1> QED
  BY <1>2, <1>3 DEF WriteTo, p

LEMMA ReadFromType ==
  ASSUME TypesOK, NEW s \in Session
  PROVE  ReadFrom(s) \in [Session -> Seq(Packet)]
<1>1. toArda \in [Session -> Seq(Packet)]
  BY DEF TypesOK
<1>2. CASE toArda[s] = <<>>
  BY <1>1, <1>2 DEF ReadFrom
<1>3. CASE toArda[s] # <<>>
  <2>1. Tail(toArda[s]) \in Seq(Packet)
    BY <1>1, <1>3
  <2> QED
    BY <1>1, <1>3, <2>1 DEF ReadFrom
<1> QED
  BY <1>2, <1>3

LEMMA DropInputType ==
  ASSUME NEW g \in [Session -> Seq(Packet)], NEW s
  PROVE  [g EXCEPT ![s] = <<>>] \in [Session -> Seq(Packet)]
<1> DEFINE S == Seq(Packet)
<1>1. <<>> \in S
  OBVIOUS
<1> HIDE DEF S
<1> QED
  BY <1>1, g \in [Session -> S] DEF S

LEMMA ClientPacketsType ==
  ASSUME NEW s \in Session
  PROVE  ClientPackets(s) \subseteq Packet
<1>1. ASSUME NEW h, NEW d \in {NULL} \cup Session \cup User, NEW e \in BOOLEAN
      PROVE  COM_writePacket(h, d, e) \in Packet
  BY <1>1, WrittenIsValid DEF Packet
<1>2. UserOf[s] \in User
  BY ArdaAssumption
<1>3. \A h \in ClientHeaders \cap {"?"} : [type |-> 9, header |-> h, data |-> NULL] \in Packet
  BY DEF Packet
<1>4. \A h : COM_writePacket(h, s, FALSE) \in Packet
  BY <1>1
<1>5. \A h : COM_writePacket(h, UserOf[s], FALSE) \in Packet
  BY <1>1, <1>2
<1>6. \A u \in User \cup {NULL} : COM_writePacket(EXIT, u, TRUE) \in Packet
  BY <1>1
<1>7. Torn \in Packet
  BY DEF Torn, Packet
<1> HIDE DEF Packet
<1> QED
  BY <1>3, <1>4, <1>5, <1>6, <1>7 DEF ClientPackets

LEMMA SerializeType ==
  ASSUME NEW t \in [ClientFds -> Session \cup {NULL}], NEW d
  PROVE  CON_serializeConnections(t, d) \subseteq Session \cup {Garbage}
BY DEF CON_serializeConnections

-----------------------------------------------------------------------------
(* The inductive invariant: the types, the descriptors and the backlog hold *)
(* one another up (a descriptor is closed only because the one session it   *)
(* belongs to is known).                                                    *)
Inv == TypesOK /\ DescriptorsAccounted /\ AcceptNeverBlocks

LEMMA OpenPeer ==
  ASSUME TypesOK
  PROVE  /\ \A f \in Open : peer[f] \in Session
         /\ \A f \in Registered : table[f] \in Session
         /\ Open \subseteq ClientFds /\ Registered \subseteq ClientFds
BY DEF TypesOK, Open, Registered

LEMMA InitInv == Init => Inv
<1> SUFFICES ASSUME Init PROVE Inv
  OBVIOUS
<1>1. TypesOK
  BY ArdaAssumption DEF Init, TypesOK, Registered, FdListen
<1>2. DescriptorsAccounted
  BY ArdaAssumption DEF Init, DescriptorsAccounted, Registered, Open
<1>3. AcceptNeverBlocks
  BY DEF Init, AcceptNeverBlocks
<1> QED
  BY <1>1, <1>2, <1>3 DEF Inv

(* The end of the process, however it comes. *)
LEMMA ShutDownStep ==
  ASSUME Inv, ShutDown, disk' \in Nat, lost' \in Int
  PROVE  Inv'
<1> USE DEF ShutDown, Inv
<1>1. TypesOK'
  BY ArdaAssumption DEF TypesOK, Registered, FdListen
<1>2. DescriptorsAccounted'
  BY ArdaAssumption DEF TypesOK, DescriptorsAccounted, Registered, Open
<1>3. AcceptNeverBlocks'
  BY DEF TypesOK, AcceptNeverBlocks
<1> QED
  BY <1>1, <1>2, <1>3

LEMMA EndStep ==
  ASSUME Inv, stop \/ dieUnsaved
  PROVE  Inv'
<1>1. numMessages \in Nat /\ disk \in Nat /\ lost \in Int
  BY DEF Inv, TypesOK
<1>2. ShutDown /\ disk' \in Nat /\ lost' \in Int
  BY <1>1 DEF stop, dieUnsaved, Unsaved
<1> QED
  BY <1>2, ShutDownStep

(* Steps that open and close nothing: packets are written and read, the     *)
(* batch changes, clients go away, the program counter moves on.            *)
LEMMA QuietStep ==
  ASSUME Inv,
         son' \in [Session -> {"new", "open", "closed"}],
         \A s \in Session : son'[s] = "new" => son[s] = "new",
         toArda' \in [Session -> Seq(Packet)],
         toSon' \in [Session -> Seq(ValidReply)],
         UNCHANGED <<link, backlog, fdset, biggerFd, peer, table, dangling, list>>,
         numMessages' \in Nat, disk' \in Nat, handled' \in Nat,
         lost' \in Int, wiped' \in Int,
         ready' \subseteq ClientFds \cup {FdListen},
         FdListen \in ready' => backlog # <<>>,
         pc' = "firstPacket" <=> pc = "firstPacket",
         \/ pc' = pc /\ cur' = cur
         \/ pc' = "loop" /\ cur' \in ClientFds \cup {NULL}
         \/ pc' \in {"starting", "down"} /\ ~Listening /\ cur' = cur
  PROVE  Inv'
<1> USE DEF Inv
<1>1. TypesOK'
  BY DEF TypesOK, ValidReply, Registered
<1>2. DescriptorsAccounted'
  BY DEF TypesOK, DescriptorsAccounted, Registered, Open
<1>3. AcceptNeverBlocks'
  BY DEF AcceptNeverBlocks
<1> QED
  BY <1>1, <1>2, <1>3

(* The newcomer has a descriptor of its own, not yet registered. *)
LEMMA NewcomerFacts ==
  ASSUME Inv, pc = "firstPacket" \/ pc = "welcome"
  PROVE  /\ cur \in Open /\ cur \in ClientFds
         /\ newcomer \in Session
         /\ pc = "firstPacket" => cur \notin Registered
         /\ pc = "welcome" => cur \in Registered
         /\ link[newcomer] = "open"
         /\ \A f \in Open : peer[f] = newcomer => f = cur
<1>1. cur \in Open
  BY DEF Inv, DescriptorsAccounted
<1>2. cur \in ClientFds /\ newcomer \in Session
  BY <1>1, OpenPeer DEF Inv, newcomer
<1> QED
  BY <1>1, <1>2 DEF Inv, DescriptorsAccounted, newcomer

(* close() on an open descriptor. *)
LEMMA ClosePeerStep ==
  ASSUME Inv, NEW f \in Open, ClosePeer(f)
  PROVE  /\ link' \in [Session -> {"none", "backlog", "open", "closed"}]
         /\ peer' \in [ClientFds -> Session \cup {NULL}]
         /\ Open' = Open \ {f}
         /\ \A g \in Open' : peer'[g] = peer[g]
         /\ \A s \in Session : link'[s] = "open" <=> \E g \in Open' : peer'[g] = s
         /\ \A s \in Session : link[s] # "open" => link'[s] = link[s]
<1>1. peer[f] \in Session /\ f \in ClientFds
  BY OpenPeer DEF Inv
<1>2. /\ link' \in [Session -> {"none", "backlog", "open", "closed"}]
      /\ peer' \in [ClientFds -> Session \cup {NULL}]
  BY <1>1 DEF ClosePeer, Inv, TypesOK
<1>3. peer' = [peer EXCEPT ![f] = NULL] /\ link' = [link EXCEPT ![peer[f]] = "closed"]
  BY DEF ClosePeer
<1>4. Open' = Open \ {f} /\ \A g \in Open' : peer'[g] = peer[g]
  BY <1>1, <1>3 DEF Open, Inv, TypesOK
<1>5. link[peer[f]] = "open"
  BY <1>1 DEF Inv, DescriptorsAccounted
<1>6. ASSUME NEW s \in Session
      PROVE  link'[s] = "open" <=> \E g \in Open' : peer'[g] = s
  <2>1. CASE s = peer[f]
    BY <2>1, <1>3, <1>4 DEF Inv, DescriptorsAccounted, TypesOK
  <2>2. CASE s # peer[f]
    BY <2>2, <1>3, <1>4 DEF Inv, DescriptorsAccounted, TypesOK
  <2> QED
    BY <2>1, <2>2
<1>7. ASSUME NEW s \in Session, link[s] # "open" PROVE link'[s] = link[s]
  BY <1>1, <1>3, <1>5, <1>7 DEF Inv, TypesOK
<1> QED
  BY <1>2, <1>4, <1>6, <1>7

(* A newcomer that is refused leaves nothing behind. *)
LEMMA RefuseStep ==
  ASSUME Inv, pc = "firstPacket",
         toSon' = WriteTo(newcomer, CONKO, NULL, FALSE),
         toArda' = [toArda EXCEPT ![newcomer] = <<>>],
         ClosePeer(cur),
         pc' = "loop" /\ cur' = NULL,
         UNCHANGED <<son, backlog, ready, fdset, biggerFd, table, dangling, list, cntVars>>
  PROVE  Inv'
<1>1. cur \in Open /\ newcomer \in Session /\ cur \notin Registered
  BY NewcomerFacts
<1>2. toSon' \in [Session -> Seq(ValidReply)] /\ toArda' \in [Session -> Seq(Packet)]
  BY <1>1, WriteToType, DropInputType DEF Inv, TypesOK
<1>3. TypesOK'
  BY <1>1, <1>2, ClosePeerStep DEF Inv, TypesOK, ValidReply, Registered, cntVars
<1>4. Registered' = Registered
  BY DEF Registered
<1>5. DescriptorsAccounted'
  <2>1. /\ Open' = Open \ {cur}
        /\ \A g \in Open' : peer'[g] = peer[g]
        /\ \A s \in Session : link'[s] = "open" <=> \E g \in Open' : peer'[g] = s
    BY <1>1, ClosePeerStep
  <2>2. Open' = Registered' /\ fdset' = Registered'
    BY <1>1, <1>4, <2>1 DEF Inv, DescriptorsAccounted
  <2>3. \A g \in Registered' : g <= biggerFd' /\ table'[g] = peer'[g]
    BY <1>4, <2>1, <2>2 DEF Inv, DescriptorsAccounted
  <2> QED
    BY <2>1, <2>2, <2>3 DEF Inv, DescriptorsAccounted
<1>6. AcceptNeverBlocks'
  BY <1>1, ClosePeerStep DEF Inv, TypesOK, AcceptNeverBlocks
<1> QED
  BY <1>3, <1>5, <1>6 DEF Inv

(* disconnect(f): one descriptor less everywhere. *)
LEMMA DisconnectFacts ==
  ASSUME Inv, NEW f \in Registered, disconnect(f)
  PROVE  /\ fdset' = Registered' /\ fdset' \subseteq ClientFds
         /\ table' \in [ClientFds -> Session \cup {NULL}]
         /\ dangling' \subseteq Registered'
         /\ list' \subseteq Session \cup {Garbage}
         /\ Registered' = Registered \ {f}
         /\ \A g \in Registered' : table'[g] = table[g]
<1>1. f \in ClientFds
  BY OpenPeer DEF Inv
<1>2. /\ fdset' = fdset \ {f}
      /\ table' = [table EXCEPT ![f] = NULL]
      /\ list' = CON_serializeConnections(table', dangling \ {f})
      /\ FreeStrings(f)
  BY DEF disconnect
<1>3. table' \in [ClientFds -> Session \cup {NULL}]
  BY <1>2 DEF Inv, TypesOK
<1>4. Registered' = Registered \ {f} /\ \A g \in Registered' : table'[g] = table[g]
  BY <1>1, <1>2 DEF Registered, Inv, TypesOK
<1>5. fdset' = Registered' /\ fdset' \subseteq ClientFds
  BY <1>2, <1>4 DEF Inv, DescriptorsAccounted, Registered
<1>6. dangling' \subseteq Registered'
  BY <1>2, <1>4 DEF FreeStrings, Inv, TypesOK
<1>7. list' \subseteq Session \cup {Garbage}
  BY <1>2, <1>3, SerializeType
<1> QED
  BY <1>3, <1>4, <1>5, <1>6, <1>7

LEMMA DisconnectStep ==
  ASSUME Inv, NEW f \in Registered,
         disconnect(f), HangUp(peer[f]),
         \/ pc = "loop" /\ ready' \subseteq ready
         \/ pc = "welcome" /\ ready' = ready,
         pc' = "loop", cur' \in ClientFds \cup {NULL},
         UNCHANGED <<son, backlog, biggerFd, cntVars>>
  PROVE  Inv'
<1>1. ClosePeer(f)
  BY DEF disconnect
<1>2. f \in Open /\ Open = Registered
  BY DEF Inv, DescriptorsAccounted
<1>3. peer[f] \in Session
  BY <1>2, OpenPeer DEF Inv
<1>4. toSon' \in [Session -> Seq(ValidReply)] /\ toArda' \in [Session -> Seq(Packet)]
  BY <1>3, WriteToType, DropInputType DEF Inv, TypesOK, HangUp
<1>5. TypesOK'
  BY <1>1, <1>2, <1>4, ClosePeerStep, DisconnectFacts DEF Inv, TypesOK, ValidReply, cntVars
<1>6. DescriptorsAccounted'
  <2>1. /\ Open' = Open \ {f}
        /\ \A g \in Open' : peer'[g] = peer[g]
        /\ \A s \in Session : link'[s] = "open" <=> \E g \in Open' : peer'[g] = s
    BY <1>1, <1>2, ClosePeerStep
  <2>2. Open' = Registered' /\ fdset' = Registered'
    BY <1>2, <2>1, DisconnectFacts
  <2>3. \A g \in Registered' : g <= biggerFd' /\ table'[g] = peer'[g]
    BY <2>1, <2>2, DisconnectFacts DEF Inv, DescriptorsAccounted
  <2> QED
    BY <2>1, <2>2, <2>3 DEF Inv, DescriptorsAccounted
<1>7. AcceptNeverBlocks'
  BY <1>1, <1>2, ClosePeerStep DEF Inv, TypesOK, AcceptNeverBlocks
<1> QED
  BY <1>5, <1>6, <1>7 DEF Inv

-----------------------------------------------------------------------------
(* The actions that open a connection or register it.                       *)

LEMMA BacklogHead ==
  ASSUME TypesOK, backlog # <<>>
  PROVE  /\ Head(backlog) \in Session /\ Head(backlog) = backlog[1]
         /\ Tail(backlog) \in Seq(Session)
         /\ Len(Tail(backlog)) = Len(backlog) - 1
         /\ 1 \in 1..Len(backlog)
         /\ \A i \in 1..Len(Tail(backlog)) :
              /\ Tail(backlog)[i] = backlog[i + 1]
              /\ i + 1 \in 1..Len(backlog)
<1>1. backlog \in Seq(Session)
  BY DEF TypesOK
<1> QED
  BY <1>1

LEMMA AcceptFullStep == Inv /\ AcceptFull => Inv'
<1> SUFFICES ASSUME Inv, AcceptFull PROVE Inv'
  OBVIOUS
<1>1. backlog # <<>> /\ TypesOK
  BY DEF Inv, AcceptNeverBlocks, AcceptFull, Visit
<1>2. Head(backlog) \in Session /\ Tail(backlog) \in Seq(Session)
  BY <1>1, BacklogHead
<1>3. link[Head(backlog)] = "backlog"
  BY <1>1, BacklogHead DEF Inv, AcceptNeverBlocks
<1>4. TypesOK'
  BY <1>2, DropInputType DEF AcceptFull, Visit, Inv, TypesOK, Registered, cntVars
<1>5. DescriptorsAccounted'
  BY <1>2, <1>3 DEF AcceptFull, Inv, TypesOK, DescriptorsAccounted, Registered, Open
<1>6. FdListen \notin ready'
  BY DEF AcceptFull, Visit
<1>7. \A i \in 1..Len(backlog') : link'[backlog'[i]] = "backlog"
  BY <1>1, <1>2, <1>3, BacklogHead DEF AcceptFull, Inv, TypesOK, AcceptNeverBlocks
<1>8. \A i, j \in 1..Len(backlog') : backlog'[i] = backlog'[j] => i = j
  BY <1>1, BacklogHead DEF AcceptFull, Inv, TypesOK, AcceptNeverBlocks
<1>9. \A s \in Session : son'[s] = "new" => link'[s] = "none"
  BY <1>2, <1>3 DEF AcceptFull, Inv, TypesOK, AcceptNeverBlocks
<1> QED
  BY <1>4, <1>5, <1>6, <1>7, <1>8, <1>9 DEF Inv, AcceptNeverBlocks

LEMMA AcceptStep == Inv /\ Accept => Inv'
<1> SUFFICES ASSUME Inv, Accept PROVE Inv'
  OBVIOUS
<1> DEFINE s0 == Head(backlog)
<1>1. backlog # <<>> /\ TypesOK
  BY DEF Inv, AcceptNeverBlocks, Accept, Visit
<1>2. s0 \in Session /\ Tail(backlog) \in Seq(Session)
  BY <1>1, BacklogHead
<1>3. link[s0] = "backlog"
  BY <1>1, BacklogHead DEF Inv, AcceptNeverBlocks
<1>4. PICK f \in ClientFds : LowestFree(f) /\ peer' = [peer EXCEPT ![f] = s0] /\ cur' = f
  BY DEF Accept
<1>5. f \notin Open
  BY <1>4 DEF LowestFree
<1>6. /\ link' = [link EXCEPT ![s0] = "open"]
      /\ backlog' = Tail(backlog)
      /\ pc = "loop" /\ pc' = "firstPacket" /\ ready' = ready \ {FdListen}
      /\ UNCHANGED <<son, toArda, toSon, fdset, biggerFd, table, dangling, list, cntVars>>
  BY DEF Accept, Visit
<1> HIDE DEF s0
<1>7. TypesOK'
  BY <1>2, <1>4, <1>6 DEF Inv, TypesOK, Registered, cntVars
<1>8. DescriptorsAccounted'
  <2>1. Registered' = Registered /\ Open = Registered
    BY <1>6 DEF Inv, DescriptorsAccounted, Registered
  <2>2. Open' = Open \cup {f} /\ peer'[f] = s0 /\ \A g \in Open : peer'[g] = peer[g]
    BY <1>1, <1>2, <1>4, <1>5, ArdaAssumption DEF Open, TypesOK
  <2>3. \A g \in Open : peer[g] # s0
    BY <1>2, <1>3 DEF Inv, DescriptorsAccounted
  <2>4. \A g, h \in Open' : peer'[g] = peer'[h] => g = h
    BY <2>2, <2>3 DEF Inv, DescriptorsAccounted
  <2>5. ASSUME NEW s \in Session
        PROVE  link'[s] = "open" <=> \E g \in Open' : peer'[g] = s
    <3>1. CASE s = s0
      BY <1>1, <1>2, <1>6, <2>2, <3>1 DEF TypesOK
    <3>2. CASE s # s0
      <4>1. link'[s] = link[s]
        BY <1>1, <1>6, <3>2 DEF TypesOK
      <4>2. link[s] = "open" <=> \E g \in Open : peer[g] = s
        BY DEF Inv, DescriptorsAccounted
      <4>3. (\E g \in Open' : peer'[g] = s) <=> \E g \in Open : peer[g] = s
        BY <2>2, <3>2
      <4> QED
        BY <4>1, <4>2, <4>3
    <3> QED
      BY <3>1, <3>2
  <2>6. \A g \in Registered' : g <= biggerFd' /\ table'[g] = peer'[g]
    BY <1>6, <2>1, <2>2 DEF Inv, DescriptorsAccounted
  <2> QED
    BY <1>4, <1>5, <1>6, <2>1, <2>2, <2>4, <2>5, <2>6 DEF Inv, DescriptorsAccounted
<1>9. AcceptNeverBlocks'
  <2>1. FdListen \notin ready'
    BY <1>6
  <2>2. \A i \in 1..Len(backlog') : link'[backlog'[i]] = "backlog"
    BY <1>1, <1>2, <1>3, <1>6, BacklogHead DEF Inv, TypesOK, AcceptNeverBlocks, s0
  <2>3. \A i, j \in 1..Len(backlog') : backlog'[i] = backlog'[j] => i = j
    BY <1>1, <1>6, BacklogHead DEF Inv, TypesOK, AcceptNeverBlocks
  <2>4. \A s \in Session : son'[s] = "new" => link'[s] = "none"
    BY <1>2, <1>3, <1>6 DEF Inv, TypesOK, AcceptNeverBlocks
  <2> QED
    BY <2>1, <2>2, <2>3, <2>4 DEF AcceptNeverBlocks
<1> QED
  BY <1>7, <1>8, <1>9 DEF Inv

LEMMA WatchFacts ==
  ASSUME Inv, cur \in ClientFds, WatchNewcomer
  PROVE  /\ biggerFd' \in FdListen..LastFd
         /\ cur <= biggerFd'
         /\ \A g \in Registered : g <= biggerFd'
<1>1. biggerFd \in Nat /\ cur \in Nat /\ biggerFd \in FdListen..LastFd /\ cur \in FdListen..LastFd
  BY FdFacts, ArdaAssumption DEF Inv, TypesOK, FdListen
<1>2. \A g \in Registered : g \in Nat /\ g <= biggerFd
  BY FdFacts DEF Inv, DescriptorsAccounted, Registered
<1> QED
  BY <1>1, <1>2 DEF WatchNewcomer

LEMMA LoginStep == Inv /\ FirstPacketLogin => Inv'
<1> SUFFICES ASSUME Inv, FirstPacketLogin PROVE Inv'
  OBVIOUS
<1>1. /\ pc = "firstPacket"
      /\ pc' = "welcome" /\ WatchNewcomer
      /\ fdset' = fdset \cup {cur}
      /\ table' = [table EXCEPT ![cur] = newcomer]
      /\ list' = CON_serializeConnections(table', dangling)
      /\ toArda' = ReadFrom(newcomer)
      /\ UNCHANGED <<son, link, backlog, toSon, cur, ready, peer, dangling, cntVars>>
  BY DEF FirstPacketLogin, IsNewSon, FirstPacketArrived
<1>2. cur \in Open /\ cur \in ClientFds /\ newcomer \in Session /\ cur \notin Registered
  BY <1>1, NewcomerFacts
<1>3. table' \in [ClientFds -> Session \cup {NULL}]
  BY <1>1, <1>2 DEF Inv, TypesOK
<1>4. /\ Registered' = Registered \cup {cur}
      /\ table'[cur] = newcomer
      /\ \A g \in Registered : table'[g] = table[g]
  BY <1>1, <1>2, ArdaAssumption DEF Inv, TypesOK, Registered
<1>5. /\ biggerFd' \in FdListen..LastFd /\ cur <= biggerFd'
      /\ \A g \in Registered : g <= biggerFd'
  BY <1>1, <1>2, WatchFacts
<1>6. list' \subseteq Session \cup {Garbage}
  BY <1>1, <1>3, SerializeType
<1>7. toArda' \in [Session -> Seq(Packet)]
  BY <1>1, <1>2, ReadFromType DEF Inv
<1>8. TypesOK'
  BY <1>1, <1>2, <1>3, <1>4, <1>5, <1>6, <1>7 DEF Inv, TypesOK, cntVars
<1>9. DescriptorsAccounted'
  <2>1. Open' = Open /\ Open = Registered \cup {cur}
    BY <1>1 DEF Inv, DescriptorsAccounted, Open
  <2>2. \A g \in Registered' : g <= biggerFd' /\ table'[g] = peer'[g]
    BY <1>1, <1>4, <1>5 DEF Inv, DescriptorsAccounted, newcomer
  <2> QED
    BY <1>1, <1>4, <2>1, <2>2 DEF Inv, DescriptorsAccounted
<1>10. AcceptNeverBlocks'
  BY <1>1 DEF Inv, AcceptNeverBlocks
<1> QED
  BY <1>8, <1>9, <1>10 DEF Inv

LEMMA ReplaceStep == Inv /\ FirstPacketReplace => Inv'
<1> SUFFICES ASSUME Inv, FirstPacketReplace PROVE Inv'
  OBVIOUS
<1>1. /\ pc = "firstPacket" /\ pc' = "welcome" /\ WatchNewcomer
      /\ UNCHANGED <<son, backlog, cur, ready, cntVars>>
  BY DEF FirstPacketReplace, IsNewSon, FirstPacketArrived
<1>2. cur \in Open /\ cur \in ClientFds /\ newcomer \in Session /\ cur \notin Registered
  BY <1>1, NewcomerFacts
<1>3. PICK f \in Found \ {NULL} :
       /\ FreeStrings(f)
       /\ fdset' = (fdset \ {f}) \cup {cur}
       /\ table' = [table EXCEPT ![f] = NULL, ![cur] = newcomer]
       /\ list' = CON_serializeConnections(table', dangling')
       /\ ClosePeer(f)
       /\ toSon' = WriteTo(peer[f], CONOK, NULL, TRUE)
       /\ toArda' = [ReadFrom(newcomer) EXCEPT ![peer[f]] = <<>>]
  BY DEF FirstPacketReplace
<1>4. f \in Registered /\ f \in Open /\ f # cur /\ f \in ClientFds
  BY <1>2, <1>3, OpenPeer DEF Found, SameName, Inv, TypesOK, DescriptorsAccounted
<1>5. peer[f] \in Session
  BY <1>4, OpenPeer DEF Inv
<1>6. table' \in [ClientFds -> Session \cup {NULL}]
  BY <1>2, <1>3 DEF Inv, TypesOK
<1>7. /\ Registered' = (Registered \ {f}) \cup {cur}
      /\ table'[cur] = newcomer
      /\ \A g \in Registered \ {f} : table'[g] = table[g]
  BY <1>2, <1>3, <1>4, ArdaAssumption DEF Inv, TypesOK, Registered
<1>8. /\ biggerFd' \in FdListen..LastFd /\ cur <= biggerFd'
      /\ \A g \in Registered : g <= biggerFd'
  BY <1>1, <1>2, WatchFacts
<1>9. dangling' \subseteq Registered \ {f}
  BY <1>3, <1>4 DEF FreeStrings, Inv, TypesOK
<1>10. list' \subseteq Session \cup {Garbage}
  BY <1>3, <1>6, SerializeType
<1>11. /\ toArda' \in [Session -> Seq(Packet)]
       /\ toSon' \in [Session -> Seq(ValidReply)]
  BY <1>2, <1>3, <1>5, ReadFromType, DropInputType, WriteToType DEF Inv
<1>12. fdset' \subseteq ClientFds
  BY <1>2, <1>3 DEF Inv, TypesOK
<1>13. TypesOK'
  BY <1>1, <1>2, <1>3, <1>4, <1>6, <1>7, <1>8, <1>9, <1>10, <1>11, <1>12, ClosePeerStep
     DEF Inv, TypesOK, ValidReply, cntVars
<1>14. DescriptorsAccounted'
  <2>1. /\ Open' = Open \ {f}
        /\ \A g \in Open' : peer'[g] = peer[g]
        /\ \A s \in Session : link'[s] = "open" <=> \E g \in Open' : peer'[g] = s
    BY <1>3, <1>4, ClosePeerStep
  <2>2. Open' = Registered' /\ fdset' = Registered'
    BY <1>1, <1>2, <1>3, <1>4, <1>7, <2>1 DEF Inv, DescriptorsAccounted
  <2>3. \A g \in Registered' : g <= biggerFd' /\ table'[g] = peer'[g]
    BY <1>2, <1>4, <1>7, <1>8, <2>1, <2>2 DEF Inv, DescriptorsAccounted, newcomer
  <2> QED
    BY <1>1, <1>7, <2>1, <2>2, <2>3 DEF Inv, DescriptorsAccounted
<1>15. AcceptNeverBlocks'
  BY <1>1, <1>3, <1>4, ClosePeerStep DEF Inv, TypesOK, AcceptNeverBlocks
<1> QED
  BY <1>13, <1>14, <1>15 DEF Inv

LEMMA ConnectStep ==
  ASSUME Inv, NEW s \in Session, Connect(s)
  PROVE  Inv'
<1>1. TypesOK /\ link[s] = "none" /\ backlog \in Seq(Session)
  BY DEF Connect, Inv, TypesOK, AcceptNeverBlocks
<1>2. /\ Len(backlog') = Len(backlog) + 1 /\ Len(backlog) \in Nat
      /\ backlog'[Len(backlog) + 1] = s
      /\ \A i \in 1..Len(backlog) : backlog'[i] = backlog[i]
      /\ backlog' \in Seq(Session) /\ backlog' # <<>>
  BY <1>1 DEF Connect
<1>3. TypesOK'
  BY <1>2 DEF Connect, Inv, TypesOK, Registered, procVars, cntVars
<1>4. DescriptorsAccounted'
  BY <1>1 DEF Connect, Inv, TypesOK, DescriptorsAccounted, Registered, Open, procVars
<1>5. \A i \in 1..Len(backlog) : backlog[i] # s
  BY <1>1 DEF Inv, AcceptNeverBlocks
<1>6. \A i \in 1..Len(backlog') : link'[backlog'[i]] = "backlog"
  BY <1>1, <1>2, <1>5 DEF Connect, Inv, TypesOK, AcceptNeverBlocks
<1>7. \A i, j \in 1..Len(backlog') : backlog'[i] = backlog'[j] => i = j
  BY <1>2, <1>5 DEF Inv, AcceptNeverBlocks
<1>8. \A t \in Session : son'[t] = "new" => link'[t] = "none"
  BY <1>1 DEF Connect, Inv, TypesOK, AcceptNeverBlocks
<1> QED
  BY <1>2, <1>3, <1>4, <1>6, <1>7, <1>8 DEF Inv, AcceptNeverBlocks

-----------------------------------------------------------------------------
(* Every step preserves the invariant.                                      *)

LEMMA ClientStepInv ==
  ASSUME Inv, NEW s \in Session, ClientStep(s)
  PROVE  Inv'
<1> USE DEF Inv
<1>1. CASE Connect(s)
  BY <1>1, ConnectStep
<1>2. CASE Receive(s)
  <2>1. toSon \in [Session -> Seq(ValidReply)] /\ toSon[s] # <<>>
    BY <1>2 DEF Receive, TypesOK, ValidReply
  <2>2. Tail(toSon[s]) \in Seq(ValidReply)
    BY <2>1
  <2>3. toSon' \in [Session -> Seq(ValidReply)]
    BY <1>2, <2>1, <2>2 DEF Receive
  <2> QED
    BY <1>2, <2>3, QuietStep DEF Receive, procVars, cntVars, TypesOK, AcceptNeverBlocks
<1>3. CASE Close(s)
  <2>1. toSon' \in [Session -> Seq(ValidReply)]
    <3>1. toSon \in [Session -> Seq(ValidReply)]
      BY DEF TypesOK, ValidReply
    <3>2. <<>> \in Seq(ValidReply)
      OBVIOUS
    <3> QED
      BY <1>3, <3>1, <3>2 DEF Close
  <2>2. /\ son' \in [Session -> {"new", "open", "closed"}]
        /\ \A t \in Session : son'[t] = "new" => son[t] = "new"
    BY <1>3 DEF Close, TypesOK
  <2> QED
    BY <1>3, <2>1, <2>2, QuietStep DEF Close, procVars, cntVars, TypesOK, AcceptNeverBlocks
<1>4. ASSUME NEW p \in ClientPackets(s), Send(s, p)
      PROVE  Inv'
  <2>1. toArda' \in [Session -> Seq(Packet)]
    <3>1. p \in Packet /\ toArda \in [Session -> Seq(Packet)]
      BY ClientPacketsType DEF TypesOK
    <3> HIDE DEF Packet
    <3>2. Append(toArda[s], p) \in Seq(Packet)
      BY <3>1
    <3> QED
      BY <1>4, <3>1, <3>2 DEF Send
  <2> QED
    BY <1>4, <2>1, QuietStep DEF Send, procVars, cntVars, TypesOK, ValidReply, AcceptNeverBlocks
<1> QED
  BY <1>1, <1>2, <1>3, <1>4 DEF ClientStep

(* A registered descriptor of the batch is being served. *)
LEMMA ReadingFacts ==
  ASSUME Inv, NEW f \in ClientFds, Reading(f)
  PROVE  /\ f \in Registered /\ peer[f] \in Session
         /\ pc = "loop" /\ ready' = ready \ {f}
BY OpenPeer DEF Inv, DescriptorsAccounted, Reading, Visit

LEMMA DropsOutStep ==
  ASSUME Inv, NEW f \in ClientFds, Reading(f), DropsOut(f)
  PROVE  Inv'
BY ReadingFacts, DisconnectStep DEF DropsOut, Inv, TypesOK

LEMMA AnswerStep ==
  ASSUME Inv, NEW f \in ClientFds, Reading(f),
         NEW header, NEW exit \in BOOLEAN,
         NEW data \in {NULL} \cup SUBSET (Session \cup {Garbage}),
         Answer(f, header, data, exit)
  PROVE  Inv'
<1>1. peer[f] \in Session /\ ready' = ready \ {f}
  BY ReadingFacts
<1>2. toSon' \in [Session -> Seq(ValidReply)] /\ toArda' \in [Session -> Seq(Packet)]
  BY <1>1, WriteToType, ReadFromType DEF Answer, Inv
<1> QED
  BY <1>1, <1>2, QuietStep DEF Answer, Inv, TypesOK, AcceptNeverBlocks, cntVars

LEMMA RequestStep ==
  ASSUME Inv, NEW f \in ClientFds, handleRequest(f)
  PROVE  Inv'
<1>1. CASE RequestLost(f) \/ RequestListFails(f) \/ RequestExit(f) \/ RequestUnknownFails(f)
  BY <1>1, DropsOutStep
     DEF RequestLost, RequestListFails, RequestExit, RequestUnknownFails, UnknownRequest, Request
<1>2. CASE RequestList(f)
  BY <1>2, AnswerStep DEF RequestList, Request, Inv, TypesOK
<1>3. CASE RequestExitRefused(f)
  BY <1>3, AnswerStep DEF RequestExitRefused, Request
<1>4. CASE RequestUnknown(f)
  BY <1>4, AnswerStep DEF RequestUnknown, UnknownRequest
<1>5. CASE RequestNewMsg(f)
  <2>1. peer[f] \in Session /\ ready' = ready \ {f}
    BY <1>5, ReadingFacts DEF RequestNewMsg, Request
  <2>2. toArda' \in [Session -> Seq(Packet)]
    BY <1>5, <2>1, ReadFromType DEF RequestNewMsg, Inv
  <2>3. numMessages' \in Nat /\ handled' \in Nat
    BY <1>5 DEF RequestNewMsg, Inv, TypesOK
  <2> QED
    BY <1>5, <2>1, <2>2, <2>3, QuietStep
       DEF RequestNewMsg, Inv, TypesOK, ValidReply, AcceptNeverBlocks
<1> QED
  BY <1>1, <1>2, <1>3, <1>4, <1>5 DEF handleRequest

LEMMA NewConnectionStep ==
  ASSUME Inv, handleNewConnection
  PROVE  Inv'
<1>1. CASE AcceptError
  BY <1>1, QuietStep DEF AcceptError, Visit, Inv, TypesOK, ValidReply, AcceptNeverBlocks, netVars, cntVars
<1>2. CASE FirstPacketNull
  BY <1>2, EndStep DEF FirstPacketNull
<1>3. CASE FirstPacketNotSon
  BY <1>3, RefuseStep DEF FirstPacketNotSon, FirstPacketArrived
<1>4. CASE FirstPacketNameTaken
  BY <1>4, RefuseStep DEF FirstPacketNameTaken, IsNewSon, FirstPacketArrived
<1>5. CASE Welcome
  <2>1. newcomer \in Session /\ list \in SUBSET (Session \cup {Garbage})
    BY <1>5, NewcomerFacts DEF Welcome, Inv, TypesOK
  <2>2. toSon' \in [Session -> Seq(ValidReply)]
    BY <1>5, <2>1, WriteToType DEF Welcome, Inv
  <2> QED
    BY <1>5, <2>2, QuietStep DEF Welcome, Inv, TypesOK, AcceptNeverBlocks, cntVars
<1>6. CASE WelcomeFails
  <2>1. cur \in Registered
    BY <1>6, NewcomerFacts DEF WelcomeFails
  <2> QED
    BY <1>6, <2>1, DisconnectStep DEF WelcomeFails, newcomer
<1> QED
  BY <1>1, <1>2, <1>3, <1>4, <1>5, <1>6, AcceptFullStep, AcceptStep, LoginStep, ReplaceStep
     DEF handleNewConnection

(* Before the event loop, and when a signal ends there or hangs.            *)
OffTheLoop == Launch \/ SignalEarly \/ KillEarly \/ SignalHangs

LEMMA OffTheLoopFacts ==
  ASSUME OffTheLoop
  PROVE  /\ UNCHANGED <<netVars, cur, ready, fdset, biggerFd, peer, table, dangling, list,
                       numMessages, handled, lost>>
         /\ Listening' <=> Listening
         /\ Listening => pc' = pc
         /\ pc' # pc => pc' \in {"starting", "down"}
BY DEF OffTheLoop, Launch, SignalEarly, KillEarly, SignalHangs, cntVars

LEMMA OffTheLoopStep ==
  ASSUME Inv, OffTheLoop
  PROVE  Inv'
<1>1. disk' \in Nat /\ wiped' \in Int
  BY DEF OffTheLoop, Launch, SignalEarly, KillEarly, SignalHangs, cntVars, Inv, TypesOK
<1>2. UNCHANGED <<netVars, cur, ready, fdset, biggerFd, peer, table, dangling, list,
                  numMessages, handled, lost>>
  BY OffTheLoopFacts
<1>3. \/ pc' = pc
      \/ pc' \in {"starting", "down"} /\ ~Listening
  BY OffTheLoopFacts
<1> QED
  BY <1>1, <1>2, <1>3, QuietStep DEF Inv, TypesOK, ValidReply, AcceptNeverBlocks, netVars

LEMMA NextInv == Inv /\ [Next]_vars => Inv'
<1> SUFFICES ASSUME Inv, [Next]_vars PROVE Inv'
  OBVIOUS
<1>1. CASE Select
  <2>1. ready' \subseteq ClientFds \cup {FdListen} /\ (FdListen \in ready' => backlog # <<>>)
    BY <1>1, FdFacts DEF Select, Inv, TypesOK
  <2> QED
    BY <1>1, <2>1, QuietStep DEF Select, Inv, TypesOK, ValidReply, netVars, cntVars
<1>2. CASE Start
  BY <1>2, QuietStep DEF Start, Inv, TypesOK, ValidReply, AcceptNeverBlocks, DescriptorsAccounted, netVars
<1>3. CASE Signal \/ Kill \/ StaleVisit
  BY <1>3, EndStep DEF Signal, Kill, StaleVisit
<1>4. CASE UNCHANGED vars
  BY <1>4 DEF vars, netVars, procVars, cntVars, Inv, TypesOK, DescriptorsAccounted,
              AcceptNeverBlocks, Registered, Open
<1> QED
  BY <1>1, <1>2, <1>3, <1>4, NewConnectionStep, RequestStep, ClientStepInv, OffTheLoopStep
     DEF Next, Undisturbed, Interruption, ArdaStep, EventLoop, OffTheLoop

-----------------------------------------------------------------------------
(* The theorems.                                                            *)

LEMMA Invariance == Spec => []Inv
BY InitInv, NextInv, PTL DEF Spec

(* Type correctness: also, whatever Arda writes is a packet that the        *)
(* iluvatarSon's COM_readPacket takes for valid.                            *)
THEOREM TypeCorrect == Spec => []TypeOK
<1> DEFINE HungOK == hung \in BOOLEAN
<1>1. Init => HungOK
  BY DEF Init
<1>2. HungOK /\ [Next]_vars => HungOK'
  <2> SUFFICES ASSUME HungOK, [Next]_vars PROVE HungOK'
    OBVIOUS
  <2>1. CASE UNCHANGED hung
    BY <2>1
  <2>2. CASE hung' = FALSE \/ hung' = TRUE
    BY <2>2
  <2>3. ASSUME NEW s \in Session, ClientStep(s)
        PROVE  UNCHANGED hung
    BY <2>3 DEF ClientStep, Connect, Receive, Close, Send, procVars
  <2> QED
    BY <2>1, <2>2, <2>3
       DEF Next, Undisturbed, Interruption, ArdaStep, Launch, Start, SignalEarly, KillEarly,
           SignalHangs, Signal, Kill, stop, dieUnsaved, ShutDown, vars, procVars
<1> QED
  BY <1>1, <1>2, Invariance, PTL DEF Spec, Inv, TypeOK

(* disconnect, handleNewConnection and stop leak no descriptor and watch    *)
(* none in vain, even after records were freed that should not have been.   *)
THEOREM NoDescriptorLost == Spec => []DescriptorsAccounted
BY Invariance, PTL DEF Inv

(* The event loop never blocks in accept(). *)
THEOREM NeverBlockedInAccept == Spec => []AcceptNeverBlocks
BY Invariance, PTL DEF Inv

-----------------------------------------------------------------------------
(* Names and the cached list, for a hashmap without collisions.  The list   *)
(* and the table change together; names stay unique because a record is     *)
(* only added when the search by name finds none, or finds the one that is  *)
(* removed in the same step.                                                *)
Clean == dangling = {} /\ UniqueNames /\ CacheCoherent

LEMMA SerializeClean ==
  ASSUME NEW t
  PROVE  CON_serializeConnections(t, {}) = {t[f] : f \in {g \in ClientFds : t[g] # NULL}}
BY DEF CON_serializeConnections

LEMMA FreeClean ==
  ASSUME NoSlide, dangling = {}, NEW f \in ClientFds, FreeStrings(f)
  PROVE  dangling' = {}
BY DEF NoSlide, FreeStrings

LEMMA CleanUnchanged ==
  ASSUME Clean, UNCHANGED <<table, dangling, list>>
  PROVE  Clean'
BY DEF Clean, UniqueNames, CacheCoherent, Registered

LEMMA CleanEnd ==
  ASSUME ShutDown
  PROVE  Clean'
BY DEF ShutDown, Clean, UniqueNames, CacheCoherent, Registered

LEMMA CleanDisconnect ==
  ASSUME NoSlide, Inv, Clean, NEW f \in Registered, disconnect(f)
  PROVE  Clean'
<1>1. f \in ClientFds /\ dangling = {}
  BY OpenPeer DEF Inv, Clean
<1>2. dangling' = {}
  BY <1>1, FreeClean DEF disconnect
<1>3. list' = CON_serializeConnections(table', {})
  BY <1>1 DEF disconnect
<1>4. CacheCoherent'
  BY <1>3, SerializeClean DEF CacheCoherent, Registered
<1>5. UniqueNames'
  BY DisconnectFacts DEF Clean, UniqueNames
<1> QED
  BY <1>2, <1>4, <1>5 DEF Clean

LEMMA CleanLogin ==
  ASSUME NoSlide, Inv, Clean, FirstPacketLogin
  PROVE  Clean'
<1>1. cur \in ClientFds /\ newcomer \in Session /\ cur \notin Registered
  BY NewcomerFacts DEF FirstPacketLogin, IsNewSon, FirstPacketArrived
<1>2. /\ table' = [table EXCEPT ![cur] = newcomer]
      /\ list' = CON_serializeConnections(table', {})
      /\ dangling' = {} /\ dangling = {}
      /\ NULL \in Found
  BY DEF FirstPacketLogin, Clean
<1>3. CacheCoherent'
  <2>1. list' = CON_serializeConnections(table', {})
    BY <1>2
  <2> QED
    BY <2>1, SerializeClean DEF CacheCoherent, Registered
<1>4. SameName = {}
  BY <1>2, ArdaAssumption DEF Found, SameName, Registered
<1>5. \A f \in Registered : UserOf[table[f]] # UserOf[newcomer]
  BY <1>2, <1>4 DEF SameName
<1>6. /\ Registered' \subseteq Registered \cup {cur}
      /\ table'[cur] = newcomer
      /\ \A g \in Registered : table'[g] = table[g]
  BY <1>1, <1>2 DEF Inv, TypesOK, Registered
<1>7. UniqueNames'
  BY <1>5, <1>6 DEF Clean, UniqueNames
<1> QED
  BY <1>2, <1>3, <1>7 DEF Clean

LEMMA CleanReplace ==
  ASSUME NoSlide, Inv, Clean, FirstPacketReplace
  PROVE  Clean'
<1>1. cur \in ClientFds /\ newcomer \in Session /\ cur \notin Registered
  BY NewcomerFacts DEF FirstPacketReplace, IsNewSon, FirstPacketArrived
<1>2. PICK f \in Found \ {NULL} :
       /\ FreeStrings(f)
       /\ table' = [table EXCEPT ![f] = NULL, ![cur] = newcomer]
       /\ list' = CON_serializeConnections(table', dangling')
  BY DEF FirstPacketReplace
<1>3. dangling = {}
  BY DEF Clean
<1>4. f \in Registered /\ f \in ClientFds /\ UserOf[table[f]] = UserOf[newcomer]
  BY <1>2, <1>3 DEF Found, SameName, Registered
<1>5. dangling' = {}
  BY <1>2, <1>3, <1>4, FreeClean
<1>6. CacheCoherent'
  <2>1. list' = CON_serializeConnections(table', {})
    BY <1>2, <1>5
  <2> QED
    BY <2>1, SerializeClean DEF CacheCoherent, Registered
<1>7. /\ Registered' \subseteq (Registered \ {f}) \cup {cur}
      /\ table'[cur] = newcomer
      /\ \A g \in Registered \ {f} : table'[g] = table[g]
  BY <1>1, <1>2, <1>4 DEF Inv, TypesOK, Registered
<1>8. \A g \in Registered \ {f} : UserOf[table[g]] # UserOf[newcomer]
  BY <1>4 DEF Clean, UniqueNames
<1>9. UniqueNames'
  BY <1>7, <1>8 DEF Clean, UniqueNames
<1> QED
  BY <1>5, <1>6, <1>9 DEF Clean

LEMMA CleanNext ==
  ASSUME NoSlide, Inv, Clean, [Next]_vars
  PROVE  Clean'
<1>1. CASE Select \/ AcceptError \/ AcceptFull \/ Accept \/ FirstPacketNotSon
           \/ FirstPacketNameTaken \/ Welcome \/ Start
  BY <1>1, CleanUnchanged
     DEF Select, AcceptError, AcceptFull, Accept, FirstPacketNotSon,
         FirstPacketNameTaken, Welcome, Start
<1>2. CASE FirstPacketNull \/ StaleVisit \/ Signal \/ Kill
  BY <1>2, CleanEnd DEF FirstPacketNull, StaleVisit, Signal, Kill, stop, dieUnsaved
<1>3. CASE WelcomeFails
  <2>1. cur \in Registered /\ disconnect(cur)
    BY <1>3, NewcomerFacts DEF WelcomeFails
  <2> QED
    BY <2>1, CleanDisconnect
<1>4. ASSUME NEW f \in ClientFds, handleRequest(f)
      PROVE  Clean'
  <2>1. CASE RequestLost(f) \/ RequestListFails(f) \/ RequestExit(f) \/ RequestUnknownFails(f)
    <3>1. Reading(f) /\ disconnect(f)
      BY <2>1 DEF RequestLost, RequestListFails, RequestExit, RequestUnknownFails,
                  UnknownRequest, Request, DropsOut
    <3> QED
      BY <3>1, ReadingFacts, CleanDisconnect
  <2>2. CASE RequestList(f) \/ RequestExitRefused(f) \/ RequestUnknown(f) \/ RequestNewMsg(f)
    BY <2>2, CleanUnchanged
       DEF RequestList, RequestExitRefused, RequestUnknown, RequestNewMsg, Answer
  <2> QED
    BY <1>4, <2>1, <2>2 DEF handleRequest
<1>5. ASSUME NEW s \in Session, ClientStep(s)
      PROVE  Clean'
  BY <1>5, CleanUnchanged DEF ClientStep, Connect, Send, Receive, Close, procVars
<1>6. CASE UNCHANGED vars
  BY <1>6, CleanUnchanged DEF vars, procVars
<1>7. CASE OffTheLoop
  BY <1>7, OffTheLoopFacts, CleanUnchanged
<1> QED
  BY <1>1, <1>2, <1>3, <1>4, <1>5, <1>6, <1>7, CleanLogin, CleanReplace
     DEF Next, Undisturbed, Interruption, ArdaStep, EventLoop, handleNewConnection, OffTheLoop

LEMMA CleanInit == Init => Clean
BY DEF Init, Clean, UniqueNames, CacheCoherent, Registered

(* A user is logged in at most once. *)
THEOREM NamesStayUnique == ASSUME NoSlide PROVE Spec => []UniqueNames
<1>1. Inv /\ Clean /\ [Next]_vars => Clean'
  BY CleanNext
<1> QED
  BY <1>1, CleanInit, Invariance, PTL DEF Spec, Clean

(* updateConnectionsList is called wherever it has to be: the cached list   *)
(* that is sent is never out of date.                                       *)
THEOREM ListNeverStale == ASSUME NoSlide PROVE Spec => []CacheCoherent
<1>1. Inv /\ Clean /\ [Next]_vars => Clean'
  BY CleanNext
<1> QED
  BY <1>1, CleanInit, Invariance, PTL DEF Spec, Clean

-----------------------------------------------------------------------------
(* The message count.                                                       *)

LEMMA CountStep ==
  ASSUME Inv, MessageCountExact, [Next]_vars
  PROVE  MessageCountExact'
<1> USE DEF MessageCountExact, MessageCount
<1>1. numMessages \in Nat /\ disk \in Nat /\ handled \in Nat /\ lost \in Int /\ wiped \in Int
  BY DEF Inv, TypesOK
<1>2. CASE FirstPacketNull \/ StaleVisit \/ Signal \/ Kill
  <2>1. /\ Listening /\ pc' = "down" /\ handled' = handled /\ wiped' = wiped
        /\ \/ disk' = numMessages /\ lost' = lost
           \/ disk' = disk /\ lost' = lost + (numMessages - disk)
    BY <1>2 DEF FirstPacketNull, FirstPacketArrived, StaleVisit, Signal, Kill, stop, dieUnsaved,
                ShutDown, Unsaved
  <2> QED
    BY <1>1, <2>1
<1>3. ASSUME NEW f \in ClientFds, RequestNewMsg(f)
      PROVE  MessageCountExact'
  BY <1>1, <1>3 DEF RequestNewMsg, Request, Reading, Visit
<1>4. CASE Start
  BY <1>1, <1>4 DEF Start
<1>5. CASE /\ UNCHANGED cntVars
           /\ Listening' <=> Listening
  BY <1>1, <1>5 DEF cntVars
<1>6. ASSUME Select \/ AcceptError \/ AcceptFull \/ Accept \/ FirstPacketNotSon
             \/ FirstPacketNameTaken \/ FirstPacketLogin \/ FirstPacketReplace
             \/ Welcome \/ WelcomeFails
      PROVE  MessageCountExact'
  BY <1>5, <1>6
     DEF Select, Visit, AcceptError, AcceptFull, Accept, FirstPacketArrived, IsNewSon,
         FirstPacketNotSon, FirstPacketNameTaken, FirstPacketLogin, FirstPacketReplace,
         Welcome, WelcomeFails
<1>7. ASSUME NEW f \in ClientFds, handleRequest(f), ~RequestNewMsg(f)
      PROVE  MessageCountExact'
  <2>1. DropsOut(f) \/ \E h, d, e : Answer(f, h, d, e)
    BY <1>7 DEF handleRequest, RequestLost, RequestList, RequestListFails, RequestExit,
                RequestExitRefused, RequestUnknown, RequestUnknownFails
  <2> QED
    BY <1>5, <2>1 DEF DropsOut, Answer
<1>8. ASSUME NEW s \in Session, ClientStep(s)
      PROVE  MessageCountExact'
  BY <1>5, <1>8 DEF ClientStep, Connect, Send, Receive, Close, procVars
<1>9. CASE UNCHANGED vars
  BY <1>5, <1>9 DEF vars, procVars
<1>10. CASE Launch \/ KillEarly \/ SignalHangs
  BY <1>5, <1>10 DEF Launch, KillEarly, SignalHangs
<1>11. CASE SignalEarly
  BY <1>1, <1>11 DEF SignalEarly
<1> QED
  BY <1>2, <1>3, <1>4, <1>6, <1>7, <1>8, <1>9, <1>10, <1>11
     DEF Next, Undisturbed, Interruption, ArdaStep, EventLoop, handleNewConnection

LEMMA CountInit == Init => MessageCountExact
BY DEF Init, MessageCountExact, MessageCount

(* numMessages and messagesCount.bin lose exactly what runs that did not    *)
(* end in stop() had counted, and what a run that was stopped before it had *)
(* read the file overwrote; a run that has read it takes nothing back.      *)
THEOREM CountIsExact == Spec => []MessageCountExact
<1>1. Inv /\ MessageCountExact /\ [Next]_vars => MessageCountExact'
  BY CountStep
<1> QED
  BY <1>1, CountInit, Invariance, PTL DEF Spec

=============================================================================
