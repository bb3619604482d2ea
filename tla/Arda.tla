-------------------------------- MODULE Arda --------------------------------
(***************************************************************************)
(* The Arda server (arda.c, ardaFunctions.c): one thread around select(),   *)
(* a hashmap of the sons that are logged in, a cached text of that hashmap, *)
(* and a counter of messages kept in a file between runs.                   *)
(*                                                                         *)
(* A Session is one TCP connection ever made to Arda: a run of an           *)
(* iluvatarSon makes exactly one.  Its user name and its ip:port are fixed, *)
(* so a Connection record of the program is abstracted to the session it    *)
(* was parsed from.  Clients are the most general ones: they write what     *)
(* they like, close or die at any moment.                                   *)
(***************************************************************************)
EXTENDS Protocol, Sequences, FiniteSets

CONSTANTS
  Session,        \* the connections ever made to Arda
  User, UserOf,   \* user names; the name each session logs in with
  AddrOf,         \* the ip:port each session announces
  LastFd,         \* the highest descriptor the process may have (ulimit -n)
  MaxClients,     \* MAX_CLIENTS
  SlidesInto,     \* hashmap layout: see FreeStrings
  ClientHeaders,  \* the headers clients use ("?" stands for an invalid packet,
                  \* "part" for one that is never completed)
  SocketRoom,     \* the packets a direction of a connection holds before write() blocks
  MaxMessages     \* bound: NEW_MSG packets counted

FdListen  == 3            \* the first descriptor after stdin, stdout, stderr
ClientFds == (FdListen + 1)..LastFd
Garbage   == "garbage"    \* what is read through a freed string

ASSUME ArdaAssumption ==
  /\ NULL \notin Session \cup User \cup ClientFds
  /\ Garbage \notin Session
  /\ UserOf \in [Session -> User]
  /\ LastFd \in Nat /\ LastFd > FdListen
  /\ MaxClients \in Nat
  /\ SlidesInto \in [ClientFds -> SUBSET ClientFds]
  /\ SocketRoom \in Nat \ {0}
  /\ MaxMessages \in Nat

VARIABLES
  \* the network: the two ends of each connection, what is in flight on it
  son,            \* the client's end: "new", "open" or "closed"
  link,           \* Arda's end: "none", "backlog", "open" or "closed"
  backlog,        \* connections completed by the kernel, not yet accepted
  toArda, toSon,  \* packets written and not yet read, per session
  \* the process
  pc,             \* "starting", "loop", "firstPacket", "welcome" or "down"
  hung,           \* the signal handler waits for a mutex its own thread holds
  cur,            \* fdAccept, while handleNewConnection runs
  ready,          \* fdsetBuff: descriptors of this batch still to be visited
  fdset,          \* client descriptors in fdset (FdListen is always there)
  biggerFd,
  peer,           \* kernel descriptor table: the session open on each descriptor
  table,          \* connectionsHashmap: the record registered for each descriptor
  dangling,       \* registered descriptors whose record's strings were freed
  list,           \* connectionsList, as the set of its entries
  numMessages,
  \* the file system
  disk,           \* messagesCount.bin
  \* history
  handled,        \* NEW_MSG packets read in all runs of Arda
  lost,           \* of these, the ones counted in runs that ended without saving,
  wiped           \* and the ones saved, then overwritten by a run that was starting

netVars  == <<son, link, backlog, toArda, toSon>>
procVars == <<pc, hung, cur, ready, fdset, biggerFd, peer, table, dangling, list>>
cntVars  == <<numMessages, disk, handled, lost, wiped>>
vars     == <<netVars, procVars, cntVars>>

Registered == {f \in ClientFds : table[f] # NULL}
Open       == {f \in ClientFds : peer[f] # NULL}

(* The process accepts connections: main() is past its start.               *)
Listening  == pc \notin {"down", "starting"}

-----------------------------------------------------------------------------
(* Reading and writing packets.                                             *)

Packet == [type : 0..9, header : Headers \cup {"?"},
           data : {NULL} \cup Session \cup User]
ASSUME PacketAssumption == NULL \notin Packet
Reply  == [type : 1..8, header : Headers,
           data : {NULL} \cup SUBSET (Session \cup {Garbage})]

(* A packet a client may write.  NEW_SON carries the client's own record,   *)
(* the others its user name; EXIT may name anybody.                         *)
ClientPackets(s) ==
  {COM_writePacket(h, s, FALSE) : h \in ClientHeaders \cap {NEW_SON}}
  \cup {COM_writePacket(h, UserOf[s], FALSE) :
          h \in ClientHeaders \cap {LIST_REQUEST, NEW_MSG, SEND_MSG}}
  \cup {COM_writePacket(EXIT, u, TRUE) :
          u \in {v \in User \cup {NULL} : EXIT \in ClientHeaders}}
  \cup {[type |-> 9, header |-> h, data |-> NULL] : h \in ClientHeaders \cap {"?"}}
  \cup {Torn : h \in ClientHeaders \cap {"part"}}

(* select() reports a descriptor when the first byte of a packet is there,  *)
(* or the end of the stream.  COM_readPacket needs all of the packet: on a  *)
(* torn one it blocks, and when the stream ends there, readUntil reads for  *)
(* ever.  At the end of the stream between two packets, and for a packet    *)
(* that is not valid, it gives NULL.                                        *)
Readable(s)       == toArda[s] # <<>> \/ son[s] = "closed"
IsTorn(s)         == toArda[s] # <<>> /\ Head(toArda[s]) = Torn
COM_readPacket(s) ==
  IF toArda[s] # <<>> /\ isPacketValid(Head(toArda[s])) THEN Head(toArda[s])
                                                        ELSE NULL
ReadFrom(s) == [toArda EXCEPT ![s] = IF @ = <<>> THEN @ ELSE Tail(@)]

(* A write blocks while the client does not read what was written before.   *)
(* To a client that is gone it is lost, and write() reports it or not,      *)
(* depending on whether the reset has arrived: MayFail(s).                  *)
CanWrite(s) == son[s] = "closed" \/ Len(toSon[s]) < SocketRoom

WriteTo(s, header, data, exit) ==
  [toSon EXCEPT ![s] = IF son[s] = "open"
                       THEN Append(@, COM_writePacket(header, data, exit)) ELSE @]
MayFail(s) == son[s] = "closed"

(* close(f): the client reads an end of stream, unread input is dropped. *)
ClosePeer(f) ==
  /\ link' = [link EXCEPT ![peer[f]] = "closed"]
  /\ peer' = [peer EXCEPT ![f] = NULL]

(* Mutant: the loop stops one record short.                                 *)
CON_serializeConnections_mutant(t, d) ==
  {t[f] : f \in {g \in ClientFds : t[g] # NULL /\ \E h \in ClientFds : h > g /\ t[h] # NULL}}

(* CON_serializeConnections over the hashmap t whose records d dangle. *)
CON_serializeConnections(t, d) ==
  {IF f \in d THEN Garbage ELSE t[f] : f \in {g \in ClientFds : t[g] # NULL}}

-----------------------------------------------------------------------------
(* disconnect(f).  Its pointer c into the buckets is used after             *)
(* hashmap_delete has closed the gap: when the entry of another descriptor  *)
(* slid into the vacated bucket (SlidesInto[f]: the descriptors whose hash  *)
(* probes through it), CON_freeConnection(c) frees that one's strings.      *)
(* Freeing strings twice corrupts the heap: the strings of any other        *)
(* registered record may go with them.                                      *)
NoSlide == \A f \in ClientFds : SlidesInto[f] = {}

FreeStrings(f) ==
  \E v \in {f} \cup (SlidesInto[f] \cap Registered) :
    \E more \in SUBSET (IF v \in dangling THEN Registered ELSE {}) :
      dangling' = (dangling \cup {v} \cup more) \ {f}

(* Mutant: FD_CLR is forgotten. *)
disconnect_watched(f) ==
  /\ fdset' = fdset
  /\ table' = [table EXCEPT ![f] = NULL]
  /\ list' = CON_serializeConnections(table', dangling \ {f})
  /\ FreeStrings(f)
  /\ ClosePeer(f)

(* Mutant: updateConnectionsList is forgotten. *)
disconnect_unlisted(f) ==
  /\ fdset' = fdset \ {f}
  /\ table' = [table EXCEPT ![f] = NULL]
  /\ list' = list
  /\ FreeStrings(f)
  /\ ClosePeer(f)

disconnect(f) ==
  /\ fdset' = fdset \ {f}
  /\ table' = [table EXCEPT ![f] = NULL]
  /\ list' = CON_serializeConnections(table', dangling \ {f})
  /\ FreeStrings(f)
  /\ ClosePeer(f)

(* Mutant: no notice. *)
HangUp_silent(s) ==
  /\ toSon' = toSon
  /\ toArda' = [toArda EXCEPT ![s] = <<>>]

(* The bytes and the notice that disconnect leaves on the connection of s. *)
HangUp(s) ==
  /\ CanWrite(s)
  /\ toSon' = WriteTo(s, CONOK, NULL, TRUE)
  /\ toArda' = [toArda EXCEPT ![s] = <<>>]

(* End of the process: every descriptor is closed by stop() or the kernel. *)
ShutDown ==
  /\ pc' = "down" /\ cur' = NULL
  /\ ready' = {} /\ fdset' = {} /\ biggerFd' = FdListen
  /\ peer' = [f \in ClientFds |-> NULL]
  /\ table' = [f \in ClientFds |-> NULL]
  /\ dangling' = {} /\ list' = {} /\ backlog' = <<>>
  /\ link' = [s \in Session |->
                IF link[s] \in {"backlog", "open"} THEN "closed" ELSE link[s]]
  /\ toArda' = [s \in Session |-> <<>>]
  /\ numMessages' = 0 /\ hung' = FALSE
  /\ UNCHANGED <<son, toSon, handled, wiped>>

(* The run's messages, those counted since it read the file, are forgotten. *)
Unsaved == disk' = disk /\ lost' = lost + (numMessages - disk)

(* stop(): hashmap_free comes before the counter is written, and aborts the *)
(* process when it frees dangling strings again.                            *)
stop ==
  /\ ShutDown
  /\ \/ disk' = numMessages /\ lost' = lost
     \/ dangling # {} /\ Unsaved

(* exit(1) from panic(), or death by SIGKILL: the counter is not written. *)
dieUnsaved == ShutDown /\ Unsaved

-----------------------------------------------------------------------------
(* main(): the event loop.                                                  *)

(* Mutant: fdListen is not in fdset. *)
Select_deaf ==
  /\ pc = "loop" /\ ready = {}
  /\ ready' = {f \in fdset : f <= biggerFd /\ Readable(peer[f])}
  /\ ready' # {}
  /\ UNCHANGED <<netVars, pc, cur, fdset, biggerFd, peer, table, dangling, list, cntVars>>

Select ==
  /\ pc = "loop" /\ ready = {}
  /\ ready' = {f \in fdset : f <= biggerFd /\ Readable(peer[f])}
              \cup {f \in {FdListen} : backlog # <<>>}
  /\ ready' # {}
  /\ UNCHANGED <<netVars, pc, cur, fdset, biggerFd, peer, table, dangling, list, cntVars>>

(* The for loop visits the descriptors of the batch in ascending order.     *)
(* Mutant: a descriptor visited stays in the batch.                         *)
Visit_mutant(f) ==
  /\ pc = "loop" /\ f \in ready
  /\ \A g \in ready : f <= g
  /\ ready' = ready


Visit(f) ==
  /\ pc = "loop" /\ f \in ready
  /\ \A g \in ready : f <= g
  /\ ready' = ready \ {f}

-----------------------------------------------------------------------------
(* handleNewConnection().                                                   *)

LowestFree(f) == f \in ClientFds \ Open /\ \A g \in ClientFds : g < f => g \in Open

(* accept() fails: no descriptor is left. *)
AcceptError ==
  /\ Visit(FdListen)
  /\ Open = ClientFds
  /\ UNCHANGED <<netVars, pc, cur, fdset, biggerFd, peer, table, dangling, list, cntVars>>

(* hashmap_count(connectionsHashmap) > MAX_CLIENTS.  Mutant: off by one. *)
Full_mutant == Cardinality(Registered) > MaxClients + 1
Full        == Cardinality(Registered) > MaxClients

(* Arda is full: the connection is closed at once. *)
AcceptFull ==
  /\ Visit(FdListen)
  /\ Open # ClientFds /\ Full
  /\ link' = [link EXCEPT ![Head(backlog)] = "closed"]
  /\ toArda' = [toArda EXCEPT ![Head(backlog)] = <<>>]
  /\ backlog' = Tail(backlog)
  /\ UNCHANGED <<son, toSon, pc, cur, fdset, biggerFd, peer, table, dangling, list, cntVars>>

(* Accepted: handleNewConnection now blocks reading the first packet. *)
Accept ==
  /\ Visit(FdListen)
  /\ ~Full
  /\ \E f \in ClientFds :
       /\ LowestFree(f)
       /\ peer' = [peer EXCEPT ![f] = Head(backlog)]
       /\ cur' = f
  /\ link' = [link EXCEPT ![Head(backlog)] = "open"]
  /\ backlog' = Tail(backlog)
  /\ pc' = "firstPacket"
  /\ UNCHANGED <<son, toArda, toSon, fdset, biggerFd, table, dangling, list, cntVars>>

newcomer == peer[cur]
FirstPacketArrived == pc = "firstPacket" /\ Readable(newcomer) /\ ~IsTorn(newcomer)

(* COM_isConnectionPacket dereferences a NULL packet: SIGSEGV, whose        *)
(* handler is signalHandler, which stops Arda.                              *)
FirstPacketNull ==
  /\ FirstPacketArrived
  /\ COM_readPacket(newcomer) = NULL
  /\ stop

(* Not a NEW_SON: refused with CONKO and closed. *)
FirstPacketNotSon ==
  /\ FirstPacketArrived
  /\ COM_readPacket(newcomer) # NULL
  /\ COM_readPacket(newcomer).header # NEW_SON
  /\ toSon' = WriteTo(newcomer, CONKO, NULL, FALSE)
  /\ toArda' = [toArda EXCEPT ![newcomer] = <<>>]
  /\ ClosePeer(cur)
  /\ pc' = "loop" /\ cur' = NULL
  /\ UNCHANGED <<son, backlog, ready, fdset, biggerFd, table, dangling, list, cntVars>>

IsNewSon ==
  /\ FirstPacketArrived
  /\ COM_readPacket(newcomer) # NULL
  /\ COM_readPacket(newcomer).header = NEW_SON

(* Mutants: the search starts at bucket 1, not 0 (where descriptor 4 is);   *)
(* the search is for the newcomer's descriptor.                             *)
SameName_mutant ==
  {f \in Registered \ (dangling \cup {4}) : UserOf[table[f]] = UserOf[newcomer]}
Found_mutant == {NULL}

(* CON_getConnectionByName: the record found for the newcomer's name, or    *)
(* NULL.  A dangling name may compare equal or not.                         *)
SameName == {f \in Registered \ dangling : UserOf[table[f]] = UserOf[newcomer]}
Found    == SameName \cup dangling \cup (IF SameName = {} THEN {NULL} ELSE {})

(* The same ip and port as the record found (a dangling ip: either way). *)
SameAddr(f)  == f \in dangling \/ AddrOf[table[f]] = AddrOf[newcomer]
OtherAddr(f) == f \in dangling \/ AddrOf[table[f]] # AddrOf[newcomer]

(* The name is taken from another address: refused. *)
FirstPacketNameTaken ==
  /\ IsNewSon
  /\ \E f \in Found \ {NULL} : OtherAddr(f)
  /\ toSon' = WriteTo(newcomer, CONKO, NULL, FALSE)
  /\ toArda' = [toArda EXCEPT ![newcomer] = <<>>]
  /\ ClosePeer(cur)
  /\ pc' = "loop" /\ cur' = NULL
  /\ UNCHANGED <<son, backlog, ready, fdset, biggerFd, table, dangling, list, cntVars>>

(* Mutants: biggerFd counts descriptors; biggerFd is not updated. *)
WatchNewcomer_plus1  == biggerFd' = IF biggerFd < cur + 1 THEN cur + 1 ELSE biggerFd
WatchNewcomer_forgot == biggerFd' = biggerFd
WatchNewcomer == biggerFd' = IF biggerFd < cur THEN cur ELSE biggerFd

(* The name is free: the newcomer is registered. *)
FirstPacketLogin ==
  /\ IsNewSon
  /\ NULL \in Found
  /\ WatchNewcomer
  /\ fdset' = fdset \cup {cur}
  /\ table' = [table EXCEPT ![cur] = newcomer]
  /\ list' = CON_serializeConnections(table', dangling)
  /\ toArda' = ReadFrom(newcomer)
  /\ pc' = "welcome"
  /\ UNCHANGED <<son, link, backlog, toSon, cur, ready, peer, dangling, cntVars>>

(* The same user at the same ip and port: the old session is disconnected   *)
(* and the newcomer takes its place, in one go.                             *)
FirstPacketReplace ==
  /\ IsNewSon
  /\ \E f \in Found \ {NULL} :
       /\ SameAddr(f)
       /\ FreeStrings(f)
       /\ fdset' = (fdset \ {f}) \cup {cur}
       /\ table' = [table EXCEPT ![f] = NULL, ![cur] = newcomer]
       /\ list' = CON_serializeConnections(table', dangling')
       /\ ClosePeer(f)
       /\ CanWrite(peer[f])
       /\ toSon' = WriteTo(peer[f], CONOK, NULL, TRUE)
       /\ toArda' = [ReadFrom(newcomer) EXCEPT ![peer[f]] = <<>>]
  /\ WatchNewcomer
  /\ pc' = "welcome"
  /\ UNCHANGED <<son, backlog, cur, ready, cntVars>>

(* handleListRequest(c->fd, 1): the list is written to the newcomer ... *)
Welcome ==
  /\ pc = "welcome" /\ CanWrite(newcomer)
  /\ toSon' = WriteTo(newcomer, CONOK, list, FALSE)
  /\ pc' = "loop" /\ cur' = NULL
  /\ UNCHANGED <<son, link, backlog, toArda, ready, fdset, biggerFd, peer, table, dangling, list, cntVars>>

(* ... or the write fails and the newcomer is disconnected. *)
WelcomeFails ==
  /\ pc = "welcome" /\ MayFail(newcomer)
  /\ disconnect(cur) /\ HangUp(newcomer)
  /\ pc' = "loop" /\ cur' = NULL
  /\ UNCHANGED <<son, backlog, ready, biggerFd, cntVars>>

-----------------------------------------------------------------------------
(* handleRequest(f).                                                        *)

(* A descriptor that an earlier visit of the same batch closed: read()      *)
(* fails, disconnect finds no record, hashmap_delete(NULL) panics.          *)
StaleVisit ==
  /\ pc = "loop" /\ ready # {}
  /\ \E f \in ready \ {FdListen} :
       /\ \A g \in ready : f <= g
       /\ f \notin Open
  /\ dieUnsaved

Requested(f) == COM_readPacket(peer[f])
Reading(f)   == Visit(f) /\ f \in Open /\ Readable(peer[f]) /\ ~IsTorn(peer[f])
Request(f, header) ==
  Reading(f) /\ Requested(f) # NULL /\ Requested(f).header = header

DropsOut(f) ==
  /\ disconnect(f) /\ HangUp(peer[f])
  /\ UNCHANGED <<son, backlog, pc, cur, biggerFd, cntVars>>

(* End of stream or invalid packet. *)
RequestLost(f) == Reading(f) /\ Requested(f) = NULL /\ DropsOut(f)

(* The answer to a request, written on its own connection. *)
Answer(f, header, data, exit) ==
  /\ CanWrite(peer[f])
  /\ toSon' = WriteTo(peer[f], header, data, exit)
  /\ toArda' = ReadFrom(peer[f])
  /\ UNCHANGED <<son, link, backlog, pc, cur, fdset, biggerFd, peer, table, dangling, list, cntVars>>

RequestList(f) == Request(f, LIST_REQUEST) /\ Answer(f, CONOK, list, FALSE)

RequestListFails(f) ==
  Request(f, LIST_REQUEST) /\ MayFail(peer[f]) /\ DropsOut(f)

RequestNewMsg(f) ==
  /\ Request(f, NEW_MSG)
  /\ numMessages' = numMessages + 1
  /\ handled' = handled + 1
  /\ toArda' = ReadFrom(peer[f])
  /\ UNCHANGED <<son, link, backlog, toSon, pc, cur, fdset, biggerFd, peer, table, dangling, list, disk, lost, wiped>>

(* Mutant: any name will do. *)
RequestExit_mutant(f) ==
  /\ Request(f, EXIT)
  /\ Requested(f).data # NULL
  /\ DropsOut(f)

(* EXIT must name the user of the connection; a dangling name may compare   *)
(* equal or not.                                                            *)
RequestExit(f) ==
  /\ Request(f, EXIT)
  /\ Requested(f).data # NULL
  /\ Requested(f).data = UserOf[table[f]] \/ f \in dangling
  /\ DropsOut(f)

RequestExitRefused(f) ==
  /\ Request(f, EXIT)
  /\ \/ Requested(f).data = NULL
     \/ Requested(f).data # UserOf[table[f]]
     \/ f \in dangling
  /\ Answer(f, CONKO, NULL, TRUE)

UnknownRequest(f) ==
  /\ Reading(f) /\ Requested(f) # NULL
  /\ Requested(f).header \notin {LIST_REQUEST, NEW_MSG, EXIT}

RequestUnknown(f) == UnknownRequest(f) /\ Answer(f, UNKNOWN, NULL, FALSE)

RequestUnknownFails(f) ==
  UnknownRequest(f) /\ MayFail(peer[f]) /\ DropsOut(f)

handleRequest(f) ==
  \/ RequestLost(f)
  \/ RequestList(f) \/ RequestListFails(f)
  \/ RequestNewMsg(f)
  \/ RequestExit(f) \/ RequestExitRefused(f)
  \/ RequestUnknown(f) \/ RequestUnknownFails(f)

-----------------------------------------------------------------------------
(* The rest of the life of the process.                                     *)

(* SIGINT, SIGTERM, SIGQUIT, SIGHUP: signalHandler stops Arda wherever it   *)
(* is, blocked in a read or a write too.  So do SIGABRT and SIGSEGV, when   *)
(* the heap is corrupt (dangling # {}).                                     *)
Signal == Listening /\ ~hung /\ stop

(* ... but not where it interrupts INOUT_print: the handler prints too, and *)
(* waits for a mutex that its own thread has locked.                        *)
SignalHangs ==
  /\ Listening /\ ~hung
  /\ hung' = TRUE
  /\ UNCHANGED <<netVars, pc, cur, ready, fdset, biggerFd, peer, table, dangling, list, cntVars>>

Kill == Listening /\ dieUnsaved

(* main() installs the signal handlers; it has not read the count yet.      *)
Launch ==
  /\ pc = "down"
  /\ pc' = "starting"
  /\ UNCHANGED <<netVars, hung, cur, ready, fdset, biggerFd, peer, table, dangling, list, cntVars>>

(* Mutant: the count of the runs before is not read. *)
Start_mutant ==
  /\ pc = "starting"
  /\ pc' = "loop"
  /\ numMessages' = 0
  /\ UNCHANGED <<netVars, hung, cur, ready, fdset, biggerFd, peer, table, dangling, list, disk, handled, lost, wiped>>

(* main() from there up to the event loop: it reads the count.              *)
Start ==
  /\ pc = "starting"
  /\ pc' = "loop"
  /\ numMessages' = disk
  /\ UNCHANGED <<netVars, hung, cur, ready, fdset, biggerFd, peer, table, dangling, list, disk, handled, lost, wiped>>

(* A signal before the count is read: stop() writes a count of 0.           *)
SignalEarly ==
  /\ pc = "starting"
  /\ pc' = "down"
  /\ disk' = numMessages
  /\ wiped' = wiped + (disk - numMessages)
  /\ UNCHANGED <<netVars, hung, cur, ready, fdset, biggerFd, peer, table, dangling, list, numMessages, handled, lost>>

KillEarly ==
  /\ pc = "starting"
  /\ pc' = "down"
  /\ UNCHANGED <<netVars, hung, cur, ready, fdset, biggerFd, peer, table, dangling, list, cntVars>>

-----------------------------------------------------------------------------
(* The clients.                                                             *)

Connect(s) ==
  /\ son[s] = "new" /\ Listening
  /\ son' = [son EXCEPT ![s] = "open"]
  /\ link' = [link EXCEPT ![s] = "backlog"]
  /\ backlog' = Append(backlog, s)
  /\ UNCHANGED <<toArda, toSon, procVars, cntVars>>

(* A write that Arda's end can still receive, and that does not block; to a *)
(* torn packet nothing is added.                                            *)
Send(s, p) ==
  /\ son[s] = "open" /\ link[s] \in {"backlog", "open"}
  /\ Len(toArda[s]) < SocketRoom
  /\ toArda[s] # <<>> => toArda[s][Len(toArda[s])] # Torn
  /\ p.header = NEW_MSG => handled < MaxMessages
  /\ toArda' = [toArda EXCEPT ![s] = Append(@, p)]
  /\ UNCHANGED <<son, link, backlog, toSon, procVars, cntVars>>

Receive(s) ==
  /\ son[s] = "open" /\ toSon[s] # <<>>
  /\ toSon' = [toSon EXCEPT ![s] = Tail(@)]
  /\ UNCHANGED <<son, link, backlog, toArda, procVars, cntVars>>

(* The client closes its socket, or its process dies (once Arda has closed  *)
(* the connection, this makes no difference to Arda).                       *)
Close(s) ==
  /\ son[s] = "open" /\ link[s] # "closed"
  /\ son' = [son EXCEPT ![s] = "closed"]
  /\ toSon' = [toSon EXCEPT ![s] = <<>>]
  /\ UNCHANGED <<link, backlog, toArda, procVars, cntVars>>

-----------------------------------------------------------------------------
Init ==
  /\ son  = [s \in Session |-> "new"]
  /\ link = [s \in Session |-> "none"]
  /\ backlog = <<>>
  /\ toArda = [s \in Session |-> <<>>]
  /\ toSon  = [s \in Session |-> <<>>]
  /\ pc = "down" /\ cur = NULL /\ hung = FALSE
  /\ ready = {} /\ fdset = {} /\ biggerFd = FdListen
  /\ peer  = [f \in ClientFds |-> NULL]
  /\ table = [f \in ClientFds |-> NULL]
  /\ dangling = {} /\ list = {}
  /\ numMessages = 0 /\ disk = 0 /\ handled = 0 /\ lost = 0 /\ wiped = 0

handleNewConnection ==
  \/ AcceptError \/ AcceptFull \/ Accept
  \/ FirstPacketNull \/ FirstPacketNotSon \/ FirstPacketNameTaken
  \/ FirstPacketLogin \/ FirstPacketReplace
  \/ Welcome \/ WelcomeFails

(* What the process does by itself. *)
EventLoop ==
  \/ Select
  \/ handleNewConnection
  \/ StaleVisit
  \/ \E f \in ClientFds : handleRequest(f)

ArdaStep == ~hung /\ hung' = FALSE /\ EventLoop

(* What its operator does to it. *)
Interruption == Signal \/ SignalHangs \/ Kill \/ SignalEarly \/ KillEarly

ClientStep(s) ==
  \/ Connect(s) \/ Receive(s) \/ Close(s)
  \/ \E p \in ClientPackets(s) : Send(s, p)

Undisturbed == ArdaStep \/ Launch \/ Start \/ \E s \in Session : ClientStep(s)

Next == Undisturbed \/ Interruption

Spec == Init /\ [][Next]_vars

(* Fairness: the process is scheduled and started again when it is down; an *)
(* iluvatarSon writes NEW_SON as soon as it is connected (sendNewSon), or   *)
(* dies.  Nothing else is asked of the clients.                             *)
FirstWord(s) ==
  /\ toArda[s] = <<>> /\ \A f \in Registered : table[f] # s
  /\ Close(s) \/ \E p \in ClientPackets(s) : Send(s, p)

Fairness ==
  /\ WF_vars(ArdaStep) /\ WF_vars(Launch) /\ WF_vars(Start)
  /\ \A s \in Session : WF_vars(FirstWord(s))

FairSpec == Spec /\ Fairness

-----------------------------------------------------------------------------
(* Invariants.                                                              *)

(* Every variable has its type, and every packet on its way to a client is  *)
(* one that isPacketValid lets the client read.                             *)
TypesOK ==
  /\ son  \in [Session -> {"new", "open", "closed"}]
  /\ link \in [Session -> {"none", "backlog", "open", "closed"}]
  /\ backlog \in Seq(Session)
  /\ toArda \in [Session -> Seq(Packet)]
  /\ toSon  \in [Session -> Seq({p \in Reply : isPacketValid(p)})]
  /\ pc \in {"starting", "loop", "firstPacket", "welcome", "down"}
  /\ cur \in ClientFds \cup {NULL}
  /\ ready \subseteq ClientFds \cup {FdListen}
  /\ fdset \subseteq ClientFds
  /\ biggerFd \in FdListen..LastFd
  /\ peer  \in [ClientFds -> Session \cup {NULL}]
  /\ table \in [ClientFds -> Session \cup {NULL}]
  /\ dangling \subseteq Registered
  /\ list \subseteq Session \cup {Garbage}
  /\ numMessages \in Nat /\ disk \in Nat /\ handled \in Nat
  /\ lost \in Int /\ wiped \in Int
TypeOK == TypesOK /\ hung \in BOOLEAN

(* No descriptor is leaked or watched in vain: those in fdset, those in the *)
(* hashmap and those that are open are the same, but for the newcomer whose *)
(* first packet is awaited; all of them are within the range of select();   *)
(* and the hashmap knows the right user for each.                           *)
DescriptorsAccounted ==
  /\ fdset = Registered
  /\ Open = Registered \cup (IF pc = "firstPacket" THEN {cur} ELSE {})
  /\ pc = "firstPacket" => cur \in ClientFds \ Registered
  /\ pc = "welcome" => cur \in Registered
  /\ \A f \in Registered : f <= biggerFd /\ table[f] = peer[f]
  /\ \A f, g \in Open : peer[f] = peer[g] => f = g
  /\ \A s \in Session : link[s] = "open" <=> \E f \in Open : peer[f] = s
  /\ ~Listening => Open = {}

(* accept() never blocks Arda: when fdListen is visited a connection is     *)
(* waiting, for each waits once and only that visit takes one.              *)
AcceptNeverBlocks ==
  /\ FdListen \in ready => backlog # <<>>
  /\ \A i \in 1..Len(backlog) : link[backlog[i]] = "backlog"
  /\ \A i, j \in 1..Len(backlog) : backlog[i] = backlog[j] => i = j
  /\ \A s \in Session : son[s] = "new" => link[s] = "none"

(* The comment on MAX_CLIENTS, "Select & fd_set restriction": descriptors   *)
(* handed to FD_SET stay below a bound that MAX_CLIENTS fixes (below        *)
(* FD_SETSIZE, 1024, for 1000 clients), because accept() gives the lowest   *)
(* free descriptor.                                                         *)
FdSetBounded == biggerFd <= FdListen + MaxClients + 1

(* "A cached version of all the current connections": the text that is sent *)
(* as the users' list is what serializing the hashmap now would give.       *)
CacheCoherent == list = {table[f] : f \in Registered}

(* A user is logged in at most once. *)
UniqueNames ==
  \A f, g \in Registered : UserOf[table[f]] = UserOf[table[g]] => f = g

(* A list on its way to a client holds the client itself (it finds itself   *)
(* when it must not write to itself) and no name twice (it files the        *)
(* entries by name).                                                        *)
ListsAreUsable ==
  \A s \in Session : \A i \in 1..Len(toSon[s]) :
    LET p == toSon[s][i] IN
    p.data # NULL =>
      /\ s \in p.data
      /\ \A r, t \in p.data : UserOf[r] = UserOf[t] => r = t

(* The message count survives restarts: it is the number of NEW_MSG packets *)
(* Arda has read in its life, but for those of runs that ended without      *)
(* saving it, and those a run overwrote because a signal came before it had *)
(* read the file; and no run that has read the file takes back what it says.*)
MessageCount == IF Listening THEN numMessages ELSE disk
MessageCountExact ==
  /\ MessageCount + lost + wiped = handled
  /\ Listening => disk <= numMessages

-----------------------------------------------------------------------------
(* Action properties.                                                       *)

(* While Arda runs, a user loses the session only by its own doing (it is   *)
(* gone, or said EXIT, or wrote an invalid packet), or because the same     *)
(* user logs in again from the same address.                                *)
GivesUp(s) ==
  \/ son[s] = "closed"
  \/ toArda[s] # <<>> /\ ~isPacketValid(Head(toArda[s]))
  \/ toArda[s] # <<>> /\ Head(toArda[s]).header = EXIT
                      /\ Head(toArda[s]).data = UserOf[s]
TakenOver(s, t) == UserOf[t] = UserOf[s] /\ AddrOf[t] = AddrOf[s]

NoSpuriousLogout ==
  [][pc' # "down" =>
       \A f \in Registered :
         \/ table'[f] = table[f]
         \/ GivesUp(table[f])
         \/ \E g \in ClientFds \ Registered :
              table'[g] # NULL /\ TakenOver(table[f], table'[g])]_vars

-----------------------------------------------------------------------------
(* Liveness (for FairSpec).                                                 *)

(* The connection the thread is at. *)
Served ==
  CASE pc = "loop" -> {peer[f] : f \in {g \in ready \cap Open : \A h \in ready : g <= h}}
    [] pc \in {"firstPacket", "welcome"} -> {newcomer}
    [] OTHER -> {}

(* What can stop the only thread of Arda: its own signal handler, a packet  *)
(* that is never completed, and a client that does not read and that is to  *)
(* be written to (the one served, or the one the newcomer replaces).        *)
Held ==
  \/ hung
  \/ pc # "welcome" /\ \E s \in Served : IsTorn(s)
  \/ \E s \in Served : ~CanWrite(s)
  \/ pc = "firstPacket" /\ \E f \in Registered :
       TakenOver(table[f], newcomer) /\ ~CanWrite(peer[f])

(* A connection does not wait for ever to be accepted or closed, unless     *)
(* Arda is held up for ever.                                                *)
ConnectionsAccepted ==
  \A s \in Session : link[s] = "backlog" ~> (link[s] # "backlog" \/ []Held)

(* A packet that was written is read, or the connection is closed, unless   *)
(* Arda is held up for ever.  (At most one packet of a client is unread at  *)
(* a time: SocketRoom = 1.)                                                 *)
PacketsRead == \A s \in Session : toArda[s] # <<>> ~> (toArda[s] = <<>> \/ []Held)

-----------------------------------------------------------------------------
(* What Arda promises: Registry.                                            *)

standing ==
  [s \in Session |->
     IF \E f \in ClientFds : table[f] = s THEN "in"
     ELSE IF link[s] = "closed" THEN "gone" ELSE "out"]

R == INSTANCE Registry WITH up <- Listening
ImplementsRegistry == R!Spec

-----------------------------------------------------------------------------
(* What Arda promises on each connection: Line.                             *)

RequestOf(s, p) ==
  CASE ~isPacketValid(p)        -> "invalid"
    [] p.header = NEW_SON       -> "NEW_SON"
    [] p.header = LIST_REQUEST  -> "LIST_REQUEST"
    [] p.header = NEW_MSG       -> "NEW_MSG"
    [] p.header = EXIT          -> IF p.data = UserOf[s] THEN "EXIT" ELSE "another's EXIT"
    [] OTHER                    -> "other"

AnswerOf(p) ==
  CASE p.header = CONOK -> IF p.type = 1 THEN "list" ELSE "bye"
    [] p.header = CONKO -> "conko"
    [] OTHER            -> "unknown"

(* NEW_SON counts as unanswered until the list is written. *)
Welcoming(s) == pc = "welcome" /\ newcomer = s

Requests(s) == [i \in 1..Len(toArda[s]) |-> RequestOf(s, toArda[s][i])]
Answers(s)  == [i \in 1..Len(toSon[s]) |-> AnswerOf(toSon[s][i])]
Phase(s) ==
  IF link[s] = "closed" THEN "over"
  ELSE IF s \in {table[f] : f \in Registered} /\ ~Welcoming(s) THEN "talking" ELSE "greeting"

L(s) == INSTANCE Line WITH
          Collides <- ~NoSlide,
          phase <- Phase(s), up <- Listening, gone <- son[s] = "closed",
          toArda <- IF Welcoming(s) THEN <<"NEW_SON">> \o Requests(s) ELSE Requests(s),
          fromArda <- Answers(s)
ImplementsLine ==
  /\ \A s \in Session : L(s)!Init
  /\ [][\A s \in Session : [L(s)!Next]_(L(s)!vars)]_vars

=============================================================================
