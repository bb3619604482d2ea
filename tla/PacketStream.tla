---------------------------- MODULE PacketStream ----------------------------
(***************************************************************************)
(* Packets as bytes on a socket (communications.c): COM_writePacket at one  *)
(* end, COM_readPacket at the other, and in between a stream that delivers  *)
(* in pieces of any size and may end anywhere.  One process writes and one  *)
(* reads.  (The two bytes of a length, and what follows a wrong one, are    *)
(* where this module is finer than Protocol.)                               *)
(*                                                                         *)
(* Bytes are numbers.  A header is "[", one letter, "]".  A length byte     *)
(* holds ByteBase values, 256 in the code.                                  *)
(***************************************************************************)
EXTENDS Protocol, Sequences, SequencesExt

CONSTANTS
  Letter,      \* what tells a header from the others
  Sent,        \* the headers that are written
  Datas,       \* what is written with them: sequences of bytes
  Junk,        \* what an uninitialized byte may hold
  ByteBase,
  MaxPackets   \* bound: how many packets are written

NUL    == 0
ZERO   == 48   \* the digit
OPEN   == 91
CLOSE  == 93

ASSUME PacketStreamAssumption ==
  /\ Letter \in [Headers -> Nat \ {NUL, CLOSE}]
  /\ \A g, h \in Headers : Letter[g] = Letter[h] => g = h
  /\ Sent \subseteq {h \in Headers : getType(h, FALSE) # 7}
  /\ Datas \subseteq Seq(Nat) /\ NULL \notin Seq(Nat) /\ Junk \subseteq Nat
  /\ ByteBase \in Nat \ {0, 1} /\ MaxPackets \in Nat

VARIABLES
  inKernel,  \* written, on its way
  arrived,   \* can be read
  closed,    \* the writer has closed its end, or is gone
  written,   \* every packet as its writer meant it
  torn,      \* the stream ends inside a packet
  pc,        \* where COM_readPacket is: in its three loops; or the reader has
             \* closed its end after a NULL; or it never leaves readUntil
  buff,      \* the bytes before ']'
  c,         \* the last byte that read() stored
  length, data,
  got,       \* the packets that were returned
  short      \* read() has returned one of the two bytes of a length

writerVars == <<written, torn>>
streamVars == <<inKernel, arrived, closed>>
readerVars == <<pc, buff, c, length, data, got, short>>
vars       == <<writerVars, streamVars, readerVars>>

LengthLimit == ByteBase * ByteBase

-----------------------------------------------------------------------------
(* COM_writePacket: the length is an unsigned short. *)
Cut(d)           == SubSeq(d, 1, Len(d) % LengthLimit)
HeaderBytes(h)   == <<OPEN, Letter[h], CLOSE>>
LengthBytes(n)   == <<n % ByteBase, n \div ByteBase>>

Zeros(n)  == [i \in 1..n |-> NUL]
CString(s) == IF Contains(s, NUL) THEN SubSeq(s, 1, SelectInSeq(s, LAMBDA b : b = NUL) - 1) ELSE s

(* Mutant: the length and the data are appended by strcat, as "one of the   *)
(* characters that represent the number could be '\0'" warns.               *)
COM_serializePacket_strcat(p) ==
  LET d == IF p.data = NULL THEN <<>> ELSE p.data
      s == <<p.type>> \o HeaderBytes(p.header) \o CString(LengthBytes(Len(d)) \o d)
  IN s \o Zeros(6 + Len(d) - Len(s))

COM_serializePacket(p) ==
  LET d == IF p.data = NULL THEN <<>> ELSE p.data IN
  <<p.type>> \o HeaderBytes(p.header) \o LengthBytes(Len(d)) \o d

Write(h, d) ==
  /\ ~closed /\ Len(written) < MaxPackets
  /\ written' = Append(written, [header |-> h, data |-> d])
  /\ inKernel' = inKernel \o COM_serializePacket(COM_writePacket(h, Cut(d), FALSE))
  /\ UNCHANGED <<torn, arrived, closed, readerVars>>

(* The writer dies, or is interrupted by a signal whose handler ends it, in *)
(* its write(): the first n bytes were taken.                               *)
WriteTorn(h, d, n) ==
  /\ ~closed /\ Len(written) < MaxPackets
  /\ LET s == COM_serializePacket(COM_writePacket(h, Cut(d), FALSE)) IN
       n < Len(s) /\ inKernel' = inKernel \o SubSeq(s, 1, n)
  /\ closed' = TRUE /\ torn' = TRUE
  /\ UNCHANGED <<written, arrived, readerVars>>

Close ==
  /\ ~closed
  /\ closed' = TRUE
  /\ UNCHANGED <<writerVars, inKernel, arrived, readerVars>>

(* A segment of n bytes arrives. *)
Deliver(n) ==
  /\ n <= Len(inKernel)
  /\ arrived' = arrived \o SubSeq(inKernel, 1, n)
  /\ inKernel' = SubSeq(inKernel, n + 1, Len(inKernel))
  /\ UNCHANGED <<writerVars, closed, readerVars>>

-----------------------------------------------------------------------------
(* COM_readPacket.                                                          *)

AtEnd == closed /\ inKernel = <<>> /\ arrived = <<>>

(* read() of one byte into c: at the end of the stream c keeps its value.   *)
ReadByte ==
  \/ arrived # <<>> /\ c' = Head(arrived) /\ arrived' = Tail(arrived)
  \/ AtEnd /\ c' = c /\ UNCHANGED arrived

(* COM_freePacket, and the caller hangs up or stops. *)
GiveUp == pc' = "closed" /\ UNCHANGED <<buff, length, data, got>>

ReaderStays == UNCHANGED <<writerVars, inKernel, closed>>

(* readUntil(fd, ']'): "If the first thing received is a '0', implies end   *)
(* of connection".  At the end of the stream after that it reads its last   *)
(* byte for ever.                                                           *)
readUntil ==
  /\ pc = "header"
  /\ ReadByte
  /\ \/ buff = <<>> /\ c' = ZERO /\ GiveUp
     \/ /\ ~(buff = <<>> /\ c' = ZERO)
        /\ \/ AtEnd /\ pc' = "spins" /\ UNCHANGED buff
           \/ ~AtEnd /\ c' = CLOSE /\ pc' = "length" /\ UNCHANGED buff
           \/ ~AtEnd /\ c' # CLOSE /\ pc' = pc /\ buff' = Append(buff, c')
        /\ UNCHANGED <<length, data, got>>
  /\ UNCHANGED short /\ ReaderStays

(* read() of the two bytes of the length, into uninitialized memory; then c *)
(* is uninitialized again.                                                  *)
readLength ==
  /\ pc = "length"
  /\ \E lo, hi \in 0..(ByteBase - 1) :
       /\ \/ /\ Len(arrived) >= 2
             /\ <<lo, hi>> = SubSeq(arrived, 1, 2)
             /\ arrived' = SubSeq(arrived, 3, Len(arrived)) /\ UNCHANGED short
          \/ /\ Len(arrived) = 1
             /\ lo = arrived[1]
             /\ arrived' = <<>> /\ short' = TRUE
          \/ /\ AtEnd /\ UNCHANGED <<arrived, short>>
       /\ length' = lo + ByteBase * hi
  /\ pc' = "data" /\ data' = <<>>
  /\ c' \in Junk
  /\ UNCHANGED <<buff, got>> /\ ReaderStays

readData ==
  /\ pc = "data" /\ Len(data) < length
  /\ ReadByte
  /\ data' = Append(data, c')
  /\ UNCHANGED <<pc, buff, length, got, short>> /\ ReaderStays

(* COM_deserializePacket, and isPacketValid on its result. *)
Valid(s, h) ==
  s # <<>> /\ isPacketValid([type |-> Head(s), header |-> h]) /\ Append(Tail(s), CLOSE) = HeaderBytes(h)

(* Mutant: readUntil begins with c = 0. *)
Returned_zero ==
  /\ pc = "data" /\ Len(data) = length
  /\ \/ \E h \in Headers :
          /\ Valid(CString(buff), h)
          /\ got' = Append(got, [header |-> h, data |-> data])
          /\ pc' = "header" /\ buff' = <<>> /\ c' = NUL /\ length' = 0 /\ data' = <<>>
     \/ (\A h \in Headers : ~Valid(CString(buff), h)) /\ GiveUp /\ c' = c
  /\ UNCHANGED <<arrived, short>> /\ ReaderStays

(* The packet is returned, and the reader comes for the next one; or it is  *)
(* not valid.                                                               *)
Returned ==
  /\ pc = "data" /\ Len(data) = length
  /\ \/ \E h \in Headers :
          /\ Valid(CString(buff), h)
          /\ got' = Append(got, [header |-> h, data |-> data])
          /\ pc' = "header" /\ buff' = <<>> /\ c' = ZERO /\ length' = 0 /\ data' = <<>>
     \/ (\A h \in Headers : ~Valid(CString(buff), h)) /\ GiveUp /\ c' = c
  /\ UNCHANGED <<arrived, short>> /\ ReaderStays

COM_readPacket == readUntil \/ readLength \/ readData \/ Returned

-----------------------------------------------------------------------------
Init ==
  /\ inKernel = <<>> /\ arrived = <<>> /\ closed = FALSE
  /\ written = <<>> /\ torn = FALSE
  /\ pc = "header" /\ buff = <<>> /\ c = ZERO /\ length = 0 /\ data = <<>>
  /\ got = <<>> /\ short = FALSE

(* A packet of length L has 6 + L bytes. *)
Sizes == 1..(5 + LengthLimit)

Next ==
  \/ \E h \in Sent, d \in Datas : Write(h, d) \/ \E n \in Sizes : WriteTorn(h, d, n)
  \/ Close
  \/ \E n \in 1..Len(inKernel) : Deliver(n)
  \/ COM_readPacket

Spec == Init /\ [][Next]_vars

(* What was written arrives, and the reader goes on. *)
FairSpec ==
  Spec /\ WF_vars(COM_readPacket) /\ WF_vars(\E n \in 1..Len(inKernel) : Deliver(n))

-----------------------------------------------------------------------------
(* Properties.                                                              *)

(* Packets are read in the order and with the contents in which they were   *)
(* written, whatever bytes are in them; one of LengthLimit bytes or more    *)
(* loses data but spoils none that follow; and a stream that ends inside a  *)
(* packet yields at most that one wrongly.  (Exception: a read() that       *)
(* returns one byte of a length's two.)                                     *)
PacketsAsWritten ==
  ~short =>
    /\ Len(got) <= Len(written) + (IF torn THEN 1 ELSE 0)
    /\ \A i \in (DOMAIN got) \cap (DOMAIN written) :
         /\ got[i].header = written[i].header
         /\ Len(written[i].data) < LengthLimit => got[i].data = written[i].data

(* For FairSpec: when the other end closes between two packets, the reader  *)
(* gets all of them and then NULL.                                          *)
EndIsNoticed ==
  closed /\ ~torn ~> short \/ (pc = "closed" /\ Len(got) = Len(written))

=============================================================================
