------------------------- MODULE PacketStreamProofs -------------------------
(***************************************************************************)
(* Proofs about PacketStream, for every alphabet of headers, all data, all  *)
(* lengths and any number of packets.                                       *)
(***************************************************************************)
EXTENDS PacketStream, SequenceTheorems, TLAPS

Packet  == [header : Sent, data : Datas]
Wire(w) == COM_serializePacket(COM_writePacket(w.header, Cut(w.data), FALSE))
Size(w) == 6 + Len(Cut(w.data))

Typed ==
  /\ inKernel \in Seq(Nat) /\ arrived \in Seq(Nat) /\ closed \in BOOLEAN
  /\ written \in Seq(Packet) /\ torn \in BOOLEAN
  /\ pc \in {"header", "length", "data", "closed", "spins"}
  /\ buff \in Seq(Nat) /\ c \in Nat /\ length \in Nat /\ data \in Seq(Nat)
  /\ got \in Seq([header : Headers, data : Seq(Nat)]) /\ short \in BOOLEAN

(* What the reader has not read yet, and how much it has of a packet. *)
Coming == arrived \o inKernel
ReadSoFar ==
  IF pc = "header" THEN Len(buff) ELSE IF pc = "length" THEN 4 ELSE 6 + Len(data)

(* The bytes of w lie in q after the first p; those before q were read.     *)
Lies(w, p, q) ==
  \A x \in 1..Size(w) : p + x \in 1..Len(q) => q[p + x] = Wire(w)[x]

(* The reader is at w, which is what it has read. *)
Reading(w) ==
  /\ Len(buff) <= 3 /\ \A x \in 1..Len(buff) : buff[x] = Wire(w)[x]
  /\ pc # "header" => Len(buff) = 3
  /\ pc = "data" => /\ length = Len(Cut(w.data)) /\ Len(data) <= length
                    /\ \A x \in 1..Len(data) : data[x] = Cut(w.data)[x]

(* W is what was written, and the packet that is torn; from the one that    *)
(* the reader is at, the i-th lies after the first o[i] bytes.              *)
Follows(W, o) ==
  /\ W \in Seq(Packet) /\ Len(W) = Len(written) + (IF torn THEN 1 ELSE 0)
  /\ \A i \in 1..Len(written) : W[i] = written[i]
  /\ o \in [1..(Len(W) + 1) -> Int]
  /\ Len(got) <= Len(W) /\ o[Len(got) + 1] = -ReadSoFar
  /\ \A i \in (Len(got) + 1)..Len(W) : o[i + 1] = o[i] + Size(W[i]) /\ Lies(W[i], o[i], Coming)
  /\ \A i, j \in (Len(got) + 1)..(Len(W) + 1) : i <= j => o[i] <= o[j]
  /\ ~torn => Len(Coming) = o[Len(W) + 1]
  /\ torn  => Len(got) < Len(W) /\ o[Len(W)] <= Len(Coming) /\ Len(Coming) < o[Len(W) + 1]
  /\ Len(got) < Len(W) => Reading(W[Len(got) + 1])
  /\ Len(got) = Len(W) => pc = "header" /\ buff = <<>>

(* Nothing comes any more after a torn packet, of which the reader makes    *)
(* what it can.                                                             *)
Lost ==
  /\ torn /\ Coming = <<>>
  /\ \/ pc = "data" /\ Len(got) = Len(written)
     \/ pc = "header" /\ Len(got) = Len(written) + 1

Right(g, w) == g.header = w.header /\ (Len(w.data) < LengthLimit => g.data = w.data)

GotRight ==
  /\ Len(got) <= Len(written) + (IF torn THEN 1 ELSE 0)
  /\ \A i \in 1..Len(got) : i \in 1..Len(written) => Right(got[i], written[i])

Active == pc \in {"header", "length", "data"}

Tracks == Active => Lost \/ \E W, o : Follows(W, o)

Inv ==
  /\ Typed /\ (torn => closed)
  /\ ~short => GotRight /\ Tracks

-----------------------------------------------------------------------------
(* Sequences of bytes. *)
LEMMA Joins ==
  ASSUME NEW a \in Seq(Nat), NEW b \in Seq(Nat)
  PROVE  /\ a \o b \in Seq(Nat) /\ Len(a \o b) = Len(a) + Len(b)
         /\ \A i \in 1..Len(a) : (a \o b)[i] = a[i]
         /\ \A i \in 1..Len(b) : (a \o b)[Len(a) + i] = b[i]
<1>1. a \o b \in Seq(Nat) /\ Len(a \o b) = Len(a) + Len(b) OBVIOUS
<1>2. \A i \in 1..Len(a) : (a \o b)[i] = a[i] OBVIOUS
<1>3. \A i \in 1..Len(b) : (a \o b)[Len(a) + i] = b[i] OBVIOUS
<1>4. QED BY <1>1, <1>2, <1>3

LEMMA JoinsAlike ==
  ASSUME NEW a \in Seq(Nat), NEW b \in Seq(Nat), NEW e \in Seq(Nat)
  PROVE  (a \o b) \o e = a \o (b \o e)
<1>1. (a \o b) \o e \in Seq(Nat) /\ a \o (b \o e) \in Seq(Nat) OBVIOUS
<1>2. Len((a \o b) \o e) = Len(a \o (b \o e)) OBVIOUS
<1>3. \A i \in 1..Len((a \o b) \o e) : ((a \o b) \o e)[i] = (a \o (b \o e))[i] OBVIOUS
<1>4. QED BY <1>1, <1>2, <1>3, SeqEqual

(* Sequences that lose their first n elements, or get more.                 *)
Drops(q, r, n) == Len(r) = Len(q) - n /\ \A x \in 1..Len(r) : r[x] = q[x + n]
Grows(q, r)    == Len(q) <= Len(r) /\ \A x \in 1..Len(q) : r[x] = q[x]

LEMMA DropsFromBoth ==
  ASSUME NEW a \in Seq(Nat), NEW b \in Seq(Nat), NEW e \in Seq(Nat), NEW n \in Nat,
         Drops(a, b, n)
  PROVE  Drops(a \o e, b \o e, n)
<1>1. Len(b) = Len(a) - n /\ Len(b) \in Nat /\ Len(a) \in Nat /\ Len(e) \in Nat BY DEF Drops
<1>2. Len(a \o e) = Len(a) + Len(e) /\ Len(b \o e) = Len(b) + Len(e) BY Joins
<1>3. ASSUME NEW x \in 1..Len(b) PROVE (b \o e)[x] = (a \o e)[x + n]
  <2>1. x + n \in 1..Len(a) BY <1>1
  <2>2. (a \o e)[x + n] = a[x + n] BY <2>1, Joins
  <2>3. (b \o e)[x] = b[x] BY Joins
  <2>4. QED BY <2>2, <2>3 DEF Drops
<1>4. ASSUME NEW y \in 1..Len(e) PROVE (b \o e)[Len(b) + y] = (a \o e)[(Len(b) + y) + n]
  <2>1. (a \o e)[Len(a) + y] = e[y] /\ (b \o e)[Len(b) + y] = e[y] BY Joins
  <2>2. (Len(b) + y) + n = Len(a) + y BY <1>1
  <2>3. QED BY <2>1, <2>2
<1>5. ASSUME NEW x \in 1..(Len(b) + Len(e)) PROVE (b \o e)[x] = (a \o e)[x + n]
  <2>1. CASE x <= Len(b)
    <3>1. x \in 1..Len(b) BY <1>1, <2>1
    <3>2. QED BY <1>3, <3>1
  <2>2. CASE ~(x <= Len(b))
    <3>1. x - Len(b) \in 1..Len(e) /\ Len(b) + (x - Len(b)) = x BY <1>1, <2>2
    <3>2. QED BY <1>4, <3>1
  <2>3. QED BY <2>1, <2>2
<1>6. Len(b \o e) = Len(a \o e) - n BY <1>1, <1>2
<1>7. QED BY <1>2, <1>5, <1>6 DEF Drops

-----------------------------------------------------------------------------
(* The bytes of a packet.                                                   *)
LEMMA TypeIs == ASSUME NEW h PROVE getType(h, FALSE) \in 1..8
BY DEF getType

LEMMA CutIs ==
  ASSUME NEW d \in Seq(Nat)
  PROVE  /\ Cut(d) \in Seq(Nat) /\ Len(Cut(d)) \in 0..(LengthLimit - 1)
         /\ Len(d) < LengthLimit => Cut(d) = d
<1> DEFINE L == Len(d) % LengthLimit
<1>1. LengthLimit \in Nat \ {0} BY PacketStreamAssumption DEF LengthLimit
<1>2. Len(d) \in Nat /\ L \in 0..(LengthLimit - 1) /\ L <= Len(d) BY <1>1
<1>3. Len(d) < LengthLimit => L = Len(d) BY <1>1, <1>2
<1> HIDE DEF L
<1>4. /\ SubSeq(d, 1, L) \in Seq(Nat) /\ Len(SubSeq(d, 1, L)) = L
      /\ \A i \in 1..L : SubSeq(d, 1, L)[i] = d[i]
  BY <1>2
<1>5. Cut(d) = SubSeq(d, 1, L) BY DEF Cut, L
<1>6. L = Len(d) => Cut(d) = d BY <1>4, <1>5, SeqEqual
<1>7. QED BY <1>2, <1>3, <1>4, <1>5, <1>6

LEMMA LengthIs ==
  ASSUME NEW n \in 0..(LengthLimit - 1)
  PROVE  /\ n % ByteBase \in Nat /\ n \div ByteBase \in Nat
         /\ (n % ByteBase) + (ByteBase * (n \div ByteBase)) = n
BY PacketStreamAssumption DEF LengthLimit

LEMMA WireIs ==
  ASSUME NEW w \in Packet
  PROVE  LET d == Cut(w.data) IN
         /\ w.header \in Headers /\ w.data \in Seq(Nat)
         /\ d \in Seq(Nat) /\ Len(d) \in 0..(LengthLimit - 1) /\ Size(w) \in Nat
         /\ Wire(w) \in Seq(Nat) /\ Len(Wire(w)) = Size(w)
         /\ Wire(w)[1] \in 1..8 /\ Wire(w)[2] = OPEN
         /\ Wire(w)[3] = Letter[w.header] /\ Wire(w)[4] = CLOSE
         /\ Wire(w)[5] = Len(d) % ByteBase /\ Wire(w)[6] = Len(d) \div ByteBase
         /\ \A i \in 1..Len(d) : Wire(w)[6 + i] = d[i]
<1> DEFINE d == Cut(w.data)
           h == w.header
           t == getType(h, FALSE)
<1>1. h \in Headers /\ h \in Sent /\ t # 7 /\ w.data \in Seq(Nat)
  BY PacketStreamAssumption DEF Packet
<1>2. d \in Seq(Nat) /\ Len(d) \in 0..(LengthLimit - 1) BY <1>1, CutIs
<1>3. d # NULL BY <1>2, PacketStreamAssumption
<1>4. t \in 1..8 BY TypeIs
<1>5. Letter[h] \in Nat BY <1>1, PacketStreamAssumption
<1>6. Len(d) % ByteBase \in Nat /\ Len(d) \div ByteBase \in Nat BY <1>2, LengthIs
<1>7. COM_writePacket(h, d, FALSE) = [type |-> t, header |-> h, data |-> d]
  BY <1>1 DEF COM_writePacket
<1> DEFINE g == Letter[h]
           lo == Len(d) % ByteBase
           hi == Len(d) \div ByteBase
           p == [type |-> t, header |-> h, data |-> d]
           q == (<<t>> \o <<OPEN, g, CLOSE>>) \o <<lo, hi>>
<1>8. Wire(w) = COM_serializePacket(p) BY <1>7 DEF Wire
<1>9. COM_serializePacket(p) = ((<<p.type>> \o HeaderBytes(p.header)) \o LengthBytes(Len(p.data))) \o p.data
  <2>1. p.data # NULL BY <1>3
  <2> HIDE DEF p
  <2>2. QED BY <2>1 DEF COM_serializePacket
<1>10. Wire(w) = q \o d BY <1>8, <1>9 DEF HeaderBytes, LengthBytes
<1> HIDE DEF d, t, g, lo, hi, p, q
<1>11. /\ q \in Seq(Nat) /\ Len(q) = 6 /\ q[1] = t /\ q[2] = OPEN /\ q[3] = g
       /\ q[4] = CLOSE /\ q[5] = lo /\ q[6] = hi
  <2>1. t \in Nat /\ OPEN \in Nat /\ g \in Nat /\ CLOSE \in Nat /\ lo \in Nat /\ hi \in Nat
    BY <1>4, <1>5, <1>6 DEF OPEN, CLOSE, g, lo, hi
  <2> DEFINE r == <<t>> \o <<OPEN, g, CLOSE>>
             u == <<lo, hi>>
  <2>2. <<t>> \in Seq(Nat) /\ <<OPEN, g, CLOSE>> \in Seq(Nat) BY <2>1
  <2>3. /\ r \in Seq(Nat) /\ Len(r) = 4
        /\ r[1] = t /\ r[2] = OPEN /\ r[3] = g /\ r[4] = CLOSE
    BY <2>2
  <2>4. u \in Seq(Nat) /\ Len(u) = 2 /\ u[1] = lo /\ u[2] = hi BY <2>1
  <2>5. q = r \o u BY DEF q
  <2> HIDE DEF r, u
  <2>5a. r \in Seq(Nat) /\ u \in Seq(Nat) BY <2>3, <2>4
  <2>5b. /\ q \in Seq(Nat) /\ Len(q) = Len(r) + Len(u)
    BY <2>5a, <2>5, Joins
  <2>6. q \in Seq(Nat) /\ Len(q) = 6 BY <2>3, <2>4, <2>5b
  <2>7. \A i \in 1..Len(r) : q[i] = r[i] BY <2>3, <2>4, <2>5, Joins
  <2>8. \A i \in 1..Len(u) : q[Len(r) + i] = u[i] BY <2>3, <2>4, <2>5, Joins
  <2>9. q[4 + 1] = lo /\ q[4 + 2] = hi BY <2>3, <2>4, <2>8
  <2>10. QED BY <2>3, <2>6, <2>7, <2>9
<1>12. /\ Wire(w) \in Seq(Nat) /\ Len(Wire(w)) = 6 + Len(d)
       /\ \A i \in 1..6 : Wire(w)[i] = q[i]
       /\ \A i \in 1..Len(d) : Wire(w)[6 + i] = d[i]
  <2>0. q \in Seq(Nat) /\ d \in Seq(Nat) BY <1>2, <1>11
  <2>1. Wire(w) \in Seq(Nat) /\ Len(Wire(w)) = Len(q) + Len(d) BY <2>0, <1>10, Joins
  <2>2. \A i \in 1..Len(q) : Wire(w)[i] = q[i] BY <2>0, <1>10, Joins
  <2>3. \A i \in 1..Len(d) : Wire(w)[Len(q) + i] = d[i] BY <2>0, <1>10, Joins
  <2>4. QED BY <1>11, <2>1, <2>2, <2>3
<1>13. /\ Wire(w)[1] = t /\ Wire(w)[2] = OPEN /\ Wire(w)[3] = Letter[h] /\ Wire(w)[4] = CLOSE
       /\ Wire(w)[5] = Len(d) % ByteBase /\ Wire(w)[6] = Len(d) \div ByteBase
  <2>1. Wire(w)[1] = t /\ Wire(w)[2] = OPEN /\ Wire(w)[3] = g /\ Wire(w)[4] = CLOSE
    BY <1>11, <1>12
  <2>2. Wire(w)[5] = lo /\ Wire(w)[6] = hi BY <1>11, <1>12
  <2>3. g = Letter[h] /\ lo = Len(d) % ByteBase /\ hi = Len(d) \div ByteBase BY DEF g, lo, hi
  <2>4. QED BY <2>1, <2>2, <2>3
<1>14. Size(w) = 6 + Len(d) BY DEF Size, d
<1>15. QED BY <1>1, <1>2, <1>4, <1>12, <1>13, <1>14 DEF d

-----------------------------------------------------------------------------
(* Reading and writing. *)
LEMMA ByteComes ==
  ASSUME Typed, arrived # <<>>, arrived' = Tail(arrived), inKernel' = inKernel
  PROVE  /\ Len(Coming) >= 1 /\ Head(arrived) = Coming[1] /\ Head(arrived) \in Nat
         /\ arrived' \in Seq(Nat) /\ Drops(Coming, Coming', 1)
<1>1. arrived \in Seq(Nat) /\ inKernel \in Seq(Nat) BY DEF Typed
<1>2. /\ Head(arrived) = arrived[1] /\ Head(arrived) \in Nat
      /\ arrived' \in Seq(Nat) /\ Len(arrived) >= 1 /\ Len(arrived) \in Nat
  BY <1>1
<1>3. Drops(arrived, arrived', 1) BY <1>1 DEF Drops
<1>4. Coming = arrived \o inKernel /\ Coming' = arrived' \o inKernel BY DEF Coming
<1>5. Drops(Coming, Coming', 1) BY <1>1, <1>2, <1>3, <1>4, DropsFromBoth
<1>6. Len(Coming) >= 1 /\ Coming[1] = arrived[1] BY <1>1, <1>2, <1>4, Joins
<1>7. QED BY <1>2, <1>5, <1>6

LEMMA LengthComes ==
  ASSUME Typed, Len(arrived) >= 2, arrived' = SubSeq(arrived, 3, Len(arrived)),
         inKernel' = inKernel
  PROVE  /\ Len(Coming) >= 2 /\ arrived[1] = Coming[1] /\ arrived[2] = Coming[2]
         /\ arrived' \in Seq(Nat) /\ Drops(Coming, Coming', 2)
<1>1. arrived \in Seq(Nat) /\ inKernel \in Seq(Nat) /\ Len(arrived) \in Nat BY DEF Typed
<1>2. arrived' \in Seq(Nat) /\ Drops(arrived, arrived', 2)
  <2>1. \A i \in 3..Len(arrived) : arrived[i] \in Nat BY <1>1
  <2>2. /\ arrived' \in Seq(Nat)
        /\ Len(arrived') = IF 3 <= Len(arrived) THEN Len(arrived) - 3 + 1 ELSE 0
        /\ \A i \in 1..(Len(arrived) - 3 + 1) : arrived'[i] = arrived[3 + i - 1]
    <3> DEFINE k == Len(arrived)
               s == SubSeq(arrived, 3, k)
    <3>1. k \in Int /\ 3 \in Int /\ (\A i \in 3..k : arrived[i] \in Nat) /\ arrived' = s
      BY <1>1, <2>1
    <3> HIDE DEF k
    <3>2. /\ s \in Seq(Nat) /\ Len(s) = IF 3 <= k THEN k - 3 + 1 ELSE 0
          /\ \A i \in 1..(k - 3 + 1) : s[i] = arrived[3 + i - 1]
      BY ONLY <3>1, SubSeqProperties
    <3> HIDE DEF s
    <3>3. QED BY <3>1, <3>2 DEF k
  <2> DEFINE l == Len(arrived)
             m == Len(arrived')
  <2>3. l \in Nat /\ l >= 2 /\ m = IF 3 <= l THEN l - 3 + 1 ELSE 0 BY <1>1, <2>2
  <2> HIDE DEF l, m
  <2>3a. m = l - 2 BY <2>3
  <2>3b. Len(arrived') = Len(arrived) - 2 BY <2>3a DEF l, m
  <2>4. ASSUME NEW x \in 1..Len(arrived') PROVE arrived'[x] = arrived[x + 2]
    <3>1. x \in 1..(Len(arrived) - 3 + 1) /\ 3 + x - 1 = x + 2 BY <1>1, <2>3b
    <3>2. QED BY <2>2, <3>1
  <2>5. QED BY <2>2, <2>3b, <2>4 DEF Drops
<1>3. Coming = arrived \o inKernel /\ Coming' = arrived' \o inKernel BY DEF Coming
<1>4. Drops(Coming, Coming', 2) BY <1>1, <1>2, <1>3, DropsFromBoth
<1>5. Len(Coming) = Len(arrived) + Len(inKernel) BY <1>1, <1>3, Joins
<1>6. 1 \in 1..Len(arrived) /\ 2 \in 1..Len(arrived) BY <1>1
<1>7. Coming[1] = arrived[1] /\ Coming[2] = arrived[2] BY <1>1, <1>3, <1>6, Joins
<1>8. QED BY <1>1, <1>2, <1>4, <1>5, <1>7

LEMMA BytesAreSent ==
  ASSUME Typed, NEW s \in Seq(Nat), inKernel' = inKernel \o s, arrived' = arrived
  PROVE  /\ inKernel' \in Seq(Nat)
         /\ Len(Coming) \in Nat /\ Len(Coming') = Len(Coming) + Len(s) /\ Grows(Coming, Coming')
         /\ \A x \in 1..Len(s) : Coming'[Len(Coming) + x] = s[x]
<1>1. arrived \in Seq(Nat) /\ inKernel \in Seq(Nat) BY DEF Typed
<1>2. Coming \in Seq(Nat) /\ inKernel' \in Seq(Nat) BY <1>1, Joins DEF Coming
<1>3. Coming' = Coming \o s
  <2>1. (arrived \o inKernel) \o s = arrived \o (inKernel \o s) BY <1>1, JoinsAlike
  <2>2. QED BY <2>1 DEF Coming
<1> DEFINE q == Coming
           r == Coming'
<1>4. q \in Seq(Nat) /\ r = q \o s BY <1>2, <1>3
<1> HIDE DEF q, r
<1>5. /\ Len(r) = Len(q) + Len(s) /\ Len(q) \in Nat /\ Len(s) \in Nat
      /\ \A x \in 1..Len(q) : r[x] = q[x]
      /\ \A x \in 1..Len(s) : r[Len(q) + x] = s[x]
  BY <1>4, Joins
<1>6. Grows(q, r) BY <1>5 DEF Grows
<1>7. QED BY <1>2, <1>5, <1>6 DEF q, r

LEMMA Delivered ==
  ASSUME Typed, NEW n \in 1..Len(inKernel), Deliver(n)
  PROVE  inKernel' \in Seq(Nat) /\ arrived' \in Seq(Nat) /\ Coming' = Coming
<1> DEFINE a == SubSeq(inKernel, 1, n)
           b == SubSeq(inKernel, n + 1, Len(inKernel))
<1>1. arrived \in Seq(Nat) /\ inKernel \in Seq(Nat) BY DEF Typed
<1>2. a \in Seq(Nat) /\ b \in Seq(Nat) BY <1>1
<1>3. a \o b = inKernel
  <2>1. Len(inKernel) \in Nat BY <1>1
  <2>2. 1 \in 1..(Len(inKernel) + 1) /\ n \in 0..Len(inKernel) /\ Len(inKernel) \in n..Len(inKernel)
    BY <2>1
  <2>3. a \o b = SubSeq(inKernel, 1, Len(inKernel)) BY <1>1, <2>1, <2>2, ConcatAdjacentSubSeq
  <2>4. QED BY <1>1, <2>3, SubSeqFull
<1>4. arrived' = arrived \o a /\ inKernel' = b BY DEF Deliver
<1> HIDE DEF a, b
<1>5. (arrived \o a) \o b = arrived \o (a \o b) BY <1>1, <1>2, JoinsAlike
<1>6. arrived' \in Seq(Nat) BY <1>1, <1>2, <1>4, Joins
<1>7. QED BY <1>1, <1>2, <1>3, <1>4, <1>5, <1>6 DEF Coming

-----------------------------------------------------------------------------
(* How packets lie when bytes are read or written.                          *)
LEMMA LiesDropped ==
  ASSUME NEW w \in Packet, NEW p \in Int, NEW n \in Nat, NEW q, NEW r,
         Len(q) \in Nat, Len(r) \in Nat, Drops(q, r, n), Lies(w, p, q)
  PROVE  Lies(w, p - n, r)
<1> SUFFICES ASSUME NEW x \in 1..Size(w), (p - n) + x \in 1..Len(r)
             PROVE  r[(p - n) + x] = Wire(w)[x]
  BY DEF Lies
<1>1. Size(w) \in Nat BY WireIs
<1>2. p + x \in 1..Len(q) /\ ((p - n) + x) + n = p + x BY <1>1 DEF Drops
<1>3. q[p + x] = Wire(w)[x] BY <1>2 DEF Lies
<1>4. QED BY <1>2, <1>3 DEF Drops

LEMMA LiesGrown ==
  ASSUME NEW w \in Packet, NEW p \in Int, NEW q, NEW r,
         Len(q) \in Nat, Grows(q, r), Lies(w, p, q), p + Size(w) <= Len(q)
  PROVE  Lies(w, p, r)
<1> SUFFICES ASSUME NEW x \in 1..Size(w), p + x \in 1..Len(r)
             PROVE  r[p + x] = Wire(w)[x]
  BY DEF Lies
<1>1. Size(w) \in Nat BY WireIs
<1>2. p + x \in 1..Len(q) BY <1>1
<1>3. q[p + x] = Wire(w)[x] BY <1>2 DEF Lies
<1>4. QED BY <1>2, <1>3 DEF Grows

LEMMA ReadSoFarIs ==
  ASSUME Typed
  PROVE  /\ ReadSoFar \in Nat /\ Len(got) \in Nat /\ Len(written) \in Nat
         /\ Coming \in Seq(Nat) /\ Len(Coming) \in Nat
         /\ Coming = <<>> <=> Len(Coming) = 0
         /\ Coming = <<>> <=> arrived = <<>> /\ inKernel = <<>>
<1>1. arrived \in Seq(Nat) /\ inKernel \in Seq(Nat) BY DEF Typed
<1>2. ReadSoFar \in Nat /\ Len(got) \in Nat /\ Len(written) \in Nat BY DEF Typed, ReadSoFar
<1>3. Coming \in Seq(Nat) /\ Len(Coming) = Len(arrived) + Len(inKernel) BY <1>1, Joins DEF Coming
<1>4. Len(Coming) \in Nat /\ (Coming = <<>> <=> Len(Coming) = 0) BY <1>3
<1>5. Len(arrived) \in Nat /\ Len(inKernel) \in Nat
      /\ (arrived = <<>> <=> Len(arrived) = 0) /\ (inKernel = <<>> <=> Len(inKernel) = 0)
  BY <1>1
<1>6. QED BY <1>2, <1>3, <1>4, <1>5

(* The packet that the reader is at. *)
LEMMA AtPacket ==
  ASSUME Typed, NEW W, NEW o, Follows(W, o), Len(got) < Len(W), NEW w, w = W[Len(got) + 1]
  PROVE  /\ w \in Packet /\ Reading(w) /\ Len(W) \in Nat
         /\ o[Len(got) + 1] = -ReadSoFar /\ o[Len(got) + 2] = Size(w) - ReadSoFar
         /\ \A x \in 1..Len(Coming) : ReadSoFar + x <= Size(w) =>
              Coming[x] = Wire(w)[ReadSoFar + x]
<1> DEFINE k == Len(got) + 1
<1>1. /\ W \in Seq(Packet) /\ o \in [1..(Len(W) + 1) -> Int] /\ Len(W) \in Nat
      /\ o[k] = -ReadSoFar /\ Reading(w)
      /\ \A i \in k..Len(W) : o[i + 1] = o[i] + Size(W[i]) /\ Lies(W[i], o[i], Coming)
  BY DEF Follows
<1>2. k \in Nat /\ k \in k..Len(W) /\ k \in 1..Len(W) BY <1>1, ReadSoFarIs
<1>3. w \in Packet BY <1>1, <1>2
<1>4. Size(w) \in Nat BY <1>3, WireIs
<1>5. o[k + 1] = o[k] + Size(w) /\ Lies(w, o[k], Coming) BY <1>1, <1>2
<1>6. k + 1 = Len(got) + 2 BY ReadSoFarIs
<1>7. o[Len(got) + 2] = Size(w) - ReadSoFar BY <1>1, <1>4, <1>5, <1>6, ReadSoFarIs
<1>8. ASSUME NEW x \in 1..Len(Coming), ReadSoFar + x <= Size(w)
      PROVE  Coming[x] = Wire(w)[ReadSoFar + x]
  <2>1. ReadSoFar + x \in 1..Size(w) /\ -ReadSoFar + (ReadSoFar + x) = x
    BY <1>4, <1>8, ReadSoFarIs
  <2>2. QED BY <1>1, <1>5, <2>1 DEF Lies
<1>9. QED BY <1>1, <1>3, <1>7, <1>8

LEMMA SomethingComes ==
  ASSUME Typed, NEW W, NEW o, Follows(W, o), Len(Coming) >= 1
  PROVE  Len(got) < Len(W)
<1>1. /\ Len(W) \in Nat /\ Len(got) <= Len(W)
      /\ Len(got) = Len(W) => pc = "header" /\ buff = <<>> /\ ~torn
      /\ ~torn => Len(Coming) = o[Len(W) + 1]
      /\ o[Len(got) + 1] = -ReadSoFar
  BY DEF Follows
<1>2. SUFFICES ASSUME Len(got) = Len(W) PROVE FALSE BY <1>1, ReadSoFarIs
<1>3. ReadSoFar = 0 BY <1>1, <1>2 DEF ReadSoFar
<1>4. QED BY <1>1, <1>2, <1>3

LEMMA OnlyTorn ==
  ASSUME Typed, NEW W, NEW o, Follows(W, o), Coming = <<>>, Len(got) < Len(W),
         ReadSoFar < Size(W[Len(got) + 1])
  PROVE  torn /\ Len(got) = Len(written)
<1> DEFINE k == Len(got)
<1>1. o[k + 2] = Size(W[k + 1]) - ReadSoFar /\ W[k + 1] \in Packet BY AtPacket
<1>2. Size(W[k + 1]) \in Nat BY <1>1, WireIs
<1>3. o[k + 2] > 0 BY <1>1, <1>2, ReadSoFarIs
<1>4. /\ Len(W) \in Nat /\ Len(W) = Len(written) + (IF torn THEN 1 ELSE 0)
      /\ o \in [1..(Len(W) + 1) -> Int]
      /\ \A i, j \in (k + 1)..(Len(W) + 1) : i <= j => o[i] <= o[j]
      /\ ~torn => Len(Coming) = o[Len(W) + 1]
      /\ torn  => o[Len(W)] <= Len(Coming)
  BY DEF Follows
<1>5. Len(Coming) = 0 /\ k \in Nat BY ReadSoFarIs
<1>6. \A j \in (k + 2)..(Len(W) + 1) : o[j] > 0
  <2> SUFFICES ASSUME NEW j \in (k + 2)..(Len(W) + 1) PROVE o[j] > 0 OBVIOUS
  <2>1. j \in 1..(Len(W) + 1) /\ k + 2 \in 1..(Len(W) + 1) BY <1>4, <1>5
  <2>2. o[k + 2] <= o[j] BY <1>4, <1>5
  <2>3. QED BY <1>3, <1>4, <2>1, <2>2
<1>7. torn
  <2>1. Len(W) + 1 \in (k + 2)..(Len(W) + 1) BY <1>4, <1>5
  <2>2. QED BY <1>4, <1>5, <1>6, <2>1
<1>8. Len(W) \notin (k + 2)..(Len(W) + 1)
  <2> SUFFICES ASSUME Len(W) \in (k + 2)..(Len(W) + 1) PROVE FALSE OBVIOUS
  <2>1. o[Len(W)] > 0 /\ o[Len(W)] <= 0 BY <1>4, <1>5, <1>6, <1>7
  <2>2. Len(W) \in 1..(Len(W) + 1) BY <1>4, <1>5
  <2>3. o[Len(W)] \in Int BY <1>4, <2>2
  <2>4. QED BY <2>1, <2>3
<1>9. QED BY <1>4, <1>5, <1>7, <1>8, ReadSoFarIs

(* The reader reads n bytes of the packet that it is at. *)
LEMMA Advance ==
  ASSUME Typed, NEW W, NEW o, Follows(W, o), NEW n \in Nat,
         got' = got, written' = written, torn' = torn,
         Len(got) < Len(W), Len(Coming') \in Nat, Drops(Coming, Coming', n),
         ReadSoFar' = ReadSoFar + n, NEW w, w = W[Len(got) + 1], Reading(w)'
  PROVE  \E p : Follows(W, p)'
<1> DEFINE p == [i \in 1..(Len(W) + 1) |-> o[i] - n]
<1>1. /\ W \in Seq(Packet) /\ Len(W) = Len(written) + (IF torn THEN 1 ELSE 0)
      /\ \A i \in 1..Len(written) : W[i] = written[i]
      /\ o \in [1..(Len(W) + 1) -> Int] /\ Len(W) \in Nat
      /\ Len(got) <= Len(W) /\ o[Len(got) + 1] = -ReadSoFar
      /\ ~torn => Len(Coming) = o[Len(W) + 1]
      /\ torn  => Len(got) < Len(W) /\ o[Len(W)] <= Len(Coming) /\ Len(Coming) < o[Len(W) + 1]
  BY DEF Follows
<1>2. \A i \in (Len(got) + 1)..Len(W) : o[i + 1] = o[i] + Size(W[i]) /\ Lies(W[i], o[i], Coming)
  BY DEF Follows
<1>3. \A i, j \in (Len(got) + 1)..(Len(W) + 1) : i <= j => o[i] <= o[j] BY DEF Follows
<1>4. ReadSoFar \in Nat /\ Len(got) \in Nat /\ Len(Coming) \in Nat BY ReadSoFarIs
<1>5. \A i \in 1..(Len(W) + 1) : p[i] = o[i] - n /\ o[i] \in Int BY <1>1
<1>6. p \in [1..(Len(W) + 1) -> Int] BY <1>1
<1> HIDE DEF p
<1>7. p[Len(got) + 1] = -(ReadSoFar')
  <2>1. Len(got) + 1 \in 1..(Len(W) + 1) BY <1>1, <1>4
  <2>2. QED BY <1>1, <1>4, <1>5, <2>1
<1>8. ASSUME NEW i \in (Len(got) + 1)..Len(W)
      PROVE  p[i + 1] = p[i] + Size(W[i]) /\ Lies(W[i], p[i], Coming')
  <2>1. i \in 1..Len(W) /\ i \in 1..(Len(W) + 1) /\ i + 1 \in 1..(Len(W) + 1) BY <1>1, <1>4
  <2>2. W[i] \in Packet BY <1>1, <2>1
  <2>3. Size(W[i]) \in Nat BY <2>2, WireIs
  <2>4. o[i + 1] = o[i] + Size(W[i]) /\ Lies(W[i], o[i], Coming) BY <1>2
  <2>5. o[i] \in Int /\ p[i] = o[i] - n /\ p[i + 1] = o[i + 1] - n BY <1>5, <2>1
  <2>6. Lies(W[i], o[i] - n, Coming') BY <1>4, <2>2, <2>4, <2>5, LiesDropped
  <2>7. QED BY <2>3, <2>4, <2>5, <2>6
<1>9. ASSUME NEW i \in (Len(got) + 1)..(Len(W) + 1), NEW j \in (Len(got) + 1)..(Len(W) + 1), i <= j
      PROVE  p[i] <= p[j]
  <2>1. i \in 1..(Len(W) + 1) /\ j \in 1..(Len(W) + 1) BY <1>1, <1>4
  <2>2. o[i] <= o[j] BY <1>3, <1>9
  <2>3. QED BY <1>5, <2>1, <2>2
<1>10. Len(Coming') = Len(Coming) - n BY DEF Drops
<1>11. /\ ~torn => Len(Coming') = p[Len(W) + 1]
       /\ torn  => p[Len(W)] <= Len(Coming') /\ Len(Coming') < p[Len(W) + 1]
  <2>1. Len(W) + 1 \in 1..(Len(W) + 1) BY <1>1
  <2>2. Len(W) \in 1..(Len(W) + 1) BY <1>1, <1>4
  <2>3. p[Len(W) + 1] = o[Len(W) + 1] - n /\ o[Len(W) + 1] \in Int BY <1>5, <2>1
  <2>4. p[Len(W)] = o[Len(W)] - n /\ o[Len(W)] \in Int BY <1>5, <2>2
  <2> DEFINE x == o[Len(W)]
             y == o[Len(W) + 1]
             z == Len(Coming)
  <2>5. x \in Int /\ y \in Int /\ z \in Int /\ (~torn => z = y) /\ (torn => x <= z /\ z < y)
    BY <1>1, <1>4, <2>3, <2>4
  <2> HIDE DEF x, y, z
  <2>6. (~torn => z - n = y - n) /\ (torn => x - n <= z - n /\ z - n < y - n) BY <2>5
  <2>7. QED BY <1>10, <2>3, <2>4, <2>6 DEF x, y, z
<1>12. Len(got) # Len(W) BY <1>1, <1>4
<1>13. Follows(W, p)'
  BY <1>1, <1>6, <1>7, <1>8, <1>9, <1>11, <1>12 DEF Follows
<1>14. QED BY <1>13

(* The writer adds the first m bytes of w, all of them or fewer. *)
LEMMA Extends ==
  ASSUME Typed, NEW W, NEW o, Follows(W, o), ~torn, NEW w \in Packet, NEW m \in 0..Size(w),
         Len(Coming') = Len(Coming) + m, Grows(Coming, Coming'),
         \A x \in 1..m : Coming'[Len(Coming) + x] = Wire(w)[x],
         UNCHANGED readerVars,
         \/ ~torn' /\ m = Size(w) /\ written' = Append(written, w)
         \/ torn' /\ m < Size(w) /\ written' = written
  PROVE  \E V, p : Follows(V, p)'
<1> DEFINE N == Len(W)
           V == Append(W, w)
           p == [i \in 1..(N + 2) |-> IF i <= N + 1 THEN o[i] ELSE o[N + 1] + Size(w)]
<1>1. /\ W \in Seq(Packet) /\ N = Len(written)
      /\ \A i \in 1..Len(written) : W[i] = written[i]
      /\ o \in [1..(N + 1) -> Int] /\ N \in Nat
      /\ Len(got) <= N /\ o[Len(got) + 1] = -ReadSoFar
      /\ Len(Coming) = o[N + 1]
      /\ Len(got) < N => Reading(W[Len(got) + 1])
      /\ Len(got) = N => pc = "header" /\ buff = <<>>
  <2>1. /\ W \in Seq(Packet) /\ Len(W) = Len(written) + (IF torn THEN 1 ELSE 0)
        /\ \A i \in 1..Len(written) : W[i] = written[i]
        /\ o \in [1..(Len(W) + 1) -> Int]
        /\ Len(got) <= Len(W) /\ o[Len(got) + 1] = -ReadSoFar
        /\ ~torn => Len(Coming) = o[Len(W) + 1]
        /\ Len(got) < Len(W) => Reading(W[Len(got) + 1])
        /\ Len(got) = Len(W) => pc = "header" /\ buff = <<>>
    BY DEF Follows
  <2>2. Len(written) \in Nat BY ReadSoFarIs
  <2>3. N = Len(written) BY <2>1, <2>2
  <2>4. QED BY <2>1, <2>2, <2>3
<1>2. \A i \in (Len(got) + 1)..N : o[i + 1] = o[i] + Size(W[i]) /\ Lies(W[i], o[i], Coming)
  BY DEF Follows
<1>3. \A i, j \in (Len(got) + 1)..(N + 1) : i <= j => o[i] <= o[j] BY DEF Follows
<1>4. ReadSoFar \in Nat /\ Len(got) \in Nat /\ Len(Coming) \in Nat /\ Size(w) \in Nat
  BY ReadSoFarIs, WireIs
<1>5. V \in Seq(Packet) /\ Len(V) = N + 1 /\ V[N + 1] = w /\ \A i \in 1..N : V[i] = W[i]
  BY <1>1
<1>6. /\ \A i \in 1..(N + 1) : p[i] = o[i] /\ o[i] \in Int
      /\ p[N + 2] = Len(Coming) + Size(w) /\ p \in [1..(N + 2) -> Int]
  <2>1. \A i \in 1..(N + 1) : i \in 1..(N + 2) /\ i <= N + 1 /\ o[i] \in Int BY <1>1
  <2>2. \A i \in 1..(N + 1) : p[i] = o[i] BY <2>1
  <2>3. N + 2 \in 1..(N + 2) /\ ~(N + 2 <= N + 1) BY <1>1
  <2>4. p[N + 2] = Len(Coming) + Size(w) BY <1>1, <2>3
  <2>5. \A i \in 1..(N + 2) : ~(i <= N + 1) => i = N + 2 BY <1>1
  <2>6. Len(Coming) + Size(w) \in Int BY <1>4
  <2>7. \A i \in 1..(N + 2) : p[i] \in Int
    <3> SUFFICES ASSUME NEW i \in 1..(N + 2) PROVE p[i] \in Int OBVIOUS
    <3>1. CASE i <= N + 1
      <4>1. i \in 1..(N + 1) BY <1>1, <3>1
      <4>2. QED BY <2>1, <2>2, <4>1
    <3>2. CASE ~(i <= N + 1) BY <2>4, <2>5, <2>6, <3>2
    <3>3. QED BY <3>1, <3>2
  <2>8. p = [i \in 1..(N + 2) |-> p[i]] OBVIOUS
  <2> HIDE DEF p
  <2>9. p \in [1..(N + 2) -> Int] BY <2>7, <2>8
  <2>10. QED BY <2>1, <2>2, <2>4, <2>9
<1> HIDE DEF V, p
<1>7. got' = got /\ ReadSoFar' = ReadSoFar /\ pc' = pc /\ buff' = buff
      /\ \A y : Reading(y)' <=> Reading(y)
  BY DEF readerVars, ReadSoFar, Reading
<1>8. p[Len(got) + 1] = -ReadSoFar
  <2>1. Len(got) + 1 \in 1..(N + 1) BY <1>1, <1>4
  <2>2. QED BY <1>1, <1>6, <2>1
<1>9. Lies(w, Len(Coming), Coming')
  <2> SUFFICES ASSUME NEW x \in 1..Size(w), Len(Coming) + x \in 1..Len(Coming')
               PROVE  Coming'[Len(Coming) + x] = Wire(w)[x]
    BY DEF Lies
  <2>1. x \in 1..m BY <1>4
  <2>2. QED BY <2>1
<1>10. ASSUME NEW i \in (Len(got) + 1)..(N + 1)
       PROVE  p[i + 1] = p[i] + Size(V[i]) /\ Lies(V[i], p[i], Coming')
  <2>1. CASE i = N + 1
    <3>0. N + 1 \in 1..(N + 1) /\ i + 1 = N + 2 BY <1>1, <2>1
    <3>1. p[i] = Len(Coming) /\ V[i] = w /\ p[i + 1] = Len(Coming) + Size(w)
      BY <1>1, <1>5, <1>6, <2>1, <3>0
    <3>2. QED BY <1>9, <3>1
  <2>2. CASE i # N + 1
    <3>1. i \in (Len(got) + 1)..N /\ i \in 1..N /\ i \in 1..(N + 1) /\ i + 1 \in 1..(N + 1)
          /\ i + 1 \in (Len(got) + 1)..(N + 1) /\ N + 1 \in (Len(got) + 1)..(N + 1) /\ i + 1 <= N + 1
      BY <1>1, <1>4, <2>2
    <3>2. p[i] = o[i] /\ p[i + 1] = o[i + 1] /\ o[i] \in Int BY <1>6, <3>1
    <3>3. V[i] = W[i] BY <1>5, <3>1
    <3>4. W[i] \in Packet BY <1>1, <3>1
    <3>5. o[i + 1] = o[i] + Size(W[i]) /\ Lies(W[i], o[i], Coming) BY <1>2, <3>1
    <3>6. o[i + 1] <= o[N + 1] BY <1>3, <3>1
    <3>7. o[i] + Size(W[i]) <= Len(Coming) BY <1>1, <3>5, <3>6
    <3>8. Lies(W[i], o[i], Coming') BY <1>4, <3>2, <3>4, <3>5, <3>7, LiesGrown
    <3>9. QED BY <3>2, <3>3, <3>5, <3>8
  <2>3. QED BY <2>1, <2>2
<1>11. ASSUME NEW i \in (Len(got) + 1)..(N + 2), NEW j \in (Len(got) + 1)..(N + 2), i <= j
       PROVE  p[i] <= p[j]
  <2>1. i \in 1..(N + 2) /\ j \in 1..(N + 2) BY <1>1, <1>4
  <2>2. CASE j <= N + 1
    <3>1. /\ i \in (Len(got) + 1)..(N + 1) /\ j \in (Len(got) + 1)..(N + 1)
          /\ i \in 1..(N + 1) /\ j \in 1..(N + 1)
      BY <1>1, <1>4, <1>11, <2>2
    <3>2. QED BY <1>3, <1>6, <1>11, <3>1
  <2>3. CASE j = N + 2 /\ i <= N + 1
    <3>1. i \in (Len(got) + 1)..(N + 1) /\ N + 1 \in (Len(got) + 1)..(N + 1) /\ i \in 1..(N + 1)
      BY <1>1, <1>4, <2>3
    <3>2. o[i] <= o[N + 1] /\ p[i] = o[i] /\ o[i] \in Int BY <1>3, <1>6, <2>3, <3>1
    <3>3. QED BY <1>1, <1>4, <1>6, <2>3, <3>2
  <2>4. CASE j = N + 2 /\ i = N + 2 BY <1>4, <1>6, <2>4
  <2>5. QED BY <1>1, <1>11, <2>1, <2>2, <2>3, <2>4
<1>12. Len(got) < N + 1 /\ Len(got) # N + 1 BY <1>1, <1>4
<1>13. Reading(V[Len(got) + 1])
  <2>1. CASE Len(got) < N
    <3>1. Len(got) + 1 \in 1..N BY <1>1, <1>4, <2>1
    <3>2. QED BY <1>1, <1>5, <2>1, <3>1
  <2>2. CASE Len(got) = N BY <1>1, <2>2 DEF Reading
  <2>3. QED BY <1>1, <1>4, <2>1, <2>2
<1>14. /\ Len(V) = Len(written') + (IF torn' THEN 1 ELSE 0)
       /\ \A i \in 1..Len(written') : V[i] = written'[i]
  <2>0. written \in Seq(Packet) BY DEF Typed
  <2>1. CASE ~torn' /\ written' = Append(written, w)
    <3>1. /\ Len(written') = Len(written) + 1 /\ written'[Len(written) + 1] = w
          /\ \A i \in 1..Len(written) : written'[i] = written[i]
      BY <2>0, <2>1
    <3>2. ASSUME NEW i \in 1..(N + 1) PROVE V[i] = written'[i]
      <4>1. CASE i = N + 1 BY <1>1, <1>5, <3>1, <4>1
      <4>2. CASE i # N + 1
        <5>1. i \in 1..N BY <1>1, <4>2
        <5>2. QED BY <1>1, <1>5, <3>1, <5>1
      <4>3. QED BY <4>1, <4>2
    <3>3. QED BY <1>1, <1>5, <2>1, <3>1, <3>2
  <2>2. CASE torn' /\ written' = written BY <1>1, <1>5, <2>2
  <2>3. QED BY <2>1, <2>2
<1>15. /\ ~torn' => Len(Coming') = p[N + 2]
       /\ torn'  => p[N + 1] <= Len(Coming') /\ Len(Coming') < p[N + 2]
  <2>0. N + 1 \in 1..(N + 1) BY <1>1
  <2>1. p[N + 1] = Len(Coming) BY <1>1, <1>6, <2>0
  <2> DEFINE z == Len(Coming)
             u == Size(w)
  <2>2. /\ z \in Int /\ u \in Int /\ m \in 0..u /\ p[N + 2] = z + u /\ p[N + 1] = z
        /\ Len(Coming') = z + m
    BY <1>4, <1>6, <2>1
  <2>3. (~torn' => m = u) /\ (torn' => m < u) OBVIOUS
  <2> HIDE DEF z, u
  <2>4. QED BY <2>2, <2>3
<1>16. Follows(V, p)'
  <2>1. N + 2 = (N + 1) + 1 BY <1>1
  <2> HIDE DEF N
  <2>2. p \in [1..((N + 1) + 1) -> Int] BY <1>6, <2>1
  <2>3. \A i, j \in (Len(got) + 1)..((N + 1) + 1) : i <= j => p[i] <= p[j] BY <1>11, <2>1
  <2>4. \A i \in (Len(got) + 1)..(N + 1) : p[i + 1] = p[i] + Size(V[i]) /\ Lies(V[i], p[i], Coming')
    BY <1>10
  <2>5. /\ ~torn' => Len(Coming') = p[(N + 1) + 1]
        /\ torn'  => p[N + 1] <= Len(Coming') /\ Len(Coming') < p[(N + 1) + 1]
    BY <1>15, <2>1
  <2>6. Reading(V[Len(got) + 1])' BY <1>7, <1>13
  <2>7. Len(V) = N + 1 /\ V \in Seq(Packet) BY <1>5
  <2> DEFINE g == Len(got)
  <2>8. Len(got') = g BY <1>7
  <2>9. p \in [1..(Len(V) + 1) -> Int] BY <2>2, <2>7
  <2>10. g <= Len(V) /\ g # Len(V) /\ p[g + 1] = -(ReadSoFar') BY <1>7, <1>8, <1>12, <2>7
  <2>11. \A i \in (g + 1)..Len(V) : p[i + 1] = p[i] + Size(V[i]) /\ Lies(V[i], p[i], Coming')
    BY <2>4, <2>7, <2>8
  <2>12. \A i, j \in (g + 1)..(Len(V) + 1) : i <= j => p[i] <= p[j] BY <2>3, <2>7, <2>8
  <2>13. ~torn' => Len(Coming') = p[Len(V) + 1] BY <2>5, <2>7
  <2>14. torn' => g < Len(V) /\ p[Len(V)] <= Len(Coming') /\ Len(Coming') < p[Len(V) + 1]
    BY <1>12, <2>5, <2>7, <2>8
  <2>15. Reading(V[g + 1])' BY <2>6
  <2>16. QED
    BY <1>14, <2>7, <2>8, <2>9, <2>10, <2>11, <2>12, <2>13, <2>14, <2>15 DEF Follows
<1>17. QED BY <1>16

-----------------------------------------------------------------------------
(* The steps of the reader. *)
LEMMA GotStays ==
  ASSUME got' = got, written' = written, torn' = torn, GotRight
  PROVE  GotRight'
BY DEF GotRight, Right

(* What the reader knows of the packet that it is at. *)
LEMMA ReadingIs ==
  ASSUME Typed, NEW W, NEW o, Follows(W, o), Len(got) < Len(W), NEW w, w = W[Len(got) + 1]
  PROVE  /\ w \in Packet /\ Len(buff) \in 0..3 /\ Len(data) \in Nat /\ Len(buff) \in Nat
         /\ pc # "header" => Len(buff) = 3
         /\ Size(w) \in Nat /\ Size(w) >= 6
         /\ pc \in {"header", "length"} => ReadSoFar + 2 <= Size(w)
<1>1. w \in Packet /\ Reading(w) BY AtPacket
<1>2. Size(w) = 6 + Len(Cut(w.data)) /\ Len(Cut(w.data)) \in Nat BY <1>1, WireIs DEF Size
<1>3. Len(buff) \in Nat /\ Len(data) \in Nat BY DEF Typed
<1>4. Len(buff) <= 3 /\ (pc # "header" => Len(buff) = 3) BY <1>1 DEF Reading
<1>5. pc \in {"header", "length"} => ReadSoFar <= 4 BY <1>3, <1>4 DEF ReadSoFar
<1>6. Size(w) \in Nat /\ Size(w) >= 6 BY <1>2
<1>7. Len(buff) \in 0..3
  <2> DEFINE n == Len(buff)
  <2>1. n \in Nat BY <1>3
  <2>2. n <= 3 BY <1>4
  <2> HIDE DEF n
  <2>3. n \in 0..3 BY <2>1, <2>2
  <2>4. QED BY <2>3 DEF n
<1>8. pc \in {"header", "length"} => ReadSoFar + 2 <= Size(w) BY <1>5, <1>6, ReadSoFarIs
<1>9. QED BY <1>1, <1>3, <1>4, <1>6, <1>7, <1>8

LEMMA UntilTyped == ASSUME Typed, readUntil PROVE Typed'
<1>1. arrived' \in Seq(Nat) /\ c' \in Nat
  <2>1. CASE arrived # <<>> /\ c' = Head(arrived) /\ arrived' = Tail(arrived)
    BY <2>1 DEF Typed
  <2>2. CASE AtEnd /\ c' = c /\ UNCHANGED arrived BY <2>2 DEF Typed
  <2>3. QED BY <2>1, <2>2 DEF readUntil, ReadByte
<1>2. buff' \in Seq(Nat)
  <2>1. buff' = buff \/ buff' = Append(buff, c') BY DEF readUntil, GiveUp
  <2>2. buff \in Seq(Nat) BY DEF Typed
  <2>3. c' \in Nat BY <1>1
  <2>4. Append(buff, c') \in Seq(Nat) BY <2>2, <2>3
  <2>5. QED BY <2>1, <2>2, <2>4
<1>3. pc' \in {"header", "length", "closed", "spins"} BY DEF readUntil, GiveUp
<1>4. length' = length /\ data' = data /\ got' = got /\ short' = short
  BY DEF readUntil, GiveUp
<1>5. UNCHANGED <<written, torn, inKernel, closed>> BY DEF readUntil, ReaderStays, writerVars
<1>6. QED BY <1>1, <1>2, <1>3, <1>4, <1>5 DEF Typed

LEMMA UntilKeeps == ASSUME Inv, readUntil PROVE Inv'
<1>1. UNCHANGED <<written, torn, inKernel, closed, length, data, got, short>> /\ pc = "header"
  BY DEF readUntil, ReaderStays, GiveUp, writerVars
<1>2. Typed /\ Typed' /\ (torn => closed)' BY <1>1, UntilTyped DEF Inv
<1> SUFFICES ASSUME ~short PROVE GotRight' /\ Tracks' BY <1>1, <1>2 DEF Inv
<1>3. GotRight' BY <1>1, GotStays DEF Inv
<1>4. CASE ~Active' BY <1>3, <1>4 DEF Tracks
<1>5. CASE Active'
  <2>1. /\ ~AtEnd /\ UNCHANGED <<length, data, got>>
        /\ \/ c' = CLOSE /\ pc' = "length" /\ buff' = buff
           \/ c' # CLOSE /\ pc' = pc /\ buff' = Append(buff, c')
    BY <1>5 DEF readUntil, GiveUp, Active
  <2>2. arrived # <<>> /\ c' = Head(arrived) /\ arrived' = Tail(arrived)
    BY <2>1 DEF readUntil, ReadByte
  <2>3. /\ Len(Coming) >= 1 /\ c' = Coming[1] /\ c' \in Nat /\ Drops(Coming, Coming', 1)
    BY <1>1, <1>2, <2>2, ByteComes
  <2>4. Len(Coming) \in Nat /\ Len(Coming') \in Nat /\ Coming # <<>>
    BY <1>2, <2>3, ReadSoFarIs DEF Drops
  <2>5. PICK W, o : Follows(W, o)
    BY <1>1, <2>4 DEF Inv, Tracks, Active, Lost
  <2>6. Len(got) < Len(W) BY <1>2, <2>3, <2>5, SomethingComes
  <2> PICK w : w = W[Len(got) + 1] OBVIOUS
  <2> DEFINE n == Len(buff)
  <2>7. /\ w \in Packet /\ Reading(w)
        /\ \A x \in 1..Len(Coming) : ReadSoFar + x <= Size(w) => Coming[x] = Wire(w)[ReadSoFar + x]
    BY <1>2, <2>5, <2>6, AtPacket
  <2>8. n \in 0..3 /\ ReadSoFar = n /\ n + 2 <= Size(w) /\ Size(w) \in Nat
    BY <1>1, <1>2, <2>5, <2>6, ReadingIs DEF ReadSoFar
  <2>9. c' = Wire(w)[n + 1]
    <3>1. 1 \in 1..Len(Coming) /\ ReadSoFar + 1 <= Size(w) BY <2>3, <2>4, <2>8
    <3>2. QED BY <2>3, <2>7, <2>8, <3>1
  <2>10. c' = CLOSE <=> n = 3
    <3>0. w.header \in Headers /\ Wire(w)[3] = Letter[w.header] BY <2>7, WireIs
    <3>a. Letter[w.header] # CLOSE BY <3>0, PacketStreamAssumption
    <3>1. /\ Wire(w)[1] \in 1..8 /\ Wire(w)[2] = OPEN /\ Wire(w)[3] # CLOSE /\ Wire(w)[4] = CLOSE
      BY <2>7, <3>0, <3>a, WireIs
    <3>2. n = 0 \/ n = 1 \/ n = 2 \/ n = 3 BY <2>8
    <3>3. CASE n = 0 BY <2>9, <3>1, <3>3 DEF CLOSE
    <3>4. CASE n = 1 BY <2>9, <3>1, <3>4 DEF OPEN, CLOSE
    <3>5. CASE n = 2 BY <2>9, <3>1, <3>5
    <3>6. CASE n = 3 BY <2>9, <3>1, <3>6
    <3>7. QED BY <3>2, <3>3, <3>4, <3>5, <3>6
  <2>11. ReadSoFar' = ReadSoFar + 1 /\ Reading(w)'
    <3>1. CASE c' = CLOSE /\ pc' = "length" /\ buff' = buff
      <4>1. ReadSoFar' = 4 /\ n = 3 BY <2>10, <3>1 DEF ReadSoFar
      <4>2. \A x \in 1..Len(buff) : buff'[x] = Wire(w)[x] BY <2>7, <3>1 DEF Reading
      <4>3. Reading(w)' BY <1>1, <3>1, <4>1, <4>2 DEF Reading
      <4>4. QED BY <2>8, <4>1, <4>3
    <3>2. CASE c' # CLOSE /\ pc' = pc /\ buff' = Append(buff, c')
      <4>0. buff \in Seq(Nat) BY <1>2 DEF Typed
      <4>1. /\ Len(buff') = n + 1 /\ buff'[n + 1] = c' /\ \A x \in 1..n : buff'[x] = buff[x]
        BY <2>3, <3>2, <4>0
      <4>2. \A x \in 1..n : buff[x] = Wire(w)[x] BY <2>7 DEF Reading
      <4>3. n \in 0..2 BY <2>8, <2>10, <3>2
      <4>4. \A x \in 1..(n + 1) : x \in 1..n \/ x = n + 1 BY <4>3
      <4> HIDE DEF n
      <4>5. \A x \in 1..(n + 1) : buff'[x] = Wire(w)[x] BY <2>9, <4>1, <4>2, <4>4
      <4>6. Reading(w)' BY <1>1, <3>2, <4>1, <4>3, <4>5 DEF Reading
      <4>7. ReadSoFar' = n + 1 BY <1>1, <3>2, <4>1 DEF ReadSoFar
      <4>8. QED BY <2>8, <4>6, <4>7
    <3>3. QED BY <2>1, <3>1, <3>2
  <2>12. \E p : Follows(W, p)'
    <3> HIDE DEF n
    <3>1. QED BY <1>1, <1>2, <2>3, <2>4, <2>5, <2>6, <2>11, Advance
  <2>13. QED BY <1>3, <2>12 DEF Tracks
<1>6. QED BY <1>4, <1>5

LEMMA DataTyped == ASSUME Typed, readData PROVE Typed'
<1>1. arrived' \in Seq(Nat) /\ c' \in Nat
  <2>1. CASE arrived # <<>> /\ c' = Head(arrived) /\ arrived' = Tail(arrived)
    BY <2>1 DEF Typed
  <2>2. CASE AtEnd /\ c' = c /\ UNCHANGED arrived BY <2>2 DEF Typed
  <2>3. QED BY <2>1, <2>2 DEF readData, ReadByte
<1>2. data' \in Seq(Nat) BY <1>1 DEF readData, Typed
<1>3. UNCHANGED <<pc, buff, length, got, short, written, torn, inKernel, closed>>
  BY DEF readData, ReaderStays, writerVars
<1>4. QED BY <1>1, <1>2, <1>3 DEF Typed

LEMMA DataKeeps == ASSUME Inv, readData PROVE Inv'
<1>1. /\ UNCHANGED <<pc, buff, length, got, short, written, torn, inKernel, closed>>
      /\ pc = "data" /\ data' = Append(data, c') /\ Len(data) < length
  BY DEF readData, ReaderStays, writerVars
<1>2. Typed /\ Typed' /\ (torn => closed)' BY <1>1, DataTyped DEF Inv
<1> SUFFICES ASSUME ~short PROVE GotRight' /\ Tracks' BY <1>1, <1>2 DEF Inv
<1>3. GotRight' BY <1>1, GotStays DEF Inv
<1>4. CASE Lost
  <2>1. arrived = <<>> BY <1>2, <1>4, ReadSoFarIs DEF Lost
  <2>2. arrived' = arrived BY <2>1 DEF readData, ReadByte
  <2>3. Lost' BY <1>1, <1>4, <2>2 DEF Lost, Coming
  <2>4. QED BY <1>3, <2>3 DEF Tracks
<1>5. CASE ~Lost
  <2>1. PICK W, o : Follows(W, o) BY <1>1, <1>5 DEF Inv, Tracks, Active
  <2>2. Len(got) < Len(W) /\ Len(got) \in Nat /\ Len(W) \in Nat
    BY <1>1, <1>2, <2>1, ReadSoFarIs DEF Follows
  <2> PICK w : w = W[Len(got) + 1] OBVIOUS
  <2> DEFINE d == Cut(w.data)
             n == Len(data)
  <2>3. /\ w \in Packet /\ Reading(w)
        /\ \A x \in 1..Len(Coming) : ReadSoFar + x <= Size(w) => Coming[x] = Wire(w)[ReadSoFar + x]
    BY <1>2, <2>1, <2>2, AtPacket
  <2>4. /\ length = Len(d) /\ n \in Nat /\ n < Len(d) /\ Len(d) \in Nat /\ Size(w) = 6 + Len(d)
        /\ \A i \in 1..Len(d) : Wire(w)[6 + i] = d[i]
        /\ \A x \in 1..n : data[x] = d[x]
        /\ Len(buff) = 3 /\ \A x \in 1..3 : buff[x] = Wire(w)[x]
    <3>1. n \in Nat BY <1>2 DEF Typed
    <3>2. length = Len(d) /\ \A x \in 1..n : data[x] = d[x] BY <1>1, <2>3 DEF Reading
    <3>3. Len(buff) = 3 /\ \A x \in 1..Len(buff) : buff[x] = Wire(w)[x] BY <1>1, <2>3 DEF Reading
    <3>a. d \in Seq(Nat) /\ \A i \in 1..Len(d) : Wire(w)[6 + i] = d[i] BY <2>3, WireIs
    <3>4. Len(d) \in Nat /\ \A i \in 1..Len(d) : Wire(w)[6 + i] = d[i]
      <4> HIDE DEF d
      <4>1. QED BY <3>a
    <3>5. Size(w) = 6 + Len(d) BY DEF Size
    <3>6. n < Len(d) BY <1>1, <3>2
    <3> HIDE DEF n, d
    <3>7. QED BY <3>1, <3>2, <3>3, <3>4, <3>5, <3>6
  <2>5. ReadSoFar = 6 + n BY <1>1 DEF ReadSoFar
  <2>6. CASE arrived # <<>> /\ c' = Head(arrived) /\ arrived' = Tail(arrived)
    <3>1. Len(Coming) >= 1 /\ c' = Coming[1] /\ c' \in Nat /\ Drops(Coming, Coming', 1)
      BY <1>1, <1>2, <2>6, ByteComes
    <3>2. Len(Coming) \in Nat /\ Len(Coming') \in Nat BY <1>2, <3>1, ReadSoFarIs DEF Drops
    <3>3. 1 \in 1..Len(Coming) /\ ReadSoFar + 1 <= Size(w) /\ ReadSoFar + 1 = 6 + (n + 1)
          /\ n + 1 \in 1..Len(d)
      BY <2>4, <2>5, <3>1, <3>2
    <3>4. c' = d[n + 1]
      <4>1. Coming[1] = Wire(w)[6 + (n + 1)] BY <2>3, <3>3
      <4>2. QED BY <2>4, <3>1, <3>3, <4>1
    <3>5. data \in Seq(Nat) BY <1>2 DEF Typed
    <3>6. /\ Len(data') = n + 1 /\ data'[n + 1] = c' /\ \A x \in 1..n : data'[x] = data[x]
      BY <1>1, <3>1, <3>5
    <3>7. \A x \in 1..(n + 1) : x \in 1..n \/ x = n + 1 BY <2>4
    <3>8. n + 1 <= Len(d) BY <2>4
    <3> HIDE DEF n, d
    <3>9. \A x \in 1..(n + 1) : data'[x] = d[x] BY <2>4, <3>4, <3>6, <3>7
    <3>10. Reading(w)'
      <4>1. Len(data') <= length /\ \A x \in 1..Len(data') : data'[x] = d[x]
        BY <2>4, <3>6, <3>8, <3>9
      <4>2. length = Len(Cut(w.data)) BY <2>4 DEF d
      <4>3. \A x \in 1..Len(data') : data'[x] = Cut(w.data)[x] BY <4>1 DEF d
      <4>4. Len(buff) = 3 /\ \A x \in 1..Len(buff) : buff[x] = Wire(w)[x]
        BY <1>1, <2>3 DEF Reading
      <4>5. QED BY <1>1, <4>1, <4>2, <4>3, <4>4 DEF Reading
    <3>11. ReadSoFar' = ReadSoFar + 1 BY <1>1, <2>4, <2>5, <3>6 DEF ReadSoFar
    <3>12. \E p : Follows(W, p)'
      BY <1>1, <1>2, <2>1, <2>2, <3>1, <3>2, <3>10, <3>11, Advance
    <3>13. QED BY <1>3, <3>12 DEF Tracks
  <2>7. CASE AtEnd /\ c' = c /\ UNCHANGED arrived
    <3>1. Coming = <<>> BY <1>2, <2>7, ReadSoFarIs DEF AtEnd
    <3>2. ReadSoFar < Size(w) BY <2>4, <2>5
    <3>3. torn /\ Len(got) = Len(written) BY <1>2, <2>1, <2>2, <3>1, <3>2, OnlyTorn
    <3>4. Lost' BY <1>1, <2>7, <3>1, <3>3 DEF Lost, Coming
    <3>5. QED BY <1>3, <3>4 DEF Tracks
  <2>8. QED BY <2>6, <2>7 DEF readData, ReadByte
<1>6. QED BY <1>4, <1>5

LEMMA LengthTyped == ASSUME Typed, readLength PROVE Typed'
<1>0. arrived \in Seq(Nat) BY DEF Typed
<1>1. PICK lo, hi \in 0..(ByteBase - 1) :
        /\ \/ /\ Len(arrived) >= 2
              /\ <<lo, hi>> = SubSeq(arrived, 1, 2)
              /\ arrived' = SubSeq(arrived, 3, Len(arrived)) /\ UNCHANGED short
           \/ /\ Len(arrived) = 1
              /\ lo = arrived[1]
              /\ arrived' = <<>> /\ short' = TRUE
           \/ /\ AtEnd /\ UNCHANGED <<arrived, short>>
        /\ length' = lo + ByteBase * hi
  BY DEF readLength
<1>2. UNCHANGED <<buff, got, written, torn, inKernel, closed>> /\ pc' = "data" /\ data' = <<>> /\ c' \in Nat
  BY PacketStreamAssumption DEF readLength, ReaderStays, writerVars
<1>3. length' \in Nat
  <2>1. ByteBase \in Nat /\ lo \in Nat /\ hi \in Nat BY PacketStreamAssumption
  <2>2. ByteBase * hi \in Nat BY <2>1
  <2>3. QED BY <1>1, <2>1, <2>2
<1>4. arrived' \in Seq(Nat) /\ short' \in BOOLEAN
  <2>1. CASE Len(arrived) >= 2 /\ arrived' = SubSeq(arrived, 3, Len(arrived)) /\ short' = short
    <3>1. arrived' \in Seq(Nat)
      <4>1. inKernel' = inKernel BY <1>2
      <4>2. QED BY <2>1, <4>1, LengthComes
    <3>2. QED BY <2>1, <3>1 DEF Typed
  <2>2. CASE arrived' = <<>> /\ short' = TRUE BY <2>2
  <2>3. CASE UNCHANGED <<arrived, short>> BY <2>3 DEF Typed
  <2>4. QED BY <1>1, <2>1, <2>2, <2>3
<1>5. data' \in Seq(Nat) BY <1>2
<1>6. QED BY <1>2, <1>3, <1>4, <1>5 DEF Typed

LEMMA LengthKeeps == ASSUME Inv, readLength PROVE Inv'
<1>1. /\ UNCHANGED <<buff, got, written, torn, inKernel, closed>>
      /\ pc = "length" /\ pc' = "data" /\ data' = <<>>
  BY DEF readLength, ReaderStays, writerVars
<1>2. Typed /\ Typed' /\ (torn => closed)' BY <1>1, LengthTyped DEF Inv
<1> SUFFICES ASSUME ~short' PROVE GotRight' /\ Tracks' BY <1>2 DEF Inv
<1>3. PICK lo, hi \in 0..(ByteBase - 1) :
        /\ \/ /\ Len(arrived) >= 2
              /\ <<lo, hi>> = SubSeq(arrived, 1, 2)
              /\ arrived' = SubSeq(arrived, 3, Len(arrived))
           \/ AtEnd /\ UNCHANGED arrived
        /\ length' = lo + ByteBase * hi /\ ~short
  BY DEF readLength
<1>4. GotRight' BY <1>1, <1>3, GotStays DEF Inv
<1>5. PICK W, o : Follows(W, o) BY <1>1, <1>3 DEF Inv, Tracks, Active, Lost
<1>6. Len(got) < Len(W) /\ Len(got) \in Nat /\ Len(W) \in Nat
  BY <1>1, <1>2, <1>5, ReadSoFarIs DEF Follows
<1> PICK w : w = W[Len(got) + 1] OBVIOUS
<1>7. /\ w \in Packet /\ Reading(w)
      /\ \A x \in 1..Len(Coming) : ReadSoFar + x <= Size(w) => Coming[x] = Wire(w)[ReadSoFar + x]
  BY <1>2, <1>5, <1>6, AtPacket
<1>8. Size(w) \in Nat /\ Size(w) >= 6 /\ ReadSoFar = 4
  BY <1>1, <1>2, <1>5, <1>6, ReadingIs DEF ReadSoFar
<1>9. Len(buff) = 3 /\ \A x \in 1..Len(buff) : buff[x] = Wire(w)[x] BY <1>1, <1>7 DEF Reading
<1>10. CASE AtEnd /\ UNCHANGED arrived
  <2>1. Coming = <<>> BY <1>2, <1>10, ReadSoFarIs DEF AtEnd
  <2>2. ReadSoFar < Size(w) BY <1>8
  <2>3. torn /\ Len(got) = Len(written) BY <1>2, <1>5, <1>6, <2>1, <2>2, OnlyTorn
  <2>4. Lost' BY <1>1, <1>10, <2>1, <2>3 DEF Lost, Coming
  <2>5. QED BY <1>4, <2>4 DEF Tracks
<1>11. CASE /\ Len(arrived) >= 2 /\ <<lo, hi>> = SubSeq(arrived, 1, 2)
            /\ arrived' = SubSeq(arrived, 3, Len(arrived))
  <2>1. /\ Len(Coming) >= 2 /\ arrived[1] = Coming[1] /\ arrived[2] = Coming[2]
        /\ Drops(Coming, Coming', 2)
    BY <1>1, <1>2, <1>11, LengthComes
  <2>2. Len(Coming) \in Nat /\ Len(Coming') \in Nat BY <1>2, <2>1, ReadSoFarIs DEF Drops
  <2>3. lo = arrived[1] /\ hi = arrived[2]
    <3>1. arrived \in Seq(Nat) BY <1>2 DEF Typed
    <3>2. SubSeq(arrived, 1, 2)[1] = arrived[1] /\ SubSeq(arrived, 1, 2)[2] = arrived[2]
      BY <1>11, <3>1
    <3>3. <<lo, hi>>[1] = lo /\ <<lo, hi>>[2] = hi OBVIOUS
    <3>4. QED BY <1>11, <3>2, <3>3
  <2> DEFINE d == Cut(w.data)
  <2>4. Coming[1] = Wire(w)[5] /\ Coming[2] = Wire(w)[6]
    <3>1. /\ 1 \in 1..Len(Coming) /\ 2 \in 1..Len(Coming)
          /\ ReadSoFar + 1 <= Size(w) /\ ReadSoFar + 2 <= Size(w)
          /\ ReadSoFar + 1 = 5 /\ ReadSoFar + 2 = 6
      BY <1>8, <2>1, <2>2
    <3>2. QED BY <1>7, <3>1
  <2>5. lo = Len(d) % ByteBase /\ hi = Len(d) \div ByteBase BY <1>7, <2>1, <2>3, <2>4, WireIs
  <2>6. length' = Len(d)
    <3>1. Len(d) \in 0..(LengthLimit - 1) BY <1>7, WireIs
    <3>2. (Len(d) % ByteBase) + (ByteBase * (Len(d) \div ByteBase)) = Len(d) BY <3>1, LengthIs
    <3>3. QED BY <1>3, <2>5, <3>2
  <2>7. Len(d) \in Nat
    <3>1. d \in Seq(Nat) BY <1>7, WireIs
    <3> HIDE DEF d
    <3>2. QED BY <3>1
  <2>8. Len(data') = 0 BY <1>1
  <2>9. Reading(w)'
    <3>1. Len(data') <= length' /\ \A x \in 1..Len(data') : data'[x] = Cut(w.data)[x]
      BY <2>6, <2>7, <2>8
    <3>2. QED BY <1>1, <1>9, <2>6, <3>1 DEF Reading
  <2>10. ReadSoFar' = ReadSoFar + 2 BY <1>1, <1>8, <2>8 DEF ReadSoFar
  <2>11. \E p : Follows(W, p)'
    BY <1>1, <1>2, <1>5, <1>6, <2>1, <2>2, <2>9, <2>10, Advance
  <2>12. QED BY <1>4, <2>11 DEF Tracks
<1>12. QED BY <1>3, <1>10, <1>11

-----------------------------------------------------------------------------
(* The header that is parsed is the header that was written. *)
LEMMA HeaderIs ==
  ASSUME NEW w \in Packet, NEW s \in Seq(Nat), Len(s) = 3, \A x \in 1..3 : s[x] = Wire(w)[x],
         NEW h \in Headers, Valid(CString(s), h)
  PROVE  h = w.header
<1>1. /\ w.header \in Headers /\ s[1] \in 1..8 /\ s[2] = OPEN /\ s[3] = Letter[w.header]
  <2>1. /\ w.header \in Headers /\ Wire(w)[1] \in 1..8 /\ Wire(w)[2] = OPEN
        /\ Wire(w)[3] = Letter[w.header]
    BY WireIs
  <2>2. s[1] = Wire(w)[1] /\ s[2] = Wire(w)[2] /\ s[3] = Wire(w)[3] OBVIOUS
  <2>3. QED BY <2>1, <2>2
<1>2. Letter[w.header] \in Nat \ {NUL, CLOSE} /\ Letter[h] \in Nat BY <1>1, PacketStreamAssumption
<1>3. ~Contains(s, NUL)
  <2> SUFFICES ASSUME NEW i \in 1..3, s[i] = NUL PROVE FALSE BY DEF Contains
  <2>1. i = 1 \/ i = 2 \/ i = 3 OBVIOUS
  <2>2. QED BY <1>1, <1>2, <2>1 DEF NUL, OPEN
<1>4. CString(s) = s BY <1>3 DEF CString
<1>5. Append(Tail(s), CLOSE) = <<OPEN, Letter[h], CLOSE>> BY <1>4 DEF Valid, HeaderBytes
<1>6. Append(Tail(s), CLOSE)[2] = s[3]
  <2>0. s # <<>>
    <3>1. Len(<<>>) # 3 OBVIOUS
    <3>2. QED BY <3>1
  <2>1. Tail(s) \in Seq(Nat) /\ Len(Tail(s)) = 2 /\ Tail(s)[2] = s[3]
    <3>1. /\ Tail(s) \in Seq(Nat) /\ Len(Tail(s)) = Len(s) - 1
          /\ \A i \in 1..Len(Tail(s)) : Tail(s)[i] = s[i + 1]
      BY <2>0, HeadTailProperties
    <3>2. Len(Tail(s)) = 2 /\ 2 \in 1..Len(Tail(s))
      <4> DEFINE l == Len(s)
                 t == Len(Tail(s))
      <4>1. l = 3 /\ t = l - 1 BY <3>1
      <4> HIDE DEF l, t
      <4>2. t = 2 /\ 2 \in 1..t BY <4>1
      <4>3. QED BY <4>2 DEF t
    <3>3. Tail(s)[2] = s[2 + 1] BY <3>1, <3>2
    <3>4. QED BY <3>1, <3>2, <3>3
  <2> DEFINE r == Tail(s)
  <2>2. r \in Seq(Nat) /\ Len(r) = 2 /\ r[2] = s[3] BY <2>1
  <2> HIDE DEF r
  <2>3. Append(r, CLOSE)[2] = r[2]
    <3>1. r \in Seq(Nat) /\ CLOSE \in Nat BY <2>2 DEF CLOSE
    <3>2. \A i \in 1..Len(r) : Append(r, CLOSE)[i] = r[i] BY <3>1, AppendProperties
    <3>3. 2 \in 1..Len(r) BY <2>2
    <3>4. QED BY <3>2, <3>3
  <2>4. QED BY <2>2, <2>3 DEF r
<1>7. <<OPEN, Letter[h], CLOSE>>[2] = Letter[h] OBVIOUS
<1>8. Letter[w.header] = Letter[h] BY <1>1, <1>5, <1>6, <1>7
<1>9. QED BY <1>1, <1>8, PacketStreamAssumption

LEMMA ReturnedTyped == ASSUME Typed, Returned PROVE Typed'
<1>1. UNCHANGED <<arrived, short, written, torn, inKernel, closed>>
  BY DEF Returned, ReaderStays, writerVars
<1>2. CASE \E h \in Headers :
             /\ got' = Append(got, [header |-> h, data |-> data])
             /\ pc' = "header" /\ buff' = <<>> /\ c' = ZERO /\ length' = 0 /\ data' = <<>>
  <2>1. PICK h \in Headers :
             /\ got' = Append(got, [header |-> h, data |-> data])
             /\ pc' = "header" /\ buff' = <<>> /\ c' = ZERO /\ length' = 0 /\ data' = <<>>
    BY <1>2
  <2>2. data \in Seq(Nat) /\ got \in Seq([header : Headers, data : Seq(Nat)]) BY DEF Typed
  <2>3. [header |-> h, data |-> data] \in [header : Headers, data : Seq(Nat)] BY <2>2
  <2>4. got' \in Seq([header : Headers, data : Seq(Nat)]) BY <2>1, <2>2, <2>3
  <2>5. buff' \in Seq(Nat) /\ data' \in Seq(Nat) /\ c' \in Nat /\ length' \in Nat
    BY <2>1 DEF ZERO
  <2>6. QED BY <1>1, <2>1, <2>4, <2>5 DEF Typed
<1>3. CASE GiveUp /\ c' = c BY <1>1, <1>3 DEF Typed, GiveUp
<1>4. QED BY <1>2, <1>3 DEF Returned

LEMMA ReturnedKeeps == ASSUME Inv, Returned PROVE Inv'
<1>1. /\ UNCHANGED <<arrived, short, written, torn, inKernel, closed>>
      /\ pc = "data" /\ Len(data) = length
  BY DEF Returned, ReaderStays, writerVars
<1>2. Typed /\ Typed' /\ (torn => closed)' BY <1>1, ReturnedTyped DEF Inv
<1> SUFFICES ASSUME ~short PROVE GotRight' /\ Tracks' BY <1>1, <1>2 DEF Inv
<1>3. CASE GiveUp /\ c' = c
  <2>1. GotRight' BY <1>1, <1>3, GotStays DEF Inv, GiveUp
  <2>2. ~Active' BY <1>3 DEF GiveUp, Active
  <2>3. QED BY <2>1, <2>2 DEF Tracks
<1>4. CASE \E h \in Headers :
             /\ Valid(CString(buff), h)
             /\ got' = Append(got, [header |-> h, data |-> data])
             /\ pc' = "header" /\ buff' = <<>> /\ c' = ZERO /\ length' = 0 /\ data' = <<>>
  <2>1. PICK h \in Headers :
             /\ Valid(CString(buff), h)
             /\ got' = Append(got, [header |-> h, data |-> data])
             /\ pc' = "header" /\ buff' = <<>> /\ c' = ZERO /\ length' = 0 /\ data' = <<>>
    BY <1>4
  <2> DEFINE k == Len(got)
             g == [header |-> h, data |-> data]
  <2>2. /\ k \in Nat /\ Len(got') = k + 1 /\ got'[k + 1] = g
        /\ \A i \in 1..k : got'[i] = got[i]
    <3>1. data \in Seq(Nat) /\ got \in Seq([header : Headers, data : Seq(Nat)])
      BY <1>2 DEF Typed
    <3>2. g \in [header : Headers, data : Seq(Nat)] BY <3>1
    <3> HIDE DEF g
    <3>3. got' = Append(got, g) BY <2>1 DEF g
    <3>4. QED BY <3>1, <3>2, <3>3
  <2>3. GotRight BY DEF Inv
  <2>4. Len(written) \in Nat /\ Coming' = Coming BY <1>1, <1>2, ReadSoFarIs DEF Coming
  <2>5. Len(buff') = 0 BY <2>1
  <2>6. ASSUME k + 1 <= Len(written) + (IF torn THEN 1 ELSE 0),
               k + 1 <= Len(written) => Right(g, written[k + 1])
        PROVE  GotRight'
    <3>1. ASSUME NEW i \in 1..(k + 1), i \in 1..Len(written)
          PROVE  Right(got'[i], written[i])
      <4>1. CASE i = k + 1
        <5>1. k + 1 <= Len(written) BY <2>4, <3>1, <4>1
        <5>2. QED BY <2>2, <2>6, <4>1, <5>1
      <4>2. CASE i # k + 1
        <5>1. i \in 1..k BY <2>2, <4>2
        <5>2. QED BY <2>2, <2>3, <3>1, <5>1 DEF GotRight
      <4>3. QED BY <4>1, <4>2
    <3>2. \A i \in 1..Len(got') : i \in 1..Len(written') => Right(got'[i], written'[i])
      BY <1>1, <2>2, <3>1
    <3>3. Len(got') <= Len(written') + (IF torn' THEN 1 ELSE 0) BY <1>1, <2>2, <2>6
    <3>4. QED BY <3>2, <3>3 DEF GotRight, Right
  <2>7. CASE Lost
    <3>1. torn /\ Coming = <<>> /\ k = Len(written) BY <1>1, <2>7 DEF Lost
    <3>2. Lost' BY <1>1, <2>1, <2>2, <2>4, <3>1 DEF Lost
    <3> HIDE DEF k, g
    <3>3. k + 1 <= Len(written) + (IF torn THEN 1 ELSE 0) /\ ~(k + 1 <= Len(written))
      BY <2>4, <3>1
    <3>4. GotRight' BY <2>6, <3>3
    <3>5. QED BY <3>2, <3>4 DEF Tracks
  <2>8. CASE ~Lost
    <3>1. PICK W, o : Follows(W, o) BY <1>1, <2>8 DEF Inv, Tracks, Active
    <3>2. /\ W \in Seq(Packet) /\ Len(W) = Len(written) + (IF torn THEN 1 ELSE 0)
          /\ \A i \in 1..Len(written) : W[i] = written[i]
          /\ o \in [1..(Len(W) + 1) -> Int] /\ Len(W) \in Nat
          /\ k <= Len(W) /\ k # Len(W)
      BY <1>1, <3>1 DEF Follows
    <3>3. /\ \A i \in (k + 1)..Len(W) : o[i + 1] = o[i] + Size(W[i]) /\ Lies(W[i], o[i], Coming)
          /\ \A i, j \in (k + 1)..(Len(W) + 1) : i <= j => o[i] <= o[j]
          /\ ~torn => Len(Coming) = o[Len(W) + 1]
          /\ torn  => o[Len(W)] <= Len(Coming) /\ Len(Coming) < o[Len(W) + 1]
      BY <3>1 DEF Follows
    <3>4. k + 1 <= Len(W) /\ k < Len(W) BY <2>2, <3>2
    <3> PICK w : w = W[k + 1] OBVIOUS
    <3>5. w \in Packet /\ Reading(w) /\ o[k + 2] = Size(w) - ReadSoFar
      BY <1>2, <3>1, <3>4, AtPacket
    <3>6. /\ length = Len(Cut(w.data)) /\ \A x \in 1..Len(data) : data[x] = Cut(w.data)[x]
          /\ Len(buff) = 3 /\ \A x \in 1..Len(buff) : buff[x] = Wire(w)[x]
      BY <1>1, <3>5 DEF Reading
    <3>7. data = Cut(w.data)
      <4>1. data \in Seq(Nat) /\ Cut(w.data) \in Seq(Nat) BY <1>2, <3>5, WireIs DEF Typed
      <4>2. Len(data) = Len(Cut(w.data)) BY <1>1, <3>6
      <4>3. QED BY <3>6, <4>1, <4>2, SeqEqual
    <3>8. h = w.header
      <4>1. buff \in Seq(Nat) BY <1>2 DEF Typed
      <4>2. \A x \in 1..3 : buff[x] = Wire(w)[x] BY <3>6
      <4>3. QED BY <2>1, <3>5, <3>6, <4>1, <4>2, HeaderIs
    <3>9. Right(g, w)
      <4>1. w.data \in Seq(Nat) BY <3>5, WireIs
      <4>2. Len(w.data) < LengthLimit => data = w.data BY <3>7, <4>1, CutIs
      <4>3. QED BY <3>8, <4>2 DEF Right
    <3>10. o[k + 2] = 0
      <4>1. ReadSoFar = 6 + Len(data) BY <1>1 DEF ReadSoFar
      <4>2. Size(w) = 6 + Len(data) BY <3>7 DEF Size
      <4>3. Len(data) \in Nat BY <1>2 DEF Typed
      <4>4. QED BY <3>5, <4>1, <4>2, <4>3
    <3>11. k + 1 <= Len(written)
      <4> SUFFICES ASSUME ~(k + 1 <= Len(written)) PROVE FALSE OBVIOUS
      <4>1. torn /\ Len(W) + 1 = k + 2 BY <2>2, <2>4, <3>2, <3>4
      <4>2. Len(Coming) < 0 BY <3>3, <3>10, <4>1
      <4>3. Len(Coming) \in Nat BY <1>2, ReadSoFarIs
      <4>4. QED BY <4>2, <4>3
    <3>12. GotRight'
      <4>1. w = written[k + 1]
        <5>1. k + 1 \in 1..Len(written) BY <2>2, <2>4, <3>11
        <5>2. QED BY <3>2, <5>1
      <4> HIDE DEF k, g
      <4>2. k + 1 <= Len(written) + (IF torn THEN 1 ELSE 0) BY <2>2, <2>4, <3>11
      <4>3. QED BY <2>6, <3>9, <4>1, <4>2
    <3>13. torn => k + 1 < Len(W) BY <2>2, <2>4, <3>2, <3>11
    <3>14. Follows(W, o)'
      <4>1. ReadSoFar' = 0 BY <2>1, <2>5 DEF ReadSoFar
      <4>2. o[Len(got') + 1] = -(ReadSoFar') BY <2>2, <3>10, <4>1
      <4>3. \A i \in (k + 2)..(Len(W) + 1) : i \in (k + 1)..(Len(W) + 1) BY <2>2, <3>2
      <4>4. \A i \in (k + 2)..Len(W) : i \in (k + 1)..Len(W) BY <2>2, <3>2
      <4>5. \A y : Reading(y)' BY <2>1, <2>5 DEF Reading
      <4>6. (k + 1) + 1 = k + 2 BY <2>2
      <4> HIDE DEF k
      <4>7. QED
        BY <1>1, <2>1, <2>2, <2>4, <3>2, <3>3, <3>4, <3>13, <4>2, <4>3, <4>4, <4>5, <4>6 DEF Follows
    <3>15. QED BY <3>12, <3>14 DEF Tracks
  <2>9. QED BY <2>7, <2>8
<1>5. QED BY <1>3, <1>4 DEF Returned

-----------------------------------------------------------------------------
(* The steps of the writer and of the network. *)
LEMMA WriterKeeps ==
  ASSUME Inv, NEW w \in Packet, NEW m \in 0..Size(w), UNCHANGED <<arrived, readerVars>>, ~torn,
         inKernel' = inKernel \o SubSeq(Wire(w), 1, m),
         \/ torn' = torn /\ closed' = closed /\ m = Size(w) /\ written' = Append(written, w)
         \/ torn' /\ torn' \in BOOLEAN /\ closed' /\ closed' \in BOOLEAN
            /\ m < Size(w) /\ written' = written
  PROVE  Inv'
<1> DEFINE s == SubSeq(Wire(w), 1, m)
<1>1. Wire(w) \in Seq(Nat) /\ Len(Wire(w)) = Size(w) /\ Size(w) \in Nat BY WireIs
<1>2. s \in Seq(Nat) /\ Len(s) = m /\ \A x \in 1..m : s[x] = Wire(w)[x] BY <1>1
<1> HIDE DEF s
<1>3. Typed BY DEF Inv
<1>4. inKernel' = inKernel \o s BY DEF s
<1>5. /\ inKernel' \in Seq(Nat)
      /\ Len(Coming) \in Nat /\ Len(Coming') = Len(Coming) + m /\ Grows(Coming, Coming')
      /\ \A x \in 1..m : Coming'[Len(Coming) + x] = Wire(w)[x]
  BY <1>2, <1>3, <1>4, BytesAreSent
<1>6. written' \in Seq(Packet)
  <2>1. written \in Seq(Packet) BY <1>3 DEF Typed
  <2>2. Append(written, w) \in Seq(Packet) BY <2>1
  <2>3. QED BY <2>1, <2>2
<1>7. torn' \in BOOLEAN /\ closed' \in BOOLEAN /\ (torn' => closed') BY <1>3 DEF Typed
<1>8. Typed' BY <1>3, <1>5, <1>6, <1>7 DEF Typed, readerVars
<1> SUFFICES ASSUME ~short PROVE GotRight' /\ Tracks' BY <1>7, <1>8 DEF Inv, readerVars
<1>9. GotRight'
  <2>1. written \in Seq(Packet) BY <1>3 DEF Typed
  <2>2. Len(got) <= Len(written) /\ \A i \in 1..Len(got) : i \in 1..Len(written) => Right(got[i], written[i])
    BY DEF Inv, GotRight
  <2>3. Len(got) \in Nat /\ Len(written) \in Nat BY <1>3, ReadSoFarIs
  <2>4. \A i \in 1..Len(got) : i \in 1..Len(written) BY <2>2, <2>3
  <2>5. /\ \A i \in 1..Len(written) : written'[i] = written[i]
        /\ Len(got) <= Len(written') + (IF torn' THEN 1 ELSE 0)
    <3>1. CASE written' = Append(written, w)
      <4>1. /\ Len(Append(written, w)) = Len(written) + 1
            /\ \A i \in 1..Len(written) : Append(written, w)[i] = written[i]
        BY <2>1, AppendProperties
      <4>2. QED BY <2>2, <2>3, <3>1, <4>1
    <3>2. CASE written' = written BY <2>2, <2>3, <3>2
    <3>3. QED BY <3>1, <3>2
  <2>6. \A i \in 1..Len(got) : Right(got[i], written'[i]) BY <2>2, <2>4, <2>5
  <2>7. QED BY <2>5, <2>6 DEF GotRight, Right, readerVars
<1>10. CASE ~Active BY <1>9, <1>10 DEF Tracks, Active, readerVars
<1>11. CASE Active
  <2>1. PICK W, o : Follows(W, o) BY <1>11 DEF Inv, Tracks, Lost
  <2>2. ~torn' \/ torn' BY <1>7
  <2>3. \E V, p : Follows(V, p)' BY <1>3, <1>5, <2>1, <2>2, Extends
  <2>4. QED BY <1>9, <2>3 DEF Tracks
<1>12. QED BY <1>10, <1>11

LEMMA WriteKeeps ==
  ASSUME Inv, NEW h \in Sent, NEW d \in Datas, Write(h, d)
  PROVE  Inv'
<1> DEFINE w == [header |-> h, data |-> d]
<1>1. w \in Packet BY DEF Packet
<1>2. Wire(w) = COM_serializePacket(COM_writePacket(h, Cut(d), FALSE)) BY DEF Wire
<1>3. /\ ~closed /\ written' = Append(written, w) /\ inKernel' = inKernel \o Wire(w)
      /\ UNCHANGED <<torn, closed>> /\ UNCHANGED <<arrived, readerVars>>
  BY <1>2 DEF Write
<1>4. ~torn BY <1>3 DEF Inv
<1>5. Wire(w) \in Seq(Nat) /\ Len(Wire(w)) = Size(w) /\ Size(w) \in Nat BY <1>1, WireIs
<1> HIDE DEF w
<1>6. SubSeq(Wire(w), 1, Size(w)) = Wire(w) BY <1>5, SubSeqFull
<1>7. Size(w) \in 0..Size(w) BY <1>5
<1>8. QED BY <1>1, <1>3, <1>4, <1>6, <1>7, WriterKeeps

LEMMA WriteTornKeeps ==
  ASSUME Inv, NEW h \in Sent, NEW d \in Datas, NEW n \in Sizes, WriteTorn(h, d, n)
  PROVE  Inv'
<1> DEFINE w == [header |-> h, data |-> d]
<1>1. w \in Packet BY DEF Packet
<1>2. Wire(w) = COM_serializePacket(COM_writePacket(h, Cut(d), FALSE)) BY DEF Wire
<1>3. /\ ~closed /\ written' = written /\ n < Len(Wire(w))
      /\ inKernel' = inKernel \o SubSeq(Wire(w), 1, n)
      /\ torn' = TRUE /\ closed' = TRUE /\ UNCHANGED <<arrived, readerVars>>
  BY <1>2 DEF WriteTorn
<1>4. ~torn BY <1>3 DEF Inv
<1>5. Len(Wire(w)) = Size(w) /\ Size(w) \in Nat BY <1>1, WireIs
<1>6. n \in Nat
  <2>1. 5 + LengthLimit \in Nat BY PacketStreamAssumption DEF LengthLimit
  <2>2. QED BY <2>1 DEF Sizes
<1> HIDE DEF w
<1>7. n \in 0..Size(w) /\ n < Size(w) BY <1>3, <1>5, <1>6
<1>8. QED BY <1>1, <1>3, <1>4, <1>7, WriterKeeps

(* Nothing is read or written: Coming, and what its end means, stay. *)
LEMMA NothingMoves ==
  ASSUME Inv, Typed', UNCHANGED <<writerVars, readerVars>>, Coming' = Coming, (torn => closed)'
  PROVE  Inv'
<1> SUFFICES ASSUME ~short PROVE GotRight' /\ Tracks' BY DEF Inv, readerVars
<1>1. GotRight' BY GotStays DEF Inv, writerVars, readerVars
<1>2. Lost => Lost' BY DEF Lost, writerVars, readerVars
<1>3. \A W, o : Follows(W, o) => Follows(W, o)'
  BY DEF Follows, Reading, ReadSoFar, writerVars, readerVars
<1>4. Active' => Active BY DEF Active, readerVars
<1>5. QED BY <1>1, <1>2, <1>3, <1>4 DEF Inv, Tracks

LEMMA CloseKeeps == ASSUME Inv, Close PROVE Inv'
<1>1. UNCHANGED <<writerVars, readerVars>> /\ UNCHANGED <<inKernel, arrived>> /\ closed' = TRUE
  BY DEF Close
<1>2. Typed' BY <1>1 DEF Inv, Typed, writerVars, readerVars
<1>3. Coming' = Coming BY <1>1 DEF Coming
<1>4. QED BY <1>1, <1>2, <1>3, NothingMoves

LEMMA DeliverKeeps == ASSUME Inv, NEW n \in 1..Len(inKernel), Deliver(n) PROVE Inv'
<1>1. UNCHANGED <<writerVars, readerVars>> /\ closed' = closed BY DEF Deliver
<1>2. inKernel' \in Seq(Nat) /\ arrived' \in Seq(Nat) /\ Coming' = Coming BY Delivered DEF Inv
<1>3. Typed' BY <1>1, <1>2 DEF Inv, Typed, writerVars, readerVars
<1>4. (torn => closed)' BY <1>1 DEF Inv, writerVars
<1>5. QED BY <1>1, <1>2, <1>3, <1>4, NothingMoves

LEMMA InitKeeps == ASSUME Init PROVE Inv
<1>1. Typed
  <2>1. /\ inKernel = <<>> /\ arrived = <<>> /\ written = <<>> /\ buff = <<>>
        /\ data = <<>> /\ got = <<>>
        /\ closed = FALSE /\ torn = FALSE /\ short = FALSE
        /\ pc = "header" /\ c = 48 /\ length = 0
    BY DEF Init, ZERO
  <2>2. /\ <<>> \in Seq(Nat) /\ <<>> \in Seq(Packet)
        /\ <<>> \in Seq([header : Headers, data : Seq(Nat)])
    OBVIOUS
  <2>3. QED BY <2>1, <2>2 DEF Typed
<1>2. got = <<>> /\ written = <<>> /\ ~torn /\ pc = "header" /\ buff = <<>> /\ ~short
  BY DEF Init
<1>3. Coming = <<>> /\ Len(Coming) = 0
  <2>1. arrived = <<>> /\ inKernel = <<>> BY DEF Init
  <2>2. QED BY <1>1, <2>1, ReadSoFarIs
<1>4. GotRight BY <1>2 DEF GotRight
<1> DEFINE o == [i \in 1..1 |-> 0]
<1>5. Follows(<<>>, o)
  <2>1. Len(<<>>) = 0 /\ <<>> \in Seq(Packet) /\ o \in [1..(0 + 1) -> Int] /\ o[1] = 0 OBVIOUS
  <2>2. ReadSoFar = 0 BY <1>2 DEF ReadSoFar
  <2> HIDE DEF o
  <2>3. QED BY <1>2, <1>3, <2>1, <2>2 DEF Follows
<1>6. QED BY <1>1, <1>2, <1>4, <1>5 DEF Inv, Tracks

LEMMA NextKeeps == ASSUME Inv, [Next]_vars PROVE Inv'
<1>1. ASSUME NEW h \in Sent, NEW d \in Datas, Write(h, d) PROVE Inv' BY <1>1, WriteKeeps
<1>2. ASSUME NEW h \in Sent, NEW d \in Datas, NEW n \in Sizes, WriteTorn(h, d, n) PROVE Inv'
  BY <1>2, WriteTornKeeps
<1>3. CASE Close BY <1>3, CloseKeeps
<1>4. ASSUME NEW n \in 1..Len(inKernel), Deliver(n) PROVE Inv' BY <1>4, DeliverKeeps
<1>5. CASE readUntil BY <1>5, UntilKeeps
<1>6. CASE readLength BY <1>6, LengthKeeps
<1>7. CASE readData BY <1>7, DataKeeps
<1>8. CASE Returned BY <1>8, ReturnedKeeps
<1>9. CASE UNCHANGED vars
  <2>1. UNCHANGED <<writerVars, readerVars>> /\ UNCHANGED <<inKernel, arrived, closed>>
    BY <1>9 DEF vars, streamVars
  <2>2. Typed' /\ (torn => closed)' BY <2>1 DEF Inv, Typed, writerVars, readerVars
  <2>3. Coming' = Coming BY <2>1 DEF Coming
  <2>4. QED BY <2>1, <2>2, <2>3, NothingMoves
<1>10. QED
  BY <1>1, <1>2, <1>3, <1>4, <1>5, <1>6, <1>7, <1>8, <1>9 DEF Next, COM_readPacket

LEMMA InvShows == Inv => PacketsAsWritten
<1> SUFFICES ASSUME Inv, ~short PROVE
      /\ Len(got) <= Len(written) + (IF torn THEN 1 ELSE 0)
      /\ \A i \in (DOMAIN got) \cap (DOMAIN written) : Right(got[i], written[i])
  BY DEF PacketsAsWritten, Right
<1>1. DOMAIN got = 1..Len(got) /\ DOMAIN written = 1..Len(written) BY DEF Inv, Typed
<1>2. QED BY <1>1 DEF Inv, GotRight

(* The packets are read in the order and with the contents in which they    *)
(* were written (COM_writePacket, COM_readPacket), in whatever pieces the   *)
(* stream delivers them and wherever it ends.                               *)
THEOREM StreamKeepsPackets == Spec => []PacketsAsWritten
<1>1. Init => Inv BY InitKeeps
<1>2. Inv /\ [Next]_vars => Inv' BY NextKeeps
<1>3. Inv => PacketsAsWritten BY InvShows
<1>4. QED BY <1>1, <1>2, <1>3, PTL DEF Spec

=============================================================================
