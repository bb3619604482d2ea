--------------------------- MODULE HashMapProofs ---------------------------
(***************************************************************************)
(* Proofs about HashMap and JoinLoop, for every set of keys, every hash     *)
(* function and every size of the table.                                   *)
(***************************************************************************)
EXTENDS JoinLoop, FiniteSetTheorems, TLAPS

(* The inductive invariant.  The e-th bucket that a search for k looks at. *)
Way(k, e, n) == Wrap(home(k, n) + e, n)

(* x lies, or is about to be tried, dib - 1 buckets from its home.          *)
Placed(x, j, n) == x.dib \in 1..n /\ j = Way(x.key, x.dib - 1, n)

(* The first d buckets on the way of k hold items that have come as far as  *)
(* an item of key k would have there.                                       *)
Earned(k, d, b, n) == \A e \in 0..(d - 1) : b[Way(k, e, n)].dib > e

(* Findable and RobinHood in one, in a form that every step keeps: it says  *)
(* of the whole way of an item what RobinHood says of neighbours.           *)
Fair(b, n) ==
  \A j \in 0..(n - 1) : b[j] # Free =>
    Placed(b[j], j, n) /\ Earned(b[j].key, b[j].dib, b, n)

Unique(b)    == \A i, j \in InUse(b) : b[i].key = b[j].key => i = j
Absent(k, b) == \A j \in InUse(b) : b[j].key # k

(* The numbers of buckets that doubling leads to from c.                    *)
Sizes(c) ==
  {n \in Nat : \A S \in SUBSET Nat : c \in S /\ (\A s \in S : 2 * s \in S) => n \in S}

TableInv ==
  /\ nbuckets \in Sizes(cap)
  /\ count = Cardinality(InUse(buckets)) /\ count <= growat(nbuckets)
  /\ Fair(buckets, nbuckets) /\ Unique(buckets)

(* The entry that is carried has earned its place so far.                   *)
Carried(b, n) == Placed(hand, at, n) /\ Earned(hand.key, hand.dib - 1, b, n)

(* No bucket is free of the t from j on. *)
Used(b, j, t, n) == \A e \in 0..(t - 1) : b[Wrap(j + e, n)] # Free

(* A set carries its own item, which no bucket passed had the key of, or    *)
(* another one, after its own has found its bucket: less than a round ago,  *)
(* so that its own is not what it meets next.                               *)
CarriesOwn ==
  /\ hand.key = item.key /\ hand.val = item.val
  /\ \A e \in 0..(hand.dib - 2) : buckets[Way(hand.key, e, nbuckets)].key # hand.key
CarriesOther ==
  /\ hand.key # item.key /\ Absent(hand.key, buckets)
  /\ \E j \in 0..(nbuckets - 1), t \in 1..(nbuckets - 1) :
       /\ buckets[j].key = item.key /\ buckets[j].val = item.val
       /\ at = Wrap(j + t, nbuckets)
       /\ Used(buckets, j, t, nbuckets)

SetInv ==
  pc = "set" =>
    /\ item # NULL /\ oom = FALSE /\ count < growat(nbuckets)
    /\ Carried(buckets, nbuckets)
    /\ CarriesOwn \/ CarriesOther

(* The buckets that a resize has not emptied. *)
Left == {j \in src..(nbuckets - 1) : buckets[j] # Free}

(* Every item is in the new table, in hand or left in the old one, once.    *)
ResizeInv ==
  pc = "resize" =>
    /\ oom = FALSE
    /\ nbuckets2 \in Sizes(cap)
    /\ count <= growat(nbuckets2) /\ (item # NULL => count < growat(nbuckets2))
    /\ Fair(buckets2, nbuckets2) /\ Unique(buckets2)
    /\ Cardinality(InUse(buckets2)) + (IF hand = Free THEN 0 ELSE 1) + Cardinality(Left) = count
    /\ \A j \in Left : Absent(buckets[j].key, buckets2)
    /\ hand # Free => /\ Carried(buckets2, nbuckets2) /\ Absent(hand.key, buckets2)
                      /\ \A j \in Left : buckets[j].key # hand.key

IInv == TypeOK /\ TableInv /\ SetInv /\ ResizeInv

-----------------------------------------------------------------------------
(* Buckets in a ring.                                                       *)

(* A position less than two rounds away is a bucket. *)
LEMMA WrapIn ==
  ASSUME NEW n \in Nat \ {0}, NEW j \in 0..(2 * n - 1)
  PROVE  Wrap(j, n) \in 0..(n - 1)
BY DEF Wrap

(* The bucket that a hash names. *)
LEMMA HomeIn ==
  ASSUME NEW n \in Nat \ {0}, NEW k \in Key
  PROVE  home(k, n) \in 0..(n - 1)
<1>1. Hash[k] \in Nat BY HashMapAssumption
<1>2. \A h \in Nat : h % n \in 0..(n - 1) OBVIOUS
<1>3. QED BY <1>1, <1>2 DEF home

(* A search stays in the table ... *)
LEMMA WayIn ==
  ASSUME NEW n \in Nat \ {0}, NEW k \in Key, NEW e \in 0..n
  PROVE  Way(k, e, n) \in 0..(n - 1)
BY HomeIn DEF Way, Wrap

(* ... goes from bucket to bucket ... *)
LEMMA WayNext ==
  ASSUME NEW n \in Nat \ {0}, NEW k \in Key, NEW e \in 0..(n - 1)
  PROVE  Way(k, e + 1, n) = Wrap(Way(k, e, n) + 1, n)
<1>1. home(k, n) \in 0..(n - 1) BY HomeIn
<1>2. \A h \in 0..(n - 1) : Wrap(h + (e + 1), n) = Wrap(Wrap(h + e, n) + 1, n)
  BY DEF Wrap
<1>3. QED BY <1>1, <1>2 DEF Way

(* ... meets none twice ... *)
LEMMA WayOneToOne ==
  ASSUME NEW n \in Nat \ {0}, NEW k \in Key,
         NEW e \in 0..(n - 1), NEW f \in 0..(n - 1), Way(k, e, n) = Way(k, f, n)
  PROVE  e = f
<1>1. home(k, n) \in 0..(n - 1) BY HomeIn
<1>2. \A h \in 0..(n - 1) : Wrap(h + e, n) = Wrap(h + f, n) => e = f
  BY DEF Wrap
<1>3. QED BY <1>1, <1>2 DEF Way

(* ... and comes to every one. *)
LEMMA WayOnto ==
  ASSUME NEW n \in Nat \ {0}, NEW k \in Key, NEW j \in 0..(n - 1)
  PROVE  \E e \in 0..(n - 1) : j = Way(k, e, n)
<1>1. home(k, n) \in 0..(n - 1) BY HomeIn
<1>2. \A h \in 0..(n - 1) : \E e \in 0..(n - 1) : j = Wrap(h + e, n)
  <2> TAKE h \in 0..(n - 1)
  <2>1. CASE j >= h
    <3>1. j - h \in 0..(n - 1) /\ j = Wrap(h + (j - h), n) BY <2>1 DEF Wrap
    <3>2. QED BY <3>1
  <2>2. CASE j < h
    <3>1. j + n - h \in 0..(n - 1) /\ j = Wrap(h + (j + n - h), n) BY <2>2 DEF Wrap
    <3>2. QED BY <3>1
  <2>3. QED BY <2>1, <2>2
<1>3. QED BY <1>1, <1>2 DEF Way

(* The step to the next bucket loses none. *)
LEMMA WrapOneToOne ==
  ASSUME NEW n \in Nat \ {0}, NEW i \in 0..(n - 1), NEW j \in 0..(n - 1),
         Wrap(i + 1, n) = Wrap(j + 1, n)
  PROVE  i = j
BY DEF Wrap

-----------------------------------------------------------------------------
(* Sizes of the table.                                                      *)

(* Sizes are at least the capacity, and doubled they are sizes. *)
LEMMA SizesUp ==
  ASSUME NEW c \in Nat, NEW n \in Sizes(c)
  PROVE  n \in Nat /\ n >= c /\ 2 * n \in Sizes(c) /\ c \in Sizes(c)
<1>1. {s \in Nat : s >= c} \in SUBSET Nat OBVIOUS
<1>2. c \in {s \in Nat : s >= c} /\ \A s \in {s \in Nat : s >= c} : 2 * s \in {x \in Nat : x >= c}
  OBVIOUS
<1>3. n \in Nat /\ n \in {s \in Nat : s >= c} BY <1>1, <1>2 DEF Sizes
<1>4. 2 * n \in Nat BY <1>3
<1>5. QED BY <1>3, <1>4 DEF Sizes

(* A table above its capacity has twice the buckets of a smaller one. *)
LEMMA SizesDown ==
  ASSUME NEW c \in Nat, NEW n \in Sizes(c), n > c
  PROVE  n = 2 * (n \div 2) /\ n \div 2 \in Sizes(c)
<1> DEFINE S == {s \in Nat : s = c \/ \E m \in Sizes(c) : s = 2 * m}
<1>1. \A m \in Sizes(c) : m \in Nat /\ 2 * m \in Sizes(c) BY SizesUp
<1>2. c \in Sizes(c) BY SizesUp
<1>3. \A s \in S : s \in Sizes(c) BY <1>1, <1>2
<1>4. \A s \in S : 2 * s \in S
  <2> TAKE s \in S
  <2>1. s \in Sizes(c) /\ s \in Nat BY <1>3
  <2>2. 2 * s \in Nat BY <2>1
  <2>3. QED BY <2>1, <2>2
<1>5. c \in S /\ S \in SUBSET Nat OBVIOUS
<1>6. n \in S BY <1>4, <1>5 DEF Sizes
<1>7. PICK m \in Sizes(c) : n = 2 * m BY <1>6
<1>8. m \in Nat BY <1>1
<1>9. QED BY <1>7, <1>8

-----------------------------------------------------------------------------
(* Tables.                                                                  *)

(* A bucket is free or holds an item, and dib tells which. *)
LEMMA Bucket ==
  ASSUME NEW n \in Nat, NEW b \in Table(n), NEW j \in 0..(n - 1)
  PROVE  /\ b[j] \in Item \cup {Free} /\ b[j].dib \in Nat
         /\ b[j] = Free <=> b[j].dib = 0
         /\ b[j] # Free => b[j] \in Item /\ b[j].key \in Key /\ b[j].val \in Value
                           /\ b[j].dib \in Nat \ {0}
         /\ b[j] \in Item => b[j] # Free
<1>1. b[j] \in Item \cup {Free} BY DEF Table
<1>2. Free.dib = 0 BY DEF Free
<1>3. \A x \in Item : x.key \in Key /\ x.val \in Value /\ x.dib \in Nat \ {0} BY DEF Item
<1>4. CASE b[j] = Free BY <1>1, <1>2, <1>3, <1>4
<1>5. CASE b[j] # Free
  <2>1. b[j] \in Item BY <1>1, <1>5
  <2>2. b[j].key \in Key /\ b[j].val \in Value /\ b[j].dib \in Nat \ {0} BY <2>1, <1>3
  <2>3. QED BY <1>5, <2>1, <2>2
<1>6. QED BY <1>4, <1>5

(* The buckets in use. *)
LEMMA InUseOf ==
  ASSUME NEW n \in Nat, NEW b \in Table(n)
  PROVE  /\ InUse(b) = {j \in 0..(n - 1) : b[j] # Free}
         /\ InUse(b) \subseteq 0..(n - 1)
         /\ IsFiniteSet(InUse(b)) /\ Cardinality(InUse(b)) \in Nat
         /\ Cardinality(InUse(b)) <= n
<1>1. DOMAIN b = 0..(n - 1) BY DEF Table
<1>2. InUse(b) = {j \in 0..(n - 1) : b[j] # Free} BY <1>1 DEF InUse
<1>3. InUse(b) \subseteq 0..(n - 1) BY <1>2
<1>4. IsFiniteSet(0..(n - 1)) /\ Cardinality(0..(n - 1)) = n
  <2>1. 0 \in Int /\ n - 1 \in Int OBVIOUS
  <2>2. IsFiniteSet(0..(n - 1)) BY <2>1, FS_Interval
  <2>3. Cardinality(0..(n - 1)) = IF 0 > n - 1 THEN 0 ELSE (n - 1) - 0 + 1 BY <2>1, FS_Interval
  <2>4. QED BY <2>2, <2>3
<1>5. IsFiniteSet(InUse(b)) /\ Cardinality(InUse(b)) <= n BY <1>3, <1>4, FS_Subset
<1>6. Cardinality(InUse(b)) \in Nat BY <1>5, FS_CardinalityType
<1>7. QED BY <1>2, <1>3, <1>5, <1>6

(* A table that is not full has a free bucket. *)
LEMMA NotFull ==
  ASSUME NEW n \in Nat, NEW b \in Table(n), Cardinality(InUse(b)) < n
  PROVE  \E f \in 0..(n - 1) : b[f].dib = 0
<1>1. SUFFICES ASSUME \A f \in 0..(n - 1) : b[f].dib # 0 PROVE FALSE OBVIOUS
<1>2. InUse(b) = {j \in 0..(n - 1) : b[j] # Free} BY InUseOf
<1>3. InUse(b) = 0..(n - 1) BY <1>1, <1>2, Bucket
<1>4. 0 \in Int /\ n - 1 \in Int OBVIOUS
<1>5. Cardinality(0..(n - 1)) = IF 0 > n - 1 THEN 0 ELSE (n - 1) - 0 + 1 BY <1>4, FS_Interval
<1>6. QED BY <1>3, <1>5

(* A free bucket bounds how far an entry has come. *)
LEMMA RoomAhead ==
  ASSUME NEW n \in Nat \ {0}, NEW b \in Table(n), NEW k \in Key, NEW d \in 1..n,
         Earned(k, d, b, n), \E f \in 0..(n - 1) : b[f].dib = 0
  PROVE  d < n
<1>1. PICK f \in 0..(n - 1) : b[f].dib = 0 OBVIOUS
<1>2. PICK e \in 0..(n - 1) : f = Way(k, e, n) BY WayOnto
<1>3. e \notin 0..(d - 1)
  <2>1. SUFFICES ASSUME e \in 0..(d - 1) PROVE FALSE OBVIOUS
  <2>2. b[Way(k, e, n)].dib > e BY <2>1 DEF Earned
  <2>3. QED BY <1>1, <1>2, <2>2
<1>4. QED BY <1>3

(* An entry whose way is earned up to and with its bucket goes on to the    *)
(* next one.                                                                *)
LEMMA GoesOn ==
  ASSUME NEW n \in Nat \ {0}, NEW b \in Table(n), NEW x \in Item, NEW j,
         Placed(x, j, n), Earned(x.key, x.dib, b, n),
         \E f \in 0..(n - 1) : b[f].dib = 0
  PROVE  LET y == [x EXCEPT !.dib = @ + 1] IN
           /\ y \in Item /\ y.key = x.key /\ y.val = x.val /\ y.dib = x.dib + 1
           /\ Placed(y, Wrap(j + 1, n), n) /\ Earned(y.key, y.dib - 1, b, n)
<1> DEFINE y == [x EXCEPT !.dib = @ + 1]
<1>1. /\ x.key \in Key /\ x.dib \in Nat \ {0}
      /\ y \in Item /\ y.key = x.key /\ y.val = x.val /\ y.dib = x.dib + 1
  BY DEF Item
<1> HIDE DEF y
<1>2. x.dib \in 1..n /\ j = Way(x.key, x.dib - 1, n) BY DEF Placed
<1>3. x.dib < n BY <1>1, <1>2, RoomAhead
<1>4. x.dib - 1 \in 0..(n - 1) /\ (x.dib - 1) + 1 = x.dib BY <1>2
<1>5. Way(x.key, x.dib, n) = Wrap(j + 1, n) BY <1>1, <1>2, <1>4, WayNext
<1>6. y.dib \in 1..n /\ y.dib - 1 = x.dib BY <1>1, <1>2, <1>3
<1>7. Placed(y, Wrap(j + 1, n), n) BY <1>1, <1>5, <1>6 DEF Placed
<1>8. Earned(y.key, y.dib - 1, b, n) BY <1>1, <1>6
<1>9. QED BY <1>1, <1>7, <1>8 DEF y

(* A table in which no bucket lost keeps every way earned. *)
LEMMA EarnedGrows ==
  ASSUME NEW n \in Nat \ {0}, NEW b \in Table(n), NEW c \in Table(n),
         \A j \in 0..(n - 1) : c[j].dib >= b[j].dib,
         NEW k \in Key, NEW d \in 0..n, Earned(k, d, b, n)
  PROVE  Earned(k, d, c, n)
<1> SUFFICES ASSUME NEW e \in 0..(d - 1) PROVE c[Way(k, e, n)].dib > e BY DEF Earned
<1>1. Way(k, e, n) \in 0..(n - 1) BY WayIn
<1>2. b[Way(k, e, n)].dib > e BY DEF Earned
<1>3. c[Way(k, e, n)].dib >= b[Way(k, e, n)].dib BY <1>1
<1>4. b[Way(k, e, n)].dib \in Nat /\ c[Way(k, e, n)].dib \in Nat BY <1>1, Bucket
<1>5. QED BY <1>2, <1>3, <1>4

(* An entry that has come further than what is in its bucket is put there.  *)
LEMMA PutFair ==
  ASSUME NEW n \in Nat \ {0}, NEW b \in Table(n), Fair(b, n),
         NEW x \in Item, NEW j \in 0..(n - 1),
         Placed(x, j, n), Earned(x.key, x.dib - 1, b, n), b[j].dib < x.dib,
         NEW c \in Table(n), c[j] = x, \A i \in 0..(n - 1) : i # j => c[i] = b[i]
  PROVE  /\ Fair(c, n)
         /\ InUse(c) = InUse(b) \cup {j}
         /\ \A i \in 0..(n - 1) : c[i].dib >= b[i].dib
         /\ Earned(x.key, x.dib, c, n)
<1>1. c \in Table(n) /\ c[j] = x /\ \A i \in 0..(n - 1) : i # j => c[i] = b[i]
  OBVIOUS
<1>2. \A i \in 0..(n - 1) : b[i].dib \in Nat /\ c[i].dib \in Nat BY <1>1, Bucket
<1>3. x.dib \in Nat /\ x.key \in Key /\ x # Free BY DEF Item, Free
<1>4. \A i \in 0..(n - 1) : c[i].dib >= b[i].dib BY <1>1, <1>2, <1>3
<1>5. x.dib \in 1..n /\ j = Way(x.key, x.dib - 1, n) BY DEF Placed
<1>6. Earned(x.key, x.dib, c, n)
  <2>1. x.dib - 1 \in 0..n BY <1>5
  <2>2. Earned(x.key, x.dib - 1, c, n) BY <1>1, <1>3, <1>4, <2>1, EarnedGrows
  <2> SUFFICES ASSUME NEW e \in 0..(x.dib - 1) PROVE c[Way(x.key, e, n)].dib > e BY DEF Earned
  <2>3. CASE e \in 0..((x.dib - 1) - 1) BY <2>2, <2>3 DEF Earned
  <2>4. CASE e = x.dib - 1 BY <1>1, <1>3, <1>5, <2>4
  <2>5. QED BY <1>5, <2>3, <2>4
<1>7. InUse(c) = InUse(b) \cup {j}
  <2>1. InUse(c) = {i \in 0..(n - 1) : c[i] # Free} BY <1>1, InUseOf
  <2>2. InUse(b) = {i \in 0..(n - 1) : b[i] # Free} BY InUseOf
  <2>3. QED BY <1>1, <1>3, <2>1, <2>2
<1>8. Fair(c, n)
  <2> SUFFICES ASSUME NEW i \in 0..(n - 1), c[i] # Free
               PROVE  Placed(c[i], i, n) /\ Earned(c[i].key, c[i].dib, c, n)
    BY DEF Fair
  <2>1. CASE i = j BY <1>1, <1>6, <2>1
  <2>2. CASE i # j
    <3>1. c[i] = b[i] BY <1>1, <2>2
    <3>2. Placed(b[i], i, n) /\ Earned(b[i].key, b[i].dib, b, n) BY <3>1 DEF Fair
    <3>3. b[i].key \in Key BY <3>1, Bucket
    <3>4. b[i].dib \in 0..n BY <3>2 DEF Placed
    <3>5. Earned(b[i].key, b[i].dib, c, n) BY <1>1, <1>4, <3>2, <3>3, <3>4, EarnedGrows
    <3>6. QED BY <3>1, <3>2, <3>5
  <2>3. QED BY <2>1, <2>2
<1>9. QED BY <1>1, <1>4, <1>6, <1>7, <1>8

(* One bucket of a carrying loop: the table stays fair, and the entry that  *)
(* is carried on has earned its place.                                      *)
LEMMA CarryKeeps ==
  ASSUME NEW n \in Nat \ {0}, NEW b \in Table(n), Fair(b, n),
         NEW x \in Item, NEW j \in 0..(n - 1),
         Placed(x, j, n), Earned(x.key, x.dib - 1, b, n),
         b[j].dib # 0, \E f \in 0..(n - 1) : b[f].dib = 0,
         NEW c, NEW y, NEW j2, j2 = Wrap(j + 1, n),
         IF b[j].dib < x.dib
         THEN c = [b EXCEPT ![j] = x] /\ y = [b[j] EXCEPT !.dib = @ + 1]
         ELSE c = b /\ y = [x EXCEPT !.dib = @ + 1]
  PROVE  /\ c \in Table(n) /\ Fair(c, n) /\ InUse(c) = InUse(b)
         /\ y \in Item /\ j2 \in 0..(n - 1)
         /\ Placed(y, j2, n) /\ Earned(y.key, y.dib - 1, c, n)
         /\ b[j].dib < x.dib =>
              /\ c[j] = x /\ \A i \in 0..(n - 1) : i # j => c[i] = b[i]
              /\ y.key = b[j].key /\ y.val = b[j].val
         /\ ~(b[j].dib < x.dib) =>
              c = b /\ y.key = x.key /\ y.val = x.val /\ y.dib = x.dib + 1
<1>1. PICK f \in 0..(n - 1) : b[f].dib = 0 OBVIOUS
<1>2. j2 \in 0..(n - 1) BY DEF Wrap
<1>3. b[j] \in Item /\ b[j] # Free /\ b[j].key \in Key /\ b[j].dib \in Nat \ {0} BY Bucket
<1>4. x.key \in Key /\ x.dib \in Nat \ {0} BY DEF Item
<1>5. CASE b[j].dib < x.dib
  <2>1. c = [b EXCEPT ![j] = x] /\ y = [b[j] EXCEPT !.dib = @ + 1] BY <1>5
  <2>0. c \in Table(n) /\ c[j] = x /\ \A i \in 0..(n - 1) : i # j => c[i] = b[i]
    BY <2>1 DEF Table
  <2>2. /\ c \in Table(n) /\ Fair(c, n)
        /\ c[j] = x /\ \A i \in 0..(n - 1) : i # j => c[i] = b[i]
        /\ InUse(c) = InUse(b) \cup {j}
        /\ \A i \in 0..(n - 1) : c[i].dib >= b[i].dib
    BY <1>5, <2>0, PutFair
  <2>3. InUse(c) = InUse(b)
    <3>1. j \in InUse(b) BY <1>3, InUseOf
    <3>2. QED BY <2>2, <3>1
  <2>4. Placed(b[j], j, n) /\ Earned(b[j].key, b[j].dib, b, n) BY <1>3 DEF Fair
  <2>5. Earned(b[j].key, b[j].dib, c, n)
    <3>1. b[j].dib \in 0..n BY <2>4 DEF Placed
    <3>2. QED BY <1>3, <2>2, <2>4, <3>1, EarnedGrows
  <2>6. \E g \in 0..(n - 1) : c[g].dib = 0
    <3>1. f # j BY <1>1
    <3>2. QED BY <1>1, <2>2, <3>1
  <2>7. /\ y \in Item /\ y.key = b[j].key /\ y.val = b[j].val
        /\ Placed(y, j2, n) /\ Earned(y.key, y.dib - 1, c, n)
    BY <1>3, <2>1, <2>2, <2>4, <2>5, <2>6, GoesOn
  <2>8. QED BY <1>2, <1>5, <2>2, <2>3, <2>7
<1>6. CASE ~(b[j].dib < x.dib)
  <2>1. c = b /\ y = [x EXCEPT !.dib = @ + 1] BY <1>6
  <2>2. Earned(x.key, x.dib, b, n)
    <3>1. x.dib \in 1..n /\ j = Way(x.key, x.dib - 1, n) BY DEF Placed
    <3> SUFFICES ASSUME NEW e \in 0..(x.dib - 1) PROVE b[Way(x.key, e, n)].dib > e BY DEF Earned
    <3>2. CASE e \in 0..((x.dib - 1) - 1) BY <3>2 DEF Earned
    <3>3. CASE e = x.dib - 1 BY <1>3, <1>4, <1>6, <3>1, <3>3
    <3>4. QED BY <3>1, <3>2, <3>3
  <2>3. /\ y \in Item /\ y.key = x.key /\ y.val = x.val /\ y.dib = x.dib + 1
        /\ Placed(y, j2, n) /\ Earned(y.key, y.dib - 1, b, n)
    BY <1>1, <2>1, <2>2, GoesOn
  <2>4. QED BY <1>2, <1>6, <2>1, <2>3
<1>7. QED BY <1>5, <1>6

(* A new key, put in the place of an entry or in a free bucket, leaves no   *)
(* key twice, and the key that it displaces not once.                       *)
LEMMA PutUnique ==
  ASSUME NEW n \in Nat, NEW b \in Table(n), NEW c \in Table(n), Unique(b),
         NEW x, NEW j \in 0..(n - 1), Absent(x.key, b),
         c[j] = x, \A i \in 0..(n - 1) : i # j => c[i] = b[i]
  PROVE  Unique(c) /\ (b[j] # Free => Absent(b[j].key, c))
<1>1. InUse(b) = {i \in 0..(n - 1) : b[i] # Free} /\ InUse(c) = {i \in 0..(n - 1) : c[i] # Free}
  BY InUseOf
<1>2. \A i \in InUse(c) : i # j => i \in InUse(b) /\ c[i] = b[i] BY <1>1
<1>3. Unique(c) BY <1>2 DEF Unique, Absent
<1>4. ASSUME b[j] # Free PROVE Absent(b[j].key, c)
  <2>1. j \in InUse(b) BY <1>1, <1>4
  <2> SUFFICES ASSUME NEW i \in InUse(c) PROVE c[i].key # b[j].key BY DEF Absent
  <2>2. CASE i = j BY <2>1, <2>2 DEF Absent
  <2>3. CASE i # j BY <1>2, <2>1, <2>3 DEF Unique
  <2>4. QED BY <2>2, <2>3
<1>5. QED BY <1>3, <1>4

(* The closing of a gap: bucket i is emptied, and the r entries after it,   *)
(* which are not at home, move one bucket back.                             *)
Gap(b, i, r, n) ==
  /\ b[i] # Free
  /\ b[Wrap(i + r + 1, n)].dib <= 1
  /\ \A e \in 1..r : b[Wrap(i + e, n)].dib > 1
Moves(j, i, r, n) == \E e \in 0..(r - 1) : j = Wrap(i + e, n)
Closed(b, i, r, n) ==
  [j \in 0..(n - 1) |->
     CASE j = Wrap(i + r, n) -> Free
       [] Moves(j, i, r, n) -> [b[Wrap(j + 1, n)] EXCEPT !.dib = @ - 1]
       [] OTHER -> b[j]]

(* What each bucket holds then. *)
LEMMA GapShape ==
  ASSUME NEW n \in Nat \ {0}, NEW b \in Table(n),
         NEW i \in 0..(n - 1), NEW r \in 0..(n - 1), Gap(b, i, r, n),
         NEW c, c = Closed(b, i, r, n),
         NEW j \in 0..(n - 1)
  PROVE  /\ j = Wrap(i + r, n) => c[j] = Free /\ b[j] # Free
         /\ j # Wrap(i + r, n) /\ Moves(j, i, r, n) =>
              /\ Wrap(j + 1, n) \in 0..(n - 1) /\ b[j] # Free
              /\ b[Wrap(j + 1, n)] \in Item /\ b[Wrap(j + 1, n)].dib > 1
              /\ c[j] \in Item
              /\ c[j].key = b[Wrap(j + 1, n)].key /\ c[j].val = b[Wrap(j + 1, n)].val
              /\ c[j].dib = b[Wrap(j + 1, n)].dib - 1
         /\ j # Wrap(i + r, n) /\ ~Moves(j, i, r, n) => c[j] = b[j]
<1>0. b[i] # Free /\ \A e \in 1..r : b[Wrap(i + e, n)].dib > 1 BY DEF Gap
<1>1. \A e \in 0..r : Wrap(i + e, n) \in 0..(n - 1) /\ b[Wrap(i + e, n)] # Free
  <2> TAKE e \in 0..r
  <2>1. Wrap(i + e, n) \in 0..(n - 1) BY DEF Wrap
  <2>2. CASE e = 0
    <3>1. Wrap(i + e, n) = i BY <2>2 DEF Wrap
    <3>2. QED BY <1>0, <2>1, <3>1
  <2>3. CASE e \in 1..r
    <3>1. b[Wrap(i + e, n)].dib > 1 BY <1>0, <2>3
    <3>2. QED BY <2>1, <3>1, Bucket
  <2>4. QED BY <2>2, <2>3
<1>2. CASE j = Wrap(i + r, n)
  <2>0. ~Moves(j, i, r, n) BY <1>2 DEF Wrap, Moves
  <2>1. c[j] = Free
    <3>1. c[j] = CASE j = Wrap(i + r, n) -> Free
                   [] Moves(j, i, r, n) ->
                                [b[Wrap(j + 1, n)] EXCEPT !.dib = @ - 1]
                   [] OTHER -> b[j] BY DEF Closed
    <3>2. QED BY <1>2, <2>0, <3>1
  <2>2. b[j] # Free BY <1>1, <1>2
  <2>3. QED BY <1>2, <2>1, <2>2
<1>3. CASE j # Wrap(i + r, n) /\ Moves(j, i, r, n)
  <2>1. PICK e \in 0..(r - 1) : j = Wrap(i + e, n) BY <1>3 DEF Moves
  <2>2. Wrap(j + 1, n) = Wrap(i + (e + 1), n) BY <2>1 DEF Wrap
  <2>3. e + 1 \in 1..r /\ e \in 0..r OBVIOUS
  <2>4. b[Wrap(i + (e + 1), n)].dib > 1 BY <1>0, <2>3
  <2>5. Wrap(j + 1, n) \in 0..(n - 1) BY DEF Wrap
  <2> DEFINE x == b[Wrap(j + 1, n)]
  <2>6. x.dib > 1 BY <2>2, <2>4
  <2>7. x \in Item
    <3>1. x \in Item \cup {Free} BY <2>5, Bucket
    <3>2. x # Free BY <2>6 DEF Free
    <3>3. QED BY <3>1, <3>2
  <2>8. c[j] = [x EXCEPT !.dib = @ - 1]
    <3>1. c[j] = CASE j = Wrap(i + r, n) -> Free
                   [] Moves(j, i, r, n) -> [x EXCEPT !.dib = @ - 1]
                   [] OTHER -> b[j] BY DEF Closed
    <3>2. QED BY <1>3, <3>1
  <2> DEFINE z == c[j]
  <2>81. z = [x EXCEPT !.dib = @ - 1] BY <2>8
  <2> HIDE DEF x, z
  <2>9. z \in Item /\ z.key = x.key /\ z.val = x.val /\ z.dib = x.dib - 1
    <3>1. x.dib \in Nat \ {0} /\ x = [key |-> x.key, val |-> x.val, dib |-> x.dib] BY <2>7 DEF Item
    <3>2. x.dib - 1 \in Nat \ {0} BY <2>6, <3>1
    <3>3. z = [key |-> x.key, val |-> x.val, dib |-> x.dib - 1] BY <2>81, <3>1
    <3>4. [key |-> x.key, val |-> x.val, dib |-> x.dib - 1] \in Item BY <2>7, <3>2 DEF Item
    <3>5. QED BY <3>3, <3>4
  <2>10. b[j] # Free BY <1>1, <2>1, <2>3
  <2>11. QED BY <1>3, <2>1, <2>2, <2>5, <2>6, <2>7, <2>9, <2>10 DEF x, z
<1>4. CASE j # Wrap(i + r, n) /\ ~Moves(j, i, r, n)
  <2>1. c[j] = CASE j = Wrap(i + r, n) -> Free
                 [] Moves(j, i, r, n) ->
                              [b[Wrap(j + 1, n)] EXCEPT !.dib = @ - 1]
                 [] OTHER -> b[j] BY DEF Closed
  <2>2. c[j] = b[j] BY <1>4, <2>1
  <2>3. QED BY <1>4, <2>2
<1>5. QED BY <1>2, <1>3, <1>4

(* The bucket from which the entry of bucket j of the closed table came: i  *)
(* is the one that none came from, and no two came from the same.           *)
Back(j, i, r, n) ==
  IF Moves(j, i, r, n) THEN Wrap(j + 1, n) ELSE j

LEMMA GapBack ==
  ASSUME NEW n \in Nat \ {0}, NEW b \in Table(n),
         NEW i \in 0..(n - 1), NEW r \in 0..(n - 1), Gap(b, i, r, n),
         NEW c, c = Closed(b, i, r, n),
         NEW j \in 0..(n - 1), c[j] # Free
  PROVE  LET p == Back(j, i, r, n) IN
           /\ p \in 0..(n - 1) /\ p # i /\ b[p] # Free /\ b[j] # Free
           /\ c[j].key = b[p].key /\ c[j].val = b[p].val
           /\ j # Wrap(i + r, n)
<1> DEFINE p == Back(j, i, r, n)
<1>1. j # Wrap(i + r, n)
  <2>1. j = Wrap(i + r, n) => c[j] = Free BY GapShape
  <2>2. QED BY <2>1
<1>2. CASE Moves(j, i, r, n)
  <2>1. p = Wrap(j + 1, n) BY <1>2 DEF Back
  <2>2. PICK e \in 0..(r - 1) : j = Wrap(i + e, n) BY <1>2 DEF Moves
  <2>3. p \in 0..(n - 1) /\ p # i BY <2>1, <2>2 DEF Wrap
  <2>4. /\ b[Wrap(j + 1, n)] \in Item /\ b[j] # Free
        /\ c[j].key = b[Wrap(j + 1, n)].key /\ c[j].val = b[Wrap(j + 1, n)].val
    BY <1>1, <1>2, GapShape
  <2>5. b[p] # Free BY <2>1, <2>3, <2>4, Bucket
  <2>6. QED BY <1>1, <2>1, <2>3, <2>4, <2>5
<1>3. CASE ~Moves(j, i, r, n)
  <2>1. p = j BY <1>3 DEF Back
  <2>2. c[j] = b[j] BY <1>1, <1>3, GapShape
  <2>3. p # i
    <3>1. SUFFICES ASSUME p = i PROVE FALSE OBVIOUS
    <3>2. i = Wrap(i + 0, n) BY DEF Wrap
    <3>3. CASE r = 0 BY <1>1, <2>1, <3>1, <3>2, <3>3
    <3>4. CASE r # 0
      <4>1. 0 \in 0..(r - 1) BY <3>4
      <4>2. QED BY <1>3, <2>1, <3>1, <3>2, <4>1 DEF Moves
    <3>5. QED BY <3>3, <3>4
  <2>4. QED BY <1>1, <2>1, <2>2, <2>3
<1>4. QED BY <1>2, <1>3

(* Every other entry has moved or stayed. *)
LEMMA GapForth ==
  ASSUME NEW n \in Nat \ {0}, NEW b \in Table(n),
         NEW i \in 0..(n - 1), NEW r \in 0..(n - 1), Gap(b, i, r, n),
         NEW c, c = Closed(b, i, r, n),
         NEW p \in 0..(n - 1), b[p] # Free, p # i
  PROVE  \E j \in 0..(n - 1) : c[j] # Free /\ c[j].key = b[p].key /\ c[j].val = b[p].val
<1>1. CASE \E f \in 1..r : p = Wrap(i + f, n)
  <2>1. PICK f \in 1..r : p = Wrap(i + f, n) BY <1>1
  <2> DEFINE j == Wrap(i + (f - 1), n)
  <2>2. f - 1 \in 0..(r - 1) /\ j \in 0..(n - 1) BY DEF Wrap
  <2>3. Wrap(j + 1, n) = p /\ j # Wrap(i + r, n) BY <2>1 DEF Wrap
  <2>4. j = Wrap(i + (f - 1), n) OBVIOUS
  <2> HIDE DEF j
  <2>5. Moves(j, i, r, n) BY <2>2, <2>4 DEF Moves
  <2>6. c[j] \in Item /\ c[j].key = b[p].key /\ c[j].val = b[p].val BY <2>2, <2>3, <2>5, GapShape
  <2>7. c[j] # Free BY <2>6 DEF Item, Free
  <2>8. QED BY <2>2, <2>6, <2>7
<1>2. CASE ~\E f \in 1..r : p = Wrap(i + f, n)
  <2>1. i = Wrap(i + 0, n) BY DEF Wrap
  <2>2. p # Wrap(i + r, n)
    <3>1. CASE r = 0 BY <2>1, <3>1
    <3>2. CASE r # 0
      <4>1. r \in 1..r BY <3>2
      <4>2. QED BY <1>2, <4>1
    <3>3. QED BY <3>1, <3>2
  <2>3. ~Moves(p, i, r, n)
    <3>1. SUFFICES ASSUME NEW e \in 0..(r - 1), p = Wrap(i + e, n) PROVE FALSE BY DEF Moves
    <3>2. CASE e = 0 BY <2>1, <3>1, <3>2
    <3>3. CASE e # 0
      <4>1. e \in 1..r BY <3>3
      <4>2. QED BY <1>2, <3>1, <4>1
    <3>4. QED BY <3>2, <3>3
  <2>4. c[p] = b[p] BY <2>2, <2>3, GapShape
  <2>5. QED BY <2>4
<1>3. QED BY <1>1, <1>2

(* The closed table holds one item less, each key at most once, ...         *)
LEMMA GapKeys ==
  ASSUME NEW n \in Nat \ {0}, NEW b \in Table(n), Unique(b),
         NEW i \in 0..(n - 1), NEW r \in 0..(n - 1), Gap(b, i, r, n),
         NEW c, c = Closed(b, i, r, n)
  PROVE  /\ c \in Table(n) /\ Unique(c) /\ Absent(b[i].key, c)
         /\ Cardinality(InUse(c)) = Cardinality(InUse(b)) - 1
<1>1. c \in Table(n)
  <2>1. DOMAIN c = 0..(n - 1) /\ c = [j \in 0..(n - 1) |-> c[j]] BY DEF Closed
  <2>2. ASSUME NEW j \in 0..(n - 1) PROVE c[j] \in Item \cup {Free}
    <3>1. b[j] \in Item \cup {Free} BY Bucket
    <3>2. c[j] = Free \/ c[j] \in Item \/ c[j] = b[j] BY GapShape
    <3>3. QED BY <3>1, <3>2
  <2>3. QED BY <2>1, <2>2 DEF Table
<1>2. InUse(c) = {j \in 0..(n - 1) : c[j] # Free} /\ InUse(b) = {j \in 0..(n - 1) : b[j] # Free}
  BY <1>1, InUseOf
<1>3. ASSUME NEW j \in InUse(c)
      PROVE  LET p == Back(j, i, r, n) IN
               /\ p \in InUse(b) /\ p # i /\ j \in InUse(b)
               /\ c[j].key = b[p].key /\ j # Wrap(i + r, n)
  <2>1. j \in 0..(n - 1) /\ c[j] # Free BY <1>2
  <2>2. QED BY <1>2, <2>1, GapBack
<1>4. Unique(c)
  <2> SUFFICES ASSUME NEW j \in InUse(c), NEW k \in InUse(c), c[j].key = c[k].key PROVE j = k
    BY DEF Unique
  <2>1. Back(j, i, r, n) = Back(k, i, r, n) BY <1>3 DEF Unique
  <2>2. j \in 0..(n - 1) /\ k \in 0..(n - 1) BY <1>2
  <2>3. j # Wrap(i + r, n) /\ k # Wrap(i + r, n) BY <1>3
  <2> DEFINE Moved(x) == Moves(x, i, r, n)
  <2>4. CASE Moved(j) /\ Moved(k)
    <3>1. Wrap(j + 1, n) = Wrap(k + 1, n) BY <2>1, <2>4 DEF Back
    <3>2. QED BY <2>2, <3>1, WrapOneToOne
  <2>5. CASE ~Moved(j) /\ ~Moved(k) BY <2>1, <2>5 DEF Back
  <2>6. \A x, y \in 0..(n - 1) : Moved(x) /\ ~Moved(y) /\ y # Wrap(i + r, n) => Wrap(x + 1, n) # y
    <3> SUFFICES ASSUME NEW x \in 0..(n - 1), NEW y \in 0..(n - 1), NEW e \in 0..(r - 1),
                        x = Wrap(i + e, n), ~Moved(y), y # Wrap(i + r, n), Wrap(x + 1, n) = y
                 PROVE  FALSE
      BY DEF Moves
    <3>1. y = Wrap(i + (e + 1), n) BY DEF Wrap
    <3>2. CASE e + 1 = r BY <3>1, <3>2
    <3>3. CASE e + 1 # r
      <4>1. e + 1 \in 0..(r - 1) BY <3>3
      <4>2. QED BY <3>1, <4>1 DEF Moves
    <3>4. QED BY <3>2, <3>3
  <2>7. CASE Moved(j) /\ ~Moved(k)
    <3>1. Back(j, i, r, n) = Wrap(j + 1, n) /\ Back(k, i, r, n) = k BY <2>7 DEF Back
    <3>2. QED BY <2>1, <2>2, <2>3, <2>6, <2>7, <3>1
  <2>8. CASE ~Moved(j) /\ Moved(k)
    <3>1. Back(k, i, r, n) = Wrap(k + 1, n) /\ Back(j, i, r, n) = j BY <2>8 DEF Back
    <3>2. QED BY <2>1, <2>2, <2>3, <2>6, <2>8, <3>1
  <2>9. QED BY <2>4, <2>5, <2>7, <2>8
<1>5. Absent(b[i].key, c)
  <2> SUFFICES ASSUME NEW j \in InUse(c) PROVE c[j].key # b[i].key BY DEF Absent
  <2>1. i \in InUse(b) BY <1>2 DEF Gap
  <2>2. QED BY <1>3, <2>1 DEF Unique
<1>6. InUse(c) = InUse(b) \ {Wrap(i + r, n)} /\ Wrap(i + r, n) \in InUse(b)
  <2>1. Wrap(i + r, n) \in 0..(n - 1) BY DEF Wrap
  <2>2. b[Wrap(i + r, n)] # Free BY <2>1, GapShape
  <2>3. ASSUME NEW j \in InUse(b), j # Wrap(i + r, n) PROVE j \in InUse(c)
    <3>1. j \in 0..(n - 1) /\ b[j] # Free BY <1>2
    <3>2. c[j] \in Item \/ c[j] = b[j] BY <2>3, <3>1, GapShape
    <3>3. c[j] # Free BY <1>1, <3>1, <3>2, Bucket
    <3>4. QED BY <1>2, <3>1, <3>3
  <2>4. QED BY <1>2, <1>3, <2>1, <2>2, <2>3
<1>7. Cardinality(InUse(c)) = Cardinality(InUse(b)) - 1
  <2>1. IsFiniteSet(InUse(b)) BY InUseOf
  <2>2. QED BY <1>6, <2>1, FS_RemoveElement
<1>8. QED BY <1>1, <1>4, <1>5, <1>7

(* ... and every item still has earned its place: one that came past the    *)
(* bucket now free would have had to come past a bucket whose item is at    *)
(* home, or past a free one.                                                *)
LEMMA GapFair ==
  ASSUME NEW n \in Nat \ {0}, NEW b \in Table(n), Fair(b, n),
         NEW i \in 0..(n - 1), NEW r \in 0..(n - 1), Gap(b, i, r, n),
         NEW c \in Table(n), c = Closed(b, i, r, n)
  PROVE  Fair(c, n)
<1> DEFINE Moved(j) == Moves(j, i, r, n)
           g == Wrap(i + r, n)
<1>1. ASSUME NEW j \in 0..(n - 1)
      PROVE  \/ j = g /\ c[j] = Free
             \/ /\ j # g /\ Moved(j) /\ Wrap(j + 1, n) \in 0..(n - 1)
                /\ b[Wrap(j + 1, n)] # Free /\ b[Wrap(j + 1, n)].dib > 1
                /\ c[j].key = b[Wrap(j + 1, n)].key
                /\ c[j].dib = b[Wrap(j + 1, n)].dib - 1
             \/ j # g /\ ~Moved(j) /\ c[j] = b[j]
  <2>1. b[Wrap(j + 1, n)] \in Item => b[Wrap(j + 1, n)] # Free BY DEF Item, Free
  <2>2. QED BY <2>1, GapShape
<1>2. g \in 0..(n - 1) /\ Wrap(g + 1, n) \in 0..(n - 1) /\ b[Wrap(g + 1, n)].dib <= 1
  <2>1. g \in 0..(n - 1) /\ Wrap(g + 1, n) \in 0..(n - 1) /\ Wrap(g + 1, n) = Wrap(i + r + 1, n)
    BY DEF Wrap
  <2>2. QED BY <2>1 DEF Gap
<1> HIDE DEF Moved, g
<1>3. ASSUME NEW k \in Key, NEW d \in 0..n, Earned(k, d, b, n), NEW e \in 0..(d - 1),
             e + 1 < d \/ (Way(k, e, n) # g /\ ~Moved(Way(k, e, n)))
      PROVE  c[Way(k, e, n)].dib > e
  <2> DEFINE p == Way(k, e, n)
  <2>1. e \in 0..(n - 1) /\ e \in Nat OBVIOUS
  <2>2. p \in 0..(n - 1) BY <2>1, WayIn
  <2>3. Wrap(p + 1, n) = Way(k, e + 1, n) BY <2>1, WayNext
  <2>4. b[p].dib > e BY <1>3 DEF Earned
  <2> HIDE DEF p
  <2>5. CASE e + 1 < d
    <3>1. e + 1 \in 0..(d - 1) BY <2>5
    <3>2. b[Wrap(p + 1, n)].dib > e + 1 BY <1>3, <2>3, <3>1 DEF Earned
    <3>3. p # g
      <4>1. SUFFICES ASSUME p = g PROVE FALSE OBVIOUS
      <4>2. b[Wrap(g + 1, n)].dib > e + 1 BY <3>2, <4>1
      <4>3. b[Wrap(g + 1, n)].dib \in Nat BY <1>2, Bucket
      <4>4. QED BY <1>2, <2>1, <4>2, <4>3
    <3>4. CASE Moved(p)
      <4>1. c[p].dib = b[Wrap(p + 1, n)].dib - 1 /\ Wrap(p + 1, n) \in 0..(n - 1)
        BY <1>1, <2>2, <3>3, <3>4
      <4>2. b[Wrap(p + 1, n)].dib \in Nat BY <4>1, Bucket
      <4>3. c[p].dib > e BY <2>1, <3>2, <4>1, <4>2
      <4>4. QED BY <4>3 DEF p
    <3>5. CASE ~Moved(p)
      <4>1. c[p] = b[p] BY <1>1, <2>2, <3>3, <3>5
      <4>2. QED BY <2>4, <4>1 DEF p
    <3>6. QED BY <3>4, <3>5
  <2>6. CASE Way(k, e, n) # g /\ ~Moved(Way(k, e, n))
    <3>1. c[p] = b[p] BY <1>1, <2>2, <2>6 DEF p
    <3>2. QED BY <2>4, <3>1 DEF p
  <2>7. QED BY <1>3, <2>5, <2>6
<1>4. ASSUME NEW j \in 0..(n - 1), c[j] # Free
      PROVE  Placed(c[j], j, n) /\ Earned(c[j].key, c[j].dib, c, n)
  <2>1. CASE Moved(j)
    <3> DEFINE q == Wrap(j + 1, n)
               x == b[q]
               k == x.key
               d == x.dib
    <3>1. /\ q \in 0..(n - 1) /\ x # Free /\ d > 1 /\ c[j].key = k /\ c[j].dib = d - 1
      BY <1>1, <1>4, <2>1
    <3>2. Placed(x, q, n) /\ Earned(k, d, b, n) BY <3>1 DEF Fair
    <3>3. k \in Key /\ d \in 1..n /\ q = Way(k, d - 1, n) BY <3>1, <3>2, Bucket DEF Placed
    <3>4. q = Wrap(j + 1, n) OBVIOUS
    <3> HIDE DEF q, k, d
    <3>5. d - 2 \in 0..(n - 1) /\ (d - 2) + 1 = d - 1 BY <3>1, <3>3
    <3>6. q = Wrap(Way(k, d - 2, n) + 1, n) BY <3>3, <3>5, WayNext
    <3>7. Way(k, d - 2, n) \in 0..(n - 1) BY <3>3, <3>5, WayIn
    <3>8. j = Way(k, d - 2, n) BY <3>4, <3>6, <3>7, WrapOneToOne
    <3>9. Placed(c[j], j, n)
      <4>1. d - 1 \in 1..n /\ (d - 1) - 1 = d - 2 BY <3>1, <3>3
      <4>2. QED BY <3>1, <3>8, <4>1 DEF Placed
    <3>10. Earned(c[j].key, c[j].dib, c, n)
      <4> SUFFICES ASSUME NEW e \in 0..((d - 1) - 1) PROVE c[Way(k, e, n)].dib > e
        BY <3>1 DEF Earned
      <4>1. e \in 0..(d - 1) /\ e + 1 < d /\ d \in 0..n BY <3>1, <3>3
      <4>2. Earned(k, d, b, n) BY <3>2
      <4>3. QED BY <1>3, <3>3, <4>1, <4>2
    <3>11. QED BY <3>9, <3>10
  <2>2. CASE ~Moved(j)
    <3>1. c[j] = b[j] /\ j # g BY <1>1, <1>4, <2>2
    <3>2. Placed(b[j], j, n) /\ Earned(b[j].key, b[j].dib, b, n) BY <1>4, <3>1 DEF Fair
    <3>3. b[j].key \in Key BY <1>4, <3>1, Bucket
    <3> DEFINE k == b[j].key
               d == b[j].dib
    <3>4. d \in 1..n /\ j = Way(k, d - 1, n) BY <3>2 DEF Placed
    <3>5. Earned(k, d, b, n) /\ k \in Key BY <3>2, <3>3
    <3>6. ASSUME NEW e \in 0..(d - 1) PROVE c[Way(k, e, n)].dib > e
      <4> HIDE DEF k, d
      <4>1. d \in 0..n BY <3>4
      <4>2. CASE e + 1 < d BY <1>3, <3>5, <4>1, <4>2
      <4>3. CASE e = d - 1
        <5>1. Way(k, e, n) = j BY <3>4, <4>3
        <5>2. QED BY <1>3, <2>2, <3>1, <3>5, <4>1, <5>1
      <4>4. QED BY <3>4, <4>2, <4>3
    <3>7. Earned(c[j].key, c[j].dib, c, n) BY <3>1, <3>6 DEF Earned
    <3>8. QED BY <3>1, <3>2, <3>7
  <2>3. QED BY <2>1, <2>2
<1>5. QED BY <1>4 DEF Fair

-----------------------------------------------------------------------------
(* What the invariant says.                                                 *)

(* A fair table is one in which searches end, and in which the way is       *)
(* shared fairly.                                                           *)
LEMMA FairIsFindable ==
  ASSUME NEW n \in Nat \ {0}, NEW b \in Table(n), Fair(b, n)
  PROVE  Findable(b, n) /\ RobinHood(b, n)
<1>1. ASSUME NEW j \in 0..(n - 1), b[j] # Free
      PROVE  /\ b[j].key \in Key /\ b[j].dib \in 1..n
             /\ j = Way(b[j].key, b[j].dib - 1, n) /\ Earned(b[j].key, b[j].dib, b, n)
  BY <1>1, Bucket DEF Fair, Placed
<1>2. Findable(b, n)
  <2> SUFFICES ASSUME NEW j \in 0..(n - 1), b[j] # Free
               PROVE  \E d \in 0..(n - 1) :
                        /\ b[j].dib = d + 1 /\ j = Wrap(home(b[j].key, n) + d, n)
                        /\ \A e \in 0..(d - 1) : b[Wrap(home(b[j].key, n) + e, n)] # Free
    BY DEF Findable
  <2> DEFINE k == b[j].key
             d == b[j].dib - 1
  <2>1. k \in Key /\ d \in 0..(n - 1) /\ b[j].dib = d + 1 /\ j = Wrap(home(k, n) + d, n)
    BY <1>1 DEF Way
  <2>2. ASSUME NEW e \in 0..(d - 1) PROVE b[Wrap(home(k, n) + e, n)] # Free
    <3>1. e \in 0..(b[j].dib - 1) /\ e \in 0..n BY <2>1
    <3>2. Way(k, e, n) \in 0..(n - 1) BY <2>1, <3>1, WayIn
    <3>3. b[Way(k, e, n)].dib > e BY <1>1, <3>1 DEF Earned
    <3>4. b[Way(k, e, n)] # Free BY <3>1, <3>2, <3>3, Bucket
    <3>5. QED BY <3>4 DEF Way
  <2>3. QED BY <2>1, <2>2
<1>3. RobinHood(b, n)
  <2> SUFFICES ASSUME NEW i \in 0..(n - 1) PROVE b[Wrap(i + 1, n)].dib <= b[i].dib + 1
    BY DEF RobinHood
  <2> DEFINE j == Wrap(i + 1, n)
             d == b[j].dib
  <2>1. j \in 0..(n - 1) BY DEF Wrap
  <2>2. b[i].dib \in Nat /\ d \in Nat BY <2>1, Bucket
  <2>3. CASE d <= 1 BY <2>2, <2>3
  <2>4. CASE d > 1
    <3>1. b[j] # Free BY <2>1, <2>4, Bucket
    <3> DEFINE k == b[j].key
    <3>2. k \in Key /\ d \in 1..n /\ j = Way(k, d - 1, n) /\ Earned(k, d, b, n) BY <1>1, <2>1, <3>1
    <3>3. j = Wrap(i + 1, n) OBVIOUS
    <3> HIDE DEF j, k, d
    <3>4. d - 2 \in 0..(n - 1) /\ (d - 2) + 1 = d - 1 /\ d - 2 \in 0..(d - 1) BY <2>4, <3>2
    <3>5. Way(k, d - 2, n) \in 0..(n - 1) BY <3>2, <3>4, WayIn
    <3>6. j = Wrap(Way(k, d - 2, n) + 1, n) BY <3>2, <3>4, WayNext
    <3>7. i = Way(k, d - 2, n) BY <3>3, <3>5, <3>6, WrapOneToOne
    <3>8. b[i].dib > d - 2 BY <3>2, <3>4, <3>7 DEF Earned
    <3>9. d <= b[i].dib + 1 BY <2>2, <3>8
    <3>10. QED BY <3>9 DEF d, j
  <2>5. QED BY <2>2, <2>3, <2>4
<1>4. QED BY <1>2, <1>3

(* The table is never used up. *)
LEMMA Growat ==
  ASSUME NEW n \in Nat \ {0, 1}
  PROVE  growat(n) \in Nat /\ growat(n) < n /\ growat(n) < growat(2 * n)
BY DEF growat

(* Half a table has room for what is left when a table shrinks. *)
LEMMA Shrinkat ==
  ASSUME NEW m \in Nat \ {0}
  PROVE  shrinkat(2 * m) \in Nat /\ shrinkat(2 * m) <= growat(m)
<1>1. \A s \in Nat : s >= 3 => (2 * m) \div s \in Nat /\ 3 * ((2 * m) \div s) <= 2 * m
  <2> SUFFICES ASSUME NEW s \in Nat, s >= 3
               PROVE  (2 * m) \div s \in Nat /\ 3 * ((2 * m) \div s) <= 2 * m
    OBVIOUS
  <2> DEFINE q == (2 * m) \div s
  <2>1. q \in Nat /\ s * q <= 2 * m OBVIOUS
  <2> HIDE DEF q
  <2>2. 3 * q <= s * q BY <2>1
  <2>3. 3 * q <= 2 * m BY <2>1, <2>2
  <2>4. QED BY <2>1, <2>3 DEF q
<1>2. shrinkat(2 * m) \in Nat /\ 3 * shrinkat(2 * m) <= 2 * m
  BY <1>1, HashMapAssumption DEF shrinkat
<1>3. \A q \in Nat : 3 * q <= 2 * m => q <= (3 * m) \div 4 OBVIOUS
<1>4. QED BY <1>2, <1>3 DEF growat

(* An empty table. *)
LEMMA ClearedTable ==
  ASSUME NEW n \in Nat \ {0}
  PROVE  /\ Cleared(n) \in Table(n) /\ InUse(Cleared(n)) = {}
         /\ Cardinality(InUse(Cleared(n))) = 0
         /\ Fair(Cleared(n), n) /\ Unique(Cleared(n)) /\ \A k : Absent(k, Cleared(n))
<1>1. Cleared(n) \in Table(n) /\ \A j \in 0..(n - 1) : Cleared(n)[j] = Free BY DEF Table, Cleared
<1>2. InUse(Cleared(n)) = {} BY <1>1, InUseOf
<1>3. Fair(Cleared(n), n) BY <1>1 DEF Fair
<1>4. QED BY <1>1, <1>2, <1>3, FS_EmptySet DEF Unique, Absent

(* The arguments of a set. *)
Arg == [key : Key, val : Value, dib : {1}]

(* An item that begins its way. *)
LEMMA Begins ==
  ASSUME NEW n \in Nat \ {0}, NEW x \in Item, x.dib = 1, NEW b
  PROVE  /\ home(x.key, n) \in 0..(n - 1)
         /\ Placed(x, home(x.key, n), n) /\ Earned(x.key, x.dib - 1, b, n)
<1>1. x.key \in Key BY DEF Item
<1>2. home(x.key, n) \in 0..(n - 1) BY <1>1, HomeIn
<1>3. Way(x.key, 0, n) = home(x.key, n) BY <1>2 DEF Way, Wrap
<1>4. QED BY <1>2, <1>3 DEF Placed, Earned

LEMMA EntryIs ==
  ASSUME NEW k \in Key, NEW v \in Value
  PROVE  /\ Entry(k, v) \in Arg /\ Entry(k, v) \in Item /\ Entry(k, v) # Free /\ Entry(k, v) # NULL
         /\ Entry(k, v).key = k /\ Entry(k, v).val = v /\ Entry(k, v).dib = 1
BY HashMapAssumption DEF Entry, Item, Free, Arg

(* The argument of a set. *)
LEMMA ItemIs ==
  ASSUME TypeOK, item # NULL
  PROVE  /\ item \in Item /\ item # Free /\ item.dib = 1
         /\ item.key \in Key /\ item.val \in Value
<1>1. item \in Arg BY DEF TypeOK, Arg
<1>2. QED BY <1>1 DEF Arg, Item, Free

LEMMA ItemNotFree ==
  /\ Free \notin Item
  /\ \A x \in Item : x # Free /\ x.key \in Key /\ x.val \in Value /\ x.dib \in Nat \ {0}
BY DEF Item, Free

(* The invariant, and the properties that the runs check.                   *)
LEMMA TableFacts ==
  ASSUME IInv
  PROVE  /\ nbuckets \in Nat \ {0, 1} /\ cap \in Nat /\ nbuckets >= cap
         /\ buckets \in Table(nbuckets) /\ Fair(buckets, nbuckets) /\ Unique(buckets)
         /\ count \in Nat /\ count = Cardinality(InUse(buckets))
         /\ count <= growat(nbuckets) /\ growat(nbuckets) < nbuckets /\ growat(nbuckets) \in Nat
         /\ InUse(buckets) = {j \in 0..(nbuckets - 1) : buckets[j] # Free}
<1>1. TypeOK /\ TableInv BY DEF IInv
<1>2. /\ nbuckets \in Nat \ {0, 1} /\ cap \in Nat /\ buckets \in Table(nbuckets) /\ count \in Nat
  BY <1>1 DEF TypeOK
<1>3. nbuckets >= cap BY <1>1, <1>2, SizesUp DEF TableInv
<1>4. growat(nbuckets) < nbuckets /\ growat(nbuckets) \in Nat BY <1>2, Growat
<1>5. InUse(buckets) = {j \in 0..(nbuckets - 1) : buckets[j] # Free} BY <1>2, InUseOf
<1>6. QED BY <1>1, <1>2, <1>3, <1>4, <1>5 DEF TableInv

LEMMA Resizing ==
  ASSUME IInv, pc = "resize"
  PROVE  /\ nbuckets2 \in Nat \ {0, 1} /\ buckets2 \in Table(nbuckets2)
         /\ Fair(buckets2, nbuckets2) /\ Unique(buckets2)
         /\ count <= growat(nbuckets2) /\ growat(nbuckets2) < nbuckets2 /\ growat(nbuckets2) \in Nat
         /\ InUse(buckets2) = {j \in 0..(nbuckets2 - 1) : buckets2[j] # Free}
         /\ Left \subseteq InUse(buckets) /\ IsFiniteSet(Left) /\ Cardinality(Left) \in Nat
<1>1. TypeOK /\ ResizeInv BY DEF IInv
<1>2. /\ nbuckets2 \in Nat \ {0} /\ buckets2 \in Table(nbuckets2) /\ cap \in Nat \ {0, 1}
      /\ src \in 0..nbuckets
  BY <1>1 DEF TypeOK
<1>3. nbuckets2 \in Sizes(cap) BY <1>1 DEF ResizeInv
<1>4. nbuckets2 \in Nat \ {0, 1} BY <1>2, <1>3, SizesUp
<1>5. growat(nbuckets2) < nbuckets2 /\ growat(nbuckets2) \in Nat BY <1>4, Growat
<1>6. InUse(buckets2) = {j \in 0..(nbuckets2 - 1) : buckets2[j] # Free} BY <1>2, InUseOf
<1>7. Left \subseteq InUse(buckets) BY <1>2, TableFacts DEF Left
<1>8. IsFiniteSet(InUse(buckets)) BY TableFacts, InUseOf
<1>9. IsFiniteSet(Left) /\ Cardinality(Left) \in Nat BY <1>7, <1>8, FS_Subset, FS_CardinalityType
<1>10. QED BY <1>1, <1>2, <1>4, <1>5, <1>6, <1>7, <1>9 DEF ResizeInv

LEMMA InvariantSays ==
  ASSUME IInv
  PROVE  TypeOK /\ CountExact /\ ProbesEnd /\ ProbesFair
<1>1. TypeOK BY DEF IInv
<1>2. CountExact
  <2>1. count < nbuckets BY TableFacts
  <2>2. QED BY <2>1, TableFacts DEF CountExact, Unique
<1>3. Findable(buckets, nbuckets) /\ RobinHood(buckets, nbuckets) BY TableFacts, FairIsFindable
<1>4. pc = "resize" => Findable(buckets2, nbuckets2) /\ RobinHood(buckets2, nbuckets2)
  BY Resizing, FairIsFindable
<1>5. QED BY <1>1, <1>2, <1>3, <1>4 DEF ProbesEnd, ProbesFair

-----------------------------------------------------------------------------
(* Every action keeps the invariant.                                        *)

LEMMA InitKeeps ==
  ASSUME Init
  PROVE  IInv
<1>1. MinCap \in Nat \ {0, 1} BY HashMapAssumption
<1>2. buckets = Cleared(MinCap) BY DEF Init
<1>3. TypeOK
  <2>1. Cleared(MinCap) \in Table(MinCap) BY <1>1, ClearedTable
  <2>2. nbuckets \in Nat \ {0, 1} /\ cap \in Nat \ {0, 1} /\ count \in Nat BY <1>1 DEF Init
  <2>3. buckets \in Table(nbuckets) BY <2>1 DEF Init
  <2>4. hand \in Item \cup {Free} /\ hand = Free /\ pc = "idle" BY DEF Init
  <2>5. item \in {NULL} \cup Arg BY DEF Init
  <2>6. result \in Value \cup {NULL} /\ oom \in BOOLEAN BY DEF Init
  <2>7. QED BY <2>2, <2>3, <2>4, <2>5, <2>6 DEF TypeOK, Arg
<1>4. TableInv
  <2>1. MinCap \in Sizes(MinCap) BY <1>1 DEF Sizes
  <2>2. growat(MinCap) \in Nat BY <1>1, Growat
  <2>3. QED BY <1>1, <2>1, <2>2, ClearedTable DEF Init, TableInv
<1>5. pc = "idle" BY DEF Init
<1>6. SetInv BY <1>5 DEF SetInv
<1>7. ResizeInv BY <1>5 DEF ResizeInv
<1>8. QED BY <1>3, <1>4, <1>6, <1>7 DEF IInv

LEMMA StutterKeeps ==
  ASSUME IInv, UNCHANGED mapVars
  PROVE  IInv'
<1> USE DEF mapVars, tableVars, loopVars
<1>1. TypeOK' BY DEF IInv, TypeOK
<1>2. TableInv' BY DEF IInv, TableInv
<1>3. SetInv' BY DEF IInv, SetInv, Carried, CarriesOwn, CarriesOther
<1>4. ResizeInv' BY DEF IInv, ResizeInv, Left, Carried
<1>5. QED BY <1>1, <1>2, <1>3, <1>4 DEF IInv

(* A state between two calls. *)
LEMMA IdleKeeps ==
  ASSUME TypeOK', TableInv', pc' = "idle"
  PROVE  IInv'
<1>1. SetInv' BY DEF SetInv
<1>2. ResizeInv' BY DEF ResizeInv
<1>3. QED BY <1>1, <1>2 DEF IInv

LEMMA GetKeeps ==
  ASSUME IInv, NEW k \in Key, hashmap_get(k)
  PROVE  IInv'
<1> USE DEF tableVars, loopVars
<1>1. PICK d \in 0..(nbuckets - 1) :
        Search(k, d) /\ result' = buckets[Passed(k, d)].val
  BY DEF hashmap_get
<1>2. UNCHANGED <<tableVars, loopVars, oom>> /\ pc = "idle" BY DEF hashmap_get, Idle
<1>3. result' \in Value \cup {NULL}
  <2>1. Passed(k, d) \in 0..(nbuckets - 1)
    <3>1. nbuckets \in Nat \ {0} BY TableFacts
    <3>2. Passed(k, d) = Way(k, d, nbuckets) BY DEF Passed, Way
    <3>3. QED BY <3>1, <3>2, WayIn
  <2>2. buckets[Passed(k, d)] \in Item \cup {Free} BY <2>1, TableFacts, Bucket
  <2>3. QED BY <1>1, <2>2 DEF Item, Free
<1>4. TypeOK' BY <1>2, <1>3 DEF IInv, TypeOK
<1>5. TableInv' BY <1>2 DEF IInv, TableInv
<1>6. QED BY <1>2, <1>4, <1>5, IdleKeeps

LEMMA ClearKeeps ==
  ASSUME IInv, NEW u \in BOOLEAN, hashmap_clear(u)
  PROVE  IInv'
<1> USE DEF tableVars, loopVars
<1>1. /\ UNCHANGED <<loopVars, result, oom>> /\ pc = "idle"
      /\ count' = 0 /\ buckets' = Cleared(nbuckets')
      /\ \/ cap' = nbuckets /\ nbuckets' = nbuckets
         \/ nbuckets' = cap /\ cap' = cap
  BY DEF hashmap_clear, Idle
<1>2. nbuckets' \in Nat \ {0, 1} /\ cap' = nbuckets' BY <1>1 DEF IInv, TypeOK
<1>3. Cleared(nbuckets') \in Table(nbuckets') BY <1>2, ClearedTable
<1>4. TypeOK' BY <1>1, <1>2, <1>3 DEF IInv, TypeOK
<1>5. TableInv'
  <2>1. nbuckets' \in Sizes(cap') BY <1>2 DEF Sizes
  <2>2. growat(nbuckets') \in Nat BY <1>2, Growat
  <2>3. /\ Cardinality(InUse(buckets')) = 0
        /\ Fair(buckets', nbuckets') /\ Unique(buckets')
    BY <1>1, <1>2, ClearedTable
  <2>4. QED BY <1>1, <2>1, <2>2, <2>3 DEF TableInv
<1>6. QED BY <1>1, <1>4, <1>5, IdleKeeps

(* A resize begins, of a table that is as the invariant says.               *)
LEMMA StartResizeKeeps ==
  ASSUME NEW n \in Nat \ {0}, NEW arg \in {NULL} \cup Arg,
         StartResize(n, arg),
         TableInv', nbuckets' \in Nat \ {0, 1}, cap' \in Nat \ {0, 1}, count' \in Nat,
         buckets' \in Table(nbuckets'),
         result' \in Value \cup {NULL}, oom' = FALSE,
         n \in Sizes(cap'), count' <= growat(n), arg # NULL => count' < growat(n)
  PROVE  IInv'
<1>1. /\ pc' = "resize" /\ hand' = Free /\ at' = 0 /\ item' = arg
      /\ src' = 0 /\ nbuckets2' = n /\ buckets2' = Cleared(n)
  BY DEF StartResize
<1>2. /\ Cleared(n) \in Table(n) /\ InUse(Cleared(n)) = {} /\ Cardinality(InUse(Cleared(n))) = 0
      /\ Fair(Cleared(n), n) /\ Unique(Cleared(n)) /\ \A k : Absent(k, Cleared(n))
  BY ClearedTable
<1>3. TypeOK'
  <2>1. hand' \in Item \cup {Free} /\ pc' \in {"idle", "set", "resize"} BY <1>1
  <2>2. item' \in {NULL} \cup Arg BY <1>1
  <2>3. oom' \in BOOLEAN OBVIOUS
  <2>4. nbuckets2' \in Nat \ {0} /\ buckets2' \in Table(nbuckets2') BY <1>1, <1>2
  <2>5. src' \in 0..nbuckets' /\ at' \in 0..(nbuckets2' - 1) BY <1>1
  <2>6. pc' # "set" /\ pc' # "idle" BY <1>1
  <2>7. QED BY <2>1, <2>2, <2>3, <2>4, <2>5, <2>6 DEF TypeOK, Arg
<1>4. SetInv' BY <1>1 DEF SetInv
<1>5. Left' = InUse(buckets')
  <2>1. InUse(buckets') = {j \in 0..(nbuckets' - 1) : buckets'[j] # Free} BY InUseOf
  <2>2. QED BY <1>1, <2>1 DEF Left
<1>6. Cardinality(InUse(buckets2')) + (IF hand' = Free THEN 0 ELSE 1) + Cardinality(Left') = count'
  <2>1. Cardinality(Left') = count' BY <1>5 DEF TableInv
  <2>2. QED BY <1>1, <1>2, <2>1
<1>7. ResizeInv'
  <2>1. \A j \in Left' : Absent(buckets'[j].key, buckets2') BY <1>1, <1>2
  <2>2. QED BY <1>1, <1>2, <1>6, <2>1 DEF ResizeInv
<1>8. QED BY <1>3, <1>4, <1>7 DEF IInv

(* The loop of a set begins. *)
LEMMA StartSetKeeps ==
  ASSUME NEW k \in Key, NEW v \in Value, StartSet(Entry(k, v), nbuckets'),
         TableInv', nbuckets' \in Nat \ {0, 1}, cap' \in Nat \ {0, 1}, count' \in Nat,
         buckets' \in Table(nbuckets'),
         result' \in Value \cup {NULL}, oom' = FALSE,
         count' < growat(nbuckets')
  PROVE  IInv'
<1> DEFINE x == Entry(k, v)
<1>1. /\ pc' = "set" /\ hand' = x /\ at' = home(x.key, nbuckets') /\ item' = x
      /\ src' = 0 /\ nbuckets2' = 0 /\ buckets2' = <<>>
  BY DEF StartSet
<1>2. x \in Item /\ x # Free /\ x # NULL /\ x.dib = 1 BY EntryIs
<1>3. /\ home(x.key, nbuckets') \in 0..(nbuckets' - 1)
      /\ Placed(x, home(x.key, nbuckets'), nbuckets') /\ Earned(x.key, x.dib - 1, buckets', nbuckets')
  BY <1>2, Begins
<1>4. TypeOK'
  <2>1. x \in Arg BY EntryIs
  <2> HIDE DEF x
  <2>2. hand' \in Item \cup {Free} /\ hand' # Free BY <1>1, <1>2
  <2>3. item' \in {NULL} \cup Arg BY <1>1, <2>1
  <2>4. at' \in 0..(nbuckets' - 1) BY <1>1, <1>3
  <2>5. pc' = "set" /\ oom' \in BOOLEAN BY <1>1
  <2>6. QED BY <2>2, <2>3, <2>4, <2>5 DEF TypeOK, Arg
<1> HIDE DEF x
<1>5. SetInv'
  <2>1. Carried(buckets, nbuckets)' BY <1>1, <1>3 DEF Carried
  <2>2. CarriesOwn' BY <1>1, <1>2 DEF CarriesOwn
  <2>3. QED BY <1>1, <1>2, <2>1, <2>2 DEF SetInv
<1>6. ResizeInv' BY <1>1 DEF ResizeInv
<1>7. QED BY <1>4, <1>5, <1>6 DEF IInv

LEMMA SetKeeps ==
  ASSUME IInv, NEW k \in Key, NEW v \in Value, hashmap_set(k, v)
  PROVE  IInv'
<1>1. /\ nbuckets' = nbuckets /\ cap' = cap /\ buckets' = buckets /\ count' = count
      /\ pc = "idle"
  BY DEF hashmap_set, tableVars, Idle
<1>2. TableInv' BY <1>1 DEF IInv, TableInv
<1>3. /\ nbuckets' \in Nat \ {0, 1} /\ cap' \in Nat \ {0, 1} /\ count' \in Nat
      /\ buckets' \in Table(nbuckets') /\ result \in Value \cup {NULL}
  BY <1>1 DEF IInv, TypeOK
<1>4. CASE /\ count = growat(nbuckets)
           /\ StartResize(2 * nbuckets, Entry(k, v))
           /\ oom' = FALSE /\ UNCHANGED result
  <2>1. 2 * nbuckets \in Nat \ {0} BY <1>1, <1>3
  <2>2. 2 * nbuckets \in Sizes(cap') BY <1>1, <1>2, <1>3, SizesUp DEF TableInv
  <2>3. growat(nbuckets) \in Nat /\ growat(2 * nbuckets) \in Nat
        /\ growat(nbuckets) < growat(2 * nbuckets)
    <3>1. nbuckets \in Nat \ {0, 1} /\ 2 * nbuckets \in Nat \ {0, 1} BY <1>1, <1>3
    <3>2. QED BY <3>1, Growat
  <2>4. count' < growat(2 * nbuckets) /\ count' <= growat(2 * nbuckets)
    BY <1>1, <1>4, <2>3
  <2>5. Entry(k, v) \in {NULL} \cup Arg BY EntryIs
  <2>6. StartResize(2 * nbuckets, Entry(k, v)) /\ oom' = FALSE /\ result' \in Value \cup {NULL}
    BY <1>3, <1>4
  <2> DEFINE n == 2 * nbuckets
             arg == Entry(k, v)
  <2>7. /\ n \in Nat \ {0} /\ arg \in {NULL} \cup Arg
        /\ StartResize(n, arg) /\ n \in Sizes(cap')
        /\ count' < growat(n) /\ count' <= growat(n)
    BY <2>1, <2>2, <2>4, <2>5, <2>6
  <2> HIDE DEF n, arg
  <2>8. QED BY <1>2, <1>3, <2>6, <2>7, StartResizeKeeps
<1>5. CASE oom' = TRUE /\ result' = NULL /\ UNCHANGED loopVars
  <2>1. TypeOK' BY <1>1, <1>3, <1>5 DEF IInv, TypeOK, loopVars
  <2>2. pc' = "idle" BY <1>1, <1>5 DEF loopVars
  <2>3. QED BY <1>2, <2>1, <2>2, IdleKeeps
<1>6. CASE count # growat(nbuckets) /\ StartSet(Entry(k, v), nbuckets) /\ oom' = FALSE /\ UNCHANGED result
  <2>1. count' < growat(nbuckets') BY <1>1, <1>6, TableFacts
  <2>2. StartSet(Entry(k, v), nbuckets') BY <1>1, <1>6
  <2>3. QED BY <1>2, <1>3, <1>6, <2>1, <2>2, StartSetKeeps
<1>7. QED BY <1>4, <1>5, <1>6 DEF hashmap_set

LEMMA Setting ==
  ASSUME IInv, pc = "set"
  PROVE  /\ hand \in Item /\ at \in 0..(nbuckets - 1)
         /\ item # NULL /\ oom = FALSE /\ count < growat(nbuckets)
         /\ Placed(hand, at, nbuckets) /\ Earned(hand.key, hand.dib - 1, buckets, nbuckets)
         /\ CarriesOwn \/ CarriesOther
         /\ item \in Item /\ item.key \in Key /\ item.val \in Value
         /\ \E f \in 0..(nbuckets - 1) : buckets[f].dib = 0
<1>1. TypeOK /\ SetInv BY DEF IInv
<1>2. hand \in Item /\ at \in 0..(nbuckets - 1) BY <1>1 DEF TypeOK
<1>3. /\ item # NULL /\ oom = FALSE /\ count < growat(nbuckets)
      /\ Carried(buckets, nbuckets) /\ (CarriesOwn \/ CarriesOther)
  BY <1>1 DEF SetInv
<1>4. \E f \in 0..(nbuckets - 1) : buckets[f].dib = 0
  <2>1. nbuckets \in Nat /\ buckets \in Table(nbuckets) /\ Cardinality(InUse(buckets)) < nbuckets
    BY TableFacts
  <2>2. QED BY <2>1, NotFull
<1>5. QED BY <1>1, <1>2, <1>3, <1>4, ItemIs DEF Carried

(* An item that would take a bucket has met every bucket in which its key   *)
(* could be.                                                                *)
LEMMA HandAbsent ==
  ASSUME IInv, pc = "set", buckets[at].dib < hand.dib,
         buckets[at] = Free \/ buckets[at].key # hand.key
  PROVE  Absent(hand.key, buckets)
<1> DEFINE k == hand.key
           d == hand.dib
<1>1. CASE CarriesOther BY <1>1 DEF CarriesOther
<1>2. CASE CarriesOwn
  <2> SUFFICES ASSUME NEW j \in InUse(buckets), buckets[j].key = k PROVE FALSE BY DEF Absent
  <2>1. j \in 0..(nbuckets - 1) /\ buckets[j] # Free BY TableFacts
  <2>2. Placed(buckets[j], j, nbuckets) /\ Earned(k, buckets[j].dib, buckets, nbuckets)
    BY <2>1, TableFacts DEF Fair
  <2> DEFINE D == buckets[j].dib
  <2>3. D \in 1..nbuckets /\ j = Way(k, D - 1, nbuckets) BY <2>2 DEF Placed
  <2>4. d \in 1..nbuckets /\ at = Way(k, d - 1, nbuckets) BY Setting DEF Placed
  <2>5. CASE D < d
    <3>1. \A e \in 0..(hand.dib - 2) : buckets[Way(hand.key, e, nbuckets)].key # hand.key
      BY <1>2 DEF CarriesOwn
    <3>2. D - 1 \in 0..(hand.dib - 2) BY <2>3, <2>4, <2>5
    <3>3. QED BY <2>3, <3>1, <3>2
  <2>6. CASE D = d BY <2>1, <2>3, <2>4, <2>6
  <2>7. CASE D > d
    <3>1. d - 1 \in 0..(D - 1) BY <2>3, <2>4, <2>7
    <3>2. buckets[Way(k, d - 1, nbuckets)].dib > d - 1 BY <2>2, <3>1 DEF Earned
    <3>3. buckets[at].dib > d - 1 /\ buckets[at].dib < d BY <2>4, <3>2
    <3>4. buckets[at].dib \in Nat BY TableFacts, Setting, Bucket
    <3>5. QED BY <2>4, <3>3, <3>4
  <2>8. QED BY <2>3, <2>4, <2>5, <2>6, <2>7
<1>3. QED BY <1>1, <1>2, Setting

LEMMA RestIs ==
  ASSUME Rest
  PROVE  /\ pc' = "idle" /\ hand' = Free /\ hand' \in Item \cup {Free}
         /\ item' \in {NULL} \cup [key : Key, val : Value, dib : {1}]
BY DEF Rest

LEMMA SetInFreeKeeps ==
  ASSUME IInv, SetInFree
  PROVE  IInv'
<1>1. /\ pc = "set" /\ buckets[at].dib = 0
      /\ buckets' = [buckets EXCEPT ![at] = hand]
      /\ count' = count + 1 /\ result' = NULL /\ Rest
      /\ nbuckets' = nbuckets /\ cap' = cap /\ oom' = oom
  BY DEF SetInFree
<1>2. /\ hand \in Item /\ at \in 0..(nbuckets - 1) /\ hand.dib \in Nat \ {0}
      /\ nbuckets \in Nat \ {0} /\ buckets \in Table(nbuckets)
  BY <1>1, Setting, TableFacts, ItemNotFree
<1>3. /\ buckets' \in Table(nbuckets) /\ buckets'[at] = hand
      /\ \A i \in 0..(nbuckets - 1) : i # at => buckets'[i] = buckets[i]
  BY <1>1, <1>2 DEF Table
<1>4. buckets[at].dib < hand.dib BY <1>1, <1>2
<1>5. Fair(buckets', nbuckets) /\ InUse(buckets') = InUse(buckets) \cup {at}
  <2>1. /\ Placed(hand, at, nbuckets) /\ Earned(hand.key, hand.dib - 1, buckets, nbuckets)
        /\ Fair(buckets, nbuckets)
    BY <1>1, Setting, TableFacts
  <2>2. QED BY <1>2, <1>3, <1>4, <2>1, PutFair
<1>6. buckets[at] = Free BY <1>1, <1>2, Bucket
<1>7. Unique(buckets')
  <2>1. Absent(hand.key, buckets) BY <1>1, <1>4, <1>6, HandAbsent
  <2>2. QED BY <1>2, <1>3, <2>1, TableFacts, PutUnique
<1>8. count' = Cardinality(InUse(buckets'))
  <2>1. at \notin InUse(buckets) BY <1>6, TableFacts
  <2>2. IsFiniteSet(InUse(buckets)) BY <1>2, InUseOf
  <2>3. Cardinality(InUse(buckets')) = Cardinality(InUse(buckets)) + 1
    BY <1>5, <2>1, <2>2, FS_AddElement
  <2>4. QED BY <1>1, <2>3, TableFacts
<1>9. count' <= growat(nbuckets) /\ count' \in Nat
  <2>1. count < growat(nbuckets) /\ count \in Nat /\ growat(nbuckets) \in Nat
    BY <1>1, Setting, TableFacts
  <2>2. QED BY <1>1, <2>1
<1>10. TableInv' BY <1>1, <1>5, <1>7, <1>8, <1>9 DEF IInv, TableInv
<1>11. TypeOK' BY <1>1, <1>3, <1>9, RestIs DEF IInv, TypeOK
<1>12. QED BY <1>1, <1>10, <1>11, RestIs, IdleKeeps

(* What the lemmas say of a table they say of one with other values.        *)
LEMMA SameKeys ==
  ASSUME NEW n \in Nat \ {0}, NEW b \in Table(n), NEW c \in Table(n),
         Fair(b, n), Unique(b),
         \A j \in 0..(n - 1) : c[j].key = b[j].key /\ c[j].dib = b[j].dib
  PROVE  Fair(c, n) /\ Unique(c) /\ InUse(c) = InUse(b)
<1>1. \A j \in 0..(n - 1) : c[j] = Free <=> b[j] = Free BY Bucket
<1>2. InUse(c) = InUse(b) BY <1>1, InUseOf
<1>3. \A j \in InUse(c) : j \in InUse(b) /\ c[j].key = b[j].key BY <1>2, InUseOf
<1>4. Unique(c) BY <1>3 DEF Unique
<1>5. ASSUME NEW j \in 0..(n - 1), c[j] # Free
      PROVE  Placed(c[j], j, n) /\ Earned(c[j].key, c[j].dib, c, n)
  <2>1. b[j] # Free BY <1>1, <1>5
  <2>2. Placed(b[j], j, n) /\ Earned(b[j].key, b[j].dib, b, n) BY <2>1 DEF Fair
  <2>3. b[j].key \in Key /\ b[j].dib \in 0..n BY <2>1, <2>2, Bucket DEF Placed
  <2>4. \A i \in 0..(n - 1) : c[i].dib >= b[i].dib
    <3>1. \A i \in 0..(n - 1) : b[i].dib \in Nat BY Bucket
    <3>2. QED BY <3>1
  <2>5. Earned(b[j].key, b[j].dib, c, n) BY <2>2, <2>3, <2>4, EarnedGrows
  <2>6. QED BY <2>2, <2>5 DEF Placed
<1>6. QED BY <1>2, <1>4, <1>5 DEF Fair

LEMMA SetReplacesKeeps ==
  ASSUME IInv, SetReplaces
  PROVE  IInv'
<1>1. /\ pc = "set" /\ buckets[at].dib # 0
      /\ buckets' = [buckets EXCEPT ![at].val = hand.val]
      /\ result' = buckets[at].val /\ Rest
      /\ nbuckets' = nbuckets /\ cap' = cap /\ count' = count /\ oom' = oom
  BY DEF SetReplaces
<1>2. /\ hand \in Item /\ at \in 0..(nbuckets - 1) /\ hand.val \in Value
      /\ nbuckets \in Nat \ {0} /\ buckets \in Table(nbuckets)
  BY <1>1, Setting, TableFacts, ItemNotFree
<1>3. buckets[at] \in Item BY <1>1, <1>2, Bucket
<1>4. [buckets[at] EXCEPT !.val = hand.val] \in Item BY <1>2, <1>3 DEF Item
<1>5. buckets' = [buckets EXCEPT ![at] = [buckets[at] EXCEPT !.val = hand.val]]
  BY <1>1, <1>2 DEF Table
<1>6. /\ buckets' \in Table(nbuckets)
      /\ buckets'[at] = [buckets[at] EXCEPT !.val = hand.val]
      /\ \A j \in 0..(nbuckets - 1) : j # at => buckets'[j] = buckets[j]
  BY <1>2, <1>4, <1>5 DEF Table
<1>7. \A j \in 0..(nbuckets - 1) :
        buckets'[j].key = buckets[j].key /\ buckets'[j].dib = buckets[j].dib
  <2>1. buckets'[at].key = buckets[at].key /\ buckets'[at].dib = buckets[at].dib
    BY <1>3, <1>6 DEF Item
  <2>2. QED BY <1>6, <2>1
<1>8. Fair(buckets', nbuckets) /\ Unique(buckets') /\ InUse(buckets') = InUse(buckets)
  BY <1>2, <1>6, <1>7, TableFacts, SameKeys
<1>9. TableInv' BY <1>1, <1>8 DEF IInv, TableInv
<1>10. result' \in Value BY <1>1, <1>3 DEF Item
<1>11. TypeOK' BY <1>1, <1>6, <1>10, RestIs DEF IInv, TypeOK
<1>12. QED BY <1>1, <1>9, <1>11, RestIs, IdleKeeps

(* A free bucket is met within a round. *)
LEMMA RoomRound ==
  ASSUME NEW n \in Nat \ {0}, NEW b, NEW j \in 0..(n - 1), NEW t \in 1..(n - 1),
         Used(b, j, t + 1, n),
         \E f \in 0..(n - 1) : b[f] = Free
  PROVE  t + 1 \in 1..(n - 1) /\ Wrap(Wrap(j + t, n) + 1, n) = Wrap(j + (t + 1), n)
         /\ Wrap(j + t, n) # j
<1>1. PICK f \in 0..(n - 1) : b[f] = Free OBVIOUS
<1>2. \E e \in 0..(n - 1) : f = Wrap(j + e, n)
  <2>1. CASE f >= j
    <3>1. f - j \in 0..(n - 1) /\ f = Wrap(j + (f - j), n) BY <2>1 DEF Wrap
    <3>2. QED BY <3>1
  <2>2. CASE f < j
    <3>1. f + n - j \in 0..(n - 1) /\ f = Wrap(j + (f + n - j), n) BY <2>2 DEF Wrap
    <3>2. QED BY <3>1
  <2>3. QED BY <2>1, <2>2
<1>3. PICK e \in 0..(n - 1) : f = Wrap(j + e, n) BY <1>2
<1>4. e > t
  <2>1. SUFFICES ASSUME e <= t PROVE FALSE OBVIOUS
  <2>2. e \in 0..((t + 1) - 1) BY <2>1
  <2>3. QED BY <1>1, <1>3, <2>2 DEF Used
<1>5. t + 1 \in 1..(n - 1) BY <1>4
<1>6. QED BY <1>5 DEF Wrap

LEMMA SetProbeKeeps ==
  ASSUME IInv, SetProbe
  PROVE  IInv'
<1> DEFINE n == nbuckets
<1>1. /\ pc = "set" /\ buckets[at].dib # 0 /\ buckets[at].key # hand.key
      /\ at' = Wrap(at + 1, n)
      /\ IF buckets[at].dib < hand.dib
         THEN buckets' = [buckets EXCEPT ![at] = hand] /\ hand' = [buckets[at] EXCEPT !.dib = @ + 1]
         ELSE buckets' = buckets /\ hand' = [hand EXCEPT !.dib = @ + 1]
      /\ UNCHANGED <<nbuckets, cap, count, pc, item, src, nbuckets2, buckets2, result, oom>>
  BY DEF SetProbe, Carry
<1>2. /\ hand \in Item /\ hand.key \in Key /\ at \in 0..(n - 1) /\ hand.dib \in Nat \ {0}
      /\ n \in Nat \ {0} /\ buckets \in Table(n) /\ Fair(buckets, n) /\ Unique(buckets)
      /\ Placed(hand, at, n) /\ Earned(hand.key, hand.dib - 1, buckets, n)
      /\ \E f \in 0..(n - 1) : buckets[f].dib = 0
  BY <1>1, Setting, TableFacts, ItemNotFree
<1>3. /\ buckets' \in Table(n) /\ Fair(buckets', n) /\ InUse(buckets') = InUse(buckets)
      /\ hand' \in Item /\ at' \in 0..(n - 1)
      /\ Placed(hand', at', n) /\ Earned(hand'.key, hand'.dib - 1, buckets', n)
      /\ buckets[at].dib < hand.dib =>
           /\ buckets'[at] = hand /\ \A i \in 0..(n - 1) : i # at => buckets'[i] = buckets[i]
           /\ hand'.key = buckets[at].key /\ hand'.val = buckets[at].val
      /\ ~(buckets[at].dib < hand.dib) =>
           /\ buckets' = buckets /\ hand'.key = hand.key /\ hand'.val = hand.val
           /\ hand'.dib = hand.dib + 1
  <2> HIDE DEF n
  <2>1. IF buckets[at].dib < hand.dib
        THEN buckets' = [buckets EXCEPT ![at] = hand] /\ hand' = [buckets[at] EXCEPT !.dib = @ + 1]
        ELSE buckets' = buckets /\ hand' = [hand EXCEPT !.dib = @ + 1]
    BY <1>1
  <2>2. at' = Wrap(at + 1, n) /\ buckets[at].dib # 0 BY <1>1
  <2> DEFINE c == buckets'
             y == hand'
             z == at'
  <2>3. IF buckets[at].dib < hand.dib
        THEN c = [buckets EXCEPT ![at] = hand] /\ y = [buckets[at] EXCEPT !.dib = @ + 1]
        ELSE c = buckets /\ y = [hand EXCEPT !.dib = @ + 1]
    BY <2>1
  <2>4. z = Wrap(at + 1, n) BY <2>2
  <2> HIDE DEF c, y, z
  <2>5. /\ c \in Table(n) /\ Fair(c, n) /\ InUse(c) = InUse(buckets)
        /\ y \in Item /\ z \in 0..(n - 1)
        /\ Placed(y, z, n) /\ Earned(y.key, y.dib - 1, c, n)
        /\ buckets[at].dib < hand.dib =>
             /\ c[at] = hand /\ \A i \in 0..(n - 1) : i # at => c[i] = buckets[i]
             /\ y.key = buckets[at].key /\ y.val = buckets[at].val
        /\ ~(buckets[at].dib < hand.dib) =>
             c = buckets /\ y.key = hand.key /\ y.val = hand.val /\ y.dib = hand.dib + 1
    BY <1>2, <2>2, <2>3, <2>4, CarryKeeps
  <2>6. QED BY <2>5 DEF c, y, z
<1>4. buckets[at] # Free /\ buckets[at] \in Item /\ buckets[at].key \in Key BY <1>1, <1>2, Bucket
<1>5. ASSUME buckets[at].dib < hand.dib
      PROVE  Unique(buckets') /\ Absent(hand'.key, buckets') /\ Absent(hand.key, buckets)
  <2>1. Absent(hand.key, buckets) BY <1>1, <1>5, HandAbsent
  <2> DEFINE c == buckets'
  <2>2. c \in Table(n) /\ c[at] = hand /\ \A i \in 0..(n - 1) : i # at => c[i] = buckets[i]
    BY <1>3, <1>5
  <2>3. n \in Nat /\ buckets \in Table(n) /\ Unique(buckets) /\ at \in 0..(n - 1) BY <1>2
  <2> HIDE DEF c, n
  <2>4. Unique(c) /\ Absent(buckets[at].key, c) BY <1>4, <2>1, <2>2, <2>3, PutUnique
  <2>5. QED BY <1>3, <1>5, <2>1, <2>4 DEF c
<1>6. TableInv'
  <2>1. Unique(buckets')
    <3>1. CASE buckets[at].dib < hand.dib BY <1>5, <3>1
    <3>2. CASE ~(buckets[at].dib < hand.dib) BY <1>2, <1>3, <3>2
    <3>3. QED BY <3>1, <3>2
  <2>2. QED BY <1>1, <1>3, <2>1 DEF IInv, TableInv
<1>7. TypeOK'
  <2>1. pc' = "set" /\ nbuckets' = n BY <1>1
  <2>2. hand' \in Item \cup {Free} /\ hand' # Free BY <1>3, ItemNotFree
  <2>3. buckets' \in Table(nbuckets') /\ at' \in 0..(nbuckets' - 1) BY <1>3, <2>1
  <2>4. TypeOK BY DEF IInv
  <2> HIDE DEF n
  <2>5. QED BY <1>1, <2>1, <2>2, <2>3, <2>4 DEF TypeOK
<1>8. CarriesOwn' \/ CarriesOther'
  <2>0. item' = item /\ nbuckets' = n BY <1>1
  <2>1. CASE CarriesOwn /\ ~(buckets[at].dib < hand.dib)
    <3>1. /\ hand.key = item.key /\ hand.val = item.val
          /\ \A e \in 0..(hand.dib - 2) : buckets[Way(hand.key, e, n)].key # hand.key
      BY <2>1 DEF CarriesOwn
    <3>2. buckets' = buckets /\ hand'.key = hand.key /\ hand'.val = hand.val /\ hand'.dib = hand.dib + 1
      BY <1>3, <2>1
    <3>3. ASSUME NEW e \in 0..(hand.dib - 1) PROVE buckets[Way(hand.key, e, n)].key # hand.key
      <4>1. CASE e = hand.dib - 1
        <5>1. at = Way(hand.key, e, n) BY <1>2, <4>1 DEF Placed
        <5>2. QED BY <1>1, <5>1
      <4>2. CASE e # hand.dib - 1
        <5>1. e \in 0..(hand.dib - 2) BY <1>2, <4>2
        <5>2. QED BY <3>1, <5>1
      <4>3. QED BY <4>1, <4>2
    <3>4. hand'.dib - 2 = hand.dib - 1 BY <1>2, <3>2
    <3>5. CarriesOwn' BY <2>0, <3>1, <3>2, <3>3, <3>4 DEF CarriesOwn
    <3>6. QED BY <3>5
  <2>2. CASE CarriesOwn /\ buckets[at].dib < hand.dib
    <3>1. hand.key = item.key /\ hand.val = item.val BY <2>2 DEF CarriesOwn
    <3>2. hand'.key # item.key /\ Absent(hand'.key, buckets') BY <1>1, <1>3, <1>5, <2>2, <3>1
    <3>3. buckets'[at].key = item.key /\ buckets'[at].val = item.val BY <1>3, <2>2, <3>1
    <3>4. at' = Wrap(at + 1, n) /\ 1 \in 1..(n - 1)
      <4>1. n \in Nat \ {0, 1} BY TableFacts
      <4>2. QED BY <1>1, <4>1
    <3>5. Used(buckets', at, 1, n)
      <4>1. Wrap(at + 0, n) = at BY <1>2 DEF Wrap
      <4>2. buckets'[at] # Free BY <1>2, <1>3, <2>2, ItemNotFree
      <4>3. QED BY <4>1, <4>2 DEF Used
    <3>6. CarriesOther' BY <1>2, <2>0, <3>2, <3>3, <3>4, <3>5 DEF CarriesOther
    <3>7. QED BY <3>6
  <2>3. CASE CarriesOther
    <3>1. hand.key # item.key /\ Absent(hand.key, buckets) BY <2>3 DEF CarriesOther
    <3>2. PICK j \in 0..(n - 1), t \in 1..(n - 1) :
            /\ buckets[j].key = item.key /\ buckets[j].val = item.val
            /\ at = Wrap(j + t, n)
            /\ Used(buckets, j, t, n)
      BY <2>3 DEF CarriesOther
    <3>3. \A e \in 0..t : buckets[Wrap(j + e, n)] # Free
      <4> TAKE e \in 0..t
      <4>1. CASE e = t BY <1>4, <3>2, <4>1
      <4>2. CASE e # t
        <5>1. e \in 0..(t - 1) BY <4>2
        <5>2. QED BY <3>2, <5>1 DEF Used
      <4>3. QED BY <4>1, <4>2
    <3>4. \E f \in 0..(n - 1) : buckets[f] = Free BY <1>2, Bucket
    <3>41. Used(buckets, j, t + 1, n) BY <3>3 DEF Used
    <3> HIDE DEF n
    <3>5. t + 1 \in 1..(n - 1) /\ Wrap(at + 1, n) = Wrap(j + (t + 1), n) /\ at # j
      <4>1. n \in Nat \ {0} BY <1>2
      <4>2. /\ t + 1 \in 1..(n - 1) /\ Wrap(Wrap(j + t, n) + 1, n) = Wrap(j + (t + 1), n)
            /\ Wrap(j + t, n) # j
        BY <3>4, <3>41, <4>1, RoomRound
      <4>3. QED BY <3>2, <4>2
    <3>6. Used(buckets', j, t + 1, n)
      <4> SUFFICES ASSUME NEW e \in 0..t PROVE buckets'[Wrap(j + e, n)] # Free BY DEF Used
      <4>1. Wrap(j + e, n) \in 0..(n - 1) BY <1>2 DEF Wrap
      <4>2. Wrap(j + e, n) \in InUse(buckets) BY <1>2, <3>3, <4>1, InUseOf
      <4>3. n \in Nat /\ Wrap(j + e, n) \in InUse(buckets') /\ buckets' \in Table(n) BY <1>2, <1>3, <4>2
      <4>4. InUse(buckets') = {i \in 0..(n - 1) : buckets'[i] # Free} BY <4>3, InUseOf
      <4>5. QED BY <4>3, <4>4
    <3>7. buckets'[j] = buckets[j] BY <1>3, <3>5
    <3>8. hand'.key # item.key /\ Absent(hand'.key, buckets')
      <4>1. CASE buckets[at].dib < hand.dib
        <5>1. Absent(hand'.key, buckets') /\ hand'.key = buckets[at].key BY <1>3, <1>5, <4>1
        <5>2. at \in InUse(buckets) /\ j \in InUse(buckets)
          <6>1. Wrap(j + 0, n) = j /\ 0 \in 0..t BY <1>2 DEF Wrap
          <6>2. buckets[j] # Free BY <3>3, <6>1
          <6>3. QED BY <1>2, <1>4, <6>2, InUseOf
        <5>3. buckets[at].key # buckets[j].key BY <1>2, <3>5, <5>2 DEF Unique
        <5>4. QED BY <3>2, <5>1, <5>3
      <4>2. CASE ~(buckets[at].dib < hand.dib) BY <1>3, <3>1, <4>2
      <4>3. QED BY <4>1, <4>2
    <3>9. at' = Wrap(j + (t + 1), n) BY <1>1, <3>5 DEF n
    <3>10. CarriesOther' BY <2>0, <3>2, <3>5, <3>6, <3>7, <3>8, <3>9 DEF CarriesOther
    <3>11. QED BY <3>10
  <2>4. QED BY <1>1, <2>1, <2>2, <2>3, Setting
<1>9. SetInv'
  <2>1. item # NULL /\ oom = FALSE /\ count < growat(nbuckets) BY <1>1, Setting
  <2>2. Carried(buckets, nbuckets)' BY <1>1, <1>3 DEF Carried
  <2>3. QED BY <1>1, <1>8, <2>1, <2>2 DEF SetInv
<1>10. ResizeInv' BY <1>1 DEF ResizeInv
<1>11. QED BY <1>6, <1>7, <1>9, <1>10 DEF IInv

LEMMA ResizeNextKeeps ==
  ASSUME IInv, ResizeNext
  PROVE  IInv'
<1>1. /\ pc = "resize" /\ hand = Free
      /\ UNCHANGED <<nbuckets, cap, buckets, count, pc, item, nbuckets2, buckets2, result, oom>>
  BY DEF ResizeNext, tableVars
<1>2. PICK j \in src..(nbuckets - 1) :
        /\ buckets[j].dib # 0
        /\ \A i \in src..(j - 1) : buckets[i].dib = 0
        /\ hand' = [buckets[j] EXCEPT !.dib = 1]
        /\ at' = home(buckets[j].key, nbuckets2)
        /\ src' = j + 1
  BY DEF ResizeNext
<1>3. TypeOK /\ TableInv /\ ResizeInv BY DEF IInv
<1>4. nbuckets \in Nat /\ src \in 0..nbuckets /\ buckets \in Table(nbuckets) BY <1>1, <1>3 DEF TypeOK
<1>5. j \in 0..(nbuckets - 1) /\ j \in Left /\ buckets[j] \in Item
  <2>1. j \in 0..(nbuckets - 1) BY <1>4
  <2>2. buckets[j] # Free /\ buckets[j] \in Item BY <1>2, <1>4, <2>1, Bucket
  <2>3. QED BY <2>1, <2>2 DEF Left
<1>6. /\ hand' \in Item /\ hand' # Free /\ hand'.key = buckets[j].key /\ hand'.dib = 1
  BY <1>2, <1>5 DEF Item, Free
<1>7. nbuckets2 \in Nat \ {0} BY <1>1, Resizing
<1>8. /\ at' \in 0..(nbuckets2 - 1)
      /\ Placed(hand', at', nbuckets2) /\ Earned(hand'.key, hand'.dib - 1, buckets2, nbuckets2)
  <2> DEFINE x == hand'
  <2>1. x \in Item /\ x.dib = 1 /\ at' = home(x.key, nbuckets2) BY <1>2, <1>6
  <2> HIDE DEF x
  <2>2. /\ home(x.key, nbuckets2) \in 0..(nbuckets2 - 1)
        /\ Placed(x, home(x.key, nbuckets2), nbuckets2)
        /\ Earned(x.key, x.dib - 1, buckets2, nbuckets2)
    BY <1>7, <2>1, Begins
  <2>3. QED BY <2>1, <2>2 DEF x
<1>9. Left' = Left \ {j}
  <2>1. Left' = {i \in src'..(nbuckets - 1) : buckets[i] # Free} BY <1>1 DEF Left
  <2>2. \A i \in src..(j - 1) : buckets[i] = Free
    <3>1. \A i \in src..(j - 1) : i \in 0..(nbuckets - 1) BY <1>4
    <3>2. QED BY <1>2, <1>4, <3>1, Bucket
  <2>3. \A i : i \in src'..(nbuckets - 1) <=> i \in src..(nbuckets - 1) /\ i \notin src..(j - 1) /\ i # j
    BY <1>2, <1>4
  <2>4. QED BY <2>1, <2>2, <2>3 DEF Left
<1>10. TypeOK'
  <2>1. src' \in 0..nbuckets BY <1>2, <1>4
  <2>2. hand' \in Item \cup {Free} BY <1>6
  <2>3. QED BY <1>1, <1>3, <1>8, <2>1, <2>2 DEF TypeOK
<1>11. TableInv' BY <1>1, <1>3 DEF TableInv
<1>12. SetInv' BY <1>1 DEF SetInv
<1>13. Cardinality(Left') = Cardinality(Left) - 1 BY <1>1, <1>5, <1>9, Resizing, FS_RemoveElement
<1>14. ResizeInv'
  <2>1. /\ oom = FALSE /\ nbuckets2 \in Sizes(cap)
        /\ count <= growat(nbuckets2) /\ (item # NULL => count < growat(nbuckets2))
        /\ Fair(buckets2, nbuckets2) /\ Unique(buckets2)
        /\ \A i \in Left : Absent(buckets[i].key, buckets2)
        /\ Cardinality(InUse(buckets2)) + 0 + Cardinality(Left) = count
    BY <1>1, <1>3 DEF ResizeInv
  <2>2. Cardinality(InUse(buckets2)') + (IF hand' = Free THEN 0 ELSE 1) + Cardinality(Left') = count'
    <3>1. Cardinality(Left) \in Nat BY <1>1, Resizing
    <3>2. Cardinality(InUse(buckets2)) \in Nat BY <1>1, Resizing, InUseOf
    <3>3. InUse(buckets2)' = InUse(buckets2) /\ count' = count BY <1>1
    <3>4. QED BY <1>6, <1>13, <2>1, <3>1, <3>2, <3>3
  <2>3. \A i \in Left' : Absent(buckets[i].key, buckets2) BY <1>9, <2>1
  <2>4. Absent(hand'.key, buckets2) BY <1>5, <1>6, <2>1
  <2>5. \A i \in Left' : buckets[i].key # hand'.key
    <3>1. Left \subseteq InUse(buckets) BY <1>1, Resizing
    <3>2. Unique(buckets) BY TableFacts
    <3>3. QED BY <1>5, <1>6, <1>9, <3>1, <3>2 DEF Unique
  <2>6. Carried(buckets2, nbuckets2)' BY <1>1, <1>8 DEF Carried
  <2>7. QED BY <1>1, <2>1, <2>2, <2>3, <2>4, <2>5, <2>6 DEF ResizeInv
<1>15. QED BY <1>10, <1>11, <1>12, <1>14 DEF IInv

LEMMA Resizes ==
  ASSUME IInv, pc = "resize", hand # Free
  PROVE  /\ hand \in Item /\ at \in 0..(nbuckets2 - 1)
         /\ Placed(hand, at, nbuckets2) /\ Earned(hand.key, hand.dib - 1, buckets2, nbuckets2)
         /\ Absent(hand.key, buckets2)
         /\ \A j \in Left : buckets[j].key # hand.key /\ Absent(buckets[j].key, buckets2)
         /\ Cardinality(InUse(buckets2)) + 1 + Cardinality(Left) = count
         /\ \E f \in 0..(nbuckets2 - 1) : buckets2[f].dib = 0
<1>1. TypeOK /\ ResizeInv BY DEF IInv
<1>2. hand \in Item /\ at \in 0..(nbuckets2 - 1) BY <1>1 DEF TypeOK
<1>3. /\ Carried(buckets2, nbuckets2) /\ Absent(hand.key, buckets2)
      /\ \A j \in Left : buckets[j].key # hand.key /\ Absent(buckets[j].key, buckets2)
      /\ Cardinality(InUse(buckets2)) + 1 + Cardinality(Left) = count
  BY <1>1 DEF ResizeInv
<1>4. \E f \in 0..(nbuckets2 - 1) : buckets2[f].dib = 0
  <2>1. /\ nbuckets2 \in Nat /\ buckets2 \in Table(nbuckets2) /\ growat(nbuckets2) \in Nat
        /\ count <= growat(nbuckets2) /\ growat(nbuckets2) < nbuckets2 /\ Cardinality(Left) \in Nat
    BY Resizing
  <2>2. Cardinality(InUse(buckets2)) \in Nat BY <2>1, InUseOf
  <2>3. Cardinality(InUse(buckets2)) < nbuckets2 BY <1>3, <2>1, <2>2
  <2>4. QED BY <2>1, <2>3, NotFull
<1>5. QED BY <1>2, <1>3, <1>4 DEF Carried

LEMMA ResizeProbeKeeps ==
  ASSUME IInv, ResizeProbe
  PROVE  IInv'
<1> DEFINE n == nbuckets2
           c == buckets2'
<1>1. /\ pc = "resize" /\ hand # Free
      /\ UNCHANGED <<nbuckets, cap, buckets, count, pc, item, src, nbuckets2, result, oom>>
  BY DEF ResizeProbe, tableVars
<1>2. /\ hand \in Item /\ hand.key \in Key /\ hand.dib \in Nat \ {0} /\ at \in 0..(n - 1)
      /\ Placed(hand, at, n) /\ Earned(hand.key, hand.dib - 1, buckets2, n)
      /\ \E f \in 0..(n - 1) : buckets2[f].dib = 0
  BY <1>1, Resizes, ItemNotFree
<1>3. /\ n \in Nat \ {0} /\ buckets2 \in Table(n) /\ Fair(buckets2, n) /\ Unique(buckets2)
  BY <1>1, Resizing
<1>4. /\ Absent(hand.key, buckets2)
      /\ \A j \in Left : buckets[j].key # hand.key /\ Absent(buckets[j].key, buckets2)
      /\ Cardinality(InUse(buckets2)) + 1 + Cardinality(Left) = count
  BY <1>1, Resizes
<1>5. Left' = Left BY <1>1 DEF Left
<1>6. /\ Cardinality(Left) \in Nat /\ Cardinality(InUse(buckets2)) \in Nat /\ IsFiniteSet(InUse(buckets2))
  BY <1>1, <1>3, Resizing, InUseOf
<1>7. CASE buckets2[at].dib = 0
  <2>1. c = [buckets2 EXCEPT ![at] = hand] /\ hand' = Free /\ at' = 0
    BY <1>7 DEF ResizeProbe
  <2>2. /\ c \in Table(n) /\ c[at] = hand
        /\ \A i \in 0..(n - 1) : i # at => c[i] = buckets2[i]
    BY <1>2, <1>3, <2>1 DEF Table
  <2> HIDE DEF n, c
  <2>3. buckets2[at].dib < hand.dib BY <1>2, <1>7
  <2>4. Fair(c, n) /\ InUse(c) = InUse(buckets2) \cup {at}
    BY <1>2, <1>3, <2>2, <2>3, PutFair
  <2>5. Unique(c)
    <3>1. n \in Nat BY <1>3
    <3>2. QED BY <1>2, <1>3, <1>4, <2>2, <3>1, PutUnique
  <2>6. Cardinality(InUse(c)) = Cardinality(InUse(buckets2)) + 1
    <3>1. buckets2[at] = Free BY <1>2, <1>3, <1>7, Bucket
    <3>2. at \notin InUse(buckets2) BY <3>1 DEF InUse
    <3>3. QED BY <1>6, <2>4, <3>2, FS_AddElement
  <2>7. \A j \in Left : Absent(buckets[j].key, c)
    <3> SUFFICES ASSUME NEW j \in Left, NEW i \in InUse(c) PROVE c[i].key # buckets[j].key
      BY DEF Absent
    <3>1. CASE i = at BY <1>4, <2>2, <3>1
    <3>2. CASE i # at
      <4>1. i \in InUse(buckets2) /\ i \in 0..(n - 1)
        <5>1. n \in Nat /\ i \in InUse(buckets2) BY <1>3, <2>4, <3>2
        <5>2. QED BY <1>3, <5>1, InUseOf
      <4>2. c[i] = buckets2[i] BY <2>2, <3>2, <4>1
      <4>3. QED BY <1>4, <4>1, <4>2 DEF Absent
    <3>3. QED BY <3>1, <3>2
  <2>8. Cardinality(InUse(c)) + 0 + Cardinality(Left) = count BY <1>4, <1>6, <2>6
  <2>9. ResizeInv'
    <3>1. /\ oom = FALSE /\ nbuckets2 \in Sizes(cap)
          /\ count <= growat(nbuckets2) /\ (item # NULL => count < growat(nbuckets2))
      BY <1>1 DEF IInv, ResizeInv
    <3>2. Fair(buckets2', nbuckets2) /\ Unique(buckets2') BY <2>4, <2>5 DEF c, n
    <3>3. \A j \in Left : Absent(buckets[j].key, buckets2') BY <2>7 DEF c
    <3>4. Cardinality(InUse(buckets2')) + 0 + Cardinality(Left) = count BY <2>8 DEF c
    <3>5. QED BY <1>1, <1>5, <2>1, <3>1, <3>2, <3>3, <3>4 DEF ResizeInv
  <2>10. TypeOK'
    <3>1. 0 \in 0..(nbuckets2 - 1) /\ buckets2' \in Table(nbuckets2) BY <1>3, <2>2 DEF n, c
    <3>2. QED BY <1>1, <2>1, <3>1 DEF IInv, TypeOK
  <2>11. TableInv' /\ SetInv' BY <1>1 DEF IInv, TableInv, SetInv
  <2>12. QED BY <2>9, <2>10, <2>11 DEF IInv
<1>8. CASE buckets2[at].dib # 0
  <2> DEFINE y == hand'
             z == at'
  <2>1. /\ z = Wrap(at + 1, n)
        /\ IF buckets2[at].dib < hand.dib
           THEN c = [buckets2 EXCEPT ![at] = hand] /\ y = [buckets2[at] EXCEPT !.dib = @ + 1]
           ELSE c = buckets2 /\ y = [hand EXCEPT !.dib = @ + 1]
    BY <1>8 DEF ResizeProbe, Carry
  <2> HIDE DEF n, c, y, z
  <2>2. /\ c \in Table(n) /\ Fair(c, n) /\ InUse(c) = InUse(buckets2)
        /\ y \in Item /\ z \in 0..(n - 1)
        /\ Placed(y, z, n) /\ Earned(y.key, y.dib - 1, c, n)
        /\ buckets2[at].dib < hand.dib =>
             /\ c[at] = hand /\ \A i \in 0..(n - 1) : i # at => c[i] = buckets2[i]
             /\ y.key = buckets2[at].key /\ y.val = buckets2[at].val
        /\ ~(buckets2[at].dib < hand.dib) =>
             c = buckets2 /\ y.key = hand.key /\ y.val = hand.val /\ y.dib = hand.dib + 1
    BY <1>2, <1>3, <1>8, <2>1, CarryKeeps
  <2>3. buckets2[at] # Free BY <1>2, <1>3, <1>8, Bucket
  <2>4. at \in InUse(buckets2) BY <1>2, <1>3, <2>3, InUseOf
  <2>5. /\ Unique(c) /\ Absent(y.key, c)
        /\ \A j \in Left : buckets[j].key # y.key /\ Absent(buckets[j].key, c)
    <3>1. CASE buckets2[at].dib < hand.dib
      <4>1. n \in Nat BY <1>3
      <4>2. Unique(c) /\ Absent(buckets2[at].key, c)
        BY <1>2, <1>3, <1>4, <2>2, <2>3, <3>1, <4>1, PutUnique
      <4>3. \A j \in Left : buckets[j].key # y.key BY <1>4, <2>2, <2>4, <3>1 DEF Absent
      <4>4. ASSUME NEW j \in Left, NEW i \in InUse(c) PROVE c[i].key # buckets[j].key
        <5>1. CASE i = at BY <1>4, <2>2, <3>1, <5>1
        <5>2. CASE i # at
          <6>1. i \in InUse(buckets2) /\ i \in 0..(n - 1) BY <1>3, <2>2, <4>1, InUseOf
          <6>2. c[i] = buckets2[i] BY <2>2, <3>1, <5>2, <6>1
          <6>3. QED BY <1>4, <6>1, <6>2 DEF Absent
        <5>3. QED BY <5>1, <5>2
      <4>5. QED BY <2>2, <3>1, <4>2, <4>3, <4>4 DEF Absent
    <3>2. CASE ~(buckets2[at].dib < hand.dib) BY <1>3, <1>4, <2>2, <3>2
    <3>3. QED BY <3>1, <3>2
  <2>6. y # Free BY <2>2, ItemNotFree
  <2>7. ResizeInv'
    <3>1. /\ oom = FALSE /\ nbuckets2 \in Sizes(cap)
          /\ count <= growat(nbuckets2) /\ (item # NULL => count < growat(nbuckets2))
      BY <1>1 DEF IInv, ResizeInv
    <3>2. Fair(buckets2', nbuckets2) /\ Unique(buckets2') BY <2>2, <2>5 DEF c, n
    <3>3. /\ \A j \in Left : Absent(buckets[j].key, buckets2') /\ buckets[j].key # hand'.key
          /\ Absent(hand'.key, buckets2') /\ hand' # Free
      BY <2>5, <2>6 DEF c, y
    <3>4. Cardinality(InUse(buckets2')) + 1 + Cardinality(Left) = count BY <1>4, <2>2 DEF c
    <3>5. Placed(hand', at', nbuckets2) /\ Earned(hand'.key, hand'.dib - 1, buckets2', nbuckets2)
      BY <2>2 DEF y, z, c, n
    <3>6. Carried(buckets2, nbuckets2)' BY <1>1, <3>5 DEF Carried
    <3>7. QED BY <1>1, <1>5, <3>1, <3>2, <3>3, <3>4, <3>6 DEF ResizeInv
  <2>8. TypeOK'
    <3>1. /\ hand' \in Item \cup {Free} /\ at' \in 0..(nbuckets2 - 1)
          /\ buckets2' \in Table(nbuckets2)
      BY <2>2 DEF y, z, c, n
    <3>2. QED BY <1>1, <3>1 DEF IInv, TypeOK
  <2>9. TableInv' /\ SetInv' BY <1>1 DEF IInv, TableInv, SetInv
  <2>10. QED BY <2>7, <2>8, <2>9 DEF IInv
<1>9. QED BY <1>7, <1>8

LEMMA ResizeEndsKeeps ==
  ASSUME IInv, ResizeEnds
  PROVE  IInv'
<1>1. /\ pc = "resize" /\ hand = Free
      /\ \A j \in src..(nbuckets - 1) : buckets[j].dib = 0
      /\ buckets' = buckets2 /\ nbuckets' = nbuckets2
      /\ UNCHANGED <<cap, count, result, oom>>
  BY DEF ResizeEnds
<1>2. TypeOK /\ ResizeInv BY DEF IInv
<1>3. /\ nbuckets2 \in Nat \ {0, 1} /\ buckets2 \in Table(nbuckets2)
      /\ Fair(buckets2, nbuckets2) /\ Unique(buckets2) /\ count <= growat(nbuckets2)
  BY <1>1, Resizing
<1>4. Left = {}
  <2>1. nbuckets \in Nat /\ src \in 0..nbuckets /\ buckets \in Table(nbuckets) BY <1>1, <1>2 DEF TypeOK
  <2>2. \A j \in src..(nbuckets - 1) : j \in 0..(nbuckets - 1) BY <2>1
  <2>3. \A j \in src..(nbuckets - 1) : buckets[j] = Free BY <1>1, <2>1, <2>2, Bucket
  <2>4. QED BY <2>3 DEF Left
<1>5. /\ nbuckets2 \in Sizes(cap) /\ oom = FALSE /\ (item # NULL => count < growat(nbuckets2))
      /\ Cardinality(InUse(buckets2)) + 0 + Cardinality(Left) = count
  BY <1>1, <1>2 DEF ResizeInv
<1>6. Cardinality(InUse(buckets2)) = count
  <2>1. Cardinality(Left) = 0 BY <1>4, FS_EmptySet
  <2>2. Cardinality(InUse(buckets2)) \in Nat BY <1>3, InUseOf
  <2>3. QED BY <1>5, <2>1, <2>2
<1>7. TableInv' BY <1>1, <1>3, <1>5, <1>6 DEF TableInv
<1>8. CASE item = NULL
  <2>1. Rest BY <1>8 DEF ResizeEnds
  <2>2. TypeOK' BY <1>1, <1>2, <1>3, <2>1, RestIs DEF TypeOK
  <2>3. QED BY <1>7, <2>1, <2>2, RestIs, IdleKeeps
<1>9. CASE item # NULL
  <2>1. StartSet(item, nbuckets2) BY <1>9 DEF ResizeEnds
  <2>2. item \in Arg BY <1>2, <1>9 DEF TypeOK, Arg
  <2>3. PICK k \in Key, v \in Value : item = Entry(k, v) BY <2>2 DEF Arg, Entry
  <2>4. StartSet(Entry(k, v), nbuckets') BY <1>1, <2>1, <2>3
  <2>5. /\ nbuckets' \in Nat \ {0, 1} /\ cap' \in Nat \ {0, 1} /\ count' \in Nat
        /\ buckets' \in Table(nbuckets')
        /\ result' \in Value \cup {NULL} /\ oom' = FALSE /\ count' < growat(nbuckets')
    BY <1>1, <1>2, <1>3, <1>5, <1>9 DEF TypeOK
  <2>6. QED BY <1>7, <2>4, <2>5, StartSetKeeps
<1>10. QED BY <1>8, <1>9

(* A search that ends at a bucket in use has found its key. *)
LEMMA SearchIs ==
  ASSUME IInv, NEW k \in Key, NEW d \in 0..(nbuckets - 1), Search(k, d)
  PROVE  LET i == Passed(k, d) IN
           /\ i \in 0..(nbuckets - 1) /\ i = Way(k, d, nbuckets)
           /\ buckets[i].dib = 0 <=> buckets[i] = Free
           /\ buckets[i].dib # 0 =>
                /\ buckets[i] \in Item /\ buckets[i].key = k /\ i \in InUse(buckets)
           /\ buckets[i].dib = 0 => Absent(k, buckets)
<1> DEFINE i == Passed(k, d)
           n == nbuckets
<1>1. n \in Nat \ {0} /\ buckets \in Table(n) /\ Fair(buckets, n) BY TableFacts
<1>2. \A e : Passed(k, e) = Way(k, e, n) BY DEF Passed, Way
<1>3. i \in 0..(n - 1) BY <1>1, <1>2, WayIn
<1>4. Stops(k, i) /\ \A e \in 0..(d - 1) : ~Stops(k, Way(k, e, n)) BY <1>2 DEF Search
<1>5. ASSUME buckets[i].dib # 0
      PROVE  buckets[i] \in Item /\ buckets[i].key = k /\ i \in InUse(buckets)
  <2>1. buckets[i] # Free /\ buckets[i] \in Item BY <1>1, <1>3, <1>5, Bucket
  <2>2. i \in InUse(buckets) BY <1>3, <2>1, TableFacts
  <2>3. buckets[i].key = k BY <1>4, <1>5 DEF Stops
  <2>4. QED BY <2>1, <2>2, <2>3
<1>6. ASSUME buckets[i].dib = 0
      PROVE  Absent(k, buckets)
  <2> SUFFICES ASSUME NEW j \in InUse(buckets), buckets[j].key = k PROVE FALSE BY DEF Absent
  <2> DEFINE D == buckets[j].dib
  <2>1. j \in 0..(n - 1) /\ buckets[j] # Free BY TableFacts
  <2>2. /\ D \in 1..n /\ j = Way(k, D - 1, n) /\ Earned(k, D, buckets, n)
    BY <1>1, <2>1 DEF Fair, Placed
  <2> HIDE DEF D
  <2>3. CASE d < D
    <3>1. d \in 0..(D - 1) BY <2>2, <2>3
    <3>2. buckets[Way(k, d, n)].dib > d BY <2>2, <3>1 DEF Earned
    <3>3. QED BY <1>2, <1>6, <3>2
  <2>4. CASE d >= D
    <3>1. D - 1 \in 0..(d - 1) BY <2>2, <2>4
    <3>2. ~Stops(k, j) BY <1>4, <2>2, <3>1
    <3>3. QED BY <3>2 DEF Stops
  <2>5. QED BY <2>2, <2>3, <2>4
<1>7. QED BY <1>1, <1>2, <1>3, <1>5, <1>6, Bucket

(* What a deletion leaves in the table. *)
LEMMA DeleteAtIs ==
  ASSUME IInv, NEW i \in 0..(nbuckets - 1), buckets[i] # Free, DeleteAt(i),
         nbuckets' = nbuckets
  PROVE  /\ \E r \in 0..(nbuckets - 1) :
              Gap(buckets, i, r, nbuckets) /\ buckets' = Closed(buckets, i, r, nbuckets)
         /\ buckets' \in Table(nbuckets) /\ Fair(buckets', nbuckets) /\ Unique(buckets')
         /\ Absent(buckets[i].key, buckets')
         /\ count' \in Nat /\ count' = count - 1 /\ count' = Cardinality(InUse(buckets'))
<1> DEFINE n == nbuckets
           c == buckets'
<1>1. n \in Nat \ {0} /\ buckets \in Table(n) /\ Fair(buckets, n) /\ Unique(buckets)
  BY TableFacts
<1>2. PICK r \in 0..(n - 1) : GapCloses(i, r) /\ buckets' = CloseGap(i, r) BY DEF DeleteAt
<1>3. Gap(buckets, i, r, n) BY <1>2 DEF GapCloses, Gap
<1>4. c = Closed(buckets, i, r, n) BY <1>2 DEF CloseGap, Closed, Moves
<1> HIDE DEF n, c
<1>5. /\ c \in Table(n) /\ Unique(c) /\ Absent(buckets[i].key, c)
      /\ Cardinality(InUse(c)) = Cardinality(InUse(buckets)) - 1
  <2>1. i \in 0..(n - 1) BY DEF n
  <2>2. QED BY <1>1, <1>3, <1>4, <2>1, GapKeys
<1>6. Fair(c, n)
  <2>1. i \in 0..(n - 1) BY DEF n
  <2>2. QED BY <1>1, <1>3, <1>4, <1>5, <2>1, GapFair
<1>7. count' = count - 1 /\ count = Cardinality(InUse(buckets)) /\ count \in Nat
  BY TableFacts DEF DeleteAt
<1>8. Cardinality(InUse(c)) \in Nat
  <2>1. n \in Nat BY <1>1
  <2>2. QED BY <1>5, <2>1, InUseOf
<1>9. count' = Cardinality(InUse(c)) /\ count' \in Nat BY <1>5, <1>7, <1>8
<1>10. \E q \in 0..(nbuckets - 1) :
         Gap(buckets, i, q, nbuckets) /\ buckets' = Closed(buckets, i, q, nbuckets)
  BY <1>3, <1>4 DEF n, c
<1>11. QED BY <1>5, <1>6, <1>7, <1>9, <1>10 DEF n, c

LEMMA DeleteKeeps ==
  ASSUME IInv, NEW k \in Key, hashmap_delete(k)
  PROVE  IInv'
<1> DEFINE n == nbuckets
<1>1. PICK d \in 0..(nbuckets - 1) :
        /\ Search(k, d)
        /\ result' = buckets[Passed(k, d)].val
        /\ IF buckets[Passed(k, d)].dib = 0 THEN UNCHANGED <<buckets, count, loopVars>>
                                            ELSE DeleteAt(Passed(k, d))
  BY DEF hashmap_delete
<1>2. pc = "idle" /\ oom' = FALSE /\ nbuckets' = nbuckets /\ cap' = cap
  BY DEF hashmap_delete, Idle
<1> DEFINE i == Passed(k, d)
<1>3. i \in 0..(n - 1) /\ buckets[i] \in Item \cup {Free}
  <2>1. i \in 0..(n - 1) BY <1>1, SearchIs
  <2>2. QED BY <2>1, TableFacts, Bucket
<1>4. result' \in Value \cup {NULL} BY <1>1, <1>3 DEF Item, Free
<1>5. TypeOK /\ TableInv BY DEF IInv
<1>6. CASE buckets[i].dib = 0
  <2>1. UNCHANGED <<buckets, count, loopVars>> BY <1>1, <1>6
  <2>2. TypeOK' BY <1>2, <1>4, <1>5, <2>1 DEF TypeOK, loopVars
  <2>3. TableInv' BY <1>2, <1>5, <2>1 DEF TableInv
  <2>4. QED BY <1>2, <2>1, <2>2, <2>3, IdleKeeps DEF loopVars
<1>7. CASE buckets[i].dib # 0
  <2>1. DeleteAt(i) BY <1>1, <1>7
  <2>2. buckets[i] # Free BY <1>7 DEF Free
  <2>3. /\ buckets' \in Table(nbuckets) /\ Fair(buckets', nbuckets) /\ Unique(buckets')
        /\ count' \in Nat /\ count' = count - 1 /\ count' = Cardinality(InUse(buckets'))
    BY <1>2, <1>3, <2>1, <2>2, DeleteAtIs
  <2>4. TableInv'
    <3>1. count' <= growat(nbuckets) BY <2>3, TableFacts
    <3>2. QED BY <1>2, <1>5, <2>3, <3>1 DEF TableInv
  <2>5. /\ nbuckets' \in Nat \ {0, 1} /\ cap' \in Nat \ {0, 1} /\ count' \in Nat
        /\ buckets' \in Table(nbuckets')
    BY <1>2, <1>5, <2>3 DEF TypeOK
  <2>6. CASE ShouldShrink /\ StartResize(nbuckets \div 2, NULL)
    <3>1. nbuckets > cap /\ count' <= shrinkat(nbuckets) BY <2>6 DEF ShouldShrink
    <3>2. cap \in Nat /\ cap >= 2 /\ nbuckets \in Sizes(cap) BY <1>5 DEF TypeOK, TableInv
    <3> DEFINE m == nbuckets \div 2
    <3>3. nbuckets = 2 * m /\ m \in Sizes(cap) BY <3>1, <3>2, SizesDown
    <3> HIDE DEF m
    <3>4. m \in Nat \ {0} /\ m >= 2 BY <3>2, <3>3, SizesUp
    <3>5. shrinkat(nbuckets) \in Nat /\ shrinkat(nbuckets) <= growat(m) BY <3>3, <3>4, Shrinkat
    <3>6. growat(m) \in Nat
      <4>1. m \in Nat \ {0, 1} BY <3>4
      <4>2. QED BY <4>1, Growat
    <3>7. count' <= growat(m) BY <2>5, <3>1, <3>5, <3>6
    <3>8. StartResize(m, NULL) /\ m \in Sizes(cap') BY <1>2, <2>6, <3>3 DEF m
    <3>9. QED BY <1>2, <1>4, <2>4, <2>5, <3>4, <3>7, <3>8, StartResizeKeeps
  <2>7. CASE UNCHANGED loopVars
    <3>1. TypeOK' BY <1>2, <1>4, <1>5, <2>5, <2>7 DEF TypeOK, loopVars
    <3>2. QED BY <1>2, <2>4, <2>7, <3>1, IdleKeeps DEF loopVars
  <2>8. QED BY <2>1, <2>6, <2>7 DEF DeleteAt
<1>8. QED BY <1>6, <1>7

LEMMA NextKeeps ==
  ASSUME IInv, [Next]_mapVars
  PROVE  IInv'
<1>1. CASE Call
  <2>1. ASSUME NEW k \in Key, hashmap_get(k) PROVE IInv' BY <2>1, GetKeeps
  <2>2. ASSUME NEW k \in Key, hashmap_delete(k) PROVE IInv' BY <2>2, DeleteKeeps
  <2>3. ASSUME NEW k \in Key, NEW v \in Value, hashmap_set(k, v) PROVE IInv' BY <2>3, SetKeeps
  <2>4. ASSUME NEW u \in BOOLEAN, hashmap_clear(u) PROVE IInv' BY <2>4, ClearKeeps
  <2>5. QED BY <1>1, <2>1, <2>2, <2>3, <2>4 DEF Call
<1>2. CASE Loop
  BY <1>2, SetInFreeKeeps, SetReplacesKeeps, SetProbeKeeps,
     ResizeNextKeeps, ResizeProbeKeeps, ResizeEndsKeeps DEF Loop
<1>3. CASE UNCHANGED mapVars BY <1>3, StutterKeeps
<1>4. QED BY <1>1, <1>2, <1>3 DEF Next

LEMMA Invariance == Spec => []IInv
<1>1. Init => IInv BY InitKeeps
<1>2. IInv /\ [Next]_mapVars => IInv' BY NextKeeps
<1>3. QED BY <1>1, <1>2, PTL DEF Spec

(* Every variable of the hash table keeps its type: an entry is carried     *)
(* from bucket to bucket inside the table, and a table never shrinks below  *)
(* two buckets.                                                             *)
THEOREM TableTyped == Spec => []TypeOK
<1>1. IInv => TypeOK BY InvariantSays
<1>2. QED BY <1>1, Invariance, PTL

(* Through sets, replacements, deletions, failed allocations and both kinds *)
(* of resize, hashmap_count() is the number of buckets in use, no key is    *)
(* there twice, and a free bucket is left.                                  *)
THEOREM CountIsExact == Spec => []CountExact
<1>1. IInv => CountExact BY InvariantSays
<1>2. QED BY <1>1, Invariance, PTL

(* hashmap_get finds what is in the table: no search ends before its item,  *)
(* whatever was displaced or moved back.                                    *)
THEOREM SearchesEnd == Spec => []ProbesEnd
<1>1. IInv => ProbesEnd BY InvariantSays
<1>2. QED BY <1>1, Invariance, PTL

(* The table is a Robin Hood table, as the head of hashmap.c says.          *)
THEOREM RobinHoodFair == Spec => []ProbesFair
<1>1. IInv => ProbesFair BY InvariantSays
<1>2. QED BY <1>1, Invariance, PTL

-----------------------------------------------------------------------------
(* The table implements a map.                                              *)

(* The map that a set of entries stands for, if it has one value per key.   *)
DictOf(S) ==
  [k \in Key |-> IF \E e \in S : e.key = k THEN (CHOOSE e \in S : e.key = k).val ELSE NULL]
Functional(S) == \A e, f \in S : e.key \in Key /\ e.key = f.key => e.val = f.val

(* What S says of the keys in K, T says too. *)
Covers(S, T, K) == \A e \in S : e.key \in K => \E f \in T : f.key = e.key /\ f.val = e.val

LEMMA DictHas ==
  ASSUME NEW S, Functional(S), NEW e \in S, e.key \in Key
  PROVE  DictOf(S)[e.key] = e.val
<1> DEFINE c == CHOOSE f \in S : f.key = e.key
<1>1. c \in S /\ c.key = e.key OBVIOUS
<1>2. c.val = e.val BY <1>1 DEF Functional
<1>3. QED BY <1>2 DEF DictOf

LEMMA DictLacks ==
  ASSUME NEW S, NEW k \in Key, \A e \in S : e.key # k
  PROVE  DictOf(S)[k] = NULL
BY DEF DictOf

LEMMA DictAgrees ==
  ASSUME NEW S, NEW T, Functional(S), Functional(T), NEW K, NEW k \in Key, k \in K,
         Covers(S, T, K), Covers(T, S, K)
  PROVE  DictOf(S)[k] = DictOf(T)[k]
<1>1. CASE \E e \in S : e.key = k
  <2>1. PICK e \in S : e.key = k BY <1>1
  <2>2. PICK f \in T : f.key = k /\ f.val = e.val BY <2>1 DEF Covers
  <2>3. DictOf(S)[k] = e.val BY <2>1, DictHas
  <2>4. DictOf(T)[k] = f.val BY <2>2, DictHas
  <2>5. QED BY <2>2, <2>3, <2>4
<1>2. CASE ~\E e \in S : e.key = k
  <2>1. \A f \in T : f.key # k BY <1>2 DEF Covers
  <2>2. QED BY <1>2, <2>1, DictLacks
<1>3. QED BY <1>1, <1>2

LEMMA DictIsMap ==
  ASSUME NEW S
  PROVE  DictOf(S) = [k \in Key |-> DictOf(S)[k]]
BY DEF DictOf

LEMMA DictSame ==
  ASSUME NEW S, NEW T, Functional(S), Functional(T), Covers(S, T, Key), Covers(T, S, Key)
  PROVE  DictOf(S) = DictOf(T)
<1>1. \A k \in Key : DictOf(S)[k] = DictOf(T)[k] BY DictAgrees
<1>2. QED BY <1>1, DictIsMap

LEMMA DictSet ==
  ASSUME NEW S, NEW T, Functional(S), Functional(T), NEW k \in Key, NEW v,
         Covers(S, T, Key \ {k}), Covers(T, S, Key \ {k}),
         \E e \in T : e.key = k /\ e.val = v
  PROVE  DictOf(T) = [DictOf(S) EXCEPT ![k] = v]
<1>1. \A q \in Key : q # k => DictOf(S)[q] = DictOf(T)[q]
  <2> SUFFICES ASSUME NEW q \in Key, q # k PROVE DictOf(S)[q] = DictOf(T)[q] OBVIOUS
  <2>1. q \in Key \ {k} OBVIOUS
  <2>2. QED BY <2>1, DictAgrees
<1>2. DictOf(T)[k] = v BY DictHas
<1>3. DOMAIN DictOf(S) = Key BY DEF DictOf
<1>4. QED BY <1>1, <1>2, <1>3, DictIsMap

LEMMA DictDrop ==
  ASSUME NEW S, NEW T, Functional(S), Functional(T), NEW k \in Key,
         Covers(S, T, Key \ {k}), Covers(T, S, Key \ {k}),
         \A e \in T : e.key # k
  PROVE  DictOf(T) = [DictOf(S) EXCEPT ![k] = NULL]
<1>1. \A q \in Key : q # k => DictOf(S)[q] = DictOf(T)[q]
  <2> SUFFICES ASSUME NEW q \in Key, q # k PROVE DictOf(S)[q] = DictOf(T)[q] OBVIOUS
  <2>1. q \in Key \ {k} OBVIOUS
  <2>2. QED BY <2>1, DictAgrees
<1>2. DictOf(T)[k] = NULL BY DictLacks
<1>3. DOMAIN DictOf(S) = Key BY DEF DictOf
<1>4. QED BY <1>1, <1>2, <1>3, DictIsMap

(* The entries of a table, and of one in which a bucket was overwritten.    *)
LEMMA EntriesAre ==
  ASSUME NEW n \in Nat, NEW b \in Table(n)
  PROVE  /\ \A j \in InUse(b) : b[j] \in Entries(b)
         /\ \A e \in Entries(b) : e \in Item /\ e.key \in Key /\ \E j \in InUse(b) : e = b[j]
<1>1. \A j \in InUse(b) : b[j] \in Entries(b) BY DEF InUse, Entries
<1>2. ASSUME NEW e \in Entries(b) PROVE e \in Item /\ e.key \in Key /\ \E j \in InUse(b) : e = b[j]
  <2>1. PICK j \in InUse(b) : e = b[j] BY DEF InUse, Entries
  <2>2. j \in 0..(n - 1) /\ b[j] # Free BY InUseOf
  <2>3. QED BY <2>1, <2>2, Bucket
<1>3. QED BY <1>1, <1>2

LEMMA EntriesFunctional ==
  ASSUME NEW n \in Nat, NEW b \in Table(n), Unique(b)
  PROVE  Functional(Entries(b))
BY EntriesAre DEF Functional, Unique

LEMMA EntriesPut ==
  ASSUME NEW n \in Nat, NEW b \in Table(n), NEW c \in Table(n), NEW x \in Item,
         NEW j \in 0..(n - 1), c[j] = x, \A i \in 0..(n - 1) : i # j => c[i] = b[i]
  PROVE  /\ x \in Entries(c)
         /\ \A e \in Entries(c) : e = x \/ e \in Entries(b)
         /\ \A e \in Entries(b) : e = b[j] \/ e \in Entries(c)
<1>1. DOMAIN b = 0..(n - 1) /\ DOMAIN c = 0..(n - 1) BY DEF Table
<1>2. x # Free BY ItemNotFree
<1>3. QED BY <1>1, <1>2 DEF Entries

LEMMA AbsentFrom ==
  ASSUME NEW n \in Nat, NEW b \in Table(n), NEW k, Absent(k, b)
  PROVE  \A e \in Entries(b) : e.key # k
BY EntriesAre DEF Absent

LEMMA FreeKey == Free.key = NULL /\ Free.val = NULL /\ Free.key \notin Key
BY HashMapAssumption DEF Free

LEMMA StoredIs ==
  /\ dict = DictOf(Stored)
  /\ pc = "idle" => Stored = Entries(buckets)
  /\ pc = "set" => Stored = IF hand.key = item.key THEN Entries(buckets)
                            ELSE {e \in Entries(buckets) \cup {hand} : e.key # item.key}
  /\ pc = "resize" => Stored = Entries(buckets2) \cup {hand, Free} \cup
                               {buckets[j] : j \in src..(nbuckets - 1)}
BY DEF dict, DictOf, Stored

LEMMA StoredNext ==
  /\ dict' = DictOf(Stored')
  /\ pc' = "idle" => Stored' = Entries(buckets')
  /\ pc' = "set" => Stored' = IF hand'.key = item'.key THEN Entries(buckets')
                              ELSE {e \in Entries(buckets') \cup {hand'} : e.key # item'.key}
  /\ pc' = "resize" => Stored' = Entries(buckets2') \cup {hand', Free} \cup
                                 {buckets'[j] : j \in src'..(nbuckets' - 1)}
BY DEF dict, DictOf, Stored

(* Wherever its entries are, each key has one value. *)
LEMMA StoredFunctional == IInv => Functional(Stored)
<1> SUFFICES ASSUME IInv PROVE Functional(Stored) OBVIOUS
<1>1. nbuckets \in Nat /\ buckets \in Table(nbuckets) /\ Unique(buckets) BY TableFacts
<1>2. Functional(Entries(buckets)) BY <1>1, EntriesFunctional
<1>3. CASE pc = "idle" BY <1>2, <1>3, StoredIs
<1>4. CASE pc = "set"
  <2>1. CASE hand.key = item.key BY <1>2, <1>4, <2>1, StoredIs
  <2>2. CASE hand.key # item.key
    <3>1. Absent(hand.key, buckets) BY <1>4, <2>2, Setting DEF CarriesOwn, CarriesOther
    <3>2. \A e \in Entries(buckets) : e.key # hand.key BY <1>1, <3>1, AbsentFrom
    <3>3. Stored = {e \in Entries(buckets) \cup {hand} : e.key # item.key} BY <1>4, <2>2, StoredIs
    <3>4. QED BY <1>2, <3>2, <3>3 DEF Functional
  <2>3. QED BY <2>1, <2>2
<1>5. CASE pc = "resize"
  <2>1. Stored = Entries(buckets2) \cup {hand, Free} \cup {buckets[j] : j \in src..(nbuckets - 1)}
    BY <1>5, StoredIs
  <2>2. nbuckets2 \in Nat /\ buckets2 \in Table(nbuckets2) /\ Unique(buckets2) /\ Left \subseteq InUse(buckets)
    BY <1>5, Resizing
  <2>3. Functional(Entries(buckets2)) BY <2>2, EntriesFunctional
  <2>4. /\ \A j \in Left : Absent(buckets[j].key, buckets2)
        /\ hand # Free => Absent(hand.key, buckets2) /\ \A j \in Left : buckets[j].key # hand.key
    BY <1>5 DEF IInv, ResizeInv
  <2>5. /\ \A j \in Left, e \in Entries(buckets2) : e.key # buckets[j].key
        /\ hand # Free => \A e \in Entries(buckets2) : e.key # hand.key
    BY <2>2, <2>4, AbsentFrom
  <2>6. ASSUME NEW e \in Stored, e.key \in Key
        PROVE  \/ e \in Entries(buckets2)
               \/ e = hand /\ hand # Free
               \/ \E j \in Left : e = buckets[j]
    <3>1. e # Free BY <2>6, FreeKey
    <3> DEFINE R == {buckets[j] : j \in src..(nbuckets - 1)}
    <3>2. CASE e \in R
      <4>1. PICK j \in src..(nbuckets - 1) : e = buckets[j] BY <3>2
      <4>2. j \in Left BY <3>1, <4>1 DEF Left
      <4>3. QED BY <4>1, <4>2
    <3>3. Stored = Entries(buckets2) \cup {hand, Free} \cup R BY <2>1
    <3> HIDE DEF R
    <3>4. e \in Entries(buckets2) \/ e = hand \/ e \in R BY <2>6, <3>1, <3>3
    <3>5. CASE e \in Entries(buckets2) BY <3>5
    <3>6. CASE e = hand BY <3>1, <3>6
    <3>7. QED BY <3>2, <3>4, <3>5, <3>6
  <2>7. \A i, j \in Left : buckets[i].key = buckets[j].key => i = j BY <1>1, <2>2 DEF Unique
  <2>8. ASSUME NEW e \in Stored, NEW f \in Stored, e.key \in Key, e.key = f.key PROVE e.val = f.val
    <3>1. CASE e \in Entries(buckets2)
      <4>1. f \in Entries(buckets2) BY <2>5, <2>6, <2>8, <3>1
      <4>2. QED BY <2>3, <2>8, <3>1, <4>1 DEF Functional
    <3>2. CASE e = hand /\ hand # Free
      <4>1. f = hand BY <2>4, <2>5, <2>6, <2>8, <3>2
      <4>2. QED BY <3>2, <4>1
    <3>3. CASE \E j \in Left : e = buckets[j]
      <4>1. PICK j \in Left : e = buckets[j] BY <3>3
      <4>2. \E i \in Left : f = buckets[i] BY <2>4, <2>5, <2>6, <2>8, <4>1
      <4>3. QED BY <2>7, <2>8, <4>1, <4>2
    <3>4. QED BY <2>6, <2>8, <3>1, <3>2, <3>3
  <2>9. QED BY <2>8 DEF Functional
<1>6. pc \in {"idle", "set", "resize"} BY DEF IInv, TypeOK
<1>7. QED BY <1>3, <1>4, <1>5, <1>6

LEMMA StoredFunctionalNext == IInv' => Functional(Stored')
<1>1. IInv => Functional(Stored) BY StoredFunctional
<1>2. IInv' => Functional(Stored)' BY <1>1, PTL
<1>3. Functional(Stored)' <=> Functional(Stored') BY DEF Functional
<1>4. QED BY <1>2, <1>3

(* Calls. *)
LEMMA GetRefines ==
  ASSUME IInv, NEW k \in Key, hashmap_get(k)
  PROVE  M!Get(k)
<1>1. PICK d \in 0..(nbuckets - 1) :
        Search(k, d) /\ result' = buckets[Passed(k, d)].val
  BY DEF hashmap_get
<1>2. UNCHANGED <<tableVars, loopVars, oom>> /\ pc = "idle" BY DEF hashmap_get, Idle
<1>3. dict' = dict
  <2>1. Stored' = Stored BY <1>2 DEF Stored, tableVars, loopVars
  <2>2. QED BY <2>1, StoredIs, StoredNext
<1>4. dict[k] = buckets[Passed(k, d)].val
  <2>1. nbuckets \in Nat /\ buckets \in Table(nbuckets) BY TableFacts
  <2>2. dict = DictOf(Entries(buckets)) /\ Functional(Entries(buckets))
    BY <1>2, StoredIs, StoredFunctional
  <2>3. CASE buckets[Passed(k, d)].dib = 0
    <3>1. Absent(k, buckets) /\ buckets[Passed(k, d)] = Free BY <1>1, <2>3, SearchIs
    <3>2. \A e \in Entries(buckets) : e.key # k BY <2>1, <3>1, AbsentFrom
    <3>3. dict[k] = NULL BY <2>2, <3>2, DictLacks
    <3>4. QED BY <3>1, <3>3, FreeKey
  <2>4. CASE buckets[Passed(k, d)].dib # 0
    <3>1. Passed(k, d) \in InUse(buckets) /\ buckets[Passed(k, d)].key = k BY <1>1, <2>4, SearchIs
    <3>2. buckets[Passed(k, d)] \in Entries(buckets) BY <2>1, <3>1, EntriesAre
    <3>3. QED BY <2>2, <3>1, <3>2, DictHas
  <2>5. QED BY <2>3, <2>4
<1>5. QED BY <1>1, <1>2, <1>3, <1>4 DEF M!Get

LEMMA ClearRefines ==
  ASSUME IInv, NEW u \in BOOLEAN, hashmap_clear(u)
  PROVE  M!Clear
<1>1. /\ UNCHANGED <<loopVars, result, oom>> /\ pc = "idle"
      /\ buckets' = Cleared(nbuckets') /\ nbuckets' \in {nbuckets, cap}
  BY DEF hashmap_clear, Idle
<1>2. nbuckets' \in Nat \ {0} BY <1>1 DEF IInv, TypeOK
<1>3. pc' = "idle" BY <1>1 DEF loopVars
<1>4. Entries(Cleared(nbuckets')) = {}
  <2>1. \A j \in DOMAIN Cleared(nbuckets') : Cleared(nbuckets')[j] = Free BY DEF Cleared
  <2>2. QED BY <2>1 DEF Entries
<1>5. Stored' = {} BY <1>1, <1>3, <1>4, StoredNext
<1>6. dict' = [k \in Key |-> NULL] BY <1>5, StoredNext DEF DictOf
<1>7. QED BY <1>1, <1>6 DEF M!Clear

(* A resize that begins finds every entry in the old table. *)
LEMMA ResizeBeginsWith ==
  ASSUME NEW n \in Nat, NEW arg, StartResize(n, arg),
         nbuckets' \in Nat, buckets' \in Table(nbuckets')
  PROVE  /\ Covers(Stored', Entries(buckets'), Key) /\ Covers(Entries(buckets'), Stored', Key)
         /\ \A e \in Stored' : e.key \in Key => e \in Entries(buckets')
<1>1. /\ pc' = "resize" /\ hand' = Free /\ src' = 0 /\ buckets2' = Cleared(n)
  BY DEF StartResize
<1>2. Entries(Cleared(n)) = {}
  <2>1. \A j \in DOMAIN Cleared(n) : Cleared(n)[j] = Free BY DEF Cleared
  <2>2. QED BY <2>1 DEF Entries
<1>3. Stored' = {Free} \cup {buckets'[j] : j \in 0..(nbuckets' - 1)} BY <1>1, <1>2, StoredNext
<1>4. DOMAIN buckets' = 0..(nbuckets' - 1) BY DEF Table
<1>5. \A e \in Stored' : e.key \in Key => e \in Entries(buckets')
  BY <1>3, <1>4, FreeKey DEF Entries
<1>6. \A e \in Entries(buckets') : e \in Stored' BY <1>3, <1>4 DEF Entries
<1>7. QED BY <1>5, <1>6 DEF Covers

LEMMA SetRefines ==
  ASSUME IInv, IInv', NEW k \in Key, NEW v \in Value, hashmap_set(k, v)
  PROVE  M!Begin \/ M!SetFails
<1>1. /\ nbuckets' = nbuckets /\ buckets' = buckets /\ pc = "idle"
  BY DEF hashmap_set, tableVars, Idle
<1>2. nbuckets \in Nat /\ buckets \in Table(nbuckets) BY TableFacts
<1>3. /\ Stored = Entries(buckets) /\ dict = DictOf(Stored) /\ dict' = DictOf(Stored')
      /\ Functional(Stored) /\ Functional(Stored')
  BY <1>1, StoredIs, StoredNext, StoredFunctional, StoredFunctionalNext
<1>4. CASE StartResize(2 * nbuckets, Entry(k, v)) /\ oom' = FALSE /\ UNCHANGED result
  <2>1. 2 * nbuckets \in Nat BY <1>2
  <2>2. Covers(Stored', Stored, Key) /\ Covers(Stored, Stored', Key)
    BY <1>1, <1>2, <1>3, <1>4, <2>1, ResizeBeginsWith
  <2>3. dict' = dict BY <1>3, <2>2, DictSame
  <2>4. QED BY <1>4, <2>3 DEF M!Begin
<1>5. CASE oom' = TRUE /\ result' = NULL /\ UNCHANGED loopVars
  <2>1. Stored' = Stored BY <1>1, <1>3, <1>5, StoredNext DEF loopVars
  <2>2. QED BY <1>3, <1>5, <2>1 DEF M!SetFails
<1>6. CASE StartSet(Entry(k, v), nbuckets) /\ oom' = FALSE /\ UNCHANGED result
  <2>1. pc' = "set" /\ hand'.key = item'.key BY <1>6 DEF StartSet
  <2>2. Stored' = Stored BY <1>1, <1>3, <2>1, StoredNext
  <2>3. QED BY <1>3, <1>6, <2>2 DEF M!Begin
<1>7. QED BY <1>4, <1>5, <1>6 DEF hashmap_set

LEMMA DeleteRefines ==
  ASSUME IInv, IInv', NEW k \in Key, hashmap_delete(k)
  PROVE  M!Delete(k)
<1>1. PICK d \in 0..(nbuckets - 1) :
        /\ Search(k, d)
        /\ result' = buckets[Passed(k, d)].val
        /\ IF buckets[Passed(k, d)].dib = 0 THEN UNCHANGED <<buckets, count, loopVars>>
                                            ELSE DeleteAt(Passed(k, d))
  BY DEF hashmap_delete
<1>2. pc = "idle" /\ oom' = FALSE /\ nbuckets' = nbuckets /\ cap' = cap
  BY DEF hashmap_delete, Idle
<1> DEFINE i == Passed(k, d)
           S == Entries(buckets)
<1>3. /\ nbuckets \in Nat \ {0} /\ buckets \in Table(nbuckets) /\ Unique(buckets) BY TableFacts
<1>4. /\ Stored = S /\ dict = DictOf(S) /\ dict' = DictOf(Stored')
      /\ Functional(S) /\ Functional(Stored')
  BY <1>2, StoredIs, StoredNext, StoredFunctional, StoredFunctionalNext
<1>5. i \in 0..(nbuckets - 1) BY <1>1, SearchIs
<1>6. CASE buckets[i].dib = 0
  <2>1. Absent(k, buckets) /\ buckets[i] = Free BY <1>1, <1>6, SearchIs
  <2>2. Stored' = S
    <3>1. buckets' = buckets /\ pc' = "idle" BY <1>1, <1>2, <1>6 DEF loopVars
    <3>2. QED BY <3>1, StoredNext
  <2>3. \A e \in S : e.key # k BY <1>3, <2>1, AbsentFrom
  <2>4. Covers(S, S, Key \ {k}) BY DEF Covers
  <2> HIDE DEF S
  <2>5. DictOf(S) = [DictOf(S) EXCEPT ![k] = NULL] BY <1>4, <2>3, <2>4, DictDrop
  <2>6. DictOf(S)[k] = NULL BY <2>3, DictLacks
  <2>7. result' = dict[k] BY <1>1, <1>4, <2>1, <2>6, FreeKey
  <2>8. QED BY <1>2, <1>4, <2>2, <2>5, <2>7 DEF M!Delete
<1>7. CASE buckets[i].dib # 0
  <2>1. DeleteAt(i) /\ buckets[i] # Free /\ buckets[i].key = k /\ i \in InUse(buckets)
    <3>1. buckets[i] # Free BY <1>7 DEF Free
    <3>2. QED BY <1>1, <1>7, <3>1, SearchIs
  <2>2. result' = dict[k]
    <3>1. buckets[i] \in S BY <1>3, <2>1, EntriesAre
    <3>2. DictOf(S)[k] = buckets[i].val BY <1>4, <2>1, <3>1, DictHas
    <3>3. QED BY <1>1, <1>4, <3>2
  <2> DEFINE c == buckets'
             n == nbuckets
             T == Entries(c)
  <2>3. /\ c \in Table(n) /\ Unique(c) /\ Absent(k, c)
        /\ \E r \in 0..(n - 1) : Gap(buckets, i, r, n) /\ c = Closed(buckets, i, r, n)
    BY <1>2, <1>5, <2>1, DeleteAtIs
  <2>4. PICK r \in 0..(n - 1) : Gap(buckets, i, r, n) /\ c = Closed(buckets, i, r, n) BY <2>3
  <2>5. n \in Nat /\ n \in Nat \ {0} /\ buckets \in Table(n) /\ i \in 0..(n - 1) BY <1>3, <1>5
  <2>6. \A e \in T : e.key # k
    <3> HIDE DEF c, n
    <3>1. QED BY <2>3, <2>5, AbsentFrom
  <2>7. Covers(T, S, Key \ {k})
    <3> SUFFICES ASSUME NEW e \in T PROVE \E f \in S : f.key = e.key /\ f.val = e.val BY DEF Covers
    <3> HIDE DEF c, n, i
    <3>1. PICK j \in InUse(c) : e = c[j] BY <2>3, <2>5, EntriesAre
    <3>2. j \in 0..(n - 1) /\ c[j] # Free BY <2>3, <2>5, InUseOf
    <3> DEFINE p == Back(j, i, r, n)
    <3>3. /\ p \in 0..(n - 1) /\ buckets[p] # Free
          /\ c[j].key = buckets[p].key /\ c[j].val = buckets[p].val
      BY <2>4, <2>5, <3>2, GapBack
    <3> HIDE DEF p
    <3>4. p \in InUse(buckets) BY <2>5, <3>3, InUseOf
    <3>5. buckets[p] \in S BY <2>5, <3>4, EntriesAre
    <3>6. QED BY <3>1, <3>3, <3>5
  <2>8. Covers(S, T, Key \ {k})
    <3> SUFFICES ASSUME NEW e \in S, e.key \in Key \ {k}
                 PROVE  \E f \in T : f.key = e.key /\ f.val = e.val
      BY DEF Covers
    <3>0. PICK p \in InUse(buckets) : e = buckets[p] BY <2>5, EntriesAre
    <3>1. p \in 0..(n - 1) /\ buckets[p] # Free BY <2>5, InUseOf
    <3>2. p # i BY <2>1, <3>0
    <3> HIDE DEF c, n, i
    <3>3. PICK j \in 0..(n - 1) : c[j] # Free /\ c[j].key = buckets[p].key /\ c[j].val = buckets[p].val
      BY <2>4, <2>5, <3>1, <3>2, GapForth
    <3>4. j \in InUse(c) BY <2>3, <2>5, <3>3, InUseOf
    <3>5. c[j] \in T BY <2>3, <2>5, <3>4, EntriesAre
    <3>6. QED BY <3>0, <3>3, <3>5
  <2>9. /\ Covers(Stored', T, Key) /\ Covers(T, Stored', Key)
        /\ \A e \in Stored' : e.key \in Key => e \in T
    <3>1. CASE StartResize(nbuckets \div 2, NULL)
      <4>1. nbuckets \div 2 \in Nat /\ nbuckets' \in Nat /\ c \in Table(nbuckets') BY <1>2, <2>3, <2>5
      <4>2. QED BY <3>1, <4>1, ResizeBeginsWith
    <3>2. CASE UNCHANGED loopVars
      <4>1. Stored' = T BY <1>2, <3>2, StoredNext DEF loopVars
      <4>2. QED BY <4>1 DEF Covers
    <3>3. QED BY <2>1, <3>1, <3>2 DEF DeleteAt
  <2> DEFINE U == Stored'
  <2>10. /\ Covers(U, S, Key \ {k}) /\ Covers(S, U, Key \ {k}) /\ \A e \in U : e.key # k
    <3> HIDE DEF U, S, T
    <3>1. /\ Covers(U, T, Key) /\ Covers(T, U, Key) /\ \A e \in U : e.key \in Key => e \in T
      BY <2>9 DEF U
    <3>2. Covers(U, S, Key \ {k}) BY <2>7, <3>1 DEF Covers
    <3>3. Covers(S, U, Key \ {k})
      <4> SUFFICES ASSUME NEW e \in S, e.key \in Key \ {k}
                   PROVE  \E f \in U : f.key = e.key /\ f.val = e.val
        BY DEF Covers
      <4>1. PICK f \in T : f.key = e.key /\ f.val = e.val BY <2>8 DEF Covers
      <4>2. QED BY <3>1, <4>1 DEF Covers
    <3>4. \A e \in U : e.key # k BY <2>6, <3>1
    <3>5. QED BY <3>2, <3>3, <3>4
  <2> HIDE DEF U, S
  <2>11. Functional(U) BY <1>4 DEF U
  <2>12. DictOf(U) = [DictOf(S) EXCEPT ![k] = NULL] BY <1>4, <2>10, <2>11, DictDrop
  <2>13. dict' = [dict EXCEPT ![k] = NULL] BY <1>4, <2>12 DEF U
  <2>14. QED BY <1>2, <2>2, <2>13 DEF M!Delete
<1>8. QED BY <1>6, <1>7

(* The loops.  The carried entry counts, so that displacing changes nothing. *)
LEMMA SetInFreeRefines ==
  ASSUME IInv, IInv', SetInFree
  PROVE  M!Set(item.key, item.val)
<1> DEFINE n == nbuckets
           c == buckets'
           S == Stored
           T == Stored'
           k == item.key
           v == item.val
<1>1. /\ pc = "set" /\ buckets[at].dib = 0 /\ buckets' = [buckets EXCEPT ![at] = hand]
      /\ result' = NULL /\ Rest /\ oom' = oom
  BY DEF SetInFree
<1>2. /\ hand \in Item /\ at \in 0..(n - 1) /\ hand.dib \in Nat \ {0}
      /\ n \in Nat /\ buckets \in Table(n) /\ k \in Key /\ oom = FALSE
      /\ CarriesOwn \/ CarriesOther
  BY <1>1, Setting, TableFacts, ItemNotFree
<1>3. c \in Table(n) /\ c[at] = hand /\ \A i \in 0..(n - 1) : i # at => c[i] = buckets[i]
  BY <1>1, <1>2 DEF Table
<1>4. buckets[at] = Free BY <1>1, <1>2, Bucket
<1>5. Absent(hand.key, buckets) BY <1>1, <1>2, <1>4, HandAbsent
<1>6. \A e \in Entries(buckets) : e.key # hand.key BY <1>2, <1>5, AbsentFrom
<1>7. /\ hand \in Entries(c)
      /\ \A e \in Entries(c) : e = hand \/ e \in Entries(buckets)
      /\ \A e \in Entries(buckets) : e \in Entries(c)
  <2>1. \A e \in Entries(buckets) : e # buckets[at] BY <1>4 DEF Entries
  <2> HIDE DEF c, n
  <2>2. QED BY <1>2, <1>3, <2>1, EntriesPut
<1>8. /\ T = Entries(c) /\ dict = DictOf(S) /\ dict' = DictOf(T)
      /\ Functional(S) /\ Functional(T)
  BY <1>1, RestIs, StoredIs, StoredNext, StoredFunctional, StoredFunctionalNext
<1>9. /\ Covers(S, T, Key \ {k}) /\ Covers(T, S, Key \ {k})
      /\ \A e \in S : e.key # k
      /\ \E e \in T : e.key = k /\ e.val = v
  <2>1. CASE CarriesOwn
    <3>1. hand.key = k /\ hand.val = v BY <2>1 DEF CarriesOwn
    <3>2. S = Entries(buckets) BY <1>1, <3>1, StoredIs
    <3> HIDE DEF S, T, c, k, v
    <3>3. QED BY <1>6, <1>7, <1>8, <3>1, <3>2 DEF Covers
  <2>2. CASE CarriesOther
    <3>1. hand.key # k BY <2>2 DEF CarriesOther
    <3>2. S = {e \in Entries(buckets) \cup {hand} : e.key # k} BY <1>1, <3>1, StoredIs
    <3>3. \E e \in Entries(buckets) : e.key = k /\ e.val = v
      <4>1. PICK j \in 0..(n - 1), t \in 1..(n - 1) :
              /\ buckets[j].key = k /\ buckets[j].val = v /\ Used(buckets, j, t, n)
        BY <2>2 DEF CarriesOther
      <4>2. Wrap(j + 0, n) = j /\ 0 \in 0..(t - 1) BY <1>2 DEF Wrap
      <4>3. buckets[j] # Free BY <4>1, <4>2 DEF Used
      <4>4. j \in InUse(buckets) BY <1>2, <4>3, InUseOf
      <4>5. QED BY <1>2, <4>1, <4>4, EntriesAre
    <3> HIDE DEF S, T, c, k, v
    <3>4. \A e \in S : e.key # k /\ e \in T BY <1>7, <1>8, <3>2
    <3>5. \A e \in T : e.key # k => e \in S BY <1>7, <1>8, <3>2
    <3>6. \E e \in T : e.key = k /\ e.val = v BY <1>7, <1>8, <3>3
    <3>7. QED BY <3>4, <3>5, <3>6 DEF Covers
  <2>3. QED BY <1>2, <2>1, <2>2
<1> HIDE DEF S, T, k, v
<1>10. DictOf(T) = [DictOf(S) EXCEPT ![k] = v] BY <1>2, <1>8, <1>9, DictSet
<1>11. DictOf(S)[k] = NULL BY <1>2, <1>9, DictLacks
<1>12. dict' = [dict EXCEPT ![k] = v] /\ result' = dict[k] /\ oom' = FALSE
  BY <1>1, <1>2, <1>8, <1>10, <1>11
<1>13. QED BY <1>12 DEF M!Set, k, v

LEMMA SetReplacesRefines ==
  ASSUME IInv, IInv', SetReplaces
  PROVE  M!Set(item.key, item.val)
<1> DEFINE n == nbuckets
           c == buckets'
           S == Stored
           T == Stored'
           k == item.key
           v == item.val
           x == [buckets[at] EXCEPT !.val = hand.val]
<1>1. /\ pc = "set" /\ buckets[at].dib # 0 /\ buckets[at].key = hand.key
      /\ buckets' = [buckets EXCEPT ![at].val = hand.val]
      /\ result' = buckets[at].val /\ Rest /\ oom' = oom
  BY DEF SetReplaces
<1>2. /\ hand \in Item /\ at \in 0..(n - 1) /\ hand.val \in Value
      /\ n \in Nat /\ buckets \in Table(n) /\ k \in Key /\ oom = FALSE
      /\ CarriesOwn \/ CarriesOther
  BY <1>1, Setting, TableFacts, ItemNotFree
<1>3. buckets[at] \in Item /\ buckets[at] \in Entries(buckets) /\ at \in InUse(buckets)
  <2>1. buckets[at] \in Item /\ buckets[at] # Free BY <1>1, <1>2, Bucket
  <2>2. at \in InUse(buckets) BY <1>2, <2>1, InUseOf
  <2>3. QED BY <1>2, <2>1, <2>2, EntriesAre
<1>4. hand.key = k /\ hand.val = v
  <2>1. ~CarriesOther BY <1>1, <1>3 DEF CarriesOther, Absent
  <2>2. QED BY <1>2, <2>1 DEF CarriesOwn
<1>5. x \in Item /\ x.key = k /\ x.val = v BY <1>1, <1>2, <1>3, <1>4 DEF Item
<1>6. c = [buckets EXCEPT ![at] = x] BY <1>1, <1>2 DEF Table
<1> HIDE DEF x
<1>7. c \in Table(n) /\ c[at] = x /\ \A i \in 0..(n - 1) : i # at => c[i] = buckets[i]
  BY <1>2, <1>5, <1>6 DEF Table
<1>8. /\ x \in Entries(c)
      /\ \A e \in Entries(c) : e = x \/ e \in Entries(buckets)
      /\ \A e \in Entries(buckets) : e = buckets[at] \/ e \in Entries(c)
  <2> HIDE DEF c, n
  <2>1. QED BY <1>2, <1>5, <1>7, EntriesPut
<1>9. /\ T = Entries(c) /\ S = Entries(buckets) /\ dict = DictOf(S) /\ dict' = DictOf(T)
      /\ Functional(S) /\ Functional(T)
  BY <1>1, <1>4, RestIs, StoredIs, StoredNext, StoredFunctional, StoredFunctionalNext
<1>10. buckets[at].key = k BY <1>1, <1>4
<1> HIDE DEF S, T, k, v, c
<1>11. Covers(S, T, Key \ {k}) /\ Covers(T, S, Key \ {k}) /\ \E e \in T : e.key = k /\ e.val = v
  BY <1>5, <1>8, <1>9, <1>10 DEF Covers
<1>12. DictOf(T) = [DictOf(S) EXCEPT ![k] = v] BY <1>2, <1>9, <1>11, DictSet
<1>13. DictOf(S)[k] = buckets[at].val BY <1>2, <1>3, <1>9, <1>10, DictHas
<1>14. dict' = [dict EXCEPT ![k] = v] /\ result' = dict[k] /\ oom' = FALSE
  BY <1>1, <1>2, <1>9, <1>12, <1>13
<1>15. QED BY <1>14 DEF M!Set, k, v

(* One bucket of a carrying loop moves entries between bucket and hand. *)
Swaps(b, x, c, y, j, n) ==
  /\ b[j].dib < x.dib =>
       /\ c[j] = x /\ \A i \in 0..(n - 1) : i # j => c[i] = b[i]
       /\ y.key = b[j].key /\ y.val = b[j].val
  /\ ~(b[j].dib < x.dib) => c = b /\ y.key = x.key /\ y.val = x.val

LEMMA CarrySwaps ==
  ASSUME NEW n \in Nat, NEW b \in Table(n), NEW x \in Item, NEW j \in 0..(n - 1),
         b[j] \in Item, NEW c, NEW y,
         IF b[j].dib < x.dib
         THEN c = [b EXCEPT ![j] = x] /\ y = [b[j] EXCEPT !.dib = @ + 1]
         ELSE c = b /\ y = [x EXCEPT !.dib = @ + 1]
  PROVE  Swaps(b, x, c, y, j, n)
<1>1. CASE b[j].dib < x.dib
  <2>1. c = [b EXCEPT ![j] = x] /\ y = [b[j] EXCEPT !.dib = @ + 1] BY <1>1
  <2>2. c[j] = x /\ \A i \in 0..(n - 1) : i # j => c[i] = b[i] BY <2>1 DEF Table
  <2>3. y.key = b[j].key /\ y.val = b[j].val BY <2>1 DEF Item
  <2>4. QED BY <1>1, <2>2, <2>3 DEF Swaps
<1>2. CASE ~(b[j].dib < x.dib)
  <2>1. c = b /\ y = [x EXCEPT !.dib = @ + 1] BY <1>2
  <2>2. y.key = x.key /\ y.val = x.val BY <2>1 DEF Item
  <2>3. QED BY <1>2, <2>1, <2>2 DEF Swaps
<1>3. QED BY <1>1, <1>2

LEMMA CarryMoves ==
  ASSUME NEW n \in Nat, NEW b \in Table(n), NEW c \in Table(n), NEW x \in Item, NEW y \in Item,
         NEW j \in 0..(n - 1), b[j] # Free, Swaps(b, x, c, y, j, n)
  PROVE  /\ \A e \in Entries(b) \cup {x} : \E f \in Entries(c) \cup {y} : f.key = e.key /\ f.val = e.val
         /\ \A e \in Entries(c) \cup {y} : \E f \in Entries(b) \cup {x} : f.key = e.key /\ f.val = e.val
<1>1. b[j] \in Entries(b)
  <2>1. j \in InUse(b) BY InUseOf
  <2>2. QED BY <2>1, EntriesAre
<1>2. CASE b[j].dib < x.dib
  <2>1. c[j] = x /\ \A i \in 0..(n - 1) : i # j => c[i] = b[i] BY <1>2 DEF Swaps
  <2>2. /\ x \in Entries(c)
        /\ \A e \in Entries(c) : e = x \/ e \in Entries(b)
        /\ \A e \in Entries(b) : e = b[j] \/ e \in Entries(c)
    BY <2>1, EntriesPut
  <2>3. y.key = b[j].key /\ y.val = b[j].val BY <1>2 DEF Swaps
  <2>4. QED BY <1>1, <2>2, <2>3
<1>3. CASE ~(b[j].dib < x.dib)
  <2>1. c = b /\ y.key = x.key /\ y.val = x.val BY <1>3 DEF Swaps
  <2>2. QED BY <2>1
<1>4. QED BY <1>2, <1>3

LEMMA SetProbeRefines ==
  ASSUME IInv, IInv', SetProbe
  PROVE  dict' = dict
<1> DEFINE n == nbuckets
           b == buckets
           c == buckets'
           x == hand
           y == hand'
           S == Stored
           T == Stored'
           k == item.key
<1>1. /\ pc = "set" /\ pc' = "set" /\ item' = item
      /\ b[at].dib # 0 /\ b[at].key # x.key
      /\ IF b[at].dib < x.dib
         THEN c = [b EXCEPT ![at] = x] /\ y = [b[at] EXCEPT !.dib = @ + 1]
         ELSE c = b /\ y = [x EXCEPT !.dib = @ + 1]
      /\ nbuckets' = n
  BY DEF SetProbe, Carry
<1>2. /\ x \in Item /\ at \in 0..(n - 1)
      /\ n \in Nat /\ b \in Table(n) /\ b[at] \in Item /\ b[at] # Free
      /\ CarriesOwn \/ CarriesOther
  <2>1. /\ x \in Item /\ at \in 0..(n - 1) /\ n \in Nat /\ b \in Table(n)
        /\ CarriesOwn \/ CarriesOther
    BY <1>1, Setting, TableFacts
  <2>2. b[at] \in Item /\ b[at] # Free BY <1>1, <2>1, Bucket
  <2>3. QED BY <2>1, <2>2
<1>3. /\ S = IF x.key = k THEN Entries(b) ELSE {e \in Entries(b) \cup {x} : e.key # k}
      /\ T = IF y.key = k THEN Entries(c) ELSE {e \in Entries(c) \cup {y} : e.key # k}
      /\ dict = DictOf(S) /\ dict' = DictOf(T) /\ Functional(S) /\ Functional(T)
  BY <1>1, StoredIs, StoredNext, StoredFunctional, StoredFunctionalNext
<1>4. y \in Item /\ c \in Table(n)
  <2>1. TypeOK' BY DEF IInv
  <2>2. QED BY <1>1, <2>1 DEF TypeOK
<1>5. Swaps(b, x, c, y, at, n) BY <1>1, <1>2, CarrySwaps
<1>5a. b[at].dib < x.dib => y.key = b[at].key BY <1>5 DEF Swaps
<1>5b. ~(b[at].dib < x.dib) => c = b /\ y.key = x.key BY <1>5 DEF Swaps
<1>6. b[at].dib < x.dib => \A e \in Entries(b) : e.key # x.key
  <2>1. SUFFICES ASSUME b[at].dib < x.dib PROVE \A e \in Entries(b) : e.key # x.key OBVIOUS
  <2>2. Absent(x.key, b) BY <1>1, <2>1, HandAbsent
  <2>3. QED BY <1>2, <2>2, AbsentFrom
<1>7. CASE x.key = k /\ ~(b[at].dib < x.dib)
  <2>1. S = T BY <1>3, <1>5b, <1>7
  <2>2. QED BY <1>3, <2>1
<1>8. CASE x.key # k \/ b[at].dib < x.dib
  <2>1. y.key # k
    <3>1. CASE x.key = k BY <1>1, <1>5a, <1>8, <3>1
    <3>2. CASE x.key # k
      <4>1. pc' = "set" => (hand'.key = item'.key /\ CarriesOwn') \/ CarriesOther'
        BY <1>1 DEF IInv, SetInv, CarriesOwn
      <4>2. hand'.key # item'.key \/ hand'.key = item'.key OBVIOUS
      <4>3. ~(b[at].dib < x.dib) => y.key = x.key BY <1>5b
      <4>4. CASE b[at].dib < x.dib
        <5>1. CarriesOther BY <1>2, <3>2 DEF CarriesOwn
        <5>2. PICK j \in 0..(n - 1), t \in 1..(n - 1) :
                /\ b[j].key = k /\ at = Wrap(j + t, n) /\ Used(b, j, t, n)
          BY <5>1 DEF CarriesOther
        <5>3. at # j BY <1>2, <5>2 DEF Wrap
        <5>4. Wrap(j + 0, n) = j /\ 0 \in 0..(t - 1) BY <1>2 DEF Wrap
        <5>5. b[j] # Free BY <5>2, <5>4 DEF Used
        <5>6. j \in InUse(b) /\ at \in InUse(b) BY <1>2, <5>5, InUseOf
        <5>7. b[at].key # b[j].key BY <5>3, <5>6, TableFacts DEF Unique
        <5>8. QED BY <1>5a, <4>4, <5>2, <5>7
      <4>5. QED BY <3>2, <4>3, <4>4
    <3>3. QED BY <3>1, <3>2
  <2>2. T = {e \in Entries(c) \cup {y} : e.key # k} BY <1>3, <2>1
  <2> HIDE DEF S, T, c, y, x, b, n, k
  <2>3. /\ \A e \in Entries(b) \cup {x} : \E f \in Entries(c) \cup {y} : f.key = e.key /\ f.val = e.val
        /\ \A e \in Entries(c) \cup {y} : \E f \in Entries(b) \cup {x} : f.key = e.key /\ f.val = e.val
    BY <1>2, <1>4, <1>5, CarryMoves
  <2>4. S = {e \in Entries(b) \cup {x} : e.key # k}
    <3>1. CASE x.key = k
      <4>1. S = Entries(b) /\ \A e \in Entries(b) : e.key # k BY <1>3, <1>6, <1>8, <3>1
      <4>2. QED BY <3>1, <4>1
    <3>2. CASE x.key # k BY <1>3, <3>2
    <3>3. QED BY <3>1, <3>2
  <2>5. Covers(S, T, Key) /\ Covers(T, S, Key)
    <3>1. ASSUME NEW e \in S PROVE \E f \in T : f.key = e.key /\ f.val = e.val
      <4>1. PICK f \in Entries(c) \cup {y} : f.key = e.key /\ f.val = e.val BY <2>3, <2>4
      <4>2. f \in T BY <2>2, <2>4, <4>1
      <4>3. QED BY <4>1, <4>2
    <3>2. ASSUME NEW e \in T PROVE \E f \in S : f.key = e.key /\ f.val = e.val
      <4>1. PICK f \in Entries(b) \cup {x} : f.key = e.key /\ f.val = e.val BY <2>2, <2>3
      <4>2. f \in S BY <2>2, <2>4, <4>1
      <4>3. QED BY <4>1, <4>2
    <3>3. QED BY <3>1, <3>2 DEF Covers
  <2>6. DictOf(S) = DictOf(T) BY <1>3, <2>5, DictSame
  <2>7. QED BY <1>3, <2>6
<1>9. QED BY <1>7, <1>8

(* A resize only moves what is stored. *)
LEMMA ResizeNextRefines ==
  ASSUME IInv, IInv', ResizeNext
  PROVE  dict' = dict
<1>1. /\ pc = "resize" /\ hand = Free
      /\ UNCHANGED <<tableVars, pc, item, nbuckets2, buckets2, result, oom>>
  BY DEF ResizeNext
<1>2. PICK j \in src..(nbuckets - 1) :
        /\ \A i \in src..(j - 1) : buckets[i].dib = 0
        /\ hand' = [buckets[j] EXCEPT !.dib = 1]
        /\ src' = j + 1
  BY DEF ResizeNext
<1>3. /\ nbuckets \in Nat /\ src \in 0..nbuckets /\ buckets \in Table(nbuckets)
  BY <1>1 DEF IInv, TypeOK
<1> DEFINE B == Entries(buckets2)
           R == {buckets[i] : i \in src..(nbuckets - 1)}
           Q == {buckets[i] : i \in (j + 1)..(nbuckets - 1)}
           S == Stored
           T == Stored'
<1>4. /\ S = B \cup {hand, Free} \cup R /\ T = B \cup {hand', Free} \cup Q
      /\ dict = DictOf(S) /\ dict' = DictOf(T) /\ Functional(S) /\ Functional(T)
  <2>1. S = B \cup {hand, Free} \cup R BY <1>1, StoredIs
  <2>2. T = Entries(buckets2') \cup {hand', Free} \cup {buckets'[i] : i \in src'..(nbuckets' - 1)}
    BY <1>1, StoredNext
  <2>3. T = B \cup {hand', Free} \cup Q BY <1>1, <1>2, <2>2 DEF tableVars
  <2>4. QED BY <2>1, <2>3, StoredIs, StoredNext, StoredFunctional, StoredFunctionalNext
<1>5. buckets[j] \in R /\ Q \subseteq R BY <1>2, <1>3
<1>6. R \subseteq Q \cup {buckets[j], Free}
  <2> SUFFICES ASSUME NEW i \in src..(nbuckets - 1) PROVE buckets[i] \in Q \cup {buckets[j], Free}
    OBVIOUS
  <2>1. CASE i < j
    <3>1. i \in src..(j - 1) /\ i \in 0..(nbuckets - 1) BY <1>2, <1>3, <2>1
    <3>2. buckets[i] = Free BY <1>2, <1>3, <3>1, Bucket
    <3>3. QED BY <3>2
  <2>2. CASE i > j
    <3>1. i \in (j + 1)..(nbuckets - 1) BY <1>2, <1>3, <2>2
    <3>2. QED BY <3>1
  <2>3. CASE i = j BY <2>3
  <2>4. QED BY <1>2, <1>3, <2>1, <2>2, <2>3
<1>7. hand'.key = buckets[j].key /\ hand'.val = buckets[j].val
  <2>1. j \in 0..(nbuckets - 1) BY <1>2, <1>3
  <2>2. buckets[j] \in Item \cup {Free} BY <1>3, <2>1 DEF Table
  <2>3. QED BY <1>2, <2>2 DEF Item, Free
<1> HIDE DEF B, R, Q, S, T
<1>8. Covers(S, T, Key)
  <2> SUFFICES ASSUME NEW e \in S PROVE \E f \in T : f.key = e.key /\ f.val = e.val BY DEF Covers
  <2>1. e \in T \/ e = buckets[j] BY <1>1, <1>4, <1>6
  <2>2. hand' \in T BY <1>4
  <2>3. QED BY <1>7, <2>1, <2>2
<1>9. Covers(T, S, Key)
  <2> SUFFICES ASSUME NEW e \in T PROVE \E f \in S : f.key = e.key /\ f.val = e.val BY DEF Covers
  <2>1. e \in S \/ e = hand' BY <1>4, <1>5
  <2>2. buckets[j] \in S BY <1>4, <1>5
  <2>3. QED BY <1>7, <2>1, <2>2
<1>10. DictOf(S) = DictOf(T) BY <1>4, <1>8, <1>9, DictSame
<1>11. QED BY <1>4, <1>10

LEMMA ResizeProbeRefines ==
  ASSUME IInv, IInv', ResizeProbe
  PROVE  dict' = dict
<1> DEFINE n == nbuckets2
           b == buckets2
           c == buckets2'
           x == hand
           y == hand'
           R == {buckets[i] : i \in src..(nbuckets - 1)}
           S == Stored
           T == Stored'
<1>1. /\ pc = "resize" /\ pc' = "resize" /\ hand # Free
      /\ src' = src /\ nbuckets' = nbuckets /\ buckets' = buckets /\ nbuckets2' = n
      /\ IF b[at].dib = 0 THEN c = [b EXCEPT ![at] = x] /\ y = Free ELSE Carry(b, n)
  BY DEF ResizeProbe, tableVars
<1>2. /\ x \in Item /\ at \in 0..(n - 1) /\ n \in Nat /\ b \in Table(n)
      /\ y \in Item \cup {Free} /\ c \in Table(n)
  <2>1. TypeOK /\ TypeOK' BY DEF IInv
  <2>2. QED BY <1>1, <2>1 DEF TypeOK
<1>3. /\ S = Entries(b) \cup {x, Free} \cup R /\ T = Entries(c) \cup {y, Free} \cup R
      /\ dict = DictOf(S) /\ dict' = DictOf(T) /\ Functional(S) /\ Functional(T)
  <2>1. S = Entries(b) \cup {x, Free} \cup R BY <1>1, StoredIs
  <2>2. T = Entries(c) \cup {y, Free} \cup {buckets'[i] : i \in src'..(nbuckets' - 1)}
    BY <1>1, StoredNext
  <2>3. T = Entries(c) \cup {y, Free} \cup R BY <1>1, <2>2
  <2>4. QED BY <2>1, <2>3, StoredIs, StoredNext, StoredFunctional, StoredFunctionalNext
<1>4. CASE b[at].dib = 0
  <2>1. c = [b EXCEPT ![at] = x] /\ y = Free BY <1>1, <1>4
  <2>2. c[at] = x /\ \A i \in 0..(n - 1) : i # at => c[i] = b[i] BY <1>2, <2>1 DEF Table
  <2>3. b[at] = Free BY <1>2, <1>4, Bucket
  <2>4. \A e \in Entries(b) : e # b[at] BY <2>3 DEF Entries
  <2> HIDE DEF c, b, n, x
  <2>5. /\ x \in Entries(c)
        /\ \A e \in Entries(c) : e = x \/ e \in Entries(b)
        /\ \A e \in Entries(b) : e = b[at] \/ e \in Entries(c)
    BY <1>2, <2>2, EntriesPut
  <2> HIDE DEF R, S, T
  <2>6. S = T BY <1>3, <2>1, <2>4, <2>5
  <2>7. QED BY <1>3, <2>6
<1>5. CASE b[at].dib # 0
  <2>1. b[at] \in Item /\ b[at] # Free BY <1>2, <1>5, Bucket
  <2>2. IF b[at].dib < x.dib
        THEN c = [b EXCEPT ![at] = x] /\ y = [b[at] EXCEPT !.dib = @ + 1]
        ELSE c = b /\ y = [x EXCEPT !.dib = @ + 1]
    BY <1>1, <1>5 DEF Carry
  <2>3. Swaps(b, x, c, y, at, n) BY <1>2, <2>1, <2>2, CarrySwaps
  <2>4. y \in Item
    <3>1. y # Free
      <4>1. y.key \in Key BY <1>2, <2>1, <2>3 DEF Swaps, Item
      <4>2. QED BY <4>1, FreeKey
    <3>2. QED BY <1>2, <3>1
  <2> HIDE DEF c, b, n, x, y, R, S, T
  <2>5. /\ \A e \in Entries(b) \cup {x} : \E f \in Entries(c) \cup {y} : f.key = e.key /\ f.val = e.val
        /\ \A e \in Entries(c) \cup {y} : \E f \in Entries(b) \cup {x} : f.key = e.key /\ f.val = e.val
    BY <1>2, <2>1, <2>3, <2>4, CarryMoves
  <2>6. Covers(S, T, Key)
    <3> SUFFICES ASSUME NEW e \in S PROVE \E f \in T : f.key = e.key /\ f.val = e.val BY DEF Covers
    <3>1. CASE e \in Entries(b) \cup {x}
      <4>1. PICK f \in Entries(c) \cup {y} : f.key = e.key /\ f.val = e.val BY <2>5, <3>1
      <4>2. QED BY <1>3, <4>1
    <3>2. CASE e \in {Free} \cup R BY <1>3, <3>2
    <3>3. QED BY <1>3, <3>1, <3>2
  <2>7. Covers(T, S, Key)
    <3> SUFFICES ASSUME NEW e \in T PROVE \E f \in S : f.key = e.key /\ f.val = e.val BY DEF Covers
    <3>1. CASE e \in Entries(c) \cup {y}
      <4>1. PICK f \in Entries(b) \cup {x} : f.key = e.key /\ f.val = e.val BY <2>5, <3>1
      <4>2. QED BY <1>3, <4>1
    <3>2. CASE e \in {Free} \cup R BY <1>3, <3>2
    <3>3. QED BY <1>3, <3>1, <3>2
  <2>8. DictOf(S) = DictOf(T) BY <1>3, <2>6, <2>7, DictSame
  <2>9. QED BY <1>3, <2>8
<1>6. QED BY <1>4, <1>5

LEMMA ResizeEndsRefines ==
  ASSUME IInv, IInv', ResizeEnds
  PROVE  dict' = dict
<1> DEFINE B == Entries(buckets2)
           S == Stored
           T == Stored'
<1>1. /\ pc = "resize" /\ hand = Free /\ buckets' = buckets2
      /\ \A j \in src..(nbuckets - 1) : buckets[j].dib = 0
      /\ IF item = NULL THEN Rest ELSE StartSet(item, nbuckets2)
  BY DEF ResizeEnds
<1>2. nbuckets \in Nat /\ src \in 0..nbuckets /\ buckets \in Table(nbuckets)
  BY <1>1 DEF IInv, TypeOK
<1> DEFINE R == {buckets[i] : i \in src..(nbuckets - 1)}
<1>3. R \subseteq {Free}
  <2> SUFFICES ASSUME NEW j \in src..(nbuckets - 1) PROVE buckets[j] = Free OBVIOUS
  <2>1. j \in 0..(nbuckets - 1) BY <1>2
  <2>2. QED BY <1>1, <1>2, <2>1, Bucket
<1>4. S = B \cup {hand, Free} \cup R BY <1>1, StoredIs
<1>5. T = B
  <2>1. CASE Rest BY <1>1, <2>1, RestIs, StoredNext
  <2>2. CASE StartSet(item, nbuckets2)
    <3>1. pc' = "set" /\ hand'.key = item'.key BY <2>2 DEF StartSet
    <3>2. QED BY <1>1, <3>1, StoredNext
  <2>3. QED BY <1>1, <2>1, <2>2
<1>6. /\ dict = DictOf(S) /\ dict' = DictOf(T) /\ Functional(S) /\ Functional(T)
  BY StoredIs, StoredNext, StoredFunctional, StoredFunctionalNext
<1> HIDE DEF R, S, T, B
<1>7. \A e \in S : e \in T \/ e = Free BY <1>1, <1>3, <1>4, <1>5
<1>8. \A e \in T : e \in S BY <1>4, <1>5
<1>9. Covers(S, T, Key) /\ Covers(T, S, Key) BY <1>7, <1>8, FreeKey DEF Covers
<1>10. DictOf(S) = DictOf(T) BY <1>6, <1>9, DictSame
<1>11. QED BY <1>6, <1>10

LEMMA InitRefines == Init => M!Init
<1> SUFFICES ASSUME Init PROVE M!Init OBVIOUS
<1>1. pc = "idle" /\ buckets = Cleared(MinCap) /\ result = NULL /\ oom = FALSE BY DEF Init
<1>2. \A j \in DOMAIN Cleared(MinCap) : Cleared(MinCap)[j] = Free BY DEF Cleared
<1>3. Entries(buckets) = {} BY <1>1, <1>2 DEF Entries
<1>4. Stored = {} BY <1>1, <1>3, StoredIs
<1>5. dict = [k \in Key |-> NULL] BY <1>4, StoredIs DEF DictOf
<1>6. QED BY <1>1, <1>5 DEF M!Init

LEMMA NextRefines ==
  ASSUME IInv, IInv', [Next]_mapVars
  PROVE  [M!Next]_(M!vars)
<1>1. CASE Call
  <2>1. ASSUME NEW k \in Key, hashmap_get(k) PROVE M!Next BY <2>1, GetRefines DEF M!Next
  <2>2. ASSUME NEW k \in Key, hashmap_delete(k) PROVE M!Next BY <2>2, DeleteRefines DEF M!Next
  <2>3. ASSUME NEW k \in Key, NEW v \in Value, hashmap_set(k, v) PROVE M!Next
    BY <2>3, SetRefines DEF M!Next
  <2>4. ASSUME NEW u \in BOOLEAN, hashmap_clear(u) PROVE M!Next BY <2>4, ClearRefines DEF M!Next
  <2>5. QED BY <1>1, <2>1, <2>2, <2>3, <2>4 DEF Call
<1>2. CASE SetInFree \/ SetReplaces
  <2>1. pc = "set" BY <1>2 DEF SetInFree, SetReplaces
  <2>2. item.key \in Key /\ item.val \in Value BY <2>1, Setting
  <2>3. M!Set(item.key, item.val) BY <1>2, SetInFreeRefines, SetReplacesRefines
  <2>4. QED BY <2>2, <2>3 DEF M!Next
<1>3. CASE SetProbe \/ ResizeNext \/ ResizeProbe \/ ResizeEnds
  <2>1. dict' = dict
    BY <1>3, SetProbeRefines, ResizeNextRefines, ResizeProbeRefines, ResizeEndsRefines
  <2>2. UNCHANGED <<result, oom>> BY <1>3 DEF SetProbe, ResizeNext, ResizeProbe, ResizeEnds
  <2>3. QED BY <2>1, <2>2 DEF M!vars
<1>4. CASE UNCHANGED mapVars
  <2>1. Stored' = Stored BY <1>4 DEF Stored, mapVars, tableVars, loopVars
  <2>2. dict' = dict BY <2>1, StoredIs, StoredNext
  <2>3. QED BY <1>4, <2>2 DEF M!vars, mapVars
<1>5. QED BY <1>1, <1>2, <1>3, <1>4 DEF Next, Loop

(* For its callers the table of hashmap.c is a map: hashmap_get() returns   *)
(* what was last set, hashmap_set() and hashmap_delete() what was there      *)
(* before, and neither a resize nor a failed malloc() changes what is       *)
(* stored.                                                                  *)
THEOREM TableImplementsMap == Spec => ImplementsMap
<1>1. Init => M!Init BY InitRefines
<1>2. IInv /\ IInv' /\ [Next]_mapVars => [M!Next]_(M!vars) BY NextRefines
<1>3. QED BY <1>1, <1>2, Invariance, PTL DEF Spec, ImplementsMap, M!Spec

-----------------------------------------------------------------------------
(* The walk of JoinLoop.                                                    *)
Watched == ~Chained /\ Cardinality(DOMAIN begun) = cap

(* The pointers that are left point to items, so what is deleted is a key.  *)
ListHasItems ==
  IF ~ending THEN list = {} /\ joined = [k \in Key |-> 0]
  ELSE /\ list \subseteq DOMAIN bytes /\ \A q \in list : bytes[q] \in Item
       /\ bytes \in [DOMAIN bytes -> Item \cup {Free}]
       /\ joined \in [Key -> Nat]

(* What is left in the table: the items that are not visited yet, in their  *)
(* buckets; or the first of them has moved into the bucket before.          *)
InPlace(l) == buckets = [j \in 0..(nbuckets - 1) |-> IF j \in l THEN begun[j] ELSE Free]
OneMoved(l) ==
  \E p \in 0..(nbuckets - 2) :
    /\ p + 1 \in l /\ p \notin l /\ begun[p] # Free /\ begun[p + 1].dib > 1
    /\ buckets = [j \in 0..(nbuckets - 1) |->
         IF j = p THEN [begun[p + 1] EXCEPT !.dib = @ - 1]
         ELSE IF j \in l /\ j # p + 1 THEN begun[j] ELSE Free]

Walk ==
  ending /\ Watched =>
    /\ pc = "idle" /\ nbuckets = cap
    /\ begun \in Table(nbuckets) /\ Unique(begun)
    /\ list \subseteq InUse(begun)
    /\ \A q \in list, j \in InUse(begun) : q <= j => j \in list
    /\ DOMAIN bytes = 0..(nbuckets - 1) /\ \A q \in list : bytes[q] = begun[q]
    /\ \A j \in InUse(begun) : joined[begun[j].key] = IF j \in list THEN 0 ELSE 1
    /\ InPlace(list) \/ OneMoved(list)

JInv == IInv /\ ListHasItems /\ Walk

(* A step of the loop of end() is a call, and leaves the list pointing to   *)
(* items.                                                                   *)
LEMMA CallsAndLoops ==
  ASSUME ListHasItems, [JNext]_vars
  PROVE  [Next]_mapVars
<1>1. ASSUME NEW q \in DOMAIN bytes, JoinNext(q) PROVE Call
  <2>1. q \in list /\ hashmap_delete(bytes[q].key) BY <1>1 DEF JoinNext, IsNext
  <2>2. bytes[q] \in Item BY <2>1 DEF ListHasItems
  <2>3. bytes[q].key \in Key BY <2>2, ItemNotFree
  <2>4. QED BY <2>1, <2>3 DEF Call
<1>2. CASE UNCHANGED vars BY <1>2 DEF vars
<1>3. QED BY <1>1, <1>2 DEF JNext, Next, BeginEnd, JoinWild

LEMMA DeletionIs ==
  ASSUME IInv, NEW k \in Key, hashmap_delete(k)
  PROVE  /\ nbuckets' = nbuckets /\ cap' = cap
         /\ \A i \in InUse(buckets) : buckets[i].key = k => DeleteAt(i)
<1>1. PICK d \in 0..(nbuckets - 1) :
        /\ Search(k, d)
        /\ IF buckets[Passed(k, d)].dib = 0 THEN UNCHANGED <<buckets, count, loopVars>>
                                            ELSE DeleteAt(Passed(k, d))
  BY DEF hashmap_delete
<1> DEFINE c == Passed(k, d)
<1>2. /\ buckets[c].dib # 0 => buckets[c].key = k /\ c \in InUse(buckets)
      /\ buckets[c].dib = 0 => Absent(k, buckets)
  BY <1>1, SearchIs
<1>3. ASSUME NEW i \in InUse(buckets), buckets[i].key = k PROVE DeleteAt(i)
  <2>1. buckets[c].dib # 0 BY <1>2, <1>3 DEF Absent
  <2>2. i = c BY <1>2, <1>3, <2>1, TableFacts DEF Unique
  <2>3. QED BY <1>1, <2>1, <2>2
<1>4. QED BY <1>3 DEF hashmap_delete

LEMMA ListKeeps ==
  ASSUME IInv, IInv', ListHasItems, [JNext]_vars
  PROVE  ListHasItems'
<1>1. CASE UNCHANGED loopOfEnd BY <1>1 DEF ListHasItems, loopOfEnd
<1>2. CASE BeginEnd
  <2>1. ending' = TRUE /\ list' = InUse(buckets) /\ bytes' = buckets /\ joined' = joined
    BY <1>2 DEF BeginEnd, ITH_getThreadArgsList
  <2>2. joined = [k \in Key |-> 0] BY <1>2 DEF BeginEnd, ListHasItems
  <2>3. joined' \in [Key -> Nat] BY <2>1, <2>2
  <2>4. buckets \in Table(nbuckets) /\ nbuckets \in Nat BY TableFacts
  <2>5. DOMAIN buckets = 0..(nbuckets - 1) /\ buckets \in [DOMAIN buckets -> Item \cup {Free}]
    BY <2>4 DEF Table
  <2>6. \A i \in InUse(buckets) : i \in DOMAIN buckets /\ buckets[i] \in Item
    BY <2>5 DEF InUse
  <2>7. QED BY <2>1, <2>3, <2>5, <2>6 DEF ListHasItems
<1>3. ASSUME NEW q \in DOMAIN bytes, JoinNext(q) PROVE ListHasItems'
  <2>1. /\ q \in list /\ hashmap_delete(bytes[q].key) /\ bytes' = BytesAfter
        /\ joined' = [joined EXCEPT ![bytes[q].key] = @ + 1]
        /\ list' = list \ {q} /\ ending' = ending /\ DOMAIN bytes = DOMAIN buckets
    BY <1>3 DEF JoinNext, IsNext, Freed
  <2>2. /\ ending /\ list \subseteq DOMAIN bytes /\ \A i \in list : bytes[i] \in Item
        /\ bytes \in [DOMAIN bytes -> Item \cup {Free}] /\ joined \in [Key -> Nat]
    BY <2>1 DEF ListHasItems
  <2>3. nbuckets' = nbuckets BY <2>1 DEF hashmap_delete
  <2>4. buckets \in Table(nbuckets) /\ buckets' \in Table(nbuckets)
    BY <2>3, TableFacts DEF IInv, TypeOK
  <2>5. DOMAIN bytes = 0..(nbuckets - 1) BY <2>1, <2>4 DEF Table
  <2>6. \A j \in DOMAIN bytes : buckets'[j] \in Item \cup {Free} /\ bytes[j] \in Item \cup {Free}
    BY <2>2, <2>4, <2>5 DEF Table
  <2>7. bytes' = [j \in DOMAIN bytes |-> IF buckets'[j] = Free THEN bytes[j] ELSE buckets'[j]]
    BY <2>1 DEF BytesAfter
  <2>8. DOMAIN bytes' = DOMAIN bytes /\ bytes' \in [DOMAIN bytes -> Item \cup {Free}]
    BY <2>6, <2>7
  <2>9. ASSUME NEW i \in list' PROVE bytes'[i] \in Item
    <3>1. i \in DOMAIN bytes /\ bytes[i] \in Item BY <2>1, <2>2, <2>9
    <3>2. bytes'[i] = IF buckets'[i] = Free THEN bytes[i] ELSE buckets'[i] BY <2>7, <3>1
    <3>3. buckets'[i] \in Item \/ buckets'[i] = Free BY <2>6, <3>1
    <3>4. CASE buckets'[i] = Free BY <3>1, <3>2, <3>4
    <3>5. CASE buckets'[i] # Free BY <3>2, <3>3, <3>5
    <3>6. QED BY <3>4, <3>5
  <2>10. joined' \in [Key -> Nat]
    <3> DEFINE k == bytes[q].key
               J == joined'
    <3>1. joined \in [Key -> Nat] /\ J = [joined EXCEPT ![k] = @ + 1] BY <2>1, <2>2
    <3> HIDE DEF k, J
    <3>2. J = [x \in Key |-> IF x = k THEN joined[x] + 1 ELSE joined[x]] BY <3>1
    <3>3. \A x \in Key : joined[x] \in Nat BY <3>1
    <3>4. \A x \in Key : (IF x = k THEN joined[x] + 1 ELSE joined[x]) \in Nat BY <3>3
    <3>5. J \in [Key -> Nat] BY <3>2, <3>4
    <3>6. QED BY <3>5 DEF J
  <2>11. QED BY <2>1, <2>2, <2>8, <2>9, <2>10 DEF ListHasItems
<1>4. CASE JoinWild
  <2>1. /\ UNCHANGED <<ending, bytes, joined>> /\ list' = {} /\ list # {}
    BY <1>4 DEF JoinWild
  <2>2. QED BY <2>1 DEF ListHasItems
<1>5. QED BY <1>1, <1>2, <1>3, <1>4 DEF JNext, vars

(* The pointer that is followed is the first one's that is left, and its    *)
(* item is in its bucket or the one before.                                 *)
LEMMA FirstLeft ==
  ASSUME Walk, ending, Watched, NEW q, IsNext(list, q), nbuckets \in Nat \ {0, 1},
         NEW p \in 0..(nbuckets - 2), p + 1 \in list, p \notin list, begun[p] # Free
  PROVE  q = p + 1
<1>1. /\ begun \in Table(nbuckets) /\ list \subseteq InUse(begun)
      /\ \A i \in list, j \in InUse(begun) : i <= j => j \in list
  BY DEF Walk
<1>2. InUse(begun) = {j \in 0..(nbuckets - 1) : begun[j] # Free} BY <1>1, InUseOf
<1>3. p \in InUse(begun) BY <1>2
<1>4. q \in list /\ q <= p + 1 BY DEF IsNext
<1>5. q \in Nat /\ ~(q <= p) BY <1>1, <1>2, <1>3, <1>4
<1>6. QED BY <1>4, <1>5

(* What is in the table when the pointer of q has been followed.            *)
LEMMA Walks ==
  ASSUME IInv, Walk, ending, Watched, NEW q, IsNext(list, q), hashmap_delete(begun[q].key)
  PROVE  /\ \/ buckets' = [j \in 0..(nbuckets - 1) |-> IF j \in list \ {q} THEN begun[j] ELSE Free]
            \/ /\ q + 1 \in list \ {q} /\ q \in 0..(nbuckets - 2)
               /\ begun[q] # Free /\ begun[q + 1].dib > 1
               /\ buckets' = [j \in 0..(nbuckets - 1) |->
                    IF j = q THEN [begun[q + 1] EXCEPT !.dib = @ - 1]
                    ELSE IF j \in list \ {q} /\ j # q + 1 THEN begun[j] ELSE Free]
         /\ pc' = "idle" /\ nbuckets' = nbuckets /\ cap' = cap
<1> DEFINE n == nbuckets
           B == begun
           k == B[q].key
<1>1. n \in Nat \ {0, 1} /\ buckets \in Table(n) /\ Unique(buckets) BY TableFacts
<1>2. /\ pc = "idle" /\ n = cap /\ B \in Table(n) /\ Unique(B) /\ list \subseteq InUse(B)
      /\ \A i \in list, j \in InUse(B) : i <= j => j \in list
      /\ InPlace(list) \/ OneMoved(list)
  BY DEF Walk
<1>3. InUse(B) = {j \in 0..(n - 1) : B[j] # Free} BY <1>1, <1>2, InUseOf
<1>4. q \in list /\ \A i \in list : q <= i BY DEF IsNext
<1>5. q \in 0..(n - 1) /\ B[q] # Free /\ B[q] \in Item /\ k \in Key
  BY <1>1, <1>2, <1>3, <1>4, Bucket
<1>6. InUse(buckets) = {j \in 0..(n - 1) : buckets[j] # Free} BY <1>1, InUseOf
<1>7. ASSUME NEW c \in 0..(n - 1), buckets[c] # Free, buckets[c].key = k
      PROVE  /\ \E r \in 0..(n - 1) : Gap(buckets, c, r, n) /\ buckets' = Closed(buckets, c, r, n)
             /\ pc' = "idle" /\ nbuckets' = nbuckets /\ cap' = cap
  <2>1. c \in InUse(buckets) BY <1>6, <1>7
  <2>2. nbuckets' = nbuckets /\ cap' = cap /\ DeleteAt(c) BY <1>5, <1>7, <2>1, DeletionIs
  <2>3. ~ShouldShrink BY <1>1, <1>2 DEF ShouldShrink
  <2>4. pc' = pc BY <2>2, <2>3 DEF DeleteAt, loopVars
  <2>5. \E r \in 0..(n - 1) : Gap(buckets, c, r, n) /\ buckets' = Closed(buckets, c, r, n)
    BY <1>7, <2>2, DeleteAtIs
  <2>6. QED BY <1>2, <2>2, <2>4, <2>5
<1> HIDE DEF n, B, k
<1>8. ASSUME InPlace(list)
      PROVE  \/ buckets' = [j \in 0..(n - 1) |-> IF j \in list \ {q} THEN B[j] ELSE Free]
             \/ /\ q + 1 \in list \ {q} /\ q \in 0..(n - 2)
                /\ B[q] # Free /\ B[q + 1].dib > 1
                /\ buckets' = [j \in 0..(n - 1) |->
                     IF j = q THEN [B[q + 1] EXCEPT !.dib = @ - 1]
                     ELSE IF j \in list \ {q} /\ j # q + 1 THEN B[j] ELSE Free]
  <2>1. buckets = [j \in 0..(n - 1) |-> IF j \in list THEN B[j] ELSE Free]
    BY <1>8 DEF InPlace, n, B
  <2>2. buckets[q] = B[q] BY <1>4, <1>5, <2>1
  <2>3. PICK r \in 0..(n - 1) : Gap(buckets, q, r, n) /\ buckets' = Closed(buckets, q, r, n)
    BY <1>5, <1>7, <2>2 DEF k
  <2>4. Free.dib = 0 BY DEF Free
  <2>5. \A x \in 0..(n - 1) : buckets[x].dib > 1 => x \in list /\ buckets[x] = B[x] /\ q <= x
    BY <1>4, <2>1, <2>4
  <2>6. CASE r = 0
    <3>1. Wrap(q + 0, n) = q BY <1>1, <1>5 DEF Wrap
    <3>2. \A j : ~Moves(j, q, 0, n) BY DEF Moves
    <3>3. buckets' = [j \in 0..(n - 1) |-> IF j = q THEN Free ELSE buckets[j]]
      BY <2>3, <2>6, <3>1, <3>2 DEF Closed
    <3>4. QED BY <1>4, <2>1, <3>3
  <2>7. CASE r >= 1
    <3>1. 1 \in 1..r BY <2>7
    <3>2. buckets[Wrap(q + 1, n)].dib > 1 BY <2>3, <3>1 DEF Gap
    <3>3. Wrap(q + 1, n) \in 0..(n - 1) BY <1>1, <1>5 DEF Wrap
    <3>4. q <= Wrap(q + 1, n) BY <2>5, <3>2, <3>3
    <3>5. q + 1 \in 0..(n - 1) /\ Wrap(q + 1, n) = q + 1 BY <1>1, <1>5, <3>4 DEF Wrap
    <3>6. q + 1 \in list /\ buckets[q + 1] = B[q + 1] /\ B[q + 1].dib > 1
      BY <2>5, <3>2, <3>5
    <3>7. ~(r >= 2)
      <4> SUFFICES ASSUME r >= 2 PROVE FALSE OBVIOUS
      <4>1. 2 \in 1..r OBVIOUS
      <4>2. buckets[Wrap(q + 2, n)].dib > 1 BY <2>3, <4>1 DEF Gap
      <4>3. Wrap(q + 2, n) \in 0..(n - 1) BY <1>1, <1>5, <3>5 DEF Wrap
      <4>4. q <= Wrap(q + 2, n) BY <2>5, <4>2, <4>3
      <4>5. q + 2 \in 0..(n - 1) /\ Wrap(q + 2, n) = q + 2
        <5>1. q + 2 <= n - 1 BY <1>1, <1>5, <3>5, <4>4, <2>3 DEF Wrap
        <5>2. QED BY <1>1, <1>5, <5>1 DEF Wrap
      <4>6. B[q + 2].dib > 1 BY <2>5, <4>2, <4>5
      <4>7. DOMAIN B = 0..(n - 1) BY <1>2 DEF Table, n, B
      <4>8. Chained BY <1>5, <3>5, <3>6, <4>5, <4>6, <4>7 DEF Chained, B
      <4>9. QED BY <4>8 DEF Watched
    <3>8. r = 1 BY <2>7, <3>7
    <3>9. Wrap(q + 0, n) = q BY <1>1, <1>5 DEF Wrap
    <3>10. \A j : Moves(j, q, 1, n) <=> j = q
      <4>1. \A e \in 0..(1 - 1) : e = 0 OBVIOUS
      <4>2. 0 \in 0..(1 - 1) OBVIOUS
      <4>3. QED BY <3>9, <4>1, <4>2 DEF Moves
    <3>11. q # q + 1 BY <1>5
    <3>12. buckets' = [j \in 0..(n - 1) |->
              IF j = q + 1 THEN Free
              ELSE IF j = q THEN [B[q + 1] EXCEPT !.dib = @ - 1] ELSE buckets[j]]
      BY <2>3, <3>5, <3>6, <3>8, <3>10 DEF Closed
    <3>13. buckets' = [j \in 0..(n - 1) |->
              IF j = q THEN [B[q + 1] EXCEPT !.dib = @ - 1]
              ELSE IF j \in list \ {q} /\ j # q + 1 THEN B[j] ELSE Free]
      BY <2>1, <3>11, <3>12
    <3>14. q \in 0..(n - 2) BY <1>1, <1>5, <3>5
    <3>15. QED BY <1>5, <3>6, <3>11, <3>13, <3>14
  <2>8. QED BY <2>3, <2>6, <2>7
<1>9. ASSUME OneMoved(list)
      PROVE  buckets' = [j \in 0..(n - 1) |-> IF j \in list \ {q} THEN B[j] ELSE Free]
  <2>1. PICK p \in 0..(n - 2) :
          /\ p + 1 \in list /\ p \notin list /\ B[p] # Free /\ B[p + 1].dib > 1
          /\ buckets = [j \in 0..(n - 1) |->
               IF j = p THEN [B[p + 1] EXCEPT !.dib = @ - 1]
               ELSE IF j \in list /\ j # p + 1 THEN B[j] ELSE Free]
    BY <1>9 DEF OneMoved, n, B
  <2>2. q = p + 1 BY <1>1, <2>1, FirstLeft DEF n, B
  <2>3. p \in 0..(n - 1) /\ p + 1 \in 0..(n - 1) /\ p # p + 1 BY <1>1, <2>1
  <2>4. buckets[p] = [B[q] EXCEPT !.dib = @ - 1] /\ buckets[p + 1] = Free BY <2>1, <2>2, <2>3
  <2>5. buckets[p].key = k /\ buckets[p].dib = B[q].dib - 1 BY <1>5, <2>4 DEF Item, k
  <2>6. buckets[p] # Free
    <3>1. B[q].dib \in Nat BY <1>5 DEF Item
    <3>2. buckets[p].dib # 0 BY <2>1, <2>2, <2>5, <3>1
    <3>3. QED BY <3>2 DEF Free
  <2>7. PICK r \in 0..(n - 1) : Gap(buckets, p, r, n) /\ buckets' = Closed(buckets, p, r, n)
    BY <1>7, <2>3, <2>5, <2>6
  <2>8. Wrap(p + 1, n) = p + 1 /\ Wrap(p + 0, n) = p BY <1>1, <2>3 DEF Wrap
  <2>9. r = 0
    <3> SUFFICES ASSUME r >= 1 PROVE FALSE BY <2>7
    <3>1. 1 \in 1..r OBVIOUS
    <3>2. buckets[p + 1].dib > 1 BY <2>7, <2>8, <3>1 DEF Gap
    <3>3. QED BY <2>4, <3>2 DEF Free
  <2>10. \A j : ~Moves(j, p, 0, n) BY DEF Moves
  <2>11. buckets' = [j \in 0..(n - 1) |-> IF j = p THEN Free ELSE buckets[j]]
    BY <2>7, <2>8, <2>9, <2>10 DEF Closed
  <2>12. QED BY <2>1, <2>2, <2>11
<1>10. \E c \in 0..(n - 1) : buckets[c] # Free /\ buckets[c].key = k
  <2>1. CASE InPlace(list)
    <3>1. buckets[q] = B[q] BY <1>4, <1>5, <2>1 DEF InPlace, n, B
    <3>2. QED BY <1>5, <3>1 DEF k
  <2>2. CASE OneMoved(list)
    <3>1. PICK p \in 0..(n - 2) :
            /\ p + 1 \in list /\ p \notin list /\ B[p] # Free /\ B[p + 1].dib > 1
            /\ buckets = [j \in 0..(n - 1) |->
                 IF j = p THEN [B[p + 1] EXCEPT !.dib = @ - 1]
                 ELSE IF j \in list /\ j # p + 1 THEN B[j] ELSE Free]
      BY <2>2 DEF OneMoved, n, B
    <3>2. q = p + 1 BY <1>1, <3>1, FirstLeft DEF n, B
    <3>3. p \in 0..(n - 1) BY <1>1, <3>1
    <3>4. buckets[p] = [B[q] EXCEPT !.dib = @ - 1] BY <3>1, <3>2, <3>3
    <3>5. buckets[p].key = k /\ buckets[p].dib = B[q].dib - 1 BY <1>5, <3>4 DEF Item, k
    <3>6. B[q].dib \in Nat BY <1>5 DEF Item
    <3>7. buckets[p].dib # 0 BY <3>1, <3>2, <3>5, <3>6
    <3>8. buckets[p] # Free BY <3>7 DEF Free
    <3>9. QED BY <3>3, <3>5, <3>8
  <2>3. QED BY <1>2, <2>1, <2>2 DEF n, B
<1>11. pc' = "idle" /\ nbuckets' = nbuckets /\ cap' = cap BY <1>7, <1>10
<1>12. QED BY <1>2, <1>8, <1>9, <1>11 DEF n, B

LEMMA WalkKeeps ==
  ASSUME JInv, [JNext]_vars
  PROVE  Walk'
<1>0. IInv /\ ListHasItems /\ Walk BY DEF JInv
<1>1. CASE UNCHANGED loopOfEnd /\ ~ending BY <1>1 DEF loopOfEnd, Walk
<1>2. CASE UNCHANGED loopOfEnd /\ Loop
  <2>1. cap' = cap
    BY <1>2 DEF Loop, SetInFree, SetReplaces, SetProbe, ResizeNext, ResizeProbe, ResizeEnds, tableVars
  <2>2. Watched' => Watched BY <1>2, <2>1 DEF Watched, Chained, loopOfEnd
  <2>3. pc # "idle"
    BY <1>2 DEF Loop, SetInFree, SetReplaces, SetProbe, ResizeNext, ResizeProbe, ResizeEnds
  <2>4. ~(ending /\ Watched) BY <1>0, <2>3 DEF Walk
  <2>5. QED BY <1>2, <2>2, <2>4 DEF Walk, loopOfEnd
<1>3. CASE UNCHANGED vars
  <2>1. UNCHANGED <<pc, nbuckets, cap, buckets>> /\ UNCHANGED <<ending, list, bytes, joined, begun>>
    BY <1>3 DEF vars, mapVars, tableVars, loopVars, loopOfEnd
  <2>2. QED BY <1>0, <2>1 DEF Walk, Watched, Chained, InPlace, OneMoved
<1>4. CASE BeginEnd
  <2>1. /\ pc = "idle" /\ ~ending /\ list' = InUse(buckets) /\ bytes' = buckets /\ begun' = buckets
        /\ joined' = joined /\ UNCHANGED <<pc, nbuckets, cap, buckets>>
    BY <1>4 DEF BeginEnd, Idle, ITH_getThreadArgsList, mapVars, tableVars, loopVars
  <2>2. nbuckets \in Nat \ {0, 1} /\ buckets \in Table(nbuckets) /\ Unique(buckets)
        /\ InUse(buckets) = {j \in 0..(nbuckets - 1) : buckets[j] # Free}
    BY <1>0, TableFacts
  <2>3. DOMAIN buckets = 0..(nbuckets - 1) BY <2>2 DEF Table
  <2>4. Cardinality(0..(nbuckets - 1)) = nbuckets
    <3>1. 0 \in Int /\ nbuckets - 1 \in Int BY <2>2
    <3>2. Cardinality(0..(nbuckets - 1)) =
            IF 0 > nbuckets - 1 THEN 0 ELSE (nbuckets - 1) - 0 + 1
      BY <3>1, FS_Interval
    <3>3. QED BY <2>2, <3>2
  <2>5. Watched' => nbuckets = cap BY <2>1, <2>3, <2>4 DEF Watched
  <2>6. joined = [k \in Key |-> 0] BY <1>0, <2>1 DEF ListHasItems
  <2>7. \A j \in InUse(buckets) : joined[buckets[j].key] = 0 BY <2>2, <2>6, Bucket
  <2>8. InPlace(list)'
    <3>1. buckets = [j \in 0..(nbuckets - 1) |-> buckets[j]] BY <2>2 DEF Table
    <3>2. \A j \in 0..(nbuckets - 1) : buckets[j] = IF j \in InUse(buckets) THEN buckets[j] ELSE Free
      BY <2>2
    <3>3. buckets = [j \in 0..(nbuckets - 1) |-> IF j \in InUse(buckets) THEN buckets[j] ELSE Free]
      BY <3>1, <3>2
    <3>4. QED BY <2>1, <3>3 DEF InPlace
  <2>9. QED BY <2>1, <2>2, <2>3, <2>5, <2>7, <2>8 DEF Walk
<1>5. ASSUME NEW q \in DOMAIN bytes, JoinNext(q) PROVE Walk'
  <2>1. /\ IsNext(list, q) /\ q \in list /\ hashmap_delete(bytes[q].key) /\ bytes' = BytesAfter
        /\ joined' = [joined EXCEPT ![bytes[q].key] = @ + 1]
        /\ list' = list \ {q} /\ ending' = ending /\ begun' = begun
    BY <1>5 DEF JoinNext, IsNext
  <2>2. cap' = cap BY <2>1 DEF hashmap_delete
  <2>3. Watched' => Watched BY <2>1, <2>2 DEF Watched, Chained
  <2> SUFFICES ASSUME ending, Watched PROVE Walk' BY <2>1, <2>3 DEF Walk
  <2>4. /\ begun \in Table(nbuckets) /\ Unique(begun) /\ list \subseteq InUse(begun) /\ nbuckets = cap
        /\ \A i \in list, j \in InUse(begun) : i <= j => j \in list
        /\ DOMAIN bytes = 0..(nbuckets - 1) /\ \A i \in list : bytes[i] = begun[i]
        /\ \A j \in InUse(begun) : joined[begun[j].key] = IF j \in list THEN 0 ELSE 1
    BY <1>0 DEF Walk
  <2>5. nbuckets \in Nat BY <1>0, TableFacts
  <2>6. InUse(begun) = {j \in 0..(nbuckets - 1) : begun[j] # Free} BY <2>4, <2>5, InUseOf
  <2>7. bytes[q] = begun[q] BY <2>1, <2>4
  <2>8. /\ \/ buckets' = [j \in 0..(nbuckets - 1) |-> IF j \in list \ {q} THEN begun[j] ELSE Free]
           \/ /\ q + 1 \in list \ {q} /\ q \in 0..(nbuckets - 2)
              /\ begun[q] # Free /\ begun[q + 1].dib > 1
              /\ buckets' = [j \in 0..(nbuckets - 1) |->
                   IF j = q THEN [begun[q + 1] EXCEPT !.dib = @ - 1]
                   ELSE IF j \in list \ {q} /\ j # q + 1 THEN begun[j] ELSE Free]
        /\ pc' = "idle" /\ nbuckets' = nbuckets /\ cap' = cap
    BY <1>0, <2>1, <2>7, Walks
  <2>9. InPlace(list)' \/ OneMoved(list)'
    <3>1. CASE buckets' = [j \in 0..(nbuckets - 1) |-> IF j \in list \ {q} THEN begun[j] ELSE Free]
      BY <2>1, <2>8, <3>1 DEF InPlace
    <3>2. CASE /\ q + 1 \in list \ {q} /\ q \in 0..(nbuckets - 2)
               /\ begun[q] # Free /\ begun[q + 1].dib > 1
               /\ buckets' = [j \in 0..(nbuckets - 1) |->
                    IF j = q THEN [begun[q + 1] EXCEPT !.dib = @ - 1]
                    ELSE IF j \in list \ {q} /\ j # q + 1 THEN begun[j] ELSE Free]
      <4>1. q \notin list' /\ list' = list \ {q} /\ begun' = begun /\ nbuckets' = nbuckets
        BY <2>1, <2>8
      <4>2. OneMoved(list)' BY <3>2, <4>1 DEF OneMoved
      <4>3. QED BY <4>2
    <3>3. QED BY <2>8, <3>1, <3>2
  <2>10. \A j \in list \ {q} : j \in 0..(nbuckets - 1) /\ (buckets'[j] = begun[j] \/ buckets'[j] = Free)
    BY <2>4, <2>6, <2>8
  <2>11. DOMAIN bytes' = DOMAIN bytes /\ \A j \in list \ {q} : bytes'[j] = begun[j]
    <3>1. bytes' = [j \in DOMAIN bytes |-> IF buckets'[j] = Free THEN bytes[j] ELSE buckets'[j]]
      BY <2>1 DEF BytesAfter
    <3>2. QED BY <2>4, <2>10, <3>1
  <2>12. ASSUME NEW j \in InUse(begun)
         PROVE  joined'[begun[j].key] = IF j \in list \ {q} THEN 0 ELSE 1
    <3>1. begun[j].key \in Key /\ joined \in [Key -> Nat]
      BY <1>0, <2>4, <2>5, <2>6, Bucket DEF ListHasItems
    <3>2. CASE j = q
      <4>1. joined[begun[j].key] = 0 BY <2>1, <2>4, <3>2
      <4>2. joined'[begun[j].key] = 1 BY <2>1, <2>7, <3>1, <3>2, <4>1
      <4>3. QED BY <3>2, <4>2
    <3>3. CASE j # q
      <4>1. begun[j].key # begun[q].key BY <2>1, <2>4, <3>3 DEF Unique
      <4>2. joined'[begun[j].key] = joined[begun[j].key] BY <2>1, <2>7, <3>1, <4>1
      <4>3. QED BY <2>4, <3>3, <4>2
    <3>4. QED BY <3>2, <3>3
  <2>13. \A i \in list \ {q}, j \in InUse(begun) : i <= j => j \in list \ {q}
    <3> SUFFICES ASSUME NEW i \in list \ {q}, NEW j \in InUse(begun), i <= j PROVE j \in list \ {q}
      OBVIOUS
    <3>1. j \in list BY <2>4
    <3>2. q <= i /\ q \in Nat /\ i \in Nat /\ j \in Nat BY <2>1, <2>4, <2>6 DEF IsNext
    <3>3. j # q BY <3>2
    <3>4. QED BY <3>1, <3>3
  <2>14. list \ {q} \subseteq InUse(begun) BY <2>4
  <2>15. QED BY <2>1, <2>4, <2>8, <2>9, <2>11, <2>12, <2>13, <2>14 DEF Walk
<1>6. CASE JoinWild
  <2>1. /\ Freed /\ cap' = cap /\ UNCHANGED <<ending, begun>>
    BY <1>6 DEF JoinWild, mapVars, tableVars
  <2>2. Watched' => Watched BY <2>1 DEF Watched, Chained
  <2>3. DOMAIN buckets = 0..(nbuckets - 1)
    <3>1. buckets \in Table(nbuckets) BY <1>0, TableFacts
    <3>2. QED BY <3>1 DEF Table
  <2>4. ~(ending /\ Watched) BY <1>0, <2>1, <2>3 DEF Walk, Freed
  <2>5. QED BY <2>1, <2>2, <2>4 DEF Walk
<1>7. QED BY <1>1, <1>2, <1>3, <1>4, <1>5, <1>6 DEF JNext

LEMMA JInvariance == JSpec => []JInv
<1>1. JInit => JInv
  <2> SUFFICES ASSUME JInit PROVE JInv OBVIOUS
  <2>1. IInv BY InitKeeps DEF JInit
  <2>2. ListHasItems BY DEF JInit, ListHasItems
  <2>3. Walk BY DEF JInit, Walk
  <2>4. QED BY <2>1, <2>2, <2>3 DEF JInv
<1>2. JInv /\ [JNext]_vars => JInv'
  <2> SUFFICES ASSUME JInv, [JNext]_vars PROVE JInv' OBVIOUS
  <2>1. IInv /\ ListHasItems BY DEF JInv
  <2>2. IInv' BY <2>1, CallsAndLoops, NextKeeps
  <2>3. QED BY <2>1, <2>2, ListKeeps, WalkKeeps DEF JInv
<1>3. QED BY <1>1, <1>2, PTL DEF JSpec

(* The loop of end() does nothing to the hash table but call it: whatever   *)
(* holds of the table holds while it is walked and emptied too.             *)
THEOREM LoopUsesTable == JSpec => Spec
<1>1. JInit => Init BY DEF JInit
<1>2. JInv /\ [JNext]_vars => [Next]_mapVars BY CallsAndLoops DEF JInv
<1>3. QED BY <1>1, <1>2, JInvariance, PTL DEF JSpec, Spec

(* The loop of end() joins every thread that was registered once, and       *)
(* leaves none, in any table that does not shrink below the walk and in     *)
(* which no three entries in a row have the later two away from home.       *)
THEOREM EachIsJoinedOnce == JSpec => []JoinedOnce
<1>1. JInv => JoinedOnce
  <2> SUFFICES ASSUME JInv, Over, Watched PROVE EachJoinedOnce /\ count = 0
    BY DEF JoinedOnce, Watched
  <2>1. IInv /\ Walk /\ ending /\ list = {} BY DEF JInv, Over
  <2>2. /\ begun \in Table(nbuckets)
        /\ \A j \in InUse(begun) : joined[begun[j].key] = IF j \in list THEN 0 ELSE 1
        /\ InPlace(list) \/ OneMoved(list)
    BY <2>1 DEF Walk
  <2>3. EachJoinedOnce
    <3> SUFFICES ASSUME NEW e \in Entries(begun) PROVE joined[e.key] = 1 BY DEF EachJoinedOnce
    <3>1. PICK j \in DOMAIN begun : e = begun[j] /\ begun[j] # Free BY DEF Entries
    <3>2. j \in InUse(begun) BY <3>1 DEF InUse
    <3>3. QED BY <2>1, <2>2, <3>1, <3>2
  <2>4. InUse(buckets) = {}
    <3>1. buckets = [j \in 0..(nbuckets - 1) |-> Free] BY <2>1, <2>2 DEF InPlace, OneMoved
    <3>2. QED BY <3>1 DEF InUse
  <2>5. count = 0
    <3>1. count = Cardinality(InUse(buckets)) BY <2>1, TableFacts
    <3>2. QED BY <2>4, <3>1, FS_EmptySet
  <2>6. QED BY <2>3, <2>5
<1>2. QED BY <1>1, JInvariance, PTL

=============================================================================
