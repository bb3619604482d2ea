------------------------------ MODULE HashMap ------------------------------
(***************************************************************************)
(* The hash table of hashmap.c: open addressing with Robin Hood hashing.    *)
(* An item lies dib - 1 buckets after its home, the bucket its hash names;  *)
(* an item that has come further takes the bucket of one that has not.      *)
(*                                                                         *)
(* The loops that carry an entry from bucket to bucket (in hashmap_set and  *)
(* resize) are modelled one bucket per step, the searches and the closing   *)
(* of a gap in one step.  Keys stand for the compared part of an item,      *)
(* Value for the rest; "& mask" is Wrap.                                    *)
(***************************************************************************)
EXTENDS Integers, FiniteSets

CONSTANTS
  NULL,
  Key, Value,
  Hash,           \* get_hash
  MinCap,         \* the least number of buckets: 16
  ShrinkDivisor,  \* a table shrinks when one in ShrinkDivisor is used: 10
  AllocFails      \* whether malloc() may fail

ASSUME HashMapAssumption ==
  /\ NULL \notin Key \cup Value \cup [key : Key, val : Value, dib : Nat]
  /\ IsFiniteSet(Key)
  /\ Hash \in [Key -> Nat]
  /\ MinCap \in Nat /\ MinCap >= 2
  /\ ShrinkDivisor \in Nat /\ ShrinkDivisor >= 3
  /\ AllocFails \in BOOLEAN

VARIABLES
  nbuckets, cap, buckets, count,
  pc,          \* "idle", "set": in its loop, or "resize": in its loops
  hand,        \* the entry that is being carried (map->edata, or resize's entry)
  at,          \* the bucket it has come to
  item,        \* the argument of the hashmap_set() that is running, or NULL
  src,         \* resize: the first bucket not yet emptied
  nbuckets2, buckets2,  \* resize: map2
  result,      \* what the last operation returned
  oom

tableVars == <<nbuckets, cap, buckets, count>>
loopVars  == <<pc, hand, at, item, src, nbuckets2, buckets2>>
mapVars   == <<tableVars, loopVars, result, oom>>

Free   == [key |-> NULL, val |-> NULL, dib |-> 0]
Entry(k, v) == [key |-> k, val |-> v, dib |-> 1]
Cleared(n)  == [j \in 0..(n - 1) |-> Free]

Wrap(j, n)    == IF j < n THEN j ELSE j - n
home(k, n)    == Hash[k] % n
growat(n)     == (3 * n) \div 4
shrinkat(n)   == n \div ShrinkDivisor

Idle == pc = "idle"
Rest ==
  /\ pc' = "idle" /\ hand' = Free /\ at' = 0 /\ item' = NULL
  /\ src' = 0 /\ nbuckets2' = 0 /\ buckets2' = <<>>

-----------------------------------------------------------------------------
(* Searching.  From the home of k on, up to the first bucket that is free   *)
(* or holds k: d buckets away.                                              *)
Passed(k, d) == Wrap(home(k, nbuckets) + d, nbuckets)
Stops(k, j)  == buckets[j].dib = 0 \/ buckets[j].key = k
Search(k, d) ==
  /\ Stops(k, Passed(k, d))
  /\ \A e \in 0..(d - 1) : ~Stops(k, Passed(k, e))

hashmap_get(k) ==
  /\ Idle
  /\ \E d \in 0..(nbuckets - 1) :
       /\ Search(k, d)
       /\ result' = buckets[Passed(k, d)].val
  /\ UNCHANGED <<tableVars, loopVars, oom>>

-----------------------------------------------------------------------------
(* resize().  Its loops begin here: the table gets n buckets, and arg, if    *)
(* any, is set afterwards.                                                  *)
StartResize(n, arg) ==
  /\ pc' = "resize" /\ hand' = Free /\ at' = 0 /\ item' = arg
  /\ src' = 0 /\ nbuckets2' = n /\ buckets2' = Cleared(n)

(* The next entry of the old table is taken up, with dib = 1.  Mutant: its   *)
(* home is that of the old mask.                                            *)
ResizeNext_oldMask ==
  /\ pc = "resize" /\ hand = Free
  /\ \E j \in src..(nbuckets - 1) :
       /\ buckets[j].dib # 0
       /\ \A i \in src..(j - 1) : buckets[i].dib = 0
       /\ hand' = [buckets[j] EXCEPT !.dib = 1]
       /\ at' = home(buckets[j].key, nbuckets)
       /\ src' = j + 1
  /\ UNCHANGED <<tableVars, pc, item, nbuckets2, buckets2, result, oom>>

ResizeNext ==
  /\ pc = "resize" /\ hand = Free
  /\ \E j \in src..(nbuckets - 1) :
       /\ buckets[j].dib # 0
       /\ \A i \in src..(j - 1) : buckets[i].dib = 0
       /\ hand' = [buckets[j] EXCEPT !.dib = 1]
       /\ at' = home(buckets[j].key, nbuckets2)
       /\ src' = j + 1
  /\ UNCHANGED <<tableVars, pc, item, nbuckets2, buckets2, result, oom>>

(* Mutants: an entry that has come as far is displaced too; none is.        *)
Carry_le(b, n) ==
  /\ IF b[at].dib <= hand.dib
     THEN b' = [b EXCEPT ![at] = hand] /\ hand' = [b[at] EXCEPT !.dib = @ + 1]
     ELSE b' = b /\ hand' = [hand EXCEPT !.dib = @ + 1]
  /\ at' = Wrap(at + 1, n)
Carry_linear(b, n) ==
  b' = b /\ hand' = [hand EXCEPT !.dib = @ + 1] /\ at' = Wrap(at + 1, n)

(* One bucket of a carrying loop, in the table b of n buckets: an entry     *)
(* that has come less far is displaced, and carried on instead.             *)
Carry(b, n) ==
  /\ IF b[at].dib < hand.dib
     THEN b' = [b EXCEPT ![at] = hand] /\ hand' = [b[at] EXCEPT !.dib = @ + 1]
     ELSE b' = b /\ hand' = [hand EXCEPT !.dib = @ + 1]
  /\ at' = Wrap(at + 1, n)

ResizeProbe ==
  /\ pc = "resize" /\ hand # Free
  /\ IF buckets2[at].dib = 0
     THEN buckets2' = [buckets2 EXCEPT ![at] = hand] /\ hand' = Free /\ at' = 0
     ELSE Carry(buckets2, nbuckets2)
  /\ UNCHANGED <<tableVars, pc, item, src, nbuckets2, result, oom>>

(* The loop of hashmap_set() begins here. *)
StartSet(arg, n) ==
  /\ pc' = "set" /\ hand' = arg /\ at' = home(arg.key, n) /\ item' = arg
  /\ src' = 0 /\ nbuckets2' = 0 /\ buckets2' = <<>>

(* map2's buckets become the map's. *)
ResizeEnds ==
  /\ pc = "resize" /\ hand = Free
  /\ \A j \in src..(nbuckets - 1) : buckets[j].dib = 0
  /\ buckets' = buckets2 /\ nbuckets' = nbuckets2
  /\ IF item = NULL THEN Rest ELSE StartSet(item, nbuckets2)
  /\ UNCHANGED <<cap, count, result, oom>>

-----------------------------------------------------------------------------
hashmap_set(k, v) ==
  /\ Idle
  /\ \/ /\ count = growat(nbuckets)
        /\ StartResize(2 * nbuckets, Entry(k, v))
        /\ oom' = FALSE /\ UNCHANGED result
     \/ /\ count = growat(nbuckets) /\ AllocFails
        /\ oom' = TRUE /\ result' = NULL
        /\ UNCHANGED loopVars
     \/ /\ count # growat(nbuckets)
        /\ StartSet(Entry(k, v), nbuckets)
        /\ oom' = FALSE /\ UNCHANGED result
  /\ UNCHANGED tableVars

(* The loop of hashmap_set(): a free bucket ... *)
SetInFree ==
  /\ pc = "set" /\ buckets[at].dib = 0
  /\ buckets' = [buckets EXCEPT ![at] = hand]
  /\ count' = count + 1 /\ result' = NULL
  /\ Rest
  /\ UNCHANGED <<nbuckets, cap, oom>>

(* ... the same key: its item is replaced and the old one returned ... *)
SetReplaces ==
  /\ pc = "set" /\ buckets[at].dib # 0 /\ buckets[at].key = hand.key
  /\ buckets' = [buckets EXCEPT ![at].val = hand.val]
  /\ result' = buckets[at].val
  /\ Rest
  /\ UNCHANGED <<nbuckets, cap, count, oom>>

(* ... or on to the next bucket. *)
SetProbe ==
  /\ pc = "set" /\ buckets[at].dib # 0 /\ buckets[at].key # hand.key
  /\ Carry(buckets, nbuckets)
  /\ UNCHANGED <<nbuckets, cap, count, pc, item, src, nbuckets2, buckets2, result, oom>>

-----------------------------------------------------------------------------
(* hashmap_delete().  The r entries after bucket i that are not at home     *)
(* move one bucket back.  Mutant: those at home move too.                   *)
GapCloses_home(i, r) ==
  /\ buckets[Wrap(i + r + 1, nbuckets)].dib <= 0
  /\ \A e \in 1..r : buckets[Wrap(i + e, nbuckets)].dib > 0
GapCloses(i, r) ==
  /\ buckets[Wrap(i + r + 1, nbuckets)].dib <= 1
  /\ \A e \in 1..r : buckets[Wrap(i + e, nbuckets)].dib > 1

(* Mutant: the gap is left open. *)
CloseGap_open(i, r) == [buckets EXCEPT ![i] = Free]
CloseGap(i, r) ==
  [j \in 0..(nbuckets - 1) |->
     CASE j = Wrap(i + r, nbuckets) -> Free
       [] \E e \in 0..(r - 1) : j = Wrap(i + e, nbuckets) ->
            [buckets[Wrap(j + 1, nbuckets)] EXCEPT !.dib = @ - 1]
       [] OTHER -> buckets[j]]

ShouldShrink == nbuckets > cap /\ count' <= shrinkat(nbuckets)

DeleteAt(i) ==
  /\ \E r \in 0..(nbuckets - 1) : GapCloses(i, r) /\ buckets' = CloseGap(i, r)
  /\ count' = count - 1
  /\ \/ ShouldShrink /\ StartResize(nbuckets \div 2, NULL)
     \/ (ShouldShrink => AllocFails) /\ UNCHANGED loopVars

hashmap_delete(k) ==
  /\ Idle
  /\ \E d \in 0..(nbuckets - 1) :
       LET i == Passed(k, d) IN
       /\ Search(k, d)
       /\ result' = buckets[i].val
       /\ IF buckets[i].dib = 0 THEN UNCHANGED <<buckets, count, loopVars>> ELSE DeleteAt(i)
  /\ oom' = FALSE
  /\ UNCHANGED <<nbuckets, cap>>

(* The capacity becomes that of the table, or the table that of the         *)
(* capacity.                                                                *)
hashmap_clear(update_cap) ==
  /\ Idle
  /\ count' = 0
  /\ IF update_cap THEN cap' = nbuckets /\ UNCHANGED nbuckets
                   ELSE nbuckets' = cap /\ UNCHANGED cap
  /\ buckets' = Cleared(nbuckets')
  /\ UNCHANGED <<loopVars, result, oom>>

-----------------------------------------------------------------------------
(* hashmap_new(). *)
Init ==
  /\ nbuckets = MinCap /\ cap = MinCap /\ buckets = Cleared(MinCap) /\ count = 0
  /\ pc = "idle" /\ hand = Free /\ at = 0 /\ item = NULL
  /\ src = 0 /\ nbuckets2 = 0 /\ buckets2 = <<>>
  /\ result = NULL /\ oom = FALSE

Call ==
  \/ \E k \in Key :
       hashmap_get(k) \/ hashmap_delete(k) \/ \E v \in Value : hashmap_set(k, v)
  \/ \E u \in BOOLEAN : hashmap_clear(u)

Loop ==
  \/ SetInFree \/ SetReplaces \/ SetProbe
  \/ ResizeNext \/ ResizeProbe \/ ResizeEnds

Next == Call \/ Loop

Spec == Init /\ [][Next]_mapVars

-----------------------------------------------------------------------------
(* Invariants.                                                              *)

Entries(b) == {b[j] : j \in DOMAIN b} \ {Free}
Item       == [key : Key, val : Value, dib : Nat \ {0}]
Table(n)   == [0..(n - 1) -> Item \cup {Free}]

(* Every variable has its type. *)
TypeOK ==
  /\ nbuckets \in Nat \ {0, 1} /\ cap \in Nat \ {0, 1} /\ count \in Nat
  /\ buckets \in Table(nbuckets)
  /\ pc \in {"idle", "set", "resize"}
  /\ hand \in Item \cup {Free}
  /\ item \in {NULL} \cup [key : Key, val : Value, dib : {1}]
  /\ pc = "set"    => hand # Free /\ at \in 0..(nbuckets - 1)
  /\ pc = "resize" => /\ nbuckets2 \in Nat \ {0} /\ buckets2 \in Table(nbuckets2)
                      /\ src \in 0..nbuckets /\ at \in 0..(nbuckets2 - 1)
  /\ pc = "idle"   => hand = Free
  /\ result \in Value \cup {NULL} /\ oom \in BOOLEAN

(* An item is where a search for it will come by: its dib is its distance   *)
(* from home, and no bucket in between is free.                             *)
Findable(b, n) ==
  \A j \in 0..(n - 1) : b[j] # Free =>
    \E d \in 0..(n - 1) :
      /\ b[j].dib = d + 1 /\ j = Wrap(home(b[j].key, n) + d, n)
      /\ \A e \in 0..(d - 1) : b[Wrap(home(b[j].key, n) + e, n)] # Free

(* "An open addressed hash map using robinhood hashing": no item has come   *)
(* much further than the one in the bucket before it, in the table and in   *)
(* the one that a resize builds.  (That hashmap_set() meets an item of its  *)
(* own key before it displaces another rests on this.)                      *)
RobinHood(b, n) == \A j \in 0..(n - 1) : b[Wrap(j + 1, n)].dib <= b[j].dib + 1

InUse(b) == {j \in DOMAIN b : b[j] # Free}

(* hashmap_count() is what counting the buckets would give (deepcount in    *)
(* the tests), no key is there twice, and a free bucket is left, without    *)
(* which no search for an absent key would end.                             *)
CountExact ==
  /\ count = Cardinality(InUse(buckets)) /\ count < nbuckets
  /\ \A i, j \in InUse(buckets) : buckets[i].key = buckets[j].key => i = j

(* Every search ends where its item is, while a table grows or shrinks too. *)
ProbesEnd  == Findable(buckets, nbuckets) /\ (pc = "resize" => Findable(buckets2, nbuckets2))

(* Items that collide share the way fairly, in both tables of a resize.     *)
ProbesFair == RobinHood(buckets, nbuckets) /\ (pc = "resize" => RobinHood(buckets2, nbuckets2))

-----------------------------------------------------------------------------
(* The map that the table stands for.  A set takes effect when it returns:  *)
(* until then its item does not count, and one that it carries does.        *)
Stored ==
  CASE pc = "idle"   -> Entries(buckets)
    [] pc = "set"    -> IF hand.key = item.key THEN Entries(buckets)
                        ELSE {e \in Entries(buckets) \cup {hand} : e.key # item.key}
    [] pc = "resize" -> Entries(buckets2) \cup {hand, Free} \cup
                        {buckets[j] : j \in src..(nbuckets - 1)}

dict ==
  [k \in Key |->
     IF \E e \in Stored : e.key = k THEN (CHOOSE e \in Stored : e.key = k).val ELSE NULL]

M == INSTANCE Map

(* For its callers the table is a map: every call returns what the map      *)
(* holds, whatever moved, grew, shrank or could not be allocated.           *)
ImplementsMap == M!Spec

=============================================================================
