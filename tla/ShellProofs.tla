---------------------------- MODULE ShellProofs ----------------------------
(***************************************************************************)
(* Theorems about Shell, for any number of calls of run() at once and any   *)
(* outputs of the commands.                                                 *)
(***************************************************************************)
EXTENDS Shell, FiniteSetTheorems, TLAPS

(* The calls that still are to wait, and the children that still are to be  *)
(* waited for.                                                              *)
Waiting   == {t \in Call : pc[t] \in {"close", "wait"}}
Unreaped  == {u \in Call : child[u] \in {"runs", "zombie"}}

Shape ==
  /\ pc \in [Call -> {"start", "fork", "close", "wait", "read", "over"}]
  /\ child \in [Call -> {"none", "runs", "zombie", "reaped"}]
  /\ wrote \in [Call -> [Pipe -> Int]]
  /\ read \in [Call -> [Pipe -> Int]]
  /\ output \in [Call -> [Pipe -> Int]]
  /\ DOMAIN holders = Call /\ DOMAIN status = Call
  /\ DOMAIN returned = Call

(* A child exists from its fork on; one that runs holds its pipes, and one  *)
(* that does not has written everything.                                    *)
Children ==
  \A t \in Call :
    /\ pc[t] \in {"start", "fork"} => child[t] = "none"
    /\ pc[t] = "fork" => NULL \in holders[t]
    /\ child[t] = "runs" => t \in holders[t]
    /\ child[t] \in {"zombie", "reaped"} => wrote[t] = output[t]
    /\ pc[t] \in {"close", "wait", "read"} => child[t] # "none"

(* OutputReturned is inductive with these.                                   *)
Inv == Shape /\ Children /\ OutputReturned

-----------------------------------------------------------------------------
LEMMA InitInv == Init => Inv /\ WaitsFindAChild
<1> SUFFICES ASSUME Init PROVE Inv /\ WaitsFindAChild
  OBVIOUS
<1>1. Shape /\ Children /\ OutputReturned
  BY ShellAssumption DEF Init, Shape, Children, OutputReturned
<1>2. Waiting = {} /\ Unreaped = {}
  BY DEF Init, Waiting, Unreaped
<1> QED
  BY <1>1, <1>2 DEF Inv, WaitsFindAChild, Waiting, Unreaped

LEMMA NextInv == Inv /\ [Next]_vars => Inv'
<1> SUFFICES ASSUME Inv, [Next]_vars PROVE Inv'
  OBVIOUS
<1> USE ShellAssumption DEF Inv, Shape, Goto, outside
<1>1. ASSUME NEW t \in Call, MakePipes(t) PROVE Inv'
  BY <1>1 DEF MakePipes, Children, OutputReturned
<1>2. ASSUME NEW t \in Call, Fork(t) PROVE Inv'
  BY <1>2 DEF Fork, Children, OutputReturned
<1>3. ASSUME NEW t \in Call, ForkFails(t) PROVE Inv'
  BY <1>3 DEF ForkFails, Children, OutputReturned
<1>4. ASSUME NEW t \in Call, CloseEnds(t) PROVE Inv'
  BY <1>4 DEF CloseEnds, Children, OutputReturned
<1>5. ASSUME NEW t \in Call, Wait(t) PROVE Inv'
  BY <1>5 DEF Wait, Children, OutputReturned
<1>6. ASSUME NEW t \in Call, NEW p \in Pipe, ReadPipe(t, p) PROVE Inv'
  BY <1>6 DEF ReadPipe, Children, OutputReturned
<1>7. ASSUME NEW t \in Call, Finish(t) PROVE Inv'
  <2>1. wrote[t] = output[t]
    BY <1>7 DEF Finish, Ended, Children
  <2>2. \A p \in Pipe : read[t][p] = output[t][p]
    <3>1. \A p \in Pipe : wrote[t][p] \in Int /\ read[t][p] \in Int
      OBVIOUS
    <3>2. \A p \in Pipe : wrote[t][p] - read[t][p] = 0
      BY <1>7 DEF Finish, Ended, Unread
    <3>3. \A i, j \in Int : i - j = 0 => i = j
      OBVIOUS
    <3> QED
      BY ONLY <2>1, <3>1, <3>2, <3>3
  <2>3. Shape' /\ Children'
    BY <1>7 DEF Finish, Children
  <2>4. OutputReturned'
    BY <1>7, <2>2, Zenon DEF Finish, OutputReturned, Terminated
  <2> QED
    BY <2>3, <2>4
<1>8. ASSUME NEW t \in Call, NEW p \in Pipe, Writes(t, p) PROVE Inv'
  BY <1>8 DEF Writes, Children, OutputReturned
<1>9. ASSUME NEW t \in Call, Exits(t) PROVE Inv'
  BY <1>9 DEF Exits, Children, OutputReturned
<1>10. CASE UNCHANGED vars
  BY <1>10 DEF vars, Children, OutputReturned
<1> QED
  BY <1>1, <1>2, <1>3, <1>4, <1>5, <1>6, <1>7, <1>8, <1>9, <1>10 DEF Next, run, childStep

LEMMA Invariance == Spec => []Inv
BY InitInv, NextInv, PTL DEF Spec

-----------------------------------------------------------------------------
(* Every call that was not refused its fork returns what its own child      *)
(* wrote, but for the last byte, whichever child woke it.                   *)
THEOREM OutputsReturned == Spec => []OutputReturned
<1>1. Inv => OutputReturned
  BY DEF Inv
<1> QED
  BY <1>1, Invariance, PTL

(* There are as many children to be waited for as calls that are to wait.   *)
LEMMA WaitingCounts ==
  /\ IsFiniteSet(Waiting) /\ IsFiniteSet(Unreaped)
  /\ WaitsFindAChild <=> Cardinality(Waiting) = Cardinality(Unreaped)
BY ShellAssumption, FS_Subset DEF Waiting, Unreaped, WaitsFindAChild

LEMMA NextWaits == Inv /\ WaitsFindAChild /\ [Next]_vars => WaitsFindAChild'
<1> SUFFICES ASSUME Inv, WaitsFindAChild, [Next]_vars PROVE WaitsFindAChild'
  OBVIOUS
<1>1. WaitsFindAChild' <=> Cardinality(Waiting') = Cardinality(Unreaped')
  BY DEF WaitsFindAChild, Waiting, Unreaped
<1>2. ASSUME NEW t \in Call, Fork(t) PROVE WaitsFindAChild'
  <2>1. Waiting' = Waiting \cup {t} /\ t \notin Waiting
    BY <1>2 DEF Inv, Shape, Fork, Goto, Waiting
  <2>2. Unreaped' = Unreaped \cup {t} /\ t \notin Unreaped
    BY <1>2 DEF Inv, Shape, Children, Fork, Unreaped
  <2>3. Cardinality(Waiting') = Cardinality(Waiting) + 1
    BY <2>1, WaitingCounts, FS_AddElement
  <2>4. Cardinality(Unreaped') = Cardinality(Unreaped) + 1
    BY <2>2, WaitingCounts, FS_AddElement
  <2> QED
    BY <1>1, <2>3, <2>4, WaitingCounts
<1>3. ASSUME NEW t \in Call, Wait(t) PROVE WaitsFindAChild'
  <2>1. Waiting' = Waiting \ {t} /\ t \in Waiting
    BY <1>3 DEF Inv, Shape, Wait, Goto, Waiting
  <2>2. PICK u \in Call : Unreaped' = Unreaped \ {u} /\ u \in Unreaped
    BY <1>3 DEF Inv, Shape, Wait, Unreaped
  <2>3. Cardinality(Waiting') = Cardinality(Waiting) - 1
    BY <2>1, WaitingCounts, FS_RemoveElement
  <2>4. Cardinality(Unreaped') = Cardinality(Unreaped) - 1
    BY <2>2, WaitingCounts, FS_RemoveElement
  <2> QED
    BY <1>1, <2>3, <2>4, WaitingCounts
<1>4. ASSUME NEW t \in Call,
             \/ MakePipes(t) \/ ForkFails(t) \/ CloseEnds(t) \/ Finish(t) \/ Exits(t)
             \/ \E p \in Pipe : ReadPipe(t, p) \/ Writes(t, p)
      PROVE  WaitsFindAChild'
  <2>1. Waiting' = Waiting
    BY <1>4 DEF Inv, Shape, MakePipes, ForkFails, CloseEnds, Finish, Exits, ReadPipe, Writes, Goto, Waiting
  <2>2. Unreaped' = Unreaped
    BY <1>4 DEF Inv, Shape, MakePipes, ForkFails, CloseEnds, Finish, Exits, ReadPipe, Writes, Unreaped
  <2> QED
    BY <1>1, <2>1, <2>2, WaitingCounts
<1>5. CASE UNCHANGED vars
  BY <1>5 DEF vars, WaitsFindAChild
<1> QED
  BY <1>2, <1>3, <1>4, <1>5 DEF Next, run, childStep

(* No wait() lacks a child, whoever takes whose: the status is never read   *)
(* uninitialized.                                                           *)
THEOREM NoWaitFails == Spec => []WaitsFindAChild
BY InitInv, NextWaits, Invariance, PTL DEF Spec

=============================================================================
