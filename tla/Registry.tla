------------------------------ MODULE Registry ------------------------------
(***************************************************************************)
(* What Arda promises to the users of the system, without descriptors,      *)
(* packets or a hashmap: who is logged in.  A session logs in at most once; *)
(* a user is logged in at most once; and a user's place passes from one     *)
(* address to another only through a logout.                                *)
(***************************************************************************)
CONSTANTS Session, UserOf, AddrOf

VARIABLES
  up,         \* Arda is running
  standing    \* of each session: "out" (not yet in), "in" or "gone"

vars == <<up, standing>>

In == {s \in Session : standing[s] = "in"}

Init == up = FALSE /\ standing = [s \in Session |-> "out"]

Login(s) ==
  /\ up /\ standing[s] = "out"
  /\ \A t \in In : UserOf[t] # UserOf[s]
  /\ standing' = [standing EXCEPT ![s] = "in"]
  /\ UNCHANGED up

(* The same user, at the same address, takes over the session t. *)
TakeOver(s, t) ==
  /\ up /\ standing[s] = "out" /\ t \in In
  /\ UserOf[t] = UserOf[s] /\ AddrOf[t] = AddrOf[s]
  /\ standing' = [standing EXCEPT ![s] = "in", ![t] = "gone"]
  /\ UNCHANGED up

(* A newcomer is refused, or a user leaves. *)
Leave(s) ==
  /\ up /\ standing[s] # "gone"
  /\ standing' = [standing EXCEPT ![s] = "gone"]
  /\ UNCHANGED up

Start == ~up /\ up' = TRUE /\ UNCHANGED standing

(* Everybody who is in goes, and so do the newcomers N that were waiting. *)
Stop ==
  /\ up /\ up' = FALSE
  /\ \E N \in SUBSET Session :
       standing' = [s \in Session |->
                      IF s \in In \cup N THEN "gone" ELSE standing[s]]

Next ==
  \/ Start \/ Stop
  \/ \E s \in Session : Login(s) \/ Leave(s)
  \/ \E s, t \in Session : TakeOver(s, t)

Spec == Init /\ [][Next]_vars

=============================================================================
