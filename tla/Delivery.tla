------------------------------ MODULE Delivery ------------------------------
(***************************************************************************)
(* What sending a file promises the user who sends it: the news, once for   *)
(* each file, and "correctly sent" only of a file that has arrived whole,   *)
(* as it was when its sending began, unless it was changed under way.       *)
(***************************************************************************)
CONSTANTS Session, NULL

VARIABLES
  arrived,   \* the sessions whose file is known to be whole where it went
  changed,   \* those whose file was changed while it was sent
  told       \* what the sender was told

vars == <<arrived, changed, told>>

News == {"correctly", "incorrectly", "disconnected", "stopped", "refused", "unreachable"}

Init == arrived = {} /\ changed = {} /\ told = [s \in Session |-> NULL]

(* It need not be known, as the news may get lost on its way. *)
Arrive(s) == arrived' = arrived \cup {s} /\ UNCHANGED <<changed, told>>

Change(s) == changed' = changed \cup {s} /\ UNCHANGED <<arrived, told>>

Tell(s) ==
  /\ told[s] = NULL
  /\ \E n \in News :
       /\ n = "correctly" => s \in arrived \cup changed
       /\ told' = [told EXCEPT ![s] = n]
  /\ UNCHANGED <<arrived, changed>>

Next == \E s \in Session : Arrive(s) \/ Change(s) \/ Tell(s)

Spec == Init /\ [][Next]_vars

=============================================================================
