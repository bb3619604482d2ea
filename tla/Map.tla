-------------------------------- MODULE Map --------------------------------
(***************************************************************************)
(* What hashmap.c promises its callers: a map from keys to values, without  *)
(* buckets.  Every operation returns at once what the map held.             *)
(***************************************************************************)
CONSTANTS Key, Value, NULL

VARIABLES
  dict,     \* the value of each key, or NULL
  result,   \* what the last operation returned
  oom       \* hashmap_oom(): the last hashmap_set() failed for want of memory

vars == <<dict, result, oom>>

Init == dict = [k \in Key |-> NULL] /\ result = NULL /\ oom = FALSE

Get(k) == result' = dict[k] /\ UNCHANGED <<dict, oom>>

(* A set or a delete begins. *)
Begin == oom' = FALSE /\ UNCHANGED <<dict, result>>

Set(k, v) ==
  /\ dict' = [dict EXCEPT ![k] = v]
  /\ result' = dict[k] /\ oom' = FALSE

(* A failed set leaves the map as it was. *)
SetFails == result' = NULL /\ oom' = TRUE /\ UNCHANGED dict

Delete(k) ==
  /\ dict' = [dict EXCEPT ![k] = NULL]
  /\ result' = dict[k] /\ oom' = FALSE

Clear == dict' = [k \in Key |-> NULL] /\ UNCHANGED <<result, oom>>

Next ==
  \/ Begin \/ SetFails \/ Clear
  \/ \E k \in Key : Get(k) \/ Delete(k) \/ \E v \in Value : Set(k, v)

Spec == Init /\ [][Next]_vars

=============================================================================
