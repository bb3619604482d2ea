------------------------------ MODULE JoinLoop ------------------------------
(***************************************************************************)
(* The end of a Son's threadsHashmap: end() takes a list of pointers to the *)
(* items in the buckets (ITH_getThreadArgsList), and joins the threads and  *)
(* deletes their items one by one, which moves what the later pointers      *)
(* point to.  Keys are thread ids.                                          *)
(***************************************************************************)
EXTENDS HashMap

VARIABLES
  ending,   \* end() has come to its loop
  list,     \* the pointers still to visit, as bucket numbers, the least first
  bytes,    \* what lies in each bucket of the table that the pointers point into,
            \* whether it counts as free or not
  joined,   \* how often each thread was joined
  begun     \* the table when the loop began

loopOfEnd == <<ending, list, bytes, joined, begun>>
vars      == <<mapVars, loopOfEnd>>

(* ITH_getThreadArgsList: hashmap_iter goes through the buckets in order. *)
ITH_getThreadArgsList(b) == InUse(b)
IsNext(l, j) == j \in l /\ \A i \in l : j <= i

(* A resize has freed the buckets that the pointers point into. *)
Freed == DOMAIN bytes # DOMAIN buckets

BeginEnd ==
  /\ Idle /\ ~ending
  /\ ending' = TRUE
  /\ list' = ITH_getThreadArgsList(buckets)
  /\ bytes' = buckets /\ begun' = buckets
  /\ UNCHANGED <<mapVars, joined>>

(* What a deletion leaves where the pointers point: a bucket that becomes    *)
(* free keeps its bytes.                                                    *)
BytesAfter == [j \in DOMAIN bytes |-> IF buckets'[j] = Free THEN bytes[j] ELSE buckets'[j]]

(* pthread_join, pthread_detach and hashmap_delete for one pointer.         *)
(* Mutant: the deletion comes first.                                        *)
JoinNext_late(j) ==
  /\ Idle /\ IsNext(list, j) /\ ~Freed
  /\ hashmap_delete(bytes[j].key)
  /\ bytes' = BytesAfter
  /\ joined' = [joined EXCEPT ![bytes'[j].key] = @ + 1]
  /\ list' = list \ {j}
  /\ UNCHANGED <<ending, begun>>

JoinNext(j) ==
  /\ Idle /\ IsNext(list, j) /\ ~Freed
  /\ joined' = [joined EXCEPT ![bytes[j].key] = @ + 1]
  /\ hashmap_delete(bytes[j].key)
  /\ bytes' = BytesAfter
  /\ list' = list \ {j}
  /\ UNCHANGED <<ending, begun>>

(* A pointer into freed memory is followed: undefined, and not followed     *)
(* further here.                                                            *)
JoinWild ==
  /\ Idle /\ list # {} /\ Freed
  /\ list' = {}
  /\ UNCHANGED <<mapVars, ending, bytes, joined, begun>>

JInit ==
  /\ Init
  /\ ending = FALSE /\ list = {} /\ bytes = <<>> /\ joined = [k \in Key |-> 0] /\ begun = <<>>

JNext ==
  \/ ~ending /\ Call /\ UNCHANGED loopOfEnd
  \/ Loop /\ UNCHANGED loopOfEnd
  \/ BeginEnd
  \/ \E j \in DOMAIN bytes : JoinNext(j)
  \/ JoinWild

JSpec == JInit /\ [][JNext]_vars

-----------------------------------------------------------------------------
(* The loop of end() is over. *)
Over == Idle /\ ending /\ list = {}

EachJoinedOnce == \A e \in Entries(begun) : joined[e.key] = 1

(* "Wait for all threads to end, now that we've sent run=0": each thread    *)
(* that is registered is joined, once.                                      *)
JoinsEveryThread == Over => EachJoinedOnce

(* Three buckets in a row, the later two away from home: deleting the first *)
(* moves the third to where the second is looked for.                       *)
Chained ==
  \E j \in DOMAIN begun :
    {j + 1, j + 2} \subseteq DOMAIN begun /\ begun[j] # Free
    /\ begun[j + 1].dib > 1 /\ begun[j + 2].dib > 1

(* So far it does so all the same: no such row, and a table that cannot     *)
(* shrink below the walk.  Nothing is left registered then.                 *)
JoinedOnce ==
  Over /\ ~Chained /\ Cardinality(DOMAIN begun) = cap => EachJoinedOnce /\ count = 0

=============================================================================
