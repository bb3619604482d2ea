-------------------------------- MODULE Line --------------------------------
(***************************************************************************)
(* One connection between a client and Arda, as both ends see it: what may  *)
(* be written, and what Arda promises to answer.  Arda implements it on     *)
(* every connection, and this is all that Son takes for granted of Arda.    *)
(***************************************************************************)
EXTENDS Sequences

CONSTANT Collides  \* Arda may read a user's name from memory it has freed

VARIABLES
  phase,    \* "greeting" until NEW_SON is answered, "talking", or "over"
  up,       \* Arda runs
  gone,     \* the client has closed, or died
  toArda,   \* requests written and not answered
  fromArda  \* answers on their way

vars == <<phase, gone, toArda, fromArda>>

Requests ==
  {"NEW_SON", "LIST_REQUEST", "NEW_MSG",
   "EXIT",             \* in the name of the user of this connection
   "another's EXIT",
   "other",            \* a packet that no client sends to Arda
   "invalid"}

(* Answers.  CONOK without data, "bye", is also sent unasked.               *)
Answers == {"list", "bye", "conko", "unknown"}

Says(a) == fromArda' = IF gone THEN fromArda ELSE Append(fromArda, a)

Init == phase = "greeting" /\ gone = FALSE /\ toArda \in {<<>>, <<"NEW_SON">>} /\ fromArda = <<>>

-----------------------------------------------------------------------------
(* The client. *)

Write(p) ==
  /\ phase # "over" /\ ~gone
  /\ toArda' = Append(toArda, p)
  /\ UNCHANGED <<phase, gone, fromArda>>

Read ==
  /\ fromArda # <<>>
  /\ fromArda' = Tail(fromArda)
  /\ UNCHANGED <<phase, gone, toArda>>

Leave == gone' = TRUE /\ fromArda' = <<>> /\ UNCHANGED <<phase, toArda>>

-----------------------------------------------------------------------------
(* Arda. *)

Asked(p) == toArda # <<>> /\ Head(toArda) = p /\ UNCHANGED gone
Goes     == toArda' = Tail(toArda)
HangsUp  == phase' = "over" /\ toArda' = <<>>

Welcome == Asked("NEW_SON") /\ phase = "greeting" /\ Says("list") /\ Goes /\ phase' = "talking"

(* The name is taken, or this is no way to greet. *)
Refuse ==
  /\ phase = "greeting" /\ \E p \in Requests \ {"invalid"} : Asked(p)
  /\ Says("conko") /\ HangsUp

Answer ==
  /\ phase = "talking" /\ UNCHANGED phase /\ toArda # <<>> /\ Goes
  /\ \/ Asked("LIST_REQUEST") /\ Says("list")
     \/ Asked("NEW_MSG") /\ UNCHANGED fromArda
     \/ Asked("EXIT") /\ Collides /\ Says("conko")
     \/ Asked("another's EXIT") /\ Says("conko")
     \/ \E p \in {"NEW_SON", "other"} : Asked(p) /\ Says("unknown")

(* The answer to EXIT, or of Arda's own accord: another session of the same *)
(* user took over, or the client is gone or writes what is not valid.       *)
Farewell == phase = "talking" /\ Says("bye") /\ HangsUp /\ UNCHANGED gone

(* Without a word: only to a client that is not yet in, or is gone, or when *)
(* Arda ends.                                                               *)
Silence ==
  /\ phase = "greeting" \/ (phase = "talking" /\ gone) \/ (phase # "over" /\ ~up')
  /\ HangsUp /\ UNCHANGED <<gone, fromArda>>

ArdaStep == Welcome \/ Refuse \/ Answer \/ Farewell \/ Silence

Next == Read \/ Leave \/ (\E p \in Requests : Write(p)) \/ ArdaStep

Spec == Init /\ [][Next]_vars

=============================================================================
