------------------------------- MODULE Shell -------------------------------
(***************************************************************************)
(* Commands run by a process with several threads (shellHelper.c): run()    *)
(* makes two pipes, forks, waits, and then reads the pipes.  A call of      *)
(* run() and the child it forks have one name.  What a child writes is      *)
(* counted, not spelled.                                                    *)
(***************************************************************************)
EXTENDS Integers, FiniteSets

CONSTANTS
  NULL,
  Call,       \* the calls of run(), each on a thread of its own
  Pipe,       \* the two pipes of a call: stdout and stderr
  PipeSize,   \* what a pipe holds
  MaxOutput,  \* bound: what a child writes into one pipe
  Code        \* the exit statuses of children: 0 is success

ASSUME ShellAssumption ==
  /\ NULL \notin Code \cup Call \cup Nat /\ 0 \in Code
  /\ IsFiniteSet(Call) /\ IsFiniteSet(Pipe)
  /\ PipeSize \in Nat \ {0} /\ MaxOutput \in Nat

VARIABLES
  pc,       \* of a call
  output,   \* what the child of a call writes in all, into each pipe
  exits,    \* its exit status
  child,    \* "none", "runs", "zombie", "reaped"
  wrote,    \* what the child has written so far
  read,     \* what the call has read
  returned, \* what it made of that: the length of a string, or NULL
  holders,  \* the processes that have the writing ends of a call's pipes:
            \* children, and NULL for this one
  status    \* what wait() stored

outside == <<output, exits>>
vars    == <<pc, child, wrote, read, returned, holders, status, outside>>

Goto(t, l) == pc' = [pc EXCEPT ![t] = l]

-----------------------------------------------------------------------------
(* run(), in the parent.                                                    *)

MakePipes(t) ==
  /\ pc[t] = "start"
  /\ holders' = [holders EXCEPT ![t] = {NULL}]
  /\ Goto(t, "fork")
  /\ UNCHANGED <<child, wrote, read, returned, status, outside>>

(* The child has what is open in the parent, and execv() keeps it: the      *)
(* writing ends of its own pipes, which it closes, or has as its stdout and *)
(* stderr, and those of any other call that is this far.                    *)
Fork(t) ==
  /\ pc[t] = "fork"
  /\ child' = [child EXCEPT ![t] = "runs"]
  /\ holders' = [u \in Call |-> IF NULL \in holders[u] THEN holders[u] \cup {t} ELSE holders[u]]
  /\ Goto(t, "close")
  /\ UNCHANGED <<wrote, read, returned, status, outside>>

(* The pipes stay open. *)
ForkFails(t) ==
  /\ pc[t] = "fork"
  /\ status' = [status EXCEPT ![t] = -1]
  /\ Goto(t, "over")
  /\ UNCHANGED <<child, wrote, read, returned, holders, outside>>

(* Mutant: the parent keeps its writing ends. *)
CloseEnds_not(t) ==
  /\ pc[t] = "close"
  /\ Goto(t, "wait")
  /\ UNCHANGED <<child, wrote, read, returned, holders, status, outside>>

CloseEnds(t) ==
  /\ pc[t] = "close"
  /\ holders' = [holders EXCEPT ![t] = @ \ {NULL}]
  /\ Goto(t, "wait")
  /\ UNCHANGED <<child, wrote, read, returned, status, outside>>

(* wait(&status): any child that has exited.  Mutant: the status is looked  *)
(* at, and the child left (WNOWAIT).                                        *)
Wait_nowait(t) ==
  /\ pc[t] = "wait"
  /\ \E u \in Call :
       /\ child[u] = "zombie"
       /\ status' = [status EXCEPT ![t] = exits[u]]
  /\ Goto(t, "read")
  /\ UNCHANGED <<child, wrote, read, returned, holders, outside>>

Wait(t) ==
  /\ pc[t] = "wait"
  /\ \E u \in Call :
       /\ child[u] = "zombie"
       /\ child' = [child EXCEPT ![u] = "reaped"]
       /\ status' = [status EXCEPT ![t] = exits[u]]
  /\ Goto(t, "read")
  /\ UNCHANGED <<wrote, read, returned, holders, outside>>

(* readPipe(): what is there is read; an empty pipe ends when nobody has    *)
(* its writing end.  stdout is read to its end before stderr.               *)
Unread(t, p) == wrote[t][p] - read[t][p]
Ended(t, p)  == Unread(t, p) = 0 /\ holders[t] = {}

ReadPipe(t, p) ==
  /\ pc[t] = "read" /\ Unread(t, p) > 0
  /\ p = "stderr" => Ended(t, "stdout")
  /\ read' = [read EXCEPT ![t][p] = @ + 1]
  /\ UNCHANGED <<pc, child, wrote, returned, holders, status, outside>>

(* Its string ends where the last byte was, if there was one. *)
Terminated(n) == IF n = 0 THEN NULL ELSE n - 1

(* Mutant: an empty pipe is taken for one that has ended. *)
Finish_empty(t) ==
  /\ pc[t] = "read" /\ \A p \in Pipe : Unread(t, p) = 0
  /\ returned' = [returned EXCEPT ![t] = [p \in Pipe |-> Terminated(read[t][p])]]
  /\ Goto(t, "over")
  /\ UNCHANGED <<child, wrote, read, holders, status, outside>>

Finish(t) ==
  /\ pc[t] = "read" /\ \A p \in Pipe : Ended(t, p)
  /\ returned' = [returned EXCEPT ![t] = [p \in Pipe |-> Terminated(read[t][p])]]
  /\ Goto(t, "over")
  /\ UNCHANGED <<child, wrote, read, holders, status, outside>>

run(t) ==
  \/ MakePipes(t) \/ Fork(t) \/ ForkFails(t) \/ CloseEnds(t)
  \/ Wait(t) \/ (\E p \in Pipe : ReadPipe(t, p)) \/ Finish(t)

-----------------------------------------------------------------------------
(* The child: it writes, and blocks while a pipe is full; then it exits.    *)

Writes(t, p) ==
  /\ child[t] = "runs" /\ wrote[t][p] < output[t][p] /\ Unread(t, p) < PipeSize
  /\ wrote' = [wrote EXCEPT ![t][p] = @ + 1]
  /\ UNCHANGED <<pc, child, read, returned, holders, status, outside>>

Exits(t) ==
  /\ child[t] = "runs" /\ wrote[t] = output[t]
  /\ child' = [child EXCEPT ![t] = "zombie"]
  /\ holders' = [u \in Call |-> holders[u] \ {t}]
  /\ UNCHANGED <<pc, wrote, read, returned, status, outside>>

childStep(t) == (\E p \in Pipe : Writes(t, p)) \/ Exits(t)

-----------------------------------------------------------------------------
Init ==
  /\ pc = [t \in Call |-> "start"]
  /\ output \in [Call -> [Pipe -> 0..MaxOutput]]
  /\ exits \in [Call -> Code]
  /\ child = [t \in Call |-> "none"]
  /\ wrote = [t \in Call |-> [p \in Pipe |-> 0]] /\ read = wrote
  /\ returned = [t \in Call |-> [p \in Pipe |-> NULL]]
  /\ holders = [t \in Call |-> {}]
  /\ status = [t \in Call |-> NULL]

Next == \E t \in Call : run(t) \/ childStep(t)

Spec == Init /\ [][Next]_vars

(* Threads and children are scheduled; nobody has to call run(). *)
FairSpec ==
  /\ Spec
  /\ \A t \in Call : WF_vars(run(t) /\ pc[t] # "start") /\ WF_vars(childStep(t))

-----------------------------------------------------------------------------
(* Properties.                                                              *)

(* wait() never lacks a child, though any call may take any other's: there  *)
(* is an unreaped child for every call that still is to wait, so that the   *)
(* status is never read uninitialized.                                      *)
WaitsFindAChild ==
  Cardinality({t \in Call : pc[t] \in {"close", "wait"}})
    = Cardinality({u \in Call : child[u] \in {"runs", "zombie"}})

(* A call returns what its own child wrote, even when it was woken by the   *)
(* end of another: all but the last byte, which readPipe() takes for the    *)
(* newline that a command ends its output with, and NULL when there was     *)
(* none.                                                                    *)
OutputReturned ==
  \A t \in Call, p \in Pipe :
    pc[t] = "over" /\ child[t] # "none" => returned[t][p] = Terminated(output[t][p])

(* For FairSpec: if what every command writes fits into a pipe, every call  *)
(* returns.                                                                 *)
AllFit == \A t \in Call, p \in Pipe : output[t][p] <= PipeSize
RunReturns == AllFit => \A t \in Call : pc[t] = "fork" ~> pc[t] = "over"

=============================================================================
