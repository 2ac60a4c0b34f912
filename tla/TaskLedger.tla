------------------------------ MODULE TaskLedger ------------------------------
(***************************************************************************)
(* What the task center (docs/specs/fr2-037-task-queue-center.md) promises *)
(* of its rows to those who submit, watch, cancel and retry tasks, without *)
(* the goroutines, cancel functions and statements that keep it.           *)
(*                                                                         *)
(* A row that runs has an owner, and only the owner settles it: once, for  *)
(* the run it took the row for, counting exactly one attempt.  A stop is   *)
(* asked for while the row is unfinished and takes effect later, whatever  *)
(* the row has become; the owner of a stopped row settles nothing any      *)
(* more.  A row that is reopened under an owner is overtaken: from then on *)
(* nothing is said of who settles it, and everything else still is.        *)
(***************************************************************************)
EXTENDS Integers

CONSTANTS Task, Worker, NoTask

VARIABLES
  state,      \* what the row shows
  run,        \* its runs so far: the submission and every reopening begin one
  spent,      \* attempts settled as failures in this run
  allowed,    \* attempts a run may take
  owner,      \* who settles the row: a set of one worker, or of none
  outcome,    \* the run whose success or failure the row shows
  overtaken,  \* it was reopened under an owner
  asked,      \* the row a stop was asked for
  mishaps     \* failed database operations

vars == <<state, run, spent, allowed, owner, outcome, overtaken, asked, mishaps>>

Init ==
  /\ state = [t \in Task |-> "absent"] /\ run = [t \in Task |-> 0]
  /\ spent = [t \in Task |-> 0] /\ allowed = [t \in Task |-> 1]
  /\ owner = [t \in Task |-> {}] /\ outcome = [t \in Task |-> 0]
  /\ overtaken = [t \in Task |-> FALSE] /\ asked = NoTask /\ mishaps = 0

Becomes(t, shown) == state' = [state EXCEPT ![t] = shown]
Disowned(t) == owner' = [owner EXCEPT ![t] = {}]

Submit(t) ==
  /\ state[t] = "absent" /\ Becomes(t, "pending") /\ run' = [run EXCEPT ![t] = 1]
  /\ allowed'[t] \in Nat \ {0} /\ allowed' = [allowed EXCEPT ![t] = allowed'[t]]
  /\ UNCHANGED <<spent, owner, outcome, overtaken, asked, mishaps>>

Take(t, w) ==
  /\ state[t] = "pending" /\ owner[t] = {} /\ Becomes(t, "running")
  /\ owner' = [owner EXCEPT ![t] = IF overtaken[t] THEN {} ELSE {w}]
  /\ UNCHANGED <<run, spent, allowed, outcome, overtaken, asked, mishaps>>

\* Who may settle a row, and for which run.
MaySettle(t, r) ==
  IF overtaken[t] THEN r \in 1..run[t] ELSE owner[t] # {} /\ r = run[t]

Succeed(t, r) ==
  /\ state[t] = "running" /\ MaySettle(t, r) /\ Becomes(t, "succeeded")
  /\ outcome' = [outcome EXCEPT ![t] = r] /\ Disowned(t)
  /\ UNCHANGED <<run, spent, allowed, overtaken, asked, mishaps>>

\* A failure is another attempt spent; with none left it is the outcome.
Fail(t, r, n) ==
  /\ state[t] = "running" /\ MaySettle(t, r)
  /\ overtaken[t] \/ n = spent[t] + 1
  /\ spent' = [spent EXCEPT ![t] = n] /\ Disowned(t)
  /\ IF n < allowed[t]
     THEN Becomes(t, "pending") /\ UNCHANGED outcome
     ELSE Becomes(t, "failed") /\ outcome' = [outcome EXCEPT ![t] = r]
  /\ UNCHANGED <<run, allowed, overtaken, asked, mishaps>>

\* The owner lets go of a row that was stopped; of one that runs only in a mishap.
LetGo(t) ==
  /\ owner[t] # {} /\ Disowned(t)
  /\ \/ state[t] = "canceled" /\ UNCHANGED mishaps
     \/ mishaps' = mishaps + 1
  /\ UNCHANGED <<state, run, spent, allowed, outcome, overtaken, asked>>

AskStop(t) ==
  /\ asked = NoTask /\ state[t] \in {"pending", "running"} /\ asked' = t
  /\ UNCHANGED <<state, run, spent, allowed, owner, outcome, overtaken, mishaps>>

Stop ==
  /\ asked \in Task /\ Becomes(asked, "canceled") /\ asked' = NoTask
  /\ UNCHANGED <<run, spent, allowed, owner, outcome, overtaken, mishaps>>

Reopen(t) ==
  /\ state[t] \in {"failed", "canceled"} /\ Becomes(t, "pending")
  /\ run' = [run EXCEPT ![t] = @ + 1] /\ spent' = [spent EXCEPT ![t] = 0]
  /\ overtaken' = [overtaken EXCEPT ![t] = @ \/ owner[t] # {}] /\ Disowned(t)
  /\ UNCHANGED <<allowed, outcome, asked, mishaps>>

\* A database operation fails; at worst it was the stop that was asked for.
Mishap ==
  /\ mishaps' = mishaps + 1 /\ asked' \in {asked, NoTask}
  /\ UNCHANGED <<state, run, spent, allowed, owner, outcome, overtaken>>

\* Nobody owns a row after a restart, and what was running waits again.
Restart ==
  /\ owner' = [t \in Task |-> {}] /\ asked' = NoTask
  /\ \/ /\ state' = [t \in Task |-> IF state[t] = "running" THEN "pending" ELSE state[t]]
        /\ UNCHANGED mishaps
     \/ mishaps' = mishaps + 1 /\ UNCHANGED state
  /\ UNCHANGED <<run, spent, allowed, outcome, overtaken>>

Next ==
  \/ \E t \in Task :
       \/ Submit(t) \/ \E w \in Worker : Take(t, w)
       \/ \E r \in 1..run[t] : Succeed(t, r) \/ \E n \in 1..allowed[t] : Fail(t, r, n)
       \/ LetGo(t) \/ AskStop(t) \/ Reopen(t)
  \/ Stop \/ Mishap \/ Restart

Spec == Init /\ [][Next]_vars
=============================================================================
