---------------------------- MODULE ClaimFairness ----------------------------
(***************************************************************************)
(* Which row Service.ClaimNext (internal/tasks/service.go) takes among the *)
(* pending rows of one task type.  Rows are identified by their creation   *)
(* order: `queue` lists the priorities of the pending rows, oldest first.  *)
(*                                                                         *)
(* ClaimNext builds two queries from one gorm handle.  The handle is not a *)
(* fresh session, so the ORDER BY of the first query (firstPending) is     *)
(* still in front of the ORDER BY of the second (oldestLowerPriority):     *)
(* both queries sort by priority first.                                    *)
(***************************************************************************)
EXTENDS Integers, Sequences, SequencesExt

CONSTANTS Priority,     \* priorities in use
          None,         \* no priority yet
          Limit,        \* fairnessHighPriorityLimit
          Capacity,     \* bound: pending rows at a time
          MaxRestarts   \* bound: restarts, which forget priorityStreak

ASSUME ClaimFairnessAssumption ==
  /\ Priority \subseteq Int /\ None \notin Priority /\ Limit \in Nat \ {0}
  /\ Capacity \in Nat /\ MaxRestarts \in Nat

VARIABLES queue,      \* priorities of the pending rows, by created_at, id
          streak,     \* priorityStreak of the type, capped at Limit
          last,       \* history: priority of the latest claim
          passedOver, \* history: claims since a row below the top last had its turn,
                      \*   (capped beyond what BoundedBypass allows)
          restarts

vars == <<queue, streak, last, passedOver, restarts>>

Waiting(p) == \E i \in DOMAIN queue : queue[i] = p

\* firstPending: ORDER BY priority DESC, created_at ASC, id ASC.
IsFirst(i, rows) ==
  /\ i \in rows
  /\ \A j \in rows : queue[j] < queue[i] \/ (queue[j] = queue[i] /\ i <= j)

Top(i) == IsFirst(i, DOMAIN queue)

\* oldestLowerPriority, with the order it inherits.
Lower(i, top) == IsFirst(i, {j \in DOMAIN queue : queue[j] < queue[top]})

HasLower(top) == \E j \in DOMAIN queue : queue[j] < queue[top]

LetsLowerPass_Late == streak > Limit
LetsLowerPass == streak >= Limit

Longer_Never(n) == n
Longer(n) == IF n < Limit THEN n + 1 ELSE n

\* The history is not counted further than BoundedBypass can be violated.
Counted(n) == IF n <= Limit * (MaxRestarts + 1) THEN n + 1 ELSE n

-----------------------------------------------------------------------------

Init == queue = <<>> /\ streak = 0 /\ last = None /\ passedOver = 0 /\ restarts = 0

Enqueue(p) ==
  /\ Len(queue) < Capacity /\ queue' = Append(queue, p)
  /\ UNCHANGED <<streak, last, passedOver, restarts>>

Take(i) == queue' = RemoveAt(queue, i) /\ last' = queue[i]

\* The row of highest priority; the streak grows also when nothing else waits.
ClaimTop ==
  \E i \in DOMAIN queue :
    /\ Top(i) /\ ~(LetsLowerPass /\ HasLower(i))
    /\ Take(i) /\ streak' = Longer(streak)
    /\ passedOver' = IF HasLower(i) THEN Counted(passedOver) ELSE 0
    /\ UNCHANGED restarts

\* After Limit claims in a row at the top, a row of lower priority.
ClaimLower ==
  \E i, j \in DOMAIN queue :
    /\ Top(i) /\ LetsLowerPass /\ Lower(j, i)
    /\ Take(j) /\ streak' = 0 /\ passedOver' = 0
    /\ UNCHANGED restarts

ClaimNext == ClaimTop \/ ClaimLower

Restart ==
  /\ restarts < MaxRestarts /\ restarts' = restarts + 1 /\ streak' = 0
  /\ UNCHANGED <<queue, last, passedOver>>

Next == (\E p \in Priority : Enqueue(p)) \/ ClaimNext \/ Restart

Spec == Init /\ [][Next]_vars

\* Workers keep asking for rows (TaskPools shows that they do).
FairSpec == Spec /\ WF_vars(ClaimNext)

-----------------------------------------------------------------------------

\* No more than Limit claims in a row pass over a waiting row of lower priority,
\* counted anew after each restart.
BoundedBypass == passedOver <= Limit * (restarts + 1)

\* A row that waits is claimed eventually, however many rows of higher priority
\* keep arriving: rows of one priority are claimed in order, so it is enough
\* that its priority is claimed again and again.
NoStarvation == \A p \in Priority : Waiting(p) ~> last = p
=============================================================================
