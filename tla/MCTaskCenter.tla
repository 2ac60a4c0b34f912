---------------------------- MODULE MCTaskCenter ----------------------------
(* TaskCenter for TLC: tasks and workers are interchangeable.              *)
EXTENDS TaskCenter, TLC

Symmetry == Permutations(Task) \cup Permutations(Worker)
\* One row meets retries, a restart and a failure; as soon as there is a second one,
\* the two meet one retry of one of them and nothing else.
BothRows == \A t \in Task : status[t] # "absent"
FewWhenBoth ==
  BothRows =>
    /\ restarts = 0 /\ faults = 0
    /\ \A t \in Task : limit[t] = 1 /\ gen[t] <= 2
    /\ \E t \in Task : gen[t] <= 1
=============================================================================
