---------------------------- MODULE MCTaskPools ----------------------------
(* TaskPools for TLC: a goroutine is named by its pass, its type and its   *)
(* number, and tasks alternate between the types.                          *)
EXTENDS TaskPools, TLC, SequencesExt

MCWorker == Pass \X Type \X {1}
MCPassOf == [w \in MCWorker |-> w[1]]
MCServes == [w \in MCWorker |-> w[2]]
MCConcurrency == [y \in Type |-> 1]

Nth(S, i) == SetToSeq(S)[((i - 1) % Cardinality(S)) + 1]
MCKind == [t \in Task |-> Nth(Type, CHOOSE i \in 1..Cardinality(Task) : Nth(Task, i) = t)]
=============================================================================
