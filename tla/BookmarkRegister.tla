--------------------------- MODULE BookmarkRegister ---------------------------
(***************************************************************************)
(* What a bookmark promises the clients that change it: a request takes    *)
(* effect at one moment between its call and its answer, as a comparison   *)
(* of the revision and a change of the row in one, and its answer says     *)
(* what happened at that moment.  Snapshots, busy databases and second     *)
(* attempts do not show.                                                   *)
(***************************************************************************)
EXTENDS Integers

CONSTANT Client

VARIABLES revision, by,  \* the row; revision 0 when it is deleted
          call           \* the request of a client and what it will be told

vars == <<revision, by, call>>

NoCall == [outcome |-> "none"]

\* A request that has been called.
Called ==
  [does : {"update", "delete"}, expects : Nat \ {0}, id : Nat,
   outcome : {"open", "saved", "conflict", "error"}, shows : Nat]

Init == revision = 1 /\ by = 0 /\ call = [c \in Client |-> NoCall]

Call(c) ==
  /\ call[c] = NoCall
  /\ call'[c] \in Called /\ call'[c].outcome = "open" /\ call'[c].shows = 0
  /\ call' = [call EXCEPT ![c] = call'[c]]
  /\ UNCHANGED <<revision, by>>

Open(c) == call[c].outcome = "open"

Tell(c, outcome, shown) ==
  call' = [call EXCEPT ![c] = [does |-> @.does, expects |-> @.expects, id |-> @.id,
                               outcome |-> outcome, shows |-> shown]]

\* The row is what the request expects, and becomes what it asks for.
Save(c) ==
  /\ revision = call[c].expects
  /\ IF call[c].does = "delete" THEN revision' = 0 /\ by' = 0
     ELSE revision' = revision + 1 /\ by' = call[c].id
  /\ Tell(c, "saved", revision')

\* Another request was first; the client is shown the row it lost against.
Conflict(c) ==
  /\ revision # call[c].expects /\ Tell(c, "conflict", revision)
  /\ UNCHANGED <<revision, by>>

\* A request that fails has changed nothing.
Fail(c) == Tell(c, "error", 0) /\ UNCHANGED <<revision, by>>

Return(c) ==
  /\ call[c].outcome \in {"saved", "conflict", "error"}
  /\ call' = [call EXCEPT ![c] = NoCall] /\ UNCHANGED <<revision, by>>

Next ==
  \E c \in Client : \/ Call(c) \/ Return(c)
                    \/ Open(c) /\ (Save(c) \/ Conflict(c) \/ Fail(c))

Spec == Init /\ [][Next]_vars
=============================================================================
