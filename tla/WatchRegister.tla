---------------------------- MODULE WatchRegister ----------------------------
(***************************************************************************)
(* What the watch state of one media file promises its writers: writes     *)
(* take effect one after the other, each on the revision before it.  A     *)
(* session's reports take effect at most once and in the order in which    *)
(* they were made, and view_count counts how often the file became         *)
(* completed (docs/specs/fr2-045-cross-device-watch-history.md).           *)
(***************************************************************************)
EXTENDS Integers

CONSTANT Session

VARIABLES rev, done, views,
          latest      \* per session, the number of its last report in effect
vars == <<rev, done, views, latest>>

Init == rev = 0 /\ done = FALSE /\ views = 0 /\ latest = [s \in Session |-> 0]

Write(completed) ==
  /\ rev' = rev + 1 /\ done' = completed
  /\ views' = IF completed /\ ~done THEN views + 1 ELSE views

\* Its number is any that is later than the last one in effect.
Report(s, completed) ==
  /\ Write(completed)
  /\ latest'[s] \in Nat /\ latest'[s] > latest[s]
  /\ latest' = [latest EXCEPT ![s] = latest'[s]]

\* A write through the endpoints that know no sessions.
Plain(completed) == Write(completed) /\ UNCHANGED latest

Next ==
  \E completed \in BOOLEAN : Plain(completed) \/ \E s \in Session : Report(s, completed)

Spec == Init /\ [][Next]_vars
=============================================================================
