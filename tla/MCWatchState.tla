---------------------------- MODULE MCWatchState ----------------------------
(* WatchState for TLC: what players report in a film of 100 seconds.       *)
EXTENDS WatchState, TLC, FiniteSetsExt

Input(type, pos, reason) == [type |-> type, pos |-> pos, reason |-> reason]
MCReports ==
  { Input("progress", 40, "system"), Input("seek", 96, "user"), Input("ended", 100, "ab_loop") }
MCFewReports == { Input("progress", 40, "system"), Input("ended", 100, "system") }

\* Two reports, by whoever makes them, or one among two legacy calls, which make it
\* conflict twice when nothing else goes wrong.
Reports == MapThenSumSet(LAMBDA s : made[s], Session)
FewCalls ==
  \/ Reports + legacies <= 2
  \/ Reports = 1 /\ legacies = 2 /\ duplicates = 0 /\ failures = 0

Symmetry == Permutations(Session) \cup Permutations(Handler)
=============================================================================
