------------------------------ MODULE WatchState ------------------------------
(***************************************************************************)
(* The watch state of one media file: the reporter of each playing session *)
(* (packages/player-core/src/watch-state-reporter.ts), the network, and    *)
(* the handlers of the server that write watch_states by compare-and-swap  *)
(* on its revision (internal/library/watch_state_source.go, _repository.go,*)
(* watch_state.go).                                                        *)
(*                                                                         *)
(* A transaction reads, then writes: with WAL and eight connections others *)
(* come in between.  Its reads are one step, its writes another.           *)
(***************************************************************************)
EXTENDS Integers

CONSTANTS Session, Handler,
          ReportInput,    \* what players report: [type, pos, reason]
          Position, Duration,   \* in seconds; Duration = 0 when unknown
          Activity,       \* what `foreground` and `playing` may be at a conflict
          None,
          MaxReports,     \* bound: reports of a session
          MaxDuplicates, MaxFailures, MaxLegacy

LegacySession == {"legacy-position", "legacy-watched"}
EventType == {"progress", "pause", "seek", "ended"}
Reason == {"user", "ab_loop", "restore", "system"}

ASSUME WatchStateAssumption ==
  /\ Session \cap LegacySession = {} /\ None \notin Session \cup LegacySession
  /\ Duration \in Nat /\ Position \subseteq Nat
  /\ ReportInput \subseteq [type : EventType, pos : Nat, reason : Reason]
  /\ Activity \subseteq BOOLEAN
  /\ MaxReports \in Nat /\ MaxDuplicates \in Nat /\ MaxFailures \in Nat /\ MaxLegacy \in Nat

VARIABLES
  row,       \* the row of watch_states; rev = 0 while there is none
  views,     \* view_count in media_files
  status, known, nextSeq, flight, pending,  \* reporters
  net,       \* requests on the way to the server
  answer,    \* per session, the response on the way to it
  job,       \* per handler goroutine, the request it works on
  stored,    \* history: per session, the last event_seq that was stored
  made, duplicates, failures, legacies

repVars   == <<status, known, nextSeq, flight, pending, made>>
rowVars   == <<row, views, stored>>
bounds    == <<duplicates, failures, legacies>>
vars == <<rowVars, repVars, net, answer, job, bounds>>

View(w) == [rev |-> w.rev, done |-> w.done, pos |-> w.pos]

-----------------------------------------------------------------------------
(* effectiveWatchDuration, shouldCompleteWatch, deriveNextWatchState.      *)

Clip(p) == IF Duration > 0 /\ p > Duration THEN Duration ELSE p

NearEnd(p) ==
  /\ Duration > 0
  /\ 100 * p >= 95 * Duration \/ (Duration - p <= 15 /\ 10 * p >= 8 * Duration)

Completes(r) == r.reason # "ab_loop" /\ (r.type = "ended" \/ NearEnd(Clip(r.pos)))

Derived(w, q) ==
  [rev |-> w.rev + 1, done |-> Completes(q.rep),
   pos |-> IF Completes(q.rep) THEN 0 ELSE Clip(q.rep.pos),
   sess |-> q.sess, seq |-> q.seq]

\* completedTransition.
CountsView_EveryEnd(w, q) == Completes(q.rep)
CountsView(w, q) == Completes(q.rep) /\ ~w.done

\* The event of the same session that was stored last, or one before it.
Repeated(q) == q.sess = row.sess /\ q.seq <= row.seq

\* ExpectedRevision against the revision that was read.
Outdated_Never(q) == FALSE
Outdated(q) == q.exp # row.rev

\* PersistState: WHERE revision = ..., or the primary key for the first row.
Swaps_Blindly(h) == TRUE
Swaps(h) == row.rev = job[h].base.rev

-----------------------------------------------------------------------------
(* The reporter.                                                           *)

\* mergePending: `ended` first, then what is no periodic progress, then the newer.
Keeps(old, new) ==
  \/ old.rep.type = "ended"
  \/ old.rep.type # "progress" /\ new.rep.type = "progress"
Merge(old, new) == IF old # None /\ new.rep.type # "ended" /\ Keeps(old, new) THEN old ELSE new

\* start, createEvent: the report goes out with the next event_seq and the revision
\* the reporter knows.  `k` is what it knows after this step.
Start(s, p, k) ==
  /\ flight' = [flight EXCEPT ![s] = [seq |-> nextSeq[s], rep |-> p.rep, retried |-> p.retried]]
  /\ net' = net \cup {[sess |-> s, seq |-> nextSeq[s], exp |-> k.rev, rep |-> p.rep]}
  /\ nextSeq' = [nextSeq EXCEPT ![s] = @ + 1]

\* A player is mounted with the state that was fetched.
Open(s) ==
  /\ status[s] = "new"
  /\ status' = [status EXCEPT ![s] = "open"]
  /\ known' = [known EXCEPT ![s] = View(row)]
  /\ UNCHANGED <<rowVars, nextSeq, flight, pending, made, net, answer, job, bounds>>

Report(s, r) ==
  /\ status[s] = "open" /\ made[s] < MaxReports /\ made' = [made EXCEPT ![s] = @ + 1]
  /\ LET p == [rep |-> r, retried |-> FALSE] IN
     IF flight[s] = None
     THEN Start(s, p, known[s]) /\ UNCHANGED pending
     ELSE pending' = [pending EXCEPT ![s] = Merge(@, p)] /\ UNCHANGED <<flight, net, nextSeq>>
  /\ UNCHANGED <<rowVars, status, known, answer, job, bounds>>

\* close: the last report goes out only when nothing is in flight.
Close(s) ==
  /\ status[s] = "open"
  /\ status' = [status EXCEPT ![s] = "closed"]
  /\ pending' = [pending EXCEPT ![s] = None]
  /\ \/ UNCHANGED <<flight, net, nextSeq, made>>
     \/ \E r \in ReportInput :
          /\ flight[s] = None /\ made[s] < MaxReports /\ made' = [made EXCEPT ![s] = @ + 1]
          /\ Start(s, [rep |-> r, retried |-> FALSE], known[s])
  /\ UNCHANGED <<rowVars, known, answer, job, bounds>>

Dispose(s) ==
  /\ status[s] \in {"open", "closed"}
  /\ status' = [status EXCEPT ![s] = "disposed"]
  /\ pending' = [pending EXCEPT ![s] = None]
  /\ UNCHANGED <<rowVars, known, nextSeq, flight, made, net, answer, job, bounds>>

\* shouldRetry, but for what the player is doing.
Retriable_Again(s) == answer[s].kind = "conflict" /\ status[s] = "open" /\ pending[s] = None
Retriable(s) ==
  /\ answer[s].kind = "conflict" /\ ~flight[s].retried
  /\ status[s] = "open" /\ pending[s] = None

\* retryReport: the same event at the position the player is at now.
Retry(s, pos) == [rep |-> [flight[s].rep EXCEPT !.pos = pos], retried |-> TRUE]

UserSeek(s) == flight[s].rep.type = "seek" /\ flight[s].rep.reason = "user"

\* acceptResult.
Accepted_NotConflicts(s) == IF answer[s].kind = "applied" THEN answer[s].view ELSE known[s]
Accepted(s) == answer[s].view

\* The `finally` of send: what is pending goes out, unless the reporter is closed.
Proceed(s, p, k) ==
  /\ answer' = [answer EXCEPT ![s] = None]
  /\ IF status[s] = "open" /\ p # None
     THEN Start(s, p, k) /\ pending' = [pending EXCEPT ![s] = None]
     ELSE flight' = [flight EXCEPT ![s] = None] /\ UNCHANGED <<net, nextSeq, pending>>

Receive(s) ==
  /\ flight[s] # None /\ answer[s] # None /\ answer[s].kind # "error"
  /\ LET k == IF status[s] = "disposed" THEN known[s] ELSE Accepted(s) IN
     /\ known' = [known EXCEPT ![s] = k]
     /\ \/ /\ Retriable(s)
           /\ \E foreground \in Activity, playing \in Activity, pos \in Position :
                Proceed(s, IF foreground /\ (playing \/ UserSeek(s)) THEN Retry(s, pos) ELSE None, k)
        \/ ~Retriable(s) /\ Proceed(s, pending[s], k)
  /\ UNCHANGED <<rowVars, status, made, job, bounds>>

\* The request fails, or its response is lost: the report is given up.
Fail(s) ==
  /\ flight[s] # None
  /\ \/ answer[s] # None /\ answer[s].kind = "error" /\ UNCHANGED failures
     \/ failures < MaxFailures /\ failures' = failures + 1
  /\ Proceed(s, pending[s], known[s])
  /\ UNCHANGED <<rowVars, status, known, made, job, duplicates, legacies>>

-----------------------------------------------------------------------------
(* The server: ApplyWatchEventInSpace and the endpoints without sessions.  *)

NoRow == [rev |-> 0, done |-> FALSE, pos |-> 0, sess |-> None, seq |-> 0]

Job(at, q, round) == [at |-> at, req |-> q, base |-> NoRow, tries |-> 0, round |-> round]

\* A request may arrive late, twice, or never.
Deliver(h, q) ==
  /\ job[h] = None /\ q \in net /\ job' = [job EXCEPT ![h] = Job("read", q, 1)]
  /\ \/ net' = net \ {q} /\ UNCHANGED duplicates
     \/ duplicates < MaxDuplicates /\ duplicates' = duplicates + 1 /\ UNCHANGED net
  /\ UNCHANGED <<rowVars, repVars, answer, failures, legacies>>

\* UpdateWatchPositionInSpace, MarkWatchedInSpace.
LegacyReport(sess, pos) ==
  IF sess = "legacy-watched" THEN [type |-> "ended", pos |-> 0, reason |-> "user"]
                             ELSE [type |-> "progress", pos |-> pos, reason |-> "user"]

CallLegacy(h, sess, pos) ==
  /\ job[h] = None /\ legacies < MaxLegacy /\ legacies' = legacies + 1
  /\ LET q == [sess |-> sess, seq |-> 0, exp |-> 0, rep |-> LegacyReport(sess, pos)]
     IN job' = [job EXCEPT ![h] = Job("load", q, 1)]
  /\ UNCHANGED <<rowVars, repVars, net, answer, duplicates, failures>>

\* applyLegacyWatchEvent numbers its event after the one it loads.
LegacySeq_Same(sess) == IF row.sess = sess THEN row.seq ELSE 1
LegacySeq(sess) == IF row.sess = sess THEN row.seq + 1 ELSE 1

LoadLegacy(h) ==
  /\ job[h] # None /\ job[h].at = "load"
  /\ LET q == [job[h].req EXCEPT !.seq = LegacySeq(job[h].req.sess), !.exp = row.rev]
     IN job' = [job EXCEPT ![h] = Job("read", q, job[h].round)]
  /\ UNCHANGED <<rowVars, repVars, net, answer, bounds>>

\* The response reaches the reporter if it still waits for this very request.
Respond(h, kind, w) ==
  LET s == job[h].req.sess IN
  /\ job' = [job EXCEPT ![h] = None]
  /\ answer' = IF flight[s] # None /\ flight[s].seq = job[h].req.seq /\ answer[s] = None
               THEN [answer EXCEPT ![s] = [kind |-> kind, view |-> View(w)]] ELSE answer

\* A legacy endpoint starts again after a conflict, three times in all.
Return(h, kind) ==
  /\ job' = [job EXCEPT ![h] =
       CASE kind = "applied" -> [job[h] EXCEPT !.at = "ok"]
         [] kind = "conflict" /\ job[h].round < 3 -> Job("load", job[h].req, job[h].round + 1)
         [] OTHER -> None]
  /\ UNCHANGED answer

Finish(h, kind, w) ==
  IF job[h].req.sess \in Session THEN Respond(h, kind, w) ELSE Return(h, kind)

\* applyWatchEventOnce up to its first write.
Examine(h) ==
  /\ job[h] # None /\ job[h].at = "read"
  /\ LET q == job[h].req IN
     \/ Repeated(q) /\ Finish(h, "applied", row)
     \/ ~Repeated(q) /\ Outdated(q) /\ Finish(h, "conflict", row)
     \/ /\ ~Repeated(q) /\ ~Outdated(q)
        /\ job' = [job EXCEPT ![h].at = "write", ![h].base = row]
        /\ UNCHANGED answer
  /\ UNCHANGED <<rowVars, repVars, net, bounds>>

\* PersistState and ProjectState commit together.
Persist(h) ==
  /\ job[h] # None /\ job[h].at = "write"
  /\ LET q == job[h].req IN
     \/ /\ Swaps(h)
        /\ row' = Derived(job[h].base, q)
        /\ views' = IF CountsView(job[h].base, q) THEN views + 1 ELSE views
        /\ stored' = IF q.sess \in Session THEN [stored EXCEPT ![q.sess] = q.seq] ELSE stored
        /\ Finish(h, "applied", row')
     \/ ~Swaps(h) /\ Finish(h, "conflict", row) /\ UNCHANGED rowVars
  /\ UNCHANGED <<repVars, net, bounds>>

\* `attempt < 3` in ApplyWatchEventInSpace.
AttemptsLeft_OneMore(h) == job[h].tries < 3
AttemptsLeft(h) == job[h].tries < 2

\* `database is locked`: another connection has written since the read, or holds the
\* lock.  Three attempts in all, then the caller gets an error.
Busy(h) ==
  /\ job[h] # None /\ job[h].at = "write"
  /\ \/ ~Swaps(h) /\ UNCHANGED failures
     \/ failures < MaxFailures /\ failures' = failures + 1
  /\ IF AttemptsLeft(h)
     THEN /\ job' = [job EXCEPT ![h].at = "read", ![h].base = NoRow, ![h].tries = @ + 1]
          /\ UNCHANGED answer
     ELSE Finish(h, "error", row)
  /\ UNCHANGED <<rowVars, repVars, net, duplicates, legacies>>

LegacyDone(h) ==
  /\ job[h] # None /\ job[h].at = "ok" /\ job' = [job EXCEPT ![h] = None]
  /\ UNCHANGED <<rowVars, repVars, net, answer, bounds>>

-----------------------------------------------------------------------------

Init ==
  /\ row = NoRow /\ views = 0 /\ stored = [s \in Session |-> 0]
  /\ status = [s \in Session |-> "new"] /\ known = [s \in Session |-> View(NoRow)]
  /\ nextSeq = [s \in Session |-> 1] /\ made = [s \in Session |-> 0]
  /\ flight = [s \in Session |-> None] /\ pending = flight /\ answer = flight
  /\ net = {} /\ job = [h \in Handler |-> None]
  /\ duplicates = 0 /\ failures = 0 /\ legacies = 0

Reporter(s) ==
  \/ Open(s) \/ Close(s) \/ Dispose(s) \/ Receive(s) \/ Fail(s)
  \/ \E r \in ReportInput : Report(s, r)

Server(h) ==
  \/ \E q \in net : Deliver(h, q)
  \/ \E sess \in LegacySession, pos \in Position : CallLegacy(h, sess, pos)
  \/ LoadLegacy(h) \/ Examine(h) \/ Persist(h) \/ Busy(h) \/ LegacyDone(h)

Next == (\E s \in Session : Reporter(s)) \/ (\E h \in Handler : Server(h))

Spec == Init /\ [][Next]_vars

-----------------------------------------------------------------------------

StateView == [rev : Nat, done : BOOLEAN, pos : Nat]
AnyReport == [type : EventType, pos : Nat, reason : Reason]
Waiting   == [rep : AnyReport, retried : BOOLEAN]
InFlight  == [seq : Nat, rep : AnyReport, retried : BOOLEAN]
Reply     == [kind : {"applied", "conflict", "error"}, view : StateView]
Request   == [sess : Session \cup LegacySession, seq : Nat, exp : Nat, rep : AnyReport]
RowType   == [rev : Nat, done : BOOLEAN, pos : Nat,
              sess : {None} \cup Session \cup LegacySession, seq : Nat]
JobType   == [at : {"load", "read", "write", "ok"}, req : Request, base : RowType,
              tries : 0..2, round : 1..3]

\* Every variable keeps its type; in particular no transaction is tried more than
\* three times and no legacy call starts a fourth round.
TypeOK ==
  /\ row \in RowType /\ views \in Nat /\ stored \in [Session -> Nat]
  /\ status \in [Session -> {"new", "open", "closed", "disposed"}]
  /\ known \in [Session -> StateView] /\ nextSeq \in [Session -> Nat \ {0}]
  /\ flight \in [Session -> {None} \cup InFlight] /\ pending \in [Session -> {None} \cup Waiting]
  /\ answer \in [Session -> {None} \cup Reply]
  /\ \A q \in net : q \in Request /\ q.sess \in Session
  /\ job \in [Handler -> {None} \cup JobType]
  /\ made \in [Session -> 0..MaxReports] /\ duplicates \in 0..MaxDuplicates
  /\ failures \in 0..MaxFailures /\ legacies \in 0..MaxLegacy

\* However requests are delayed, repeated and interleaved with other writers, the
\* row is the register that WatchRegister describes: no accepted write is lost, a
\* late report never undoes a later one, and views counts completions.
Register == INSTANCE WatchRegister WITH
  rev <- row.rev, done <- row.done, views <- views, latest <- stored
IsRegister == Register!Spec

\* A revision stands for one state: a reporter that knows the current revision
\* knows the current state, whatever answers it missed.
KnownIsCurrent ==
  \A s \in Session : known[s].rev = row.rev => known[s] = View(row)

\* A report is sent at most twice: a conflict is retried once, also when the retry
\* meets another conflict.
RetriesAreBounded == \A s \in Session : nextSeq[s] - 1 <= 2 * made[s]

\* A legacy endpoint that answers success has stored its event or was overtaken by
\* another write after it loaded the state: it never drops one silently.
LegacyIsHonest ==
  \A h \in Handler : job[h] # None /\ job[h].at = "ok" => row.rev > job[h].req.exp

\* A reporter that is alone and keeps playing: when an answer leaves it with nothing
\* to send, the newest event it sent is the one in the row, also after answers that
\* were lost and requests that came late.
Alone(s) == legacies = 0 /\ \A t \in Session \ {s} : status[t] = "new"
LoneReportIsStored ==
  [][\A s \in Session :
       Alone(s) /\ status[s] = "open" /\ Receive(s) /\ ~Retriable(s) /\ flight'[s] = None =>
         row'.sess = s /\ row'.seq = nextSeq'[s] - 1]_vars

-----------------------------------------------------------------------------
(* What the repository says and the code does not do.                      *)

\* UpdateWatchPosition: "only updates the position, does not touch watched".
PositionKeepsWatched ==
  [][row'.sess = "legacy-position" /\ row'.rev # row.rev => row'.done = row.done]_vars
=============================================================================
