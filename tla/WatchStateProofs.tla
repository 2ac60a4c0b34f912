-------------------------- MODULE WatchStateProofs --------------------------
(***************************************************************************)
(* Theorems about WatchState, for every number of sessions, handlers,      *)
(* reports, duplicates and failures, and every set of reports: the state   *)
(* implements WatchRegister.  The argument is about revisions: a request   *)
(* carries the revision its reporter knew, reporters know ever later       *)
(* revisions, and whatever is stored makes the current one later still.    *)
(***************************************************************************)
EXTENDS WatchState, TLAPS

\* A copy of the state is old, or it is the current state.
FromPast(v) == v.rev <= row.rev /\ (v.rev = row.rev => v = View(row))

\* What reporters know, what answers tell them and what transactions have read.
Copies ==
  /\ row.rev = 0 => row = NoRow
  /\ \A s \in Session :
       /\ FromPast(known[s])
       /\ answer[s] # None => FromPast(answer[s].view) /\ known[s].rev <= answer[s].view.rev
  /\ \A h \in Handler : job[h] # None /\ job[h].at = "write" =>
       /\ job[h].base.rev = job[h].req.exp /\ job[h].base.rev <= row.rev
       /\ job[h].base.rev = row.rev => job[h].base = row

\* A reporter that waits for no answer gets none, and a new one waits for none.
Waits ==
  \A s \in Session :
    (answer[s] # None => flight[s] # None) /\ (status[s] = "new" => flight[s] = None)

\* The requests of reporters that may still take effect.
AtWork == {h \in Handler : job[h] # None}
Sent == {q \in net \cup {job[h].req : h \in AtWork} : q.sess \in Session}

\* A later request of a session expects no earlier revision, and what is stored has
\* left behind the revisions all requests up to it expect.
Ordered ==
  /\ \A s \in Session : stored[s] < nextSeq[s]
  /\ \A q \in Sent : q.seq < nextSeq[q.sess] /\ q.exp <= known[q.sess].rev
  /\ \A q \in Sent : q.seq <= stored[q.sess] => q.exp < row.rev
  /\ \A q, r \in Sent : q.sess = r.sess /\ q.seq <= r.seq => q.exp <= r.exp

\* What a session may still send for the reports it was given.
Fresh(s) == IF flight[s] # None /\ flight[s].retried = FALSE THEN 1 ELSE 0
Queued(s) == IF pending[s] # None THEN 2 ELSE 0
Credit(s) == Fresh(s) + Queued(s)
Budget ==
  \A s \in Session :
    /\ pending[s] # None => pending[s].retried = FALSE
    /\ nextSeq[s] - 1 + Credit(s) <= 2 * made[s]

\* A legacy event takes its number from the state it expects, so that it looks like a
\* repetition only after that state has been overwritten.
Honest ==
  \A h \in Handler : job[h] # None =>
    /\ job[h].at \in {"load", "ok"} => job[h].req.sess \in LegacySession
    /\ job[h].at = "ok" => row.rev > job[h].req.exp
    /\ job[h].at \in {"read", "write"} /\ job[h].req.sess \in LegacySession =>
         /\ job[h].req.exp <= row.rev
         /\ job[h].req.exp = row.rev => ~Repeated(job[h].req)

IInv == TypeOK /\ Waits /\ Copies /\ Ordered /\ Budget /\ Honest

-----------------------------------------------------------------------------

\* The state a row shows is of the type reporters know.
LEMMA ViewType == \A w \in RowType : View(w) \in StateView
BY DEF View, RowType, StateView

\* No row and a row derived from a request are of the type of rows.
LEMMA RowTypes ==
  /\ NoRow \in RowType
  /\ \A w \in RowType, q \in Request : Derived(w, q) \in RowType
<1> USE WatchStateAssumption DEF RowType, Request, AnyReport
<1>1. NoRow \in RowType
  BY DEF NoRow
<1>2. ASSUME NEW w \in RowType, NEW q \in Request PROVE Derived(w, q) \in RowType
  <2>1. Clip(q.rep.pos) \in Nat
    BY DEF Clip
  <2>2. Completes(q.rep) \in BOOLEAN
    BY DEF Completes
  <2> QED  BY <2>1, <2>2 DEF Derived
<1> QED  BY <1>1, <1>2

\* A new job is of the type of jobs.
LEMMA NewJob ==
  ASSUME NEW at \in {"load", "read"}, NEW q \in Request, NEW round \in 1..3
  PROVE  Job(at, q, round) \in JobType
BY RowTypes DEF Job, JobType

\* Sending keeps the types.
LEMMA StartTypes ==
  ASSUME TypeOK, NEW s \in Session, NEW p \in Waiting, NEW k \in StateView, Start(s, p, k)
  PROVE  /\ flight' \in [Session -> {None} \cup InFlight]
         /\ nextSeq' \in [Session -> Nat \ {0}]
         /\ \A q \in net' : q \in Request /\ q.sess \in Session
<1>1. nextSeq[s] \in Nat \ {0}
  BY DEF TypeOK
<1>2. [seq |-> nextSeq[s], rep |-> p.rep, retried |-> p.retried] \in InFlight
  BY <1>1 DEF Waiting, InFlight
<1>3. [sess |-> s, seq |-> nextSeq[s], exp |-> k.rev, rep |-> p.rep] \in Request
  BY <1>1 DEF Waiting, Request, StateView
<1> QED  BY <1>1, <1>2, <1>3 DEF Start, TypeOK

\* Answering keeps the types.
LEMMA FinishTypes ==
  ASSUME TypeOK, NEW h \in Handler, job[h] # None, NEW kind \in {"applied", "conflict", "error"},
         NEW w \in RowType, Finish(h, kind, w)
  PROVE  job' \in [Handler -> {None} \cup JobType] /\ answer' \in [Session -> {None} \cup Reply]
<1>1. job \in [Handler -> {None} \cup JobType] /\ answer \in [Session -> {None} \cup Reply]
  BY DEF TypeOK
<1>2. job[h] \in JobType
  BY <1>1
<1>3. CASE Respond(h, kind, w) /\ job[h].req.sess \in Session
  <2>1. [kind |-> kind, view |-> View(w)] \in Reply
    BY ViewType DEF Reply
  <2> QED  BY <1>1, <1>3, <2>1 DEF Respond
<1>4. CASE Return(h, kind)
  <2>1. job[h].req \in Request /\ job[h].round \in 1..3
    BY <1>2 DEF JobType
  <2>2. job[h].round < 3 => Job("load", job[h].req, job[h].round + 1) \in JobType
    BY <2>1, NewJob
  <2>3. [job[h] EXCEPT !.at = "ok"] \in JobType
    BY <1>2 DEF JobType
  <2>4. CASE kind = "applied"
    BY <1>1, <1>4, <2>3, <2>4 DEF Return
  <2>5. CASE kind = "conflict" /\ job[h].round < 3
    BY <1>1, <1>4, <2>2, <2>5 DEF Return
  <2>6. CASE kind # "applied" /\ ~(kind = "conflict" /\ job[h].round < 3)
    BY <1>1, <1>4, <2>6 DEF Return
  <2> QED  BY <2>4, <2>5, <2>6
<1> QED  BY <1>3, <1>4 DEF Finish

\* What a reporter does when an exchange is over keeps the types.
LEMMA ProceedTypes ==
  ASSUME TypeOK, NEW s \in Session, NEW p \in {None} \cup Waiting, NEW k \in StateView,
         Proceed(s, p, k)
  PROVE  /\ flight' \in [Session -> {None} \cup InFlight]
         /\ nextSeq' \in [Session -> Nat \ {0}]
         /\ \A q \in net' : q \in Request /\ q.sess \in Session
         /\ pending' \in [Session -> {None} \cup Waiting]
         /\ answer' \in [Session -> {None} \cup Reply]
<1>1. answer' \in [Session -> {None} \cup Reply]
  BY DEF Proceed, TypeOK
<1>2. CASE Start(s, p, k) /\ p # None /\ pending' = [pending EXCEPT ![s] = None]
  <2>1. p \in Waiting
    BY <1>2
  <2>2. pending' \in [Session -> {None} \cup Waiting]
    BY <1>2 DEF TypeOK
  <2> QED  BY <1>1, <1>2, <2>1, <2>2, StartTypes
<1>3. CASE flight' = [flight EXCEPT ![s] = None] /\ UNCHANGED <<net, nextSeq, pending>>
  BY <1>1, <1>3 DEF TypeOK
<1> QED  BY <1>2, <1>3 DEF Proceed

\* Every step keeps the types.
LEMMA TypeStep == TypeOK /\ [Next]_vars => TypeOK'
<1> SUFFICES ASSUME TypeOK, [Next]_vars PROVE TypeOK'
  OBVIOUS
<1> USE WatchStateAssumption DEF repVars, rowVars, bounds
<1>a. ReportInput \subseteq AnyReport
  BY DEF AnyReport
<1>b. \A r \in AnyReport : [rep |-> r, retried |-> FALSE] \in Waiting
  BY DEF Waiting
<1>1. ASSUME NEW s \in Session, Open(s) PROVE TypeOK'
  BY <1>1, ViewType DEF Open, TypeOK
<1>2. ASSUME NEW s \in Session, Close(s) PROVE TypeOK'
  <2>1. /\ flight' \in [Session -> {None} \cup InFlight]
        /\ nextSeq' \in [Session -> Nat \ {0}]
        /\ \A q \in net' : q \in Request /\ q.sess \in Session
        /\ made' \in [Session -> 0..MaxReports]
    <3>1. CASE UNCHANGED <<flight, net, nextSeq, made>>
      BY <3>1 DEF TypeOK
    <3>2. ASSUME NEW r \in ReportInput, made[s] < MaxReports, made' = [made EXCEPT ![s] = @ + 1],
                 Start(s, [rep |-> r, retried |-> FALSE], known[s])
          PROVE  /\ flight' \in [Session -> {None} \cup InFlight]
                 /\ nextSeq' \in [Session -> Nat \ {0}]
                 /\ \A q \in net' : q \in Request /\ q.sess \in Session
                 /\ made' \in [Session -> 0..MaxReports]
      <4>1. [rep |-> r, retried |-> FALSE] \in Waiting /\ known[s] \in StateView
        BY <1>a, <1>b DEF TypeOK
      <4>2. made' \in [Session -> 0..MaxReports]
        BY <3>2 DEF TypeOK
      <4> QED  BY <3>2, <4>1, <4>2, StartTypes
    <3> QED  BY <1>2, <3>1, <3>2 DEF Close
  <2> QED  BY <1>2, <2>1 DEF Close, TypeOK
<1>3. ASSUME NEW s \in Session, Dispose(s) PROVE TypeOK'
  BY <1>3 DEF Dispose, TypeOK
<1>4. ASSUME NEW s \in Session, Receive(s) PROVE TypeOK'
  <2>1. answer[s] \in Reply /\ flight[s] \in InFlight /\ known[s] \in StateView
    BY <1>4 DEF Receive, TypeOK
  <2>2. Accepted(s) \in StateView
    BY <2>1 DEF Accepted, Reply
  <2> DEFINE k == IF status[s] = "disposed" THEN known[s] ELSE Accepted(s)
  <2>3. k \in StateView
    BY <2>1, <2>2
  <2>4. known' = [known EXCEPT ![s] = k]
    BY <1>4 DEF Receive
  <2>5. \A pos \in Position : Retry(s, pos) \in Waiting
    BY <2>1 DEF Retry, InFlight, Waiting, AnyReport
  <2>6. PICK p \in {None} \cup Waiting : Proceed(s, p, k)
    <3>1. CASE Retriable(s)
      BY <1>4, <2>5, <3>1 DEF Receive
    <3>2. CASE ~Retriable(s)
      BY <1>4, <3>2 DEF Receive, TypeOK
    <3> QED  BY <3>1, <3>2
  <2> HIDE DEF k
  <2>7. known' \in [Session -> StateView]
    BY <2>3, <2>4 DEF TypeOK
  <2> QED  BY <1>4, <2>3, <2>6, <2>7, ProceedTypes DEF Receive, TypeOK
<1>5. ASSUME NEW s \in Session, Fail(s) PROVE TypeOK'
  <2>1. pending[s] \in {None} \cup Waiting /\ known[s] \in StateView
    BY DEF TypeOK
  <2>2. failures' \in 0..MaxFailures
    BY <1>5 DEF Fail, TypeOK
  <2>3. Proceed(s, pending[s], known[s])
    BY <1>5 DEF Fail
  <2> QED  BY <1>5, <2>1, <2>2, <2>3, ProceedTypes DEF Fail, TypeOK
<1>6. ASSUME NEW s \in Session, NEW r \in ReportInput, Report(s, r) PROVE TypeOK'
  <2> DEFINE p == [rep |-> r, retried |-> FALSE]
  <2>1. p \in Waiting /\ known[s] \in StateView
    BY <1>a, <1>b DEF TypeOK
  <2>2. made' \in [Session -> 0..MaxReports]
    BY <1>6 DEF Report, TypeOK
  <2>3. CASE Start(s, p, known[s]) /\ UNCHANGED pending
    BY <1>6, <2>1, <2>2, <2>3, StartTypes DEF Report, TypeOK
  <2>4. CASE pending' = [pending EXCEPT ![s] = Merge(@, p)] /\ UNCHANGED <<flight, net, nextSeq>>
    <3>1. pending' \in [Session -> {None} \cup Waiting]
      BY <2>1, <2>4 DEF Merge, TypeOK
    <3> QED  BY <1>6, <2>2, <2>4, <3>1 DEF Report, TypeOK
  <2> QED  BY <1>6, <2>3, <2>4 DEF Report
<1>7. ASSUME NEW h \in Handler, NEW q \in net, Deliver(h, q) PROVE TypeOK'
  <2>1. Job("read", q, 1) \in JobType
    BY NewJob DEF TypeOK
  <2> QED  BY <1>7, <2>1 DEF Deliver, TypeOK
<1>8. ASSUME NEW h \in Handler, NEW sess \in LegacySession, NEW pos \in Position,
             CallLegacy(h, sess, pos)
      PROVE  TypeOK'
  <2> DEFINE q == [sess |-> sess, seq |-> 0, exp |-> 0, rep |-> LegacyReport(sess, pos)]
  <2>1. LegacyReport(sess, pos) \in AnyReport
    BY DEF LegacyReport, AnyReport, EventType, Reason
  <2>2. q \in Request
    BY <2>1 DEF Request
  <2>3. Job("load", q, 1) \in JobType
    BY <2>2, NewJob
  <2>4. job' = [job EXCEPT ![h] = Job("load", q, 1)]
    BY <1>8 DEF CallLegacy
  <2> HIDE DEF q
  <2> QED  BY <1>8, <2>3, <2>4 DEF CallLegacy, TypeOK
<1>9. ASSUME NEW h \in Handler, LoadLegacy(h) PROVE TypeOK'
  <2> DEFINE q == [job[h].req EXCEPT !.seq = LegacySeq(job[h].req.sess), !.exp = row.rev]
  <2>1. job[h] \in JobType
    BY <1>9 DEF LoadLegacy, TypeOK
  <2>2. LegacySeq(job[h].req.sess) \in Nat /\ row.rev \in Nat
    BY DEF LegacySeq, TypeOK, RowType
  <2>3. q \in Request
    BY <2>1, <2>2 DEF JobType, Request
  <2>4. Job("read", q, job[h].round) \in JobType
    BY <2>1, <2>3, NewJob DEF JobType
  <2>5. job' = [job EXCEPT ![h] = Job("read", q, job[h].round)]
    BY <1>9 DEF LoadLegacy
  <2> HIDE DEF q
  <2> QED  BY <1>9, <2>4, <2>5 DEF LoadLegacy, TypeOK
<1>10. ASSUME NEW h \in Handler, Examine(h) PROVE TypeOK'
  <2>1. job[h] # None /\ job[h] \in JobType /\ row \in RowType
    BY <1>10 DEF Examine, TypeOK
  <2>2. job' \in [Handler -> {None} \cup JobType] /\ answer' \in [Session -> {None} \cup Reply]
    <3>1. CASE Finish(h, "applied", row) \/ Finish(h, "conflict", row)
      BY <2>1, <3>1, FinishTypes
    <3>2. CASE job' = [job EXCEPT ![h].at = "write", ![h].base = row] /\ UNCHANGED answer
      BY <2>1, <3>2 DEF TypeOK, JobType
    <3> QED  BY <1>10, <3>1, <3>2 DEF Examine
  <2> QED  BY <1>10, <2>2 DEF Examine, TypeOK
<1>11. ASSUME NEW h \in Handler, Persist(h) PROVE TypeOK'
  <2>1. job[h] # None /\ job[h] \in JobType /\ row \in RowType
    BY <1>11 DEF Persist, TypeOK
  <2>2. job[h].base \in RowType /\ job[h].req \in Request
    BY <2>1 DEF JobType
  <2>3. CASE Finish(h, "conflict", row) /\ UNCHANGED rowVars
    BY <1>11, <2>1, <2>3, FinishTypes DEF Persist, TypeOK
  <2>4. CASE /\ row' = Derived(job[h].base, job[h].req)
             /\ views' = IF CountsView(job[h].base, job[h].req) THEN views + 1 ELSE views
             /\ stored' = IF job[h].req.sess \in Session
                          THEN [stored EXCEPT ![job[h].req.sess] = job[h].req.seq] ELSE stored
             /\ Finish(h, "applied", row')
    <3>1. row' \in RowType
      BY <2>2, <2>4, RowTypes
    <3>2. views' \in Nat
      BY <2>4 DEF TypeOK
    <3>3. stored' \in [Session -> Nat]
      BY <2>2, <2>4 DEF TypeOK, Request
    <3> QED  BY <1>11, <2>1, <2>4, <3>1, <3>2, <3>3, FinishTypes DEF Persist, TypeOK
  <2> QED  BY <1>11, <2>3, <2>4 DEF Persist
<1>12. ASSUME NEW h \in Handler, Busy(h) PROVE TypeOK'
  <2>1. job[h] # None /\ job[h] \in JobType /\ row \in RowType
    BY <1>12 DEF Busy, TypeOK
  <2>2. job' \in [Handler -> {None} \cup JobType] /\ answer' \in [Session -> {None} \cup Reply]
    <3>1. CASE Finish(h, "error", row)
      BY <2>1, <3>1, FinishTypes
    <3>2. CASE /\ AttemptsLeft(h) /\ UNCHANGED answer
               /\ job' = [job EXCEPT ![h].at = "read", ![h].base = NoRow, ![h].tries = @ + 1]
      BY <2>1, <3>2, RowTypes DEF AttemptsLeft, TypeOK, JobType
    <3> QED  BY <1>12, <3>1, <3>2 DEF Busy
  <2>3. failures' \in 0..MaxFailures
    BY <1>12 DEF Busy, TypeOK
  <2> QED  BY <1>12, <2>2, <2>3 DEF Busy, TypeOK
<1>13. ASSUME NEW h \in Handler, LegacyDone(h) PROVE TypeOK'
  BY <1>13 DEF LegacyDone, TypeOK
<1>14. CASE UNCHANGED vars
  BY <1>14 DEF vars, TypeOK
<1> QED
  BY <1>1, <1>2, <1>3, <1>4, <1>5, <1>6, <1>7, <1>8, <1>9, <1>10, <1>11, <1>12, <1>13, <1>14
  DEF Next, Reporter, Server
\* Initially nothing is known and nothing is sent.
LEMMA InitIInv == Init => IInv
<1> SUFFICES ASSUME Init PROVE IInv
  OBVIOUS
<1> USE WatchStateAssumption DEF Init
<1>1. NoRow \in RowType /\ View(NoRow) \in StateView
  BY RowTypes, ViewType
<1>2. TypeOK
  BY <1>1 DEF TypeOK, NoRow, RowType
<1>3. Waits
  BY DEF Waits
<1>4. Copies
  BY <1>1 DEF Copies, FromPast, NoRow, View, RowType
<1>5. Sent = {}
  BY DEF Sent, AtWork
<1>6. Ordered
  BY <1>5 DEF Ordered
<1>7. Budget
  <2>1. ASSUME NEW s \in Session
        PROVE  pending[s] = None /\ flight[s] = None /\ nextSeq[s] = 1 /\ made[s] = 0
    OBVIOUS
  <2> HIDE DEF Init
  <2>2. ASSUME NEW s \in Session PROVE Credit(s) = 0
    <3>1. ~(flight[s] # None /\ flight[s].retried = FALSE) /\ ~(pending[s] # None)
      BY <2>1
    <3>2. Fresh(s) = 0 /\ Queued(s) = 0
      BY ONLY <3>1 DEF Fresh, Queued
    <3> QED  BY <3>2 DEF Credit
  <2>3. ASSUME NEW s \in Session
        PROVE  /\ pending[s] # None => pending[s].retried = FALSE
               /\ nextSeq[s] - 1 + Credit(s) <= 2 * made[s]
    BY <2>1, <2>2
  <2> QED  BY ONLY <2>3 DEF Budget
<1>8. Honest
  BY DEF Honest
<1> QED  BY <1>2, <1>3, <1>4, <1>6, <1>7, <1>8 DEF IInv

\* Only a transaction whose compare-and-swap succeeds writes.
LEMMA OnlyPersistWrites ==
  ASSUME [Next]_vars,
         \A h \in Handler : ~(Persist(h) /\ Swaps(h))
  PROVE  UNCHANGED rowVars
<1> USE DEF rowVars, vars
<1>1. ASSUME NEW s \in Session, Reporter(s) PROVE UNCHANGED rowVars
  BY <1>1 DEF Reporter, Open, Close, Dispose, Receive, Fail, Report
<1>2. ASSUME NEW h \in Handler, Server(h) PROVE UNCHANGED rowVars
  BY <1>2 DEF Server, Deliver, CallLegacy, LoadLegacy, Examine, Persist, Busy, LegacyDone
<1> QED  BY <1>1, <1>2 DEF Next

\* What such a transaction writes: the state it read is still the current one.
LEMMA PersistWrites ==
  ASSUME TypeOK, Copies, NEW h \in Handler, Persist(h), Swaps(h)
  PROVE  /\ job[h] # None /\ job[h] \in JobType /\ job[h].at = "write"
         /\ job[h].base = row /\ job[h].req.exp = row.rev
         /\ row' = Derived(row, job[h].req) /\ row'.rev = row.rev + 1 /\ row' \in RowType
         /\ views' = IF CountsView(row, job[h].req) THEN views + 1 ELSE views
         /\ stored' = IF job[h].req.sess \in Session
                      THEN [stored EXCEPT ![job[h].req.sess] = job[h].req.seq] ELSE stored
         /\ Finish(h, "applied", row')
         /\ UNCHANGED <<repVars, net>>
<1>1. job[h] # None /\ job[h] \in JobType /\ job[h].at = "write" /\ row \in RowType
  BY DEF Persist, TypeOK
<1>2. job[h].base = row /\ job[h].req.exp = row.rev
  BY <1>1 DEF Copies, Swaps
<1>3. job[h].req \in Request
  BY <1>1 DEF JobType
<1>4. Derived(row, job[h].req) \in RowType /\ Derived(row, job[h].req).rev = row.rev + 1
  BY <1>1, <1>3, RowTypes DEF Derived
<1> QED  BY <1>1, <1>2, <1>4 DEF Persist

\* What an answer does to the job of its handler.
LEMMA FinishJob ==
  ASSUME TypeOK, NEW h \in Handler, job[h] # None, NEW kind, NEW w, Finish(h, kind, w)
  PROVE  /\ \A g \in Handler : g # h => job'[g] = job[g]
         /\ \/ job'[h] = None
            \/ /\ job[h].req.sess \notin Session /\ job'[h].req = job[h].req
               /\ \/ kind = "applied" /\ job'[h].at = "ok"
                  \/ job'[h].at = "load"
<1>1. job \in [Handler -> {None} \cup JobType] /\ job[h] \in JobType
  BY DEF TypeOK
<1>2. CASE Respond(h, kind, w) /\ job[h].req.sess \in Session
  BY <1>1, <1>2 DEF Respond
<1>3. CASE Return(h, kind) /\ job[h].req.sess \notin Session
  <2>1. CASE kind = "applied"
    <3>1. job' = [job EXCEPT ![h] = [job[h] EXCEPT !.at = "ok"]]
      BY <1>3, <2>1 DEF Return
    <3>2. [job[h] EXCEPT !.at = "ok"].req = job[h].req /\ [job[h] EXCEPT !.at = "ok"].at = "ok"
      BY <1>1 DEF JobType
    <3> QED  BY <1>1, <1>3, <2>1, <3>1, <3>2
  <2>2. CASE kind = "conflict" /\ job[h].round < 3
    BY <1>1, <1>3, <2>2 DEF Return, Job
  <2>3. CASE kind # "applied" /\ ~(kind = "conflict" /\ job[h].round < 3)
    BY <1>1, <1>3, <2>3 DEF Return
  <2> QED  BY <2>1, <2>2, <2>3
<1> QED  BY <1>2, <1>3 DEF Finish

\* No step answers a reporter that does not wait.
LEMMA WaitsStep == TypeOK /\ Waits /\ [Next]_vars => Waits'
<1> SUFFICES ASSUME TypeOK, Waits, [Next]_vars PROVE Waits'
  OBVIOUS
<1> USE DEF TypeOK, Waits, repVars
<1>1. ASSUME NEW s \in Session, Open(s) PROVE Waits'
  BY <1>1 DEF Open
<1>2. ASSUME NEW s \in Session, Close(s) PROVE Waits'
  BY <1>2 DEF Close, Start
<1>3. ASSUME NEW s \in Session, Dispose(s) PROVE Waits'
  BY <1>3 DEF Dispose
<1>4. ASSUME NEW s \in Session, NEW p, NEW k, flight[s] # None, Proceed(s, p, k), UNCHANGED status
      PROVE  Waits'
  BY <1>4 DEF Proceed, Start
<1>5. ASSUME NEW s \in Session, Receive(s) PROVE Waits'
  BY <1>4, <1>5 DEF Receive
<1>6. ASSUME NEW s \in Session, Fail(s) PROVE Waits'
  BY <1>4, <1>6 DEF Fail
<1>7. ASSUME NEW s \in Session, NEW r \in ReportInput, Report(s, r) PROVE Waits'
  BY <1>7 DEF Report, Start
<1>8. ASSUME NEW h \in Handler, job[h] # None, NEW kind, NEW w, Finish(h, kind, w),
             UNCHANGED repVars
      PROVE  Waits'
  BY <1>8 DEF Finish, Respond, Return, JobType
<1>9. ASSUME NEW h \in Handler, Server(h) PROVE Waits'
  <2>1. CASE UNCHANGED <<repVars, answer>>
    BY <2>1
  <2> QED  BY <1>8, <1>9, <2>1
           DEF Server, Deliver, CallLegacy, LoadLegacy, Examine, Persist, Busy, LegacyDone
<1>10. CASE UNCHANGED vars
  BY <1>10 DEF vars
<1> QED  BY <1>1, <1>2, <1>3, <1>5, <1>6, <1>7, <1>9, <1>10 DEF Next, Reporter
\* What the server does keeps Copies when whoever is answered is shown the new row.
LEMMA FinishKeepsCopies ==
  ASSUME TypeOK, Copies, UNCHANGED known, row' \in RowType,
         row' = row \/ row'.rev = row.rev + 1,
         NEW h \in Handler, job[h] # None, NEW kind, Finish(h, kind, row')
  PROVE  Copies'
<1>1. row \in RowType /\ row.rev \in Nat /\ row'.rev \in Nat
  BY DEF TypeOK, RowType
<1>2. \A v \in StateView : FromPast(v) => FromPast(v)'
  BY <1>1 DEF FromPast, StateView, View
<1>3. FromPast(View(row))' /\ \A s \in Session : known[s].rev <= View(row').rev
  <2>1. FromPast(View(row))' /\ View(row').rev = row'.rev
    BY <1>1 DEF FromPast, View
  <2>2. \A s \in Session : known[s].rev \in Nat /\ known[s].rev <= row.rev
    BY DEF Copies, FromPast, TypeOK, StateView
  <2> QED  BY <1>1, <2>1, <2>2
<1>4. row'.rev = 0 => row' = NoRow
  BY <1>1 DEF Copies
<1>5. ASSUME NEW s \in Session PROVE FromPast(known[s])'
  <2>1. known[s] \in StateView /\ FromPast(known[s])
    BY DEF TypeOK, Copies
  <2> QED  BY <1>2, <2>1
<1>6. ASSUME NEW s \in Session, answer'[s] # None
      PROVE  FromPast(answer[s].view)' /\ known[s].rev <= answer'[s].view.rev
  <2>1. CASE answer'[s] = answer[s]
    <3>1. answer[s].view \in StateView
      BY <1>6, <2>1 DEF TypeOK, Reply
    <3> QED  BY <1>2, <1>6, <2>1, <3>1 DEF Copies
  <2>2. CASE answer'[s] # answer[s]
    <3>1. answer'[s].view = View(row')
      BY <1>6, <2>2 DEF Finish, Respond, Return, TypeOK
    <3> QED  BY <1>3, <3>1
  <2> QED  BY <2>1, <2>2
<1>7. ASSUME NEW g \in Handler, job'[g] # None, job'[g].at = "write"
      PROVE  /\ job'[g].base.rev = job'[g].req.exp /\ job'[g].base.rev <= row'.rev
             /\ job'[g].base.rev = row'.rev => job'[g].base = row'
  <2>1. g # h /\ job'[g] = job[g]
    BY <1>7, FinishJob
  <2>2. job[g].base.rev \in Nat
    BY <1>7, <2>1 DEF TypeOK, JobType, RowType
  <2> QED  BY <1>1, <1>7, <2>1, <2>2 DEF Copies
<1> QED  BY <1>4, <1>5, <1>6, <1>7 DEF Copies

\* Every step keeps Copies.
LEMMA CopiesStep == TypeOK /\ Waits /\ Copies /\ [Next]_vars => Copies'
<1> SUFFICES ASSUME TypeOK, Waits, Copies, [Next]_vars PROVE Copies'
  OBVIOUS
<1> USE DEF repVars, rowVars, bounds
<1>a. row \in RowType /\ row.rev \in Nat
  BY DEF TypeOK, RowType
<1>b. FromPast(View(row))
  BY <1>a DEF FromPast, View
<1>1. ASSUME NEW s \in Session, Open(s) PROVE Copies'
  <2>1. answer[s] = None
    BY <1>1 DEF Open, Waits
  <2>2. known' = [known EXCEPT ![s] = View(row)] /\ UNCHANGED <<row, answer, job>>
    BY <1>1 DEF Open
  <2>3. FromPast(known'[s])
    BY <1>b, <2>2 DEF TypeOK
  <2> QED  BY <2>1, <2>2, <2>3 DEF Copies, FromPast, View, TypeOK
<1>2. CASE UNCHANGED <<row, known, answer, job>>
  BY <1>2 DEF Copies, FromPast, View
<1>3. ASSUME NEW s \in Session, NEW k, FromPast(k), known' = [known EXCEPT ![s] = k],
             answer' = [answer EXCEPT ![s] = None], UNCHANGED <<row, job>>
      PROVE  Copies'
  BY <1>3 DEF Copies, FromPast, View, TypeOK
<1>4. ASSUME NEW s \in Session, Receive(s) PROVE Copies'
  <2> DEFINE k == IF status[s] = "disposed" THEN known[s] ELSE Accepted(s)
  <2>1. FromPast(k)
    BY <1>4 DEF Receive, Accepted, Copies
  <2>2. known' = [known EXCEPT ![s] = k] /\ UNCHANGED <<row, job>>
    BY <1>4 DEF Receive
  <2>3. answer' = [answer EXCEPT ![s] = None]
    BY <1>4 DEF Receive, Proceed
  <2> HIDE DEF k
  <2> QED  BY <1>3, <2>1, <2>2, <2>3
<1>5. ASSUME NEW s \in Session, Fail(s) PROVE Copies'
  <2>1. FromPast(known[s]) /\ known' = [known EXCEPT ![s] = known[s]]
    BY <1>5 DEF Fail, Copies, TypeOK
  <2> QED  BY <1>3, <1>5, <2>1 DEF Fail, Proceed
<1>6. ASSUME NEW h \in Handler, NEW j, j.at # "write", job' = [job EXCEPT ![h] = j],
             UNCHANGED <<row, known, answer>>
      PROVE  Copies'
  BY <1>6 DEF Copies, FromPast, View, TypeOK
<1>7. ASSUME NEW h \in Handler, NEW q \in net, Deliver(h, q) PROVE Copies'
  BY <1>6, <1>7 DEF Deliver, Job
<1>8. ASSUME NEW h \in Handler, NEW sess \in LegacySession, NEW pos \in Position,
             CallLegacy(h, sess, pos)
      PROVE  Copies'
  BY <1>6, <1>8 DEF CallLegacy, Job
<1>9. ASSUME NEW h \in Handler, LoadLegacy(h) PROVE Copies'
  BY <1>6, <1>9 DEF LoadLegacy, Job
<1>10. ASSUME NEW h \in Handler, Examine(h) PROVE Copies'
  <2>1. job[h] \in JobType /\ job[h] # None /\ UNCHANGED <<row, known>>
    BY <1>10 DEF Examine, TypeOK
  <2>2. CASE \E kind : Finish(h, kind, row)
    BY <1>a, <2>1, <2>2, FinishKeepsCopies
  <2>3. CASE /\ ~Outdated(job[h].req) /\ UNCHANGED answer
             /\ job' = [job EXCEPT ![h].at = "write", ![h].base = row]
    <3>1. job'[h].base = row /\ job'[h].req = job[h].req /\ row.rev = job[h].req.exp
      BY <2>1, <2>3 DEF TypeOK, JobType, Outdated
    <3>2. \A g \in Handler : g # h => job'[g] = job[g]
      BY <2>3 DEF TypeOK
    <3>3. ASSUME NEW g \in Handler, job'[g] # None, job'[g].at = "write"
          PROVE  /\ job'[g].base.rev = job'[g].req.exp /\ job'[g].base.rev <= row.rev
                 /\ job'[g].base.rev = row.rev => job'[g].base = row
      BY <1>a, <3>1, <3>2, <3>3 DEF Copies
    <3> QED  BY <2>1, <2>3, <3>3 DEF Copies, FromPast, View
  <2> QED  BY <1>10, <2>2, <2>3 DEF Examine
<1>11. ASSUME NEW h \in Handler, Persist(h) PROVE Copies'
  <2>1. CASE Swaps(h)
    BY <1>11, <2>1, PersistWrites, FinishKeepsCopies
  <2>2. CASE ~Swaps(h)
    BY <1>a, <1>11, <2>2, FinishKeepsCopies DEF Persist
  <2> QED  BY <2>1, <2>2
<1>12. ASSUME NEW h \in Handler, Busy(h) PROVE Copies'
  <2>1. CASE Finish(h, "error", row)
    BY <1>a, <1>12, <2>1, FinishKeepsCopies DEF Busy
  <2>2. CASE /\ job' = [job EXCEPT ![h].at = "read", ![h].base = NoRow, ![h].tries = @ + 1]
             /\ UNCHANGED answer
    <3>1. job'[h].at = "read" /\ \A g \in Handler : g # h => job'[g] = job[g]
      BY <1>12, <2>2 DEF Busy, TypeOK, JobType
    <3> QED  BY <1>12, <2>2, <3>1 DEF Busy, Copies, FromPast, View
  <2> QED  BY <1>12, <2>1, <2>2 DEF Busy
<1>13. ASSUME NEW h \in Handler, LegacyDone(h) PROVE Copies'
  BY <1>13 DEF LegacyDone, Copies, FromPast, View, TypeOK
<1> QED
  BY <1>1, <1>2, <1>4, <1>5, <1>7, <1>8, <1>9, <1>10, <1>11, <1>12, <1>13
  DEF Next, Reporter, Server, vars, Report, Close, Dispose
-----------------------------------------------------------------------------

\* The types of what Ordered relates.
LEMMA OrderTypes ==
  ASSUME TypeOK
  PROVE  /\ \A q \in Sent : q.sess \in Session /\ q.seq \in Nat /\ q.exp \in Nat
         /\ \A s \in Session : known[s].rev \in Nat /\ stored[s] \in Nat /\ nextSeq[s] \in Nat
         /\ row.rev \in Nat
<1>1. \A q \in Sent : q \in Request
  BY DEF Sent, AtWork, TypeOK, JobType
<1> QED  BY <1>1 DEF Sent, TypeOK, Request, StateView, RowType

\* Without a write, and without a request that was not sent before, order is kept.
LEMMA QuietKeepsOrder ==
  ASSUME TypeOK, Ordered, Sent' \subseteq Sent, UNCHANGED <<row, stored, nextSeq>>,
         \A s \in Session : known'[s].rev \in Nat /\ known[s].rev <= known'[s].rev
  PROVE  Ordered'
<1>1. \A q \in Sent' : q \in Sent
  OBVIOUS
<1>2. \A q \in Sent' : q.seq < nextSeq[q.sess] /\ q.exp <= known'[q.sess].rev
  BY <1>1, OrderTypes DEF Ordered
<1> QED  BY <1>1, <1>2 DEF Ordered

\* A report that goes out expects what its reporter knows, which is late enough.
LEMMA StartKeepsOrder ==
  ASSUME TypeOK, Ordered, UNCHANGED <<row, stored, job>>,
         NEW s \in Session, NEW p, NEW k \in StateView, known[s].rev <= k.rev,
         known' = [known EXCEPT ![s] = k], Start(s, p, k)
  PROVE  Ordered'
<1> DEFINE new == [sess |-> s, seq |-> nextSeq[s], exp |-> k.rev, rep |-> p.rep]
<1>1. new.sess = s /\ new.seq = nextSeq[s] /\ new.exp = k.rev
  OBVIOUS
<1>2. Sent' \subseteq Sent \cup {new}
  BY DEF Start, Sent, AtWork
<1> HIDE DEF new
<1>3. /\ nextSeq'[s] = nextSeq[s] + 1 /\ known'[s] = k /\ k.rev \in Nat
      /\ \A t \in Session : t # s => nextSeq'[t] = nextSeq[t] /\ known'[t] = known[t]
  BY DEF Start, TypeOK, StateView
<1>4. ASSUME NEW t \in Session PROVE stored[t] < nextSeq'[t]
  BY <1>3, OrderTypes DEF Ordered
<1>5. ASSUME NEW q \in Sent' PROVE q.seq < nextSeq'[q.sess] /\ q.exp <= known'[q.sess].rev
  <2>1. CASE q = new
    BY <1>1, <1>3, <2>1, OrderTypes
  <2>2. CASE q \in Sent
    BY <1>3, <2>2, OrderTypes DEF Ordered
  <2> QED  BY <1>2, <2>1, <2>2
<1>6. ASSUME NEW q \in Sent', q.seq <= stored[q.sess] PROVE q.exp < row.rev
  <2>1. q # new
    BY <1>1, <1>6, OrderTypes DEF Ordered
  <2> QED  BY <1>2, <1>6, <2>1 DEF Ordered
<1>7. ASSUME NEW q \in Sent', NEW r \in Sent', q.sess = r.sess, q.seq <= r.seq
      PROVE  q.exp <= r.exp
  <2>1. CASE r = new
    <3>1. q.exp <= known'[q.sess].rev
      BY <1>5
    <3> QED  BY <1>1, <1>3, <1>7, <2>1, <3>1
  <2>2. CASE r # new /\ q = new
    <3>1. r \in Sent
      BY <1>2, <2>2
    <3>2. r.seq < nextSeq[s]
      BY <1>1, <1>7, <2>2, <3>1 DEF Ordered
    <3> QED  BY <1>1, <1>7, <2>2, <3>1, <3>2, OrderTypes
  <2>3. CASE r # new /\ q # new
    BY <1>2, <1>7, <2>3 DEF Ordered
  <2> QED  BY <2>1, <2>2, <2>3
<1> QED  BY <1>4, <1>5, <1>6, <1>7 DEF Ordered

\* What a reporter does when an exchange is over.
LEMMA ProceedKeepsOrder ==
  ASSUME TypeOK, Ordered, UNCHANGED <<row, stored, job>>,
         NEW s \in Session, NEW p, NEW k \in StateView, known[s].rev <= k.rev,
         known' = [known EXCEPT ![s] = k], Proceed(s, p, k)
  PROVE  Ordered'
<1>1. CASE Start(s, p, k)
  BY <1>1, StartKeepsOrder
<1>2. CASE UNCHANGED <<net, nextSeq>>
  <2>1. Sent' = Sent
    BY <1>2 DEF Sent, AtWork
  <2>2. \A t \in Session : known'[t].rev \in Nat /\ known[t].rev <= known'[t].rev
    BY OrderTypes DEF TypeOK, StateView
  <2> QED  BY <1>2, <2>1, <2>2, QuietKeepsOrder
<1> QED  BY <1>1, <1>2 DEF Proceed

\* A server step that does not write works on a request that was there, or on one of
\* the endpoints without sessions.
LEMMA ServerKeepsOrder ==
  ASSUME TypeOK, Ordered, UNCHANGED <<rowVars, repVars>>, net' \subseteq net,
         NEW h \in Handler, \A g \in Handler : g # h => job'[g] = job[g],
         NEW q, job'[h] # None => job'[h].req = q,
         q.sess \notin Session \/ q \in net \/ (job[h] # None /\ q = job[h].req)
  PROVE  Ordered'
<1>1. ASSUME NEW r \in Sent' PROVE r \in Sent
  <2>1. r.sess \in Session
    BY DEF Sent
  <2>2. CASE r \in net'
    BY <2>1, <2>2 DEF Sent
  <2>3. ASSUME NEW g \in Handler, job'[g] # None, r = job'[g].req PROVE r \in Sent
    BY <2>1, <2>3 DEF Sent, AtWork
  <2> QED  BY <2>2, <2>3 DEF Sent, AtWork
<1> QED  BY <1>1, QuietKeepsOrder, OrderTypes DEF rowVars, repVars

\* A write leaves behind the revision that its request and all earlier ones of the
\* session expect.
LEMMA WriteKeepsOrder ==
  ASSUME TypeOK, Copies, Ordered, NEW h \in Handler, Persist(h), Swaps(h)
  PROVE  Ordered' /\ (job[h].req.sess \in Session => stored[job[h].req.sess] < job[h].req.seq)
<1> DEFINE q == job[h].req
<1>1. /\ job[h] # None /\ q.exp = row.rev /\ row'.rev = row.rev + 1
      /\ UNCHANGED <<known, nextSeq, net>>
      /\ stored' = IF q.sess \in Session THEN [stored EXCEPT ![q.sess] = q.seq] ELSE stored
  BY PersistWrites DEF repVars
<1>2. q.sess \in Session => q \in Sent
  BY <1>1 DEF Sent, AtWork
<1>3. \A r \in Sent' : r \in Sent
  <2>1. \A g \in Handler : job'[g] # None => job[g] # None /\ job'[g].req = job[g].req
    BY <1>1, PersistWrites, FinishJob
  <2> QED  BY <1>1, <2>1 DEF Sent, AtWork
<1> HIDE DEF q
<1>4. q.sess \in Session => stored[q.sess] < q.seq
  BY <1>1, <1>2, OrderTypes DEF Ordered
<1>5. ASSUME NEW s \in Session PROVE stored'[s] < nextSeq[s]
  BY <1>1, <1>2 DEF Ordered, TypeOK
<1>6. ASSUME NEW r \in Sent', r.seq <= stored'[r.sess] PROVE r.exp < row'.rev
  <2>1. r \in Sent /\ r.sess \in Session
    BY <1>3, OrderTypes
  <2>2. CASE r.sess = q.sess
    <3>1. q \in Sent /\ stored'[q.sess] = q.seq
      BY <1>1, <1>2, <2>1, <2>2 DEF TypeOK
    <3>2. r.exp <= q.exp
      BY <1>6, <2>1, <2>2, <3>1 DEF Ordered
    <3> QED  BY <1>1, <2>1, <3>2, OrderTypes
  <2>3. CASE r.sess # q.sess
    <3>1. stored'[r.sess] = stored[r.sess]
      BY <1>1, <2>1, <2>3 DEF TypeOK
    <3> QED  BY <1>1, <1>6, <2>1, <3>1, OrderTypes DEF Ordered
  <2> QED  BY <2>2, <2>3
<1>7. Ordered'
  BY <1>1, <1>3, <1>5, <1>6 DEF Ordered
<1> QED  BY <1>4, <1>7 DEF q

\* Every step keeps Ordered.
LEMMA OrderedStep == TypeOK /\ Copies /\ Honest /\ Ordered /\ [Next]_vars => Ordered'
<1> SUFFICES ASSUME TypeOK, Copies, Honest, Ordered, [Next]_vars PROVE Ordered'
  OBVIOUS
<1> USE DEF repVars, rowVars
<1>a. \A s \in Session : known[s] \in StateView /\ known[s].rev <= known[s].rev
  BY OrderTypes DEF TypeOK
<1>1. ASSUME UNCHANGED <<row, stored, nextSeq, net, job>>,
             \A s \in Session : known'[s].rev \in Nat /\ known[s].rev <= known'[s].rev
      PROVE  Ordered'
  <2>1. Sent' = Sent
    BY <1>1 DEF Sent, AtWork
  <2> QED  BY <1>1, <2>1, QuietKeepsOrder
<1>2. CASE UNCHANGED <<row, stored, nextSeq, net, job, known>>
  BY <1>a, <1>1, <1>2, OrderTypes
<1>3. ASSUME NEW s \in Session, Open(s) PROVE Ordered'
  <2>1. known' = [known EXCEPT ![s] = View(row)] /\ View(row).rev = row.rev
    BY <1>3 DEF Open, View
  <2>2. \A t \in Session : known'[t].rev \in Nat /\ known[t].rev <= known'[t].rev
    BY <2>1, OrderTypes DEF TypeOK, Copies, FromPast
  <2> QED  BY <1>1, <1>3, <2>2 DEF Open
<1>4. ASSUME NEW s \in Session, NEW p, Start(s, p, known[s]), UNCHANGED <<row, stored, job, known>>
      PROVE  Ordered'
  <2>1. known' = [known EXCEPT ![s] = known[s]]
    BY <1>4 DEF TypeOK
  <2> QED  BY <1>a, <1>4, <2>1, StartKeepsOrder
<1>5. ASSUME NEW s \in Session, Close(s) PROVE Ordered'
  BY <1>2, <1>4, <1>5 DEF Close
<1>6. ASSUME NEW s \in Session, NEW r \in ReportInput, Report(s, r) PROVE Ordered'
  BY <1>2, <1>4, <1>6 DEF Report
<1>7. ASSUME NEW s \in Session, Receive(s) PROVE Ordered'
  <2> DEFINE k == IF status[s] = "disposed" THEN known[s] ELSE Accepted(s)
  <2>1. answer[s] # None /\ answer[s] \in Reply
    BY <1>7 DEF Receive, TypeOK
  <2>2. k \in StateView /\ known[s].rev <= k.rev
    BY <1>a, <2>1 DEF Accepted, Copies, Reply
  <2>3. known' = [known EXCEPT ![s] = k] /\ \E p : Proceed(s, p, k)
    BY <1>7 DEF Receive
  <2>4. UNCHANGED <<row, stored, job>>
    BY <1>7 DEF Receive
  <2> HIDE DEF k
  <2> QED  BY <2>2, <2>3, <2>4, ProceedKeepsOrder
<1>8. ASSUME NEW s \in Session, Fail(s) PROVE Ordered'
  <2>1. known' = [known EXCEPT ![s] = known[s]]
    BY <1>8 DEF Fail, TypeOK
  <2> QED  BY <1>a, <1>8, <2>1, ProceedKeepsOrder DEF Fail
<1>9. ASSUME NEW h \in Handler, job[h] # None, NEW kind, NEW w, Finish(h, kind, w),
             UNCHANGED <<rowVars, repVars, net>>
      PROVE  Ordered'
  <2>1. (job'[h] # None => job'[h].req = job[h].req) /\ \A g \in Handler : g # h => job'[g] = job[g]
    BY <1>9, FinishJob
  <2> QED  BY <1>9, <2>1, ServerKeepsOrder
<1>10. ASSUME NEW h \in Handler, NEW q \in net, Deliver(h, q) PROVE Ordered'
  <2>1. job'[h].req = q /\ \A g \in Handler : g # h => job'[g] = job[g]
    BY <1>10 DEF Deliver, Job, TypeOK
  <2>2. net' \subseteq net /\ UNCHANGED <<rowVars, repVars>>
    BY <1>10 DEF Deliver
  <2> QED  BY <2>1, <2>2, ServerKeepsOrder
<1>11. ASSUME NEW h \in Handler, NEW sess \in LegacySession, NEW pos \in Position,
             CallLegacy(h, sess, pos)
      PROVE  Ordered'
  <2>1. job'[h].req.sess = sess /\ \A g \in Handler : g # h => job'[g] = job[g]
    BY <1>11 DEF CallLegacy, Job, TypeOK
  <2>2. net' \subseteq net /\ UNCHANGED <<rowVars, repVars>> /\ sess \notin Session
    BY <1>11, WatchStateAssumption DEF CallLegacy
  <2> QED  BY <2>1, <2>2, ServerKeepsOrder
<1>12. ASSUME NEW h \in Handler, LoadLegacy(h) PROVE Ordered'
  <2>1. job[h] \in JobType /\ job[h].req.sess \in LegacySession
    BY <1>12 DEF LoadLegacy, Honest, TypeOK
  <2>2. job'[h].req.sess = job[h].req.sess /\ \A g \in Handler : g # h => job'[g] = job[g]
    BY <1>12, <2>1 DEF LoadLegacy, Job, TypeOK, JobType, Request
  <2>3. net' \subseteq net /\ UNCHANGED <<rowVars, repVars>> /\ job[h].req.sess \notin Session
    BY <1>12, <2>1, WatchStateAssumption DEF LoadLegacy
  <2> QED  BY <2>2, <2>3, ServerKeepsOrder
<1>13. ASSUME NEW h \in Handler, Examine(h) PROVE Ordered'
  <2>1. CASE job' = [job EXCEPT ![h].at = "write", ![h].base = row]
    <3>1. job'[h].req = job[h].req /\ \A g \in Handler : g # h => job'[g] = job[g]
      BY <1>13, <2>1 DEF Examine, TypeOK, JobType
    <3> QED  BY <1>13, <3>1, ServerKeepsOrder DEF Examine
  <2> QED  BY <1>9, <1>13, <2>1 DEF Examine
<1>14. ASSUME NEW h \in Handler, Persist(h) PROVE Ordered'
  BY <1>9, <1>14, WriteKeepsOrder DEF Persist
<1>15. ASSUME NEW h \in Handler, Busy(h) PROVE Ordered'
  <2>1. CASE job' = [job EXCEPT ![h].at = "read", ![h].base = NoRow, ![h].tries = @ + 1]
    <3>1. job'[h].req = job[h].req /\ \A g \in Handler : g # h => job'[g] = job[g]
      BY <1>15, <2>1 DEF Busy, TypeOK, JobType
    <3> QED  BY <1>15, <3>1, ServerKeepsOrder DEF Busy
  <2> QED  BY <1>9, <1>15, <2>1 DEF Busy
<1>16. ASSUME NEW h \in Handler, LegacyDone(h) PROVE Ordered'
  <2>1. /\ job[h] # None /\ (job'[h] # None => job'[h].req = job[h].req)
        /\ \A g \in Handler : g # h => job'[g] = job[g]
    BY <1>16 DEF LegacyDone, TypeOK
  <2> QED  BY <1>16, <2>1, ServerKeepsOrder DEF LegacyDone
<1> QED
  BY <1>2, <1>3, <1>5, <1>6, <1>7, <1>8, <1>10, <1>11, <1>12, <1>13, <1>14, <1>15, <1>16
  DEF Next, Reporter, Server, vars, Dispose
-----------------------------------------------------------------------------

\* What one session may still send is all that its budget depends on.
LEMMA BudgetOf ==
  ASSUME TypeOK, TypeOK', Budget, NEW s \in Session,
         \A t \in Session \ {s} : /\ nextSeq'[t] = nextSeq[t] /\ flight'[t] = flight[t]
                                 /\ pending'[t] = pending[t] /\ made'[t] = made[t],
         pending'[s] # None => pending'[s].retried = FALSE,
         NEW paid \in Nat, made'[s] = made[s] + paid,
         nextSeq'[s] + Credit(s)' <= nextSeq[s] + Credit(s) + 2 * paid
  PROVE  Budget'
<1>1. ASSUME NEW t \in Session PROVE Fresh(t) \in {0, 1} /\ Queued(t) \in {0, 2}
  BY DEF Fresh, Queued
<1>2. Fresh(s)' \in {0, 1} /\ Queued(s)' \in {0, 2}
  BY DEF Fresh, Queued
<1>3. /\ nextSeq[s] \in Nat /\ made[s] \in Nat
      /\ nextSeq[s] - 1 + Credit(s) <= 2 * made[s]
  BY WatchStateAssumption DEF TypeOK, Budget
<1>4. nextSeq'[s] - 1 + Credit(s)' <= 2 * made'[s]
  <2>1. nextSeq'[s] \in Nat
    BY DEF TypeOK
  <2>2. Credit(s) \in Nat /\ Credit(s)' \in Nat
    BY <1>1, <1>2 DEF Credit
  <2> QED  BY <1>3, <2>1, <2>2
<1>5. ASSUME NEW t \in Session \ {s}
      PROVE  /\ pending'[t] # None => pending'[t].retried = FALSE
             /\ nextSeq'[t] - 1 + Credit(t)' <= 2 * made'[t]
  <2>1. Credit(t)' = Credit(t)
    BY DEF Credit, Fresh, Queued
  <2> QED  BY <2>1 DEF Budget
<1> QED  BY <1>4, <1>5 DEF Budget

\* A report that goes out uses its number, and may come back once.
LEMMA StartCosts ==
  ASSUME TypeOK, NEW s \in Session, NEW p, NEW k, Start(s, p, k)
  PROVE  /\ nextSeq'[s] = nextSeq[s] + 1
         /\ p.retried = TRUE => Fresh(s)' = 0
         /\ \A t \in Session \ {s} : nextSeq'[t] = nextSeq[t] /\ flight'[t] = flight[t]
<1>1. p.retried = TRUE => flight'[s].retried # FALSE
  BY DEF Start, TypeOK
<1>2. p.retried = TRUE => Fresh(s)' = 0
  BY <1>1 DEF Fresh
<1> QED  BY <1>2 DEF Start, TypeOK

\* When an exchange is over, what goes out is what was waiting, or the one retry of a
\* report that was not retried yet.
LEMMA ProceedKeepsBudget ==
  ASSUME TypeOK, TypeOK', Budget, NEW s \in Session, NEW p \in {None} \cup Waiting, NEW k,
         Proceed(s, p, k), UNCHANGED made,
         \/ p = pending[s]
         \/ flight[s] # None /\ flight[s].retried = FALSE /\ (p # None => p.retried = TRUE)
  PROVE  Budget'
<1>1. Fresh(s) \in {0, 1} /\ Queued(s) \in {0, 2} /\ Fresh(s)' \in {0, 1}
  BY DEF Fresh, Queued
<1>2. nextSeq[s] \in Nat
  BY DEF TypeOK
<1>3. CASE Start(s, p, k) /\ p # None /\ pending' = [pending EXCEPT ![s] = None]
  <2>1. pending'[s] = None /\ \A t \in Session \ {s} : pending'[t] = pending[t]
    BY <1>3 DEF TypeOK
  <2>2. Queued(s)' = 0
    BY <2>1 DEF Queued
  <2>3. Fresh(s)' + 1 <= Fresh(s) + Queued(s)
    <3>1. CASE p = pending[s]
      <4>1. Queued(s) = 2
        BY <1>3, <3>1 DEF Queued
      <4> QED  BY <1>1, <4>1
    <3>2. CASE flight[s] # None /\ flight[s].retried = FALSE /\ p.retried = TRUE
      <4>1. Fresh(s) = 1
        BY <3>2 DEF Fresh
      <4>2. Fresh(s)' = 0
        BY <1>3, <3>2, StartCosts
      <4> QED  BY <1>1, <4>1, <4>2
    <3> QED  BY <1>3, <3>1, <3>2
  <2>4. nextSeq'[s] + Credit(s)' <= nextSeq[s] + Credit(s) + 2 * 0
    <3>1. nextSeq'[s] = nextSeq[s] + 1
      BY <1>3, StartCosts
    <3> QED  BY <1>1, <1>2, <2>2, <2>3, <3>1 DEF Credit
  <2>5. made'[s] = made[s] + 0
    BY DEF TypeOK
  <2>6. \A t \in Session \ {s} : /\ nextSeq'[t] = nextSeq[t] /\ flight'[t] = flight[t]
                                /\ pending'[t] = pending[t] /\ made'[t] = made[t]
    BY <1>3, <2>1, StartCosts
  <2> QED  BY <2>1, <2>4, <2>5, <2>6, BudgetOf
<1>4. CASE flight' = [flight EXCEPT ![s] = None] /\ UNCHANGED <<net, nextSeq, pending>>
  <2>1. flight'[s] = None /\ \A t \in Session \ {s} : flight'[t] = flight[t]
    BY <1>4 DEF TypeOK
  <2>2. Fresh(s)' = 0 /\ Queued(s)' = Queued(s)
    BY <1>4, <2>1 DEF Fresh, Queued
  <2>3. nextSeq'[s] + Credit(s)' <= nextSeq[s] + Credit(s) + 2 * 0
    BY <1>1, <1>2, <1>4, <2>2 DEF Credit
  <2>4. made'[s] = made[s] + 0
    BY DEF TypeOK
  <2> QED  BY <1>4, <2>1, <2>3, <2>4, BudgetOf DEF Budget
<1> QED  BY <1>3, <1>4 DEF Proceed

\* Every step keeps Budget.
LEMMA BudgetStep == TypeOK /\ TypeOK' /\ Budget /\ [Next]_vars => Budget'
<1> SUFFICES ASSUME TypeOK, TypeOK', Budget, [Next]_vars PROVE Budget'
  OBVIOUS
<1> USE WatchStateAssumption DEF repVars
<1>a. ASSUME NEW s \in Session
      PROVE  /\ Fresh(s) \in {0, 1} /\ Queued(s) \in {0, 2} /\ Fresh(s)' \in {0, 1}
             /\ Queued(s)' \in {0, 2} /\ nextSeq[s] \in Nat /\ made[s] \in Nat
  BY DEF Fresh, Queued, TypeOK
<1>1. CASE UNCHANGED <<nextSeq, flight, pending, made>>
  BY <1>1 DEF Budget, Credit, Fresh, Queued
<1>2. ASSUME NEW s \in Session, NEW r, flight[s] = None,
             Start(s, [rep |-> r, retried |-> FALSE], known[s]), made' = [made EXCEPT ![s] = @ + 1],
             \/ UNCHANGED pending
             \/ pending' = [pending EXCEPT ![s] = None]
      PROVE  Budget'
  <2>1. /\ nextSeq'[s] = nextSeq[s] + 1
        /\ \A t \in Session \ {s} : nextSeq'[t] = nextSeq[t] /\ flight'[t] = flight[t]
    <3>1. \E p, k : Start(s, p, k)
      BY <1>2
    <3> QED  BY <3>1, StartCosts
  <2>2. /\ pending'[s] = None \/ pending'[s] = pending[s]
        /\ \A t \in Session \ {s} : pending'[t] = pending[t]
    BY <1>2 DEF TypeOK
  <2>3. Queued(s)' <= Queued(s)
    BY <1>a, <2>2 DEF Queued
  <2>4. made'[s] = made[s] + 1 /\ \A t \in Session \ {s} : made'[t] = made[t]
    BY <1>2 DEF TypeOK
  <2>5. nextSeq'[s] + Credit(s)' <= nextSeq[s] + Credit(s) + 2 * 1
    BY <1>a, <2>1, <2>3 DEF Credit
  <2>6. pending'[s] # None => pending'[s].retried = FALSE
    BY <2>2 DEF Budget
  <2> QED  BY <2>1, <2>2, <2>4, <2>5, <2>6, BudgetOf
<1>3. ASSUME NEW s \in Session, pending' = [pending EXCEPT ![s] = None],
             UNCHANGED <<flight, nextSeq, made>>
      PROVE  Budget'
  <2>1. pending'[s] = None /\ \A t \in Session \ {s} : pending'[t] = pending[t]
    BY <1>3 DEF TypeOK
  <2>2. Queued(s)' = 0 /\ Fresh(s)' = Fresh(s)
    BY <1>3, <2>1 DEF Queued, Fresh
  <2>3. nextSeq'[s] + Credit(s)' <= nextSeq[s] + Credit(s) + 2 * 0
    BY <1>a, <1>3, <2>2 DEF Credit
  <2>4. made'[s] = made[s] + 0
    BY <1>a, <1>3
  <2> QED  BY <1>3, <2>1, <2>3, <2>4, BudgetOf
<1>4. ASSUME NEW s \in Session, NEW r \in ReportInput, Report(s, r) PROVE Budget'
  <2> DEFINE p == [rep |-> r, retried |-> FALSE]
  <2>1. CASE flight[s] = None
    BY <1>2, <1>4, <2>1 DEF Report
  <2>2. CASE flight[s] # None
    <3>1. /\ pending' = [pending EXCEPT ![s] = Merge(@, p)] /\ UNCHANGED <<flight, nextSeq>>
          /\ made' = [made EXCEPT ![s] = @ + 1]
      BY <1>4, <2>2 DEF Report
    <3>2. pending'[s] \in {p, pending[s]} /\ (pending'[s] = p \/ pending[s] # None)
      BY <3>1 DEF Merge, TypeOK
    <3>3. pending'[s] # None => pending'[s].retried = FALSE
      BY <3>2 DEF Budget
    <3>4. \A t \in Session \ {s} : pending'[t] = pending[t] /\ made'[t] = made[t]
      BY <3>1 DEF TypeOK
    <3>5. Fresh(s)' = Fresh(s)
      BY <3>1 DEF Fresh
    <3>6. nextSeq'[s] + Credit(s)' <= nextSeq[s] + Credit(s) + 2 * 1
      BY <1>a, <3>1, <3>5 DEF Credit
    <3>7. made'[s] = made[s] + 1
      BY <3>1 DEF TypeOK
    <3> QED  BY <3>1, <3>3, <3>4, <3>6, <3>7, BudgetOf
  <2> QED  BY <2>1, <2>2
<1>5. ASSUME NEW s \in Session, Close(s) PROVE Budget'
  BY <1>2, <1>3, <1>5 DEF Close
<1>6. ASSUME NEW s \in Session, Receive(s) PROVE Budget'
  <2> DEFINE k == IF status[s] = "disposed" THEN known[s] ELSE Accepted(s)
  <2>1. flight[s] \in InFlight /\ flight[s] # None /\ pending[s] \in {None} \cup Waiting
    BY <1>6 DEF Receive, TypeOK
  <2>2. CASE Retriable(s)
    <3>1. flight[s].retried = FALSE
      BY <2>1, <2>2 DEF Retriable, InFlight
    <3>2. \A pos \in Position : Retry(s, pos) \in Waiting /\ Retry(s, pos).retried = TRUE
      BY <2>1 DEF Retry, InFlight, Waiting, AnyReport
    <3>3. PICK p \in {None} \cup Waiting : Proceed(s, p, k) /\ (p # None => p.retried = TRUE)
      BY <1>6, <2>2, <3>2 DEF Receive
    <3> HIDE DEF k
    <3> QED  BY <1>6, <2>1, <3>1, <3>3, ProceedKeepsBudget DEF Receive
  <2>3. CASE ~Retriable(s)
    <3>1. Proceed(s, pending[s], k)
      BY <1>6, <2>3 DEF Receive
    <3> HIDE DEF k
    <3> QED  BY <1>6, <2>1, <3>1, ProceedKeepsBudget DEF Receive
  <2> QED  BY <2>2, <2>3
<1>7. ASSUME NEW s \in Session, Fail(s) PROVE Budget'
  <2>1. pending[s] \in {None} \cup Waiting
    BY DEF TypeOK
  <2> QED  BY <1>7, <2>1, ProceedKeepsBudget DEF Fail
<1>8. ASSUME NEW h \in Handler, Server(h) PROVE Budget'
  BY <1>1, <1>8
  DEF Server, Deliver, CallLegacy, LoadLegacy, Examine, Persist, Busy, LegacyDone
<1> QED
  BY <1>1, <1>3, <1>4, <1>5, <1>6, <1>7, <1>8 DEF Next, Reporter, Open, Dispose, vars

\* Every step keeps Honest.
LEMMA HonestStep == TypeOK /\ Copies /\ Honest /\ [Next]_vars => Honest'
<1> SUFFICES ASSUME TypeOK, Copies, Honest, [Next]_vars PROVE Honest'
  OBVIOUS
<1> USE DEF repVars, rowVars, bounds
<1>a. row.rev \in Nat /\ \A h \in Handler : job[h] # None =>
        job[h] \in JobType /\ job[h].req \in Request /\ job[h].req.exp \in Nat
  BY DEF TypeOK, RowType, JobType, Request
<1>1. CASE UNCHANGED <<row, job>>
  BY <1>1 DEF Honest, Repeated
<1>2. ASSUME NEW h \in Handler, \A g \in Handler : g # h => job'[g] = job[g], UNCHANGED row,
             job'[h] # None =>
               /\ job'[h].at \in {"load", "ok"} => job'[h].req.sess \in LegacySession
               /\ job'[h].at = "ok" => row.rev > job'[h].req.exp
               /\ job'[h].at \in {"read", "write"} /\ job'[h].req.sess \in LegacySession =>
                    /\ job'[h].req.exp <= row.rev
                    /\ job'[h].req.exp = row.rev => ~Repeated(job'[h].req)
      PROVE  Honest'
  BY <1>2 DEF Honest, Repeated
<1>3. ASSUME NEW h \in Handler, NEW q \in net, Deliver(h, q) PROVE Honest'
  <2>1. /\ job'[h].at = "read" /\ job'[h].req = q /\ UNCHANGED row
        /\ \A g \in Handler : g # h => job'[g] = job[g]
    BY <1>3 DEF Deliver, Job, TypeOK
  <2>2. q.sess \notin LegacySession
    BY WatchStateAssumption DEF TypeOK
  <2> QED  BY <1>2, <2>1, <2>2
<1>4. ASSUME NEW h \in Handler, NEW sess \in LegacySession, NEW pos \in Position,
             CallLegacy(h, sess, pos)
      PROVE  Honest'
  <2>1. /\ job'[h].at = "load" /\ job'[h].req.sess = sess /\ UNCHANGED row
        /\ \A g \in Handler : g # h => job'[g] = job[g]
    BY <1>4 DEF CallLegacy, Job, TypeOK
  <2> QED  BY <1>2, <2>1
<1>5. ASSUME NEW h \in Handler, LoadLegacy(h) PROVE Honest'
  <2> DEFINE q == [job[h].req EXCEPT !.seq = LegacySeq(job[h].req.sess), !.exp = row.rev]
  <2>1. job[h] # None /\ job[h] \in JobType /\ job[h].req \in Request
    BY <1>5, <1>a DEF LoadLegacy
  <2>2. /\ job'[h].at = "read" /\ job'[h].req = q /\ UNCHANGED row
        /\ \A g \in Handler : g # h => job'[g] = job[g]
    BY <1>5 DEF LoadLegacy, Job, TypeOK
  <2>3. q.sess = job[h].req.sess /\ q.seq = LegacySeq(job[h].req.sess) /\ q.exp = row.rev
    BY <2>1 DEF Request
  <2>4. row.seq \in Nat
    BY DEF TypeOK, RowType
  <2> HIDE DEF q
  <2>5. ~Repeated(q)
    BY <2>3, <2>4 DEF Repeated, LegacySeq
  <2> QED  BY <1>2, <1>a, <2>2, <2>3, <2>5
<1>6. ASSUME NEW h \in Handler, job[h] # None, NEW kind, NEW w, Finish(h, kind, w), UNCHANGED row,
             kind = "applied" /\ job[h].req.sess \in LegacySession => row.rev > job[h].req.exp
      PROVE  Honest'
  <2>1. job[h].req.sess \notin Session => job[h].req.sess \in LegacySession
    BY <1>6, <1>a DEF Request
  <2> QED  BY <1>2, <1>6, <2>1, FinishJob
<1>7. ASSUME NEW h \in Handler, Examine(h) PROVE Honest'
  <2>1. job[h] # None /\ job[h] \in JobType /\ job[h].at = "read" /\ UNCHANGED row
    BY <1>7, <1>a DEF Examine
  <2>2. CASE Repeated(job[h].req) /\ Finish(h, "applied", row)
    <3>1. job[h].req.sess \in LegacySession => row.rev > job[h].req.exp
      BY <1>a, <2>1, <2>2 DEF Honest
    <3> QED  BY <1>6, <2>1, <2>2, <3>1
  <2>3. CASE Finish(h, "conflict", row)
    BY <1>6, <2>1, <2>3
  <2>4. CASE job' = [job EXCEPT ![h].at = "write", ![h].base = row]
    <3>1. /\ job'[h].at = "write" /\ job'[h].req = job[h].req
          /\ \A g \in Handler : g # h => job'[g] = job[g]
      BY <2>1, <2>4 DEF TypeOK, JobType
    <3> QED  BY <1>2, <2>1, <3>1 DEF Honest
  <2> QED  BY <1>7, <2>2, <2>3, <2>4 DEF Examine
<1>8. ASSUME NEW h \in Handler, Persist(h) PROVE Honest'
  <2>1. CASE Swaps(h)
    <3>1. /\ job[h] # None /\ job[h] \in JobType /\ job[h].req.exp = row.rev
          /\ row'.rev = row.rev + 1 /\ Finish(h, "applied", row')
      BY <1>8, <2>1, PersistWrites
    <3>2. job[h].req.sess \notin Session => job[h].req.sess \in LegacySession
      BY <1>a, <3>1 DEF Request
    <3>3. ASSUME NEW g \in Handler, job'[g] # None, job'[g] = job[g]
          PROVE  /\ job'[g].at \in {"load", "ok"} => job'[g].req.sess \in LegacySession
                 /\ job'[g].at = "ok" => row'.rev > job'[g].req.exp
                 /\ job'[g].at \in {"read", "write"} /\ job'[g].req.sess \in LegacySession =>
                      job'[g].req.exp < row'.rev
      BY <1>a, <3>1, <3>3 DEF Honest
    <3>4. ASSUME NEW g \in Handler, job'[g] # None, job'[g] # job[g]
          PROVE  /\ g = h /\ job'[g].req = job[g].req /\ job'[g].at \in {"load", "ok"}
                 /\ job'[g].req.sess \in LegacySession
                 /\ job'[g].at = "ok" => row'.rev > job'[g].req.exp
      BY <1>a, <3>1, <3>2, <3>4, FinishJob
    <3> QED  BY <1>a, <3>1, <3>3, <3>4 DEF Honest
  <2>2. CASE ~Swaps(h)
    BY <1>6, <1>8, <2>2 DEF Persist
  <2> QED  BY <2>1, <2>2
<1>9. ASSUME NEW h \in Handler, Busy(h) PROVE Honest'
  <2>1. job[h] # None /\ job[h] \in JobType /\ job[h].at = "write" /\ UNCHANGED row
    BY <1>9, <1>a DEF Busy
  <2>2. CASE job' = [job EXCEPT ![h].at = "read", ![h].base = NoRow, ![h].tries = @ + 1]
    <3>1. /\ job'[h].at = "read" /\ job'[h].req = job[h].req
          /\ \A g \in Handler : g # h => job'[g] = job[g]
      BY <2>1, <2>2 DEF TypeOK, JobType
    <3> QED  BY <1>2, <2>1, <3>1 DEF Honest
  <2>3. CASE Finish(h, "error", row)
    BY <1>6, <2>1, <2>3
  <2> QED  BY <1>9, <2>2, <2>3 DEF Busy
<1>10. ASSUME NEW h \in Handler, LegacyDone(h) PROVE Honest'
  <2>1. job'[h] = None /\ UNCHANGED row /\ \A g \in Handler : g # h => job'[g] = job[g]
    BY <1>10 DEF LegacyDone, TypeOK
  <2> QED  BY <1>2, <2>1
<1> QED
  BY <1>1, <1>3, <1>4, <1>5, <1>7, <1>8, <1>9, <1>10
  DEF Next, Reporter, Server, vars, Open, Close, Dispose, Receive, Fail, Report
-----------------------------------------------------------------------------

\* IInv is inductive.
LEMMA Induction == IInv /\ [Next]_vars => IInv'
BY TypeStep, WaitsStep, CopiesStep, OrderedStep, BudgetStep, HonestStep DEF IInv

\* In every reachable state revisions, numbers and retries are in the order that the
\* other theorems rely on.
THEOREM Invariance == Spec => []IInv
BY InitIInv, Induction, PTL DEF Spec

\* Every variable keeps its type: no transaction of the server is tried a fourth time
\* and no legacy call starts a fourth round.
THEOREM TypeCorrect == Spec => []TypeOK
BY Invariance, PTL DEF IInv

\* A reporter that knows the current revision knows the current state.
THEOREM KnownStates == Spec => []KnownIsCurrent
<1>1. IInv => KnownIsCurrent
  BY DEF IInv, Copies, FromPast, KnownIsCurrent
<1> QED  BY <1>1, Invariance, PTL

\* A report is sent at most twice, however many conflicts it meets.
THEOREM RetriesBounded == Spec => []RetriesAreBounded
<1>1. ASSUME IInv, NEW s \in Session PROVE nextSeq[s] - 1 <= 2 * made[s]
  <2>1. Fresh(s) \in {0, 1} /\ Queued(s) \in {0, 2}
    BY DEF Fresh, Queued
  <2>2. nextSeq[s] \in Nat /\ made[s] \in Nat /\ nextSeq[s] - 1 + Credit(s) <= 2 * made[s]
    BY <1>1, WatchStateAssumption DEF IInv, TypeOK, Budget
  <2> QED  BY <2>1, <2>2 DEF Credit
<1>2. IInv => RetriesAreBounded
  BY <1>1 DEF RetriesAreBounded
<1> QED  BY <1>2, Invariance, PTL

\* A legacy endpoint that reports success has stored its event or was overtaken.
THEOREM LegacyHonesty == Spec => []LegacyIsHonest
<1>1. IInv => LegacyIsHonest
  BY DEF IInv, Honest, LegacyIsHonest
<1> QED  BY <1>1, Invariance, PTL

\* The watch state implements the register: every step writes on the revision before
\* it, in the order of the session's reports, or leaves the register alone.
THEOREM Refines == Spec => IsRegister
<1>1. Init => Register!Init
  BY DEF Init, Register!Init, NoRow
<1>2. ASSUME IInv, [Next]_vars PROVE [Register!Next]_(Register!vars)
  <2>1. CASE \A h \in Handler : ~(Persist(h) /\ Swaps(h))
    <3>1. UNCHANGED rowVars
      BY <1>2, <2>1, OnlyPersistWrites
    <3> QED  BY <3>1 DEF rowVars, Register!vars
  <2>2. ASSUME NEW h \in Handler, Persist(h), Swaps(h) PROVE Register!Next
    <3> DEFINE q == job[h].req
               c == Completes(q.rep)
    <3>1. /\ job[h] # None /\ job[h] \in JobType
          /\ row' = Derived(row, q) /\ row'.rev = row.rev + 1
          /\ views' = IF CountsView(row, q) THEN views + 1 ELSE views
          /\ stored' = IF q.sess \in Session THEN [stored EXCEPT ![q.sess] = q.seq] ELSE stored
      BY <1>2, <2>2, PersistWrites DEF IInv
    <3>2. q \in Request
      BY <3>1 DEF JobType
    <3>3. c \in BOOLEAN
      BY DEF Completes
    <3>4. Register!Write(c)
      BY <3>1 DEF Register!Write, Derived, CountsView
    <3>5. CASE q.sess \in Session
      <4>1. stored[q.sess] < q.seq /\ q.seq \in Nat
        BY <1>2, <2>2, <3>2, <3>5, WriteKeepsOrder DEF IInv, Request
      <4>2. stored' = [stored EXCEPT ![q.sess] = q.seq] /\ stored'[q.sess] = q.seq
        BY <1>2, <3>1, <3>5 DEF IInv, TypeOK
      <4> HIDE DEF q, c
      <4>3. Register!Report(q.sess, c)
        BY <1>2, <3>4, <4>1, <4>2 DEF Register!Report, IInv, TypeOK
      <4> QED  BY <3>3, <3>5, <4>3 DEF Register!Next
    <3>6. CASE q.sess \notin Session
      <4>1. Register!Plain(c)
        BY <3>1, <3>4, <3>6 DEF Register!Plain
      <4> QED  BY <3>3, <4>1 DEF Register!Next
    <3> QED  BY <3>5, <3>6
  <2> QED  BY <2>1, <2>2
<1> QED  BY <1>1, <1>2, Invariance, PTL DEF Spec, IsRegister, Register!Spec
=============================================================================
