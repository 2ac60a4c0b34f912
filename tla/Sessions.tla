------------------------------ MODULE Sessions ------------------------------
(***************************************************************************)
(* Accounts, passwords, login sessions and the login limiter.              *)
(*                                                                         *)
(* A login asks the limiter, verifies account and password, tells the      *)
(* limiter, and then writes a session row; a change of password writes the *)
(* new hash and then revokes the user's other sessions; an administrator   *)
(* sets a status and then revokes all sessions.  Each is a sequence of     *)
(* statements without a transaction, and they overlap.                     *)
(***************************************************************************)
EXTENDS Faults, FiniteSets

CONSTANTS Logins,        \* login requests, each a session of its own
          MaxFailures,   \* failures that lock
          MaxChanges     \* bound on changes of the password and of the status

ASSUME SessionsAssumption ==
  /\ MaxFailures \in Nat \ {0} /\ MaxChanges \in Nat
  /\ IsFiniteSet(Logins) /\ "none" \notin Logins

VARIABLES
  account,   \* [made, active, password, changes]: password counts its changes
  login,     \* [Logins -> [at, password]]: at is the step or the session's state
  change,    \* by whom -> the change of password or status half done
  limiter,   \* [entry, failures, locked]: the attempt entry of this user and address
  excused    \* sessions a change need not end: its own, and logins it overtook

sessionVars == <<account, login, change, limiter, excused, mishaps>>

Steps  == {"new", "checked", "verified", "entering", "failed", "refused"}
States == {"live", "revoked", "expired"}
Changers == {"user", "admin"}
NoChange == [to |-> "none", keep |-> "none"]
Idle     == [c \in Changers |-> NoChange]
NoEntry  == [entry |-> FALSE, failures |-> 0, locked |-> FALSE]

SessionsTypeOK ==
  /\ account \in [made : BOOLEAN, active : BOOLEAN, password : 0 .. MaxChanges,
                  changes : 0 .. MaxChanges]
  /\ login \in [Logins -> [at : Steps \cup States, password : 0 .. MaxChanges]]
  /\ change \in [Changers -> [to : {"none", "password", "disabled", "sessions"},
                               keep : Logins \cup {"none"}]]
  /\ limiter \in [entry : BOOLEAN, failures : 0 .. MaxFailures + Cardinality(Logins),
                  locked : BOOLEAN]
  /\ excused \subseteq Logins

SessionsInit ==
  /\ account = [made |-> FALSE, active |-> TRUE, password |-> 0, changes |-> 0]
  /\ login = [l \in Logins |-> [at |-> "new", password |-> 0]]
  /\ change = Idle
  /\ limiter = NoEntry
  /\ excused = {}

LoginTo(l, step) == login' = [login EXCEPT ![l].at = step]
Live == {l \in Logins : login[l].at = "live"}

-----------------------------------------------------------------------------
(* Setup makes the first account and logs in at once.                      *)
Setup(l) ==
  /\ ~account.made /\ login[l].at = "new"
  /\ account' = [account EXCEPT !.made = TRUE]
  /\ LoginTo(l, "entering")
  /\ Smooth
  /\ UNCHANGED <<change, limiter, excused>>

(* Check lets a request in unless the entry is locked.                     *)
CheckLimiter(l) ==
  /\ account.made /\ login[l].at = "new"
  /\ IF limiter.locked
     THEN LoginTo(l, "refused")
     ELSE \E p \in 0 .. account.password :
            login' = [login EXCEPT ![l] = [at |-> "checked", password |-> p]]
  /\ Smooth
  /\ UNCHANGED <<account, change, limiter, excused>>

(* Login: an account that is disabled fails like a wrong password.         *)
VerifyLogin(l) ==
  /\ login[l].at = "checked"
  /\ IF account.active /\ login[l].password = account.password
     THEN LoginTo(l, "verified")
     ELSE LoginTo(l, "failed")
  /\ Smooth
  /\ UNCHANGED <<account, change, limiter, excused>>

(* Fail counts and locks at the limit.                                     *)
Locks_OneLate(n) == n > MaxFailures
Locks(n) == n >= MaxFailures

FailLogin(l) ==
  /\ login[l].at = "failed"
  /\ LET n == limiter.failures + 1 IN
       limiter' = [entry |-> TRUE, failures |-> n,
                   locked |-> limiter.locked \/ Locks(n)]
  /\ LoginTo(l, "refused")
  /\ Smooth
  /\ UNCHANGED <<account, change, excused>>

(* The window or the lock runs out when no request is between its check    *)
(* and its answer: both last minutes.                                      *)
LimiterForgets ==
  /\ limiter.entry
  /\ \A l \in Logins : login[l].at \notin {"checked", "failed"}
  /\ limiter' = NoEntry
  /\ Smooth
  /\ UNCHANGED <<account, login, change, excused>>

(* Success clears the entry, then CreateSessionAndToken writes the row.    *)
ClearLimiter(l) ==
  /\ login[l].at = "verified"
  /\ LoginTo(l, "entering")
  /\ limiter' = NoEntry
  /\ Smooth
  /\ UNCHANGED <<account, change, excused>>

CreateSession(l) ==
  /\ login[l].at = "entering"
  /\ LoginTo(l, "live")
  /\ Smooth
  /\ UNCHANGED <<account, change, limiter, excused>>

(* Logout and the revocation of one session by its user.                   *)
RevokeSession(l) ==
  /\ login[l].at = "live"
  /\ LoginTo(l, "revoked")
  /\ Smooth
  /\ UNCHANGED <<account, change, limiter, excused>>

SessionExpires(l) ==
  /\ login[l].at = "live"
  /\ LoginTo(l, "expired")
  /\ Smooth
  /\ UNCHANGED <<account, change, limiter, excused>>

-----------------------------------------------------------------------------
Overtaken == {l \in Logins : login[l].at \in {"verified", "entering"}}
Begins(c, to, keep) ==
  change[c] = NoChange /\ change' = [change EXCEPT ![c] = [to |-> to, keep |-> keep]]

(* ChangePassword by a live session that knows the password.               *)
ChangePassword(l) ==
  /\ account.changes < MaxChanges
  /\ l \in Live /\ account.active
  /\ account' = [account EXCEPT !.password = @ + 1, !.changes = @ + 1]
  /\ Begins("user", "password", l)
  /\ excused' = excused \cup Overtaken \cup {l}
  /\ Smooth
  /\ UNCHANGED <<login, limiter>>

DisableUser ==
  /\ account.made /\ account.active /\ account.changes < MaxChanges
  /\ account' = [account EXCEPT !.active = FALSE, !.changes = @ + 1]
  /\ Begins("admin", "disabled", "none")
  /\ excused' = excused \cup Overtaken
  /\ Smooth
  /\ UNCHANGED <<login, limiter>>

EnableUser ==
  /\ ~account.active
  /\ account' = [account EXCEPT !.active = TRUE]
  /\ Smooth
  /\ UNCHANGED <<login, change, limiter, excused>>

RevokeUserSessions ==
  /\ account.made /\ Live # {}
  /\ Begins("admin", "sessions", "none")
  /\ Smooth
  /\ UNCHANGED <<account, login, limiter, excused>>

(* RevokeOtherSessions and RevokeAllSessions end what is live and not kept. *)
Revoked_TheKept(keep) == [l \in Logins |->
  IF l \in Live /\ l = keep THEN [login[l] EXCEPT !.at = "revoked"] ELSE login[l]]
Revoked(keep) == [l \in Logins |->
  IF l \in Live /\ l # keep THEN [login[l] EXCEPT !.at = "revoked"] ELSE login[l]]

(* The second statement; when it fails the first stays.                    *)
RevokeSessions(c) ==
  /\ change[c] # NoChange
  /\ \/ login' = Revoked(change[c].keep) /\ Smooth
     \/ UNCHANGED login /\ Mishap
  /\ change' = [change EXCEPT ![c] = NoChange]
  /\ UNCHANGED <<account, limiter, excused>>

SessionsNext ==
  \/ \E l \in Logins :
       \/ Setup(l) \/ CheckLimiter(l) \/ VerifyLogin(l) \/ FailLogin(l) \/ ClearLimiter(l)
       \/ CreateSession(l) \/ RevokeSession(l) \/ SessionExpires(l) \/ ChangePassword(l)
  \/ \E c \in Changers : RevokeSessions(c)
  \/ DisableUser \/ EnableUser \/ RevokeUserSessions \/ LimiterForgets

SessionsSpec == SessionsInit /\ mishaps = 0 /\ [][SessionsNext]_sessionVars

-----------------------------------------------------------------------------
HalfDone == change # Idle

(* A change of password ends the sessions begun with the old one, and a    *)
(* disabled account has none, once both statements of the change are done: *)
(* left are the session that changed it, logins that were already past the *)
(* check of the password, and what a failed second statement left.         *)
ChangeEndsSessions ==
  \A l \in Live :
    login[l].password < account.password \/ ~account.active =>
      l \in excused \/ HalfDone \/ mishaps > 0

(* The entry is locked as soon as, and only when, it has counted as many   *)
(* failures as lock, however the logins that count them overlap.           *)
LimiterLocks == limiter.locked <=> limiter.failures >= MaxFailures

SessionsHold == ChangeEndsSessions /\ LimiterLocks
=============================================================================
