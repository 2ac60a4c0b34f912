-------------------------- MODULE DecisionsProofs -----------------------------
(***************************************************************************)
(* Theorems about what users and the server decide: who may do what, what  *)
(* is set, which encoder is used, and that an edit is kept. One component  *)
(* after the other, each with the inductive invariant it needs, for every  *)
(* value of its constants; RequestsProofs puts them together.              *)
(***************************************************************************)
EXTENDS Spaces, Shares, Sessions, Settings, MediaRules, Encoders, Bookmarks, Writeback,
        FiniteSetTheorems, FunctionTheorems, WellFoundedInduction, TLAPS

-----------------------------------------------------------------------------
(* Smallest numbers and sets.                                              *)

\* A set of numbers that is not empty has a least one.
LEMMA LeastNatural ==
  ASSUME NEW S \in SUBSET Nat, S # {} PROVE \E m \in S : \A n \in S : m <= n
<1> DEFINE R == {ss \in Nat \X Nat : ss[1] < ss[2]}
<1>1. IsWellFoundedOn(R, Nat)
  BY NatLessThanWellFounded DEF OpToRel
<1>2. \A x, y \in Nat : <<y, x>> \in R <=> y < x
  OBVIOUS
<1> HIDE DEF R
<1>3. PICK x \in S : \A y \in S : ~ (<<y, x>> \in R)
  BY <1>1, WFMin
<1>4. \A y \in S : y \in Nat /\ x \in Nat /\ ~ (y < x)
  BY <1>2, <1>3
<1> QED
  BY <1>4

\* Of the subsets of a finite set some have no smaller one among them.
LEMMA SmallestSet ==
  ASSUME NEW S, IsFiniteSet(S), NEW B \in SUBSET SUBSET S, B # {}
  PROVE  \E T \in B : \A U \in B : U \subseteq T => U = T
<1> DEFINE sizes == {n \in Nat : \E T \in B : Cardinality(T) = n}
<1>1. \A T \in SUBSET S : IsFiniteSet(T) /\ Cardinality(T) \in Nat
  BY FS_Subset, FS_CardinalityType
<1>2. sizes # {} /\ sizes \in SUBSET Nat
  BY <1>1
<1>3. PICK n \in sizes : \A k \in sizes : n <= k
  <2> HIDE DEF sizes
  <2> QED
    BY <1>2, LeastNatural
<1>4. PICK T \in B : Cardinality(T) = n
  OBVIOUS
<1>5. ASSUME NEW U \in B, U \subseteq T PROVE U = T
  <2>1. IsFiniteSet(T) /\ Cardinality(U) \in sizes /\ n \in Nat /\ Cardinality(U) \in Nat
    BY <1>1
  <2>2. Cardinality(U) <= Cardinality(T) /\ (Cardinality(T) = Cardinality(U) => T = U)
    BY <1>5, <2>1, FS_Subset
  <2> QED
    BY <1>3, <1>4, <2>1, <2>2
<1> QED
  BY <1>5

-----------------------------------------------------------------------------
(***************************************************************************)
(* Spaces (space/service.go). Nobody but the owner holds an owner's role:  *)
(* what keeps it is that no request to add a member carries that role.     *)
(***************************************************************************)

\* A request to add a member never carries the role of the owner.
GrantsNoOwner == \A r \in Requests : request[r].kind = "add" => request[r].to # "owner"

\* The inductive invariant of spaces.
SpacesInv == SpacesTypeOK /\ OneOwner /\ GrantsNoOwner

\* It holds at first.
LEMMA SpacesInitInv == SpacesInit => SpacesInv
  BY DEF SpacesInit, SpacesInv, SpacesTypeOK, OneOwner, GrantsNoOwner, NoSpaceRequest, Roles

\* Every request to a space keeps it: a transfer demotes the owner it promotes over.
LEMMA SpacesStep == SpacesInv /\ [SpacesNext]_spaceVars => SpacesInv'
<1> SUFFICES ASSUME SpacesInv, [SpacesNext]_spaceVars PROVE SpacesInv'
  OBVIOUS
<1> USE DEF SpacesInv, SpacesTypeOK, OneOwner, GrantsNoOwner, NoSpaceRequest, Roles, Kinds, Ended
<1>1. ASSUME NEW r \in Requests, NEW by \in Users, NEW about \in Users,
             NEW kind \in Kinds, NEW to \in {"viewer", "editor"},
             StartRequest(r, by, about, kind, to)
      PROVE  SpacesInv'
  BY <1>1 DEF StartRequest, AskedTransfer
<1>2. ASSUME NEW r \in Requests, ReadMember(r) PROVE SpacesInv'
  BY <1>2 DEF ReadMember
<1>3. ASSUME NEW r \in Requests, AddMember(r) PROVE SpacesInv'
  BY <1>3 DEF AddMember, ReadDone, MemberWritten
<1>4. ASSUME NEW r \in Requests, RemoveMember(r) PROVE SpacesInv'
  BY <1>4 DEF RemoveMember, ReadDone
<1>5. ASSUME NEW r \in Requests, TransferOwner(r) PROVE SpacesInv'
  BY <1>5 DEF TransferOwner, MayTransfer, OwnerMoved
<1>6. CASE RestartServer
  BY <1>6 DEF RestartServer, OwnerRowRepaired
<1>7. CASE UNCHANGED spaceVars
  BY <1>7 DEF spaceVars
<1> QED
  BY <1>1, <1>2, <1>3, <1>4, <1>5, <1>6, <1>7 DEF SpacesNext

\* Ownership passes on only by a transfer of the owner there is (space/service.go).
LEMMA OwnershipStep == [SpacesNext]_spaceVars => GivesOwnership
<1> SUFFICES ASSUME [SpacesNext]_spaceVars, owner' # owner
             PROVE \E r \in Requests : request[r].kind = "transfer" /\ request[r].by = owner
  BY DEF GivesOwnership
<1> QED
  BY DEF SpacesNext, spaceVars, StartRequest, ReadMember, AddMember, RemoveMember, RestartServer,
         TransferOwner, MayTransfer

\* However requests of members overlap, nobody but the owner of a space holds the role of
\* an owner (space/service.go).
THEOREM OneOwnerAlways == SpacesSpec => []OneOwner
<1>1. SpacesInv => OneOwner
  BY DEF SpacesInv
<1> QED
  BY SpacesInitInv, SpacesStep, <1>1, PTL DEF SpacesSpec

-----------------------------------------------------------------------------
(***************************************************************************)
(* Shares (share/service.go). A limit holds because each accepted visit    *)
(* has taken its use in one statement; the audit counts no more visits     *)
(* than were served.                                                       *)
(***************************************************************************)

\* The visits that were served.
Served == {v \in Visits : visit[v].at = "served"}

\* Every sampled event is that of a visit that has been served since.
EventsAreVisits == sampled.events <= Cardinality(Served)

\* A share without a limit counts nothing.
UnlimitedCountsNothing == share.max = 0 => share.uses = 0

\* The inductive invariant of shares.
SharesInv == SharesTypeOK /\ SharesHold /\ EventsAreVisits /\ UnlimitedCountsNothing

\* It holds at first.
LEMMA SharesInitInv == SharesInit => SharesInv
<1> SUFFICES ASSUME SharesInit PROVE SharesInv
  OBVIOUS
<1> USE SharesAssumption
<1>1. Accepted = {} /\ Served = {}
  BY DEF SharesInit, Accepted, Served
<1>2. Cardinality({}) = 0 /\ Cardinality(Visits) \in Nat
  BY FS_EmptySet, FS_CardinalityType
<1>3. SharesTypeOK
  <2>1. /\ share \in [in : BOOLEAN, uses : Uses, max : Uses, expired : BOOLEAN,
                        locked : BOOLEAN, download : BOOLEAN]
        /\ inScope \in BOOLEAN
    <3>1. 0 \in Uses
      BY DEF Uses
    <3> QED
      BY <3>1 DEF SharesInit
  <2>2. visit \in [Visits -> [at : {"new", "authorised", "allowed", "sampling", "recording",
                                    "served", "refused"},
                              to : Access, knows : BOOLEAN, late : BOOLEAN]]
    BY DEF SharesInit
  <2>3. sampled \in [seen : BOOLEAN, events : 0 .. Cardinality(Visits)]
    BY <1>2 DEF SharesInit
  <2> QED
    BY <2>1, <2>2, <2>3 DEF SharesTypeOK
<1>4. share.uses = 0 /\ \A v \in Visits : ~visit[v].late
  BY DEF SharesInit
<1>5. sampled.events = 0 /\ share.max \in Nat
  BY DEF SharesInit, Uses
<1> QED
  BY <1>1, <1>2, <1>3, <1>4, <1>5 DEF SharesInv, SharesHold, UsesAreCounted, RevokedLinkIsDead,
     EventsAreVisits, UnlimitedCountsNothing

\* Visits are finitely many, so the accepted and the served can be counted.
LEMMA VisitsAreFinite ==
  /\ IsFiniteSet(Accepted) /\ Cardinality(Accepted) \in Nat
  /\ IsFiniteSet(Served) /\ Cardinality(Served) \in Nat
  /\ Cardinality(Served) <= Cardinality(Visits)
  /\ Cardinality(Visits) \in Nat
<1>1. Accepted \in SUBSET Visits /\ Served \in SUBSET Visits
  BY DEF Accepted, Served
<1>2. IsFiniteSet(Visits)
  BY SharesAssumption
<1>3. ASSUME NEW S \in SUBSET Visits
      PROVE  IsFiniteSet(S) /\ Cardinality(S) \in Nat /\ Cardinality(S) <= Cardinality(Visits)
  BY <1>2, FS_Subset, FS_CardinalityType
<1> QED
  BY <1>1, <1>2, <1>3, FS_CardinalityType

\* Every step of a visit, and every change of a share, keeps it.
LEMMA SharesStep == SharesInv /\ [SharesNext]_shareVars => SharesInv'
<1> SUFFICES ASSUME SharesInv, [SharesNext]_shareVars PROVE SharesInv'
  OBVIOUS
<1> USE SharesAssumption, VisitsAreFinite DEF SharesInv, SharesTypeOK, SharesHold, UsesAreCounted,
    RevokedLinkIsDead, EventsAreVisits, UnlimitedCountsNothing, Uses, Access, At, GoesTo
<1>1. ASSUME NEW v \in Visits, ShareAuth(v) \/ ResolveShareMedia(v) PROVE SharesInv'
  <2>1. Accepted' = Accepted /\ Served' = Served
    BY <1>1 DEF ShareAuth, ResolveShareMedia, Accepted, Served
  <2> QED
    BY <1>1, <2>1 DEF ShareAuth, ResolveShareMedia
<1>2. ASSUME NEW v \in Visits, ConsumeUse(v) PROVE SharesInv'
  <2>1. Served' = Served
    BY <1>2 DEF ConsumeUse, Served
  <2>2. CASE ConsumesFrom(share) /\ HasUse(share)
    <3>1. Accepted' = Accepted \cup {v} /\ v \notin Accepted
      BY <1>2, <2>2 DEF ConsumeUse, Accepted
    <3>2. Cardinality(Accepted') = Cardinality(Accepted) + 1
      BY <3>1, FS_AddElement
    <3> QED
      BY <1>2, <2>1, <2>2, <3>1, <3>2 DEF ConsumeUse, Counted, HasUse, ConsumesFrom
  <2>3. CASE ~(ConsumesFrom(share) /\ HasUse(share))
    <3>1. Accepted' = Accepted
      BY <1>2, <2>3 DEF ConsumeUse, Accepted
    <3> QED
      BY <1>2, <2>1, <2>3, <3>1 DEF ConsumeUse
  <2> QED
    BY <2>2, <2>3
<1>3. ASSUME NEW v \in Visits, SampleAccess(v) PROVE SharesInv'
  <2>0. Accepted' = Accepted
    BY <1>3 DEF SampleAccess, Accepted
  <2>1. Served' = Served \cup {v} \/ Served' = Served
    BY <1>3 DEF SampleAccess, Served
  <2>2. v \notin Served
    BY <1>3 DEF SampleAccess, Served
  <2>3. Cardinality(Served \cup {v}) = Cardinality(Served) + 1
    BY <2>2, FS_AddElement
  <2>4. Cardinality(Served) <= Cardinality(Served') /\ Cardinality(Served') \in Nat
    BY <2>1, <2>3
  <2> QED
    BY <1>3, <2>0, <2>4 DEF SampleAccess
<1>4. ASSUME NEW v \in Visits, RecordShareAccessed(v) PROVE SharesInv'
  <2>1. Accepted' = Accepted
    BY <1>4 DEF RecordShareAccessed, Accepted
  <2>2. Served' = Served \cup {v} /\ v \notin Served
    BY <1>4 DEF RecordShareAccessed, Served
  <2>3. Cardinality(Served') = Cardinality(Served) + 1
    BY <2>2, FS_AddElement
  <2>4. Cardinality(Served') <= Cardinality(Visits)
    <3>1. Served' \in SUBSET Visits
      BY DEF Served
    <3> QED
      BY <3>1, FS_Subset
  <2> QED
    BY <1>4, <2>1, <2>3, <2>4 DEF RecordShareAccessed
<1>5. CASE RevokeShare \/ ShareExpires \/ MediaLeavesShare
  <2>1. Accepted' = Accepted /\ Served' = Served
    BY <1>5 DEF RevokeShare, ShareExpires, MediaLeavesShare, Accepted, Served
  <2> QED
    BY <1>5, <2>1 DEF RevokeShare, ShareExpires, MediaLeavesShare
<1>6. CASE UNCHANGED shareVars
  BY <1>6 DEF shareVars, Accepted, Served
<1> QED
  BY <1>1, <1>2, <1>3, <1>4, <1>5, <1>6 DEF SharesNext

\* A share is used as often as its limit says, whatever overlaps (share/service.go).
THEOREM SharesHoldAlways == SharesSpec => []SharesHold
<1>1. SharesInv => SharesHold
  BY DEF SharesInv
<1> QED
  BY SharesInitInv, SharesStep, <1>1, PTL DEF SharesSpec

-----------------------------------------------------------------------------
(***************************************************************************)
(* Sessions (auth). A session made after a change of the password was made *)
(* by a login that a change met between its check and its insert: such     *)
(* logins are what `excused` names.                                        *)
(***************************************************************************)

\* The logins that were refused.
RefusedLogins == {l \in Logins : login[l].at = "refused"}

\* Each failure the limiter has counted is that of a login it has refused.
FailuresAreRefusals == limiter.failures <= Cardinality(RefusedLogins)

\* Passwords are numbered by the changes; before the set-up there are none.
AccountFits ==
  /\ mishaps \in Nat
  /\ account.password <= account.changes
  /\ ~account.made =>
       account.active /\ account.password = 0 /\ \A l \in Logins : login[l].at = "new"
  /\ \A l \in Logins : login[l].at = "new" => login[l].password = 0

\* A login past the check of its password either fits the account as it is, or
\* a change has met it there.
VerifiedFits ==
  \A l \in Overtaken :
    l \in excused \/ (login[l].password = account.password /\ account.active)

\* The second statement of a change spares nobody but who is excused.
KeepsTheExcused ==
  /\ change["user"].keep \in excused \cup {"none"}
  /\ change["admin"].keep = "none"

\* The inductive invariant of sessions.
SessionsInv ==
  /\ SessionsTypeOK /\ SessionsHold
  /\ FailuresAreRefusals /\ AccountFits /\ VerifiedFits /\ KeepsTheExcused

\* It holds at first.
LEMMA SessionsInitInv == SessionsInit /\ mishaps = 0 => SessionsInv
<1> SUFFICES ASSUME SessionsInit, mishaps = 0 PROVE SessionsInv
  OBVIOUS
<1> USE SessionsAssumption DEF SessionsInit, Idle, NoChange, NoEntry, Changers
<1>1. RefusedLogins = {} /\ Live = {} /\ Overtaken = {}
  BY DEF RefusedLogins, Live, Overtaken
<1>2. Cardinality({}) = 0 /\ Cardinality(Logins) \in Nat
  BY FS_EmptySet, FS_CardinalityType
<1>3. SessionsTypeOK
  BY <1>2 DEF SessionsTypeOK, Steps, States
<1>4. FailuresAreRefusals /\ AccountFits /\ VerifiedFits /\ KeepsTheExcused
  BY <1>1, <1>2 DEF FailuresAreRefusals, AccountFits, VerifiedFits, KeepsTheExcused
<1>5. SessionsHold
  BY <1>1 DEF SessionsHold, ChangeEndsSessions, LimiterLocks
<1> QED
  BY <1>3, <1>4, <1>5 DEF SessionsInv

\* The refused logins can be counted.
LEMMA RefusalsAreFinite ==
  /\ IsFiniteSet(RefusedLogins) /\ Cardinality(RefusedLogins) \in Nat
  /\ Cardinality(Logins) \in Nat /\ Cardinality(RefusedLogins) <= Cardinality(Logins)
<1>1. RefusedLogins \in SUBSET Logins
  BY DEF RefusedLogins
<1> QED
  BY <1>1, FS_Subset, FS_CardinalityType, SessionsAssumption

\* A login that is refused is one more.
LEMMA OneMoreRefusal ==
  ASSUME SessionsInv, NEW l \in Logins, login[l].at # "refused", login'[l].at = "refused",
         \A k \in Logins \ {l} : login'[k] = login[k]
  PROVE  /\ Cardinality(RefusedLogins') = Cardinality(RefusedLogins) + 1
         /\ Cardinality(RefusedLogins') <= Cardinality(Logins)
<1>1. RefusedLogins' = RefusedLogins \cup {l} /\ l \notin RefusedLogins
  BY DEF RefusedLogins
<1>2. RefusedLogins' \in SUBSET Logins
  BY DEF RefusedLogins
<1> QED
  BY <1>1, <1>2, FS_AddElement, FS_Subset, RefusalsAreFinite, SessionsAssumption

\* Every step of a login, of a change and of the limiter keeps it.
LEMMA SessionsStep == SessionsInv /\ [SessionsNext]_sessionVars => SessionsInv'
<1> SUFFICES ASSUME SessionsInv, [SessionsNext]_sessionVars PROVE SessionsInv'
  OBVIOUS
<1> USE SessionsAssumption, FaultsAssumption, RefusalsAreFinite
    DEF SessionsInv, SessionsTypeOK, SessionsHold, ChangeEndsSessions, HalfDone, LimiterLocks,
        FailuresAreRefusals, AccountFits, VerifiedFits, KeepsTheExcused, Live, Overtaken, Steps,
        States, Changers, Idle, NoChange, NoEntry, LoginTo, Smooth, Begins
<1>1. ASSUME NEW l \in Logins, Setup(l) PROVE SessionsInv'
  <2>1. RefusedLogins' = RefusedLogins
    BY <1>1 DEF Setup, RefusedLogins
  <2>a. SessionsTypeOK'
    BY <1>1, <2>1 DEF Setup
  <2>b. FailuresAreRefusals'
    BY <1>1, <2>1 DEF Setup
  <2>c. AccountFits'
    BY <1>1, <2>1 DEF Setup
  <2>d. VerifiedFits'
    BY <1>1, <2>1 DEF Setup
  <2>e. KeepsTheExcused'
    BY <1>1, <2>1 DEF Setup
  <2>f. ChangeEndsSessions'
    BY <1>1, <2>1 DEF Setup
  <2>g. LimiterLocks'
    BY <1>1, <2>1 DEF Setup
  <2> QED
    BY <2>a, <2>b, <2>c, <2>d, <2>e, <2>f, <2>g
<1>2. ASSUME NEW l \in Logins, CheckLimiter(l) PROVE SessionsInv'
  <2>1. CASE limiter.locked
    <3>1. login'[l].at = "refused" /\ \A k \in Logins \ {l} : login'[k] = login[k]
      BY <1>2, <2>1 DEF CheckLimiter
    <3> QED
      BY <1>2, <2>1, <3>1, OneMoreRefusal DEF CheckLimiter
  <2>2. CASE ~limiter.locked
    <3>1. RefusedLogins' = RefusedLogins
      BY <1>2, <2>2 DEF CheckLimiter, RefusedLogins
    <3> QED
      BY <1>2, <2>2, <3>1 DEF CheckLimiter
  <2> QED
    BY <2>1, <2>2
<1>3. ASSUME NEW l \in Logins, VerifyLogin(l) PROVE SessionsInv'
  <2>1. RefusedLogins' = RefusedLogins
    BY <1>3 DEF VerifyLogin, RefusedLogins
  <2> QED
    BY <1>3, <2>1 DEF VerifyLogin
<1>4. ASSUME NEW l \in Logins, FailLogin(l) PROVE SessionsInv'
  <2>1. /\ Cardinality(RefusedLogins') = Cardinality(RefusedLogins) + 1
        /\ Cardinality(RefusedLogins') <= Cardinality(Logins)
    BY <1>4, OneMoreRefusal DEF FailLogin
  <2>a. SessionsTypeOK'
    BY <1>4, <2>1 DEF FailLogin, Locks
  <2>b. FailuresAreRefusals'
    BY <1>4, <2>1 DEF FailLogin, Locks
  <2>c. AccountFits'
    BY <1>4 DEF FailLogin, Locks
  <2>d. VerifiedFits'
    BY <1>4 DEF FailLogin, Locks
  <2>e. KeepsTheExcused'
    BY <1>4 DEF FailLogin, Locks
  <2>f. ChangeEndsSessions'
    BY <1>4 DEF FailLogin, Locks
  <2>g. LimiterLocks'
    BY <1>4 DEF FailLogin, Locks
  <2> QED
    BY <2>a, <2>b, <2>c, <2>d, <2>e, <2>f, <2>g
<1>5. ASSUME NEW l \in Logins, ClearLimiter(l) PROVE SessionsInv'
  <2>1. RefusedLogins' = RefusedLogins
    BY <1>5 DEF ClearLimiter, RefusedLogins
  <2> QED
    BY <1>5, <2>1 DEF ClearLimiter
<1>11. ASSUME NEW l \in Logins, CreateSession(l) PROVE SessionsInv'
  <2>1. RefusedLogins' = RefusedLogins
    BY <1>11 DEF CreateSession, RefusedLogins
  <2> QED
    BY <1>11, <2>1 DEF CreateSession
<1>6. ASSUME NEW l \in Logins, RevokeSession(l) \/ SessionExpires(l) PROVE SessionsInv'
  <2>1. RefusedLogins' = RefusedLogins
    BY <1>6 DEF RevokeSession, SessionExpires, RefusedLogins
  <2> QED
    BY <1>6, <2>1 DEF RevokeSession, SessionExpires
<1>7. ASSUME NEW l \in Logins, ChangePassword(l) PROVE SessionsInv'
  <2>1. RefusedLogins' = RefusedLogins
    BY <1>7 DEF ChangePassword, RefusedLogins
  <2>a. SessionsTypeOK'
    <3>1. account' = [account EXCEPT !.password = account.password + 1, !.changes = account.changes + 1]
      BY <1>7 DEF ChangePassword
    <3>2. account.password + 1 \in 0 .. MaxChanges /\ account.changes + 1 \in 0 .. MaxChanges
      BY <1>7 DEF ChangePassword
    <3>3. account' \in [made : BOOLEAN, active : BOOLEAN, password : 0 .. MaxChanges,
                         changes : 0 .. MaxChanges]
      BY <3>1, <3>2
    <3> QED
      BY <1>7, <3>3 DEF ChangePassword
  <2>b. FailuresAreRefusals'
    BY <1>7, <2>1 DEF ChangePassword
  <2>c. AccountFits'
    BY <1>7, <2>1 DEF ChangePassword
  <2>d. VerifiedFits'
    BY <1>7, <2>1 DEF ChangePassword
  <2>e. KeepsTheExcused'
    BY <1>7, <2>1 DEF ChangePassword
  <2>f. ChangeEndsSessions'
    BY <1>7, <2>1 DEF ChangePassword
  <2>g. LimiterLocks'
    BY <1>7, <2>1 DEF ChangePassword
  <2> QED
    BY <2>a, <2>b, <2>c, <2>d, <2>e, <2>f, <2>g
<1>8. ASSUME NEW c \in Changers, RevokeSessions(c) PROVE SessionsInv'
  <2>1. RefusedLogins' = RefusedLogins
    BY <1>8 DEF RevokeSessions, Revoked, RefusedLogins
  <2> QED
    BY <1>8, <2>1 DEF RevokeSessions, Revoked, Mishap
<1>9. CASE DisableUser
  <2>1. RefusedLogins' = RefusedLogins
    BY <1>9 DEF DisableUser, RefusedLogins
  <2>a. SessionsTypeOK'
    <3>1. account.changes + 1 \in 0 .. MaxChanges
      BY <1>9 DEF DisableUser
    <3>2. account' \in [made : BOOLEAN, active : BOOLEAN, password : 0 .. MaxChanges,
                         changes : 0 .. MaxChanges]
      BY <1>9, <3>1 DEF DisableUser
    <3> QED
      BY <1>9, <3>2 DEF DisableUser
  <2>b. FailuresAreRefusals'
    BY <1>9, <2>1 DEF DisableUser
  <2>c. AccountFits'
    BY <1>9, <2>1 DEF DisableUser
  <2>d. VerifiedFits'
    BY <1>9, <2>1 DEF DisableUser
  <2>e. KeepsTheExcused'
    BY <1>9, <2>1 DEF DisableUser
  <2>f. ChangeEndsSessions'
    BY <1>9, <2>1 DEF DisableUser
  <2>g. LimiterLocks'
    BY <1>9, <2>1 DEF DisableUser
  <2> QED
    BY <2>a, <2>b, <2>c, <2>d, <2>e, <2>f, <2>g
<1>12. CASE EnableUser
  <2>1. RefusedLogins' = RefusedLogins
    BY <1>12 DEF EnableUser, RefusedLogins
  <2> QED
    BY <1>12, <2>1 DEF EnableUser
<1>13. CASE RevokeUserSessions
  <2>1. RefusedLogins' = RefusedLogins
    BY <1>13 DEF RevokeUserSessions, RefusedLogins
  <2> QED
    BY <1>13, <2>1 DEF RevokeUserSessions
<1>14. CASE LimiterForgets
  <2>1. RefusedLogins' = RefusedLogins
    BY <1>14 DEF LimiterForgets, RefusedLogins
  <2> QED
    BY <1>14, <2>1 DEF LimiterForgets
<1>10. CASE UNCHANGED sessionVars
  BY <1>10 DEF sessionVars, RefusedLogins
<1> QED
  BY <1>1, <1>2, <1>3, <1>4, <1>5, <1>6, <1>7, <1>8, <1>9, <1>10,
     <1>11, <1>12, <1>13, <1>14 DEF SessionsNext

\* A session ends with what it was made from (auth).
THEOREM SessionsHoldAlways == SessionsSpec => []SessionsHold
<1>1. SessionsInv => SessionsHold
  BY DEF SessionsInv
<1> QED
  BY SessionsInitInv, SessionsStep, <1>1, PTL DEF SessionsSpec

-----------------------------------------------------------------------------
(***************************************************************************)
(* Settings and their undoing (settings, rollback). What runs is what is   *)
(* stored, unless a save was overtaken; the audit masks the sensitive keys *)
(* and no other, so that undoing a change restores all of it.              *)
(***************************************************************************)

\* Values as they are stored, none masked.
Plain == [SettingKeys -> Written \cup {Absent}]

\* What a request is about to write or to apply is never a masked value.
SavesPlain == \A s \in Savers : saving[s].values \in Plain

\* What a save is about to apply is what is stored, unless something overtook it.
AppliesStored ==
  \A s \in Savers, k \in Hot :
    k \in Applying(s) /\ saving[s].values[k] # Absent => stored[k] = saving[s].values[k] \/ k \in stale

\* The audit masks the sensitive keys and no other.
MasksSensitive ==
  \A i \in DOMAIN events, k \in SettingKeys \ Sensitive :
    events[i].before[k] # Masked /\ events[i].after[k] # Masked

\* The inductive invariant of settings.
SettingsInv ==
  SettingsTypeOK /\ SavesPlain /\ AppliesStored /\ MasksSensitive /\ RunsAsStored

\* Undoing an event that may be undone sets every key it set, to a plain value.
LEMMA UndoingIsWhole ==
  ASSUME NEW e \in [before : Map, after : Map], Revertable(e),
         \A k \in SettingKeys \ Sensitive : e.before[k] # Masked /\ e.after[k] # Masked
  PROVE  /\ RestoredValues(e) \in Plain
         /\ \A k \in StoredKeys(e.after) : /\ k \in StoredKeys(RestoredValues(e))
                                           /\ RestoredValues(e)[k] # Masked
<1> USE DEF Revertable, StoredKeys, RestoredValues, RestoredValue, Map, Plain, Written, Absent,
            Masked, EmptyText, SettingKeys, Sensitive
<1>1. RestoredValues(e) \in Plain
  OBVIOUS
<1>2. \A k \in StoredKeys(e.after) : k \in StoredKeys(RestoredValues(e)) /\ RestoredValues(e)[k] # Masked
  OBVIOUS
<1> QED
  BY <1>1, <1>2

\* Events of the audit have the values before and after.
LEMMA EventsAreRecords ==
  SettingsTypeOK => \A i \in DOMAIN events : events[i] \in [before : Map, after : Map]
<1>1. ASSUME NEW R, events \in Seq(R) PROVE \A i \in DOMAIN events : events[i] \in R
  BY <1>1
<1> QED
  BY <1>1 DEF SettingsTypeOK

\* It holds at first.
LEMMA SettingsInitInv == SettingsInit => SettingsInv
<1> SUFFICES ASSUME SettingsInit PROVE SettingsInv
  OBVIOUS
<1>a. events \in Seq([before : Map, after : Map]) /\ Len(events) <= MaxSettingChanges
  BY SettingsAssumption DEF SettingsInit
<1> USE SettingsAssumption DEF SettingsInit, Nothing, NoSave, Effective, Written, Absent, Masked,
        EmptyText, SettingKeys, Hot, Map, Plain
<1>1. SettingsTypeOK
  <2>1. Nothing \in Map /\ NoSave \in [at : {"idle", "rolling"} \cup Hot, values : Map]
    OBVIOUS
  <2> QED
    BY <2>1, <1>a DEF SettingsTypeOK
<1>2. SavesPlain /\ AppliesStored /\ MasksSensitive
  <2>1. SavesPlain
    BY DEF SavesPlain
  <2>2. MasksSensitive
    BY ONLY events = <<>> DEF MasksSensitive
  <2>3. \A s \in Savers : saving[s].at = "idle"
    OBVIOUS
  <2> QED
    BY <2>1, <2>2, <2>3 DEF AppliesStored, Applying
<1>3. RunsAsStored
  BY DEF RunsAsStored
<1> QED
  BY <1>1, <1>2, <1>3 DEF SettingsInv

\* One transaction of SetMany: what it stores, and what it leaves in the audit.
LEMMA WriteFits ==
  ASSUME SettingsTypeOK, MasksSensitive, NEW values \in Plain, Write(values)
  PROVE  /\ stored' \in Plain
         /\ \A k \in SettingKeys : stored'[k] = IF values[k] # Absent THEN values[k] ELSE stored[k]
         /\ events' \in Seq([before : Map, after : Map]) /\ Len(events') <= MaxSettingChanges
         /\ MasksSensitive'
<1> DEFINE before == [k \in SettingKeys |-> IF k \in StoredKeys(values) THEN stored[k] ELSE Absent]
           e == [before |-> Redacted(before), after |-> Redacted(values)]
<1>1. stored \in Plain /\ before \in Plain
  BY DEF SettingsTypeOK, Plain, Written
<1>2. \A v \in Plain : /\ Redacted(v) \in Map
                       /\ \A k \in SettingKeys \ Sensitive : Redacted(v)[k] # Masked
  BY DEF Plain, Redacted, Map, Written, Absent, Masked, EmptyText
<1>3. e \in [before : Map, after : Map] /\ events' = Append(events, e) /\ Len(events) < MaxSettingChanges
  BY <1>1, <1>2 DEF Write
<1>4. events \in Seq([before : Map, after : Map])
  BY DEF SettingsTypeOK
<1>5. events' \in Seq([before : Map, after : Map]) /\ Len(events') <= MaxSettingChanges
  BY <1>3, <1>4, SettingsAssumption
<1>6. MasksSensitive'
  <2>1. \A i \in DOMAIN events' : (i \in DOMAIN events /\ events'[i] = events[i]) \/ events'[i] = e
    BY <1>3, <1>4
  <2> QED
    BY <2>1, <1>1, <1>2 DEF MasksSensitive
<1>7. /\ stored' \in Plain
      /\ \A k \in SettingKeys : stored'[k] = IF values[k] # Absent THEN values[k] ELSE stored[k]
  BY <1>1 DEF Write, StoredKeys, Plain
<1> QED
  BY <1>5, <1>6, <1>7

\* Every step of a save, of its application and of an undoing keeps it.
LEMMA SettingsStep == SettingsInv /\ [SettingsNext]_settingsVars => SettingsInv'
<1> SUFFICES ASSUME SettingsInv, [SettingsNext]_settingsVars PROVE SettingsInv'
  OBVIOUS
<1> USE DEF SettingsInv
<1>a. /\ stored \in Plain /\ applied \in [Hot -> Written]
      /\ saving \in [Savers -> [at : {"idle", "rolling"} \cup Hot, values : Map]]
      /\ stale \subseteq Hot /\ Hot = {"path", "proxy"} /\ Hot \subseteq SettingKeys
      /\ Plain \subseteq Map /\ Absent \notin Written
      /\ Plain = [SettingKeys -> Written \cup {Absent}]
  BY DEF SettingsTypeOK, Plain, Hot, SettingKeys, Map, Written, Absent, EmptyText
<1>b. \A v \in Plain : \A k \in Hot :
        Effective(v)[k] = IF v[k] = Absent THEN EmptyText ELSE v[k]
  BY DEF Effective
<1>1. ASSUME NEW s \in Savers, SaveSettings(s) PROVE SettingsInv'
  <2>1. PICK values \in Plain :
          /\ Write(values) /\ saving' = [saving EXCEPT ![s] = [at |-> "path", values |-> values]]
          /\ stale' = stale \cup {k \in Hot \cap StoredKeys(values) : ToBeApplied(k) # {}}
          /\ saving[s].at = "idle" /\ UNCHANGED applied
    BY <1>1 DEF SaveSettings, Plain
  <2>2. /\ stored' \in Plain
        /\ \A k \in SettingKeys : stored'[k] = IF values[k] # Absent THEN values[k] ELSE stored[k]
        /\ events' \in Seq([before : Map, after : Map]) /\ Len(events') <= MaxSettingChanges
        /\ MasksSensitive'
    BY <2>1, WriteFits
  <2>3. /\ saving' \in [Savers -> [at : {"idle", "rolling"} \cup Hot, values : Map]]
        /\ stale' \subseteq Hot
        /\ saving'[s].at = "path" /\ saving'[s].values = values
        /\ \A t \in Savers \ {s} : saving'[t] = saving[t]
    BY <2>1, <1>a
  <2>4. SettingsTypeOK'
    BY <2>1, <2>2, <2>3, <1>a DEF SettingsTypeOK
  <2>5. SavesPlain'
    BY <2>3 DEF SavesPlain
  <2>6. Applying(s)' = Hot /\ \A t \in Savers \ {s} : Applying(t)' = Applying(t)
    BY <2>3 DEF Applying
  <2>7. AppliesStored'
    <3>1. \A k \in Hot : values[k] # Absent => stored'[k] = values[k]
      BY <2>2, <1>a
    <3>2. ASSUME NEW t \in Savers \ {s}, NEW k \in Hot, k \in Applying(t), saving[t].values[k] # Absent
          PROVE  stored'[k] = saving[t].values[k] \/ k \in stale'
      <4>1. CASE values[k] = Absent
        BY <4>1, <3>2, <2>1, <2>2, <1>a DEF AppliesStored
      <4>2. CASE values[k] # Absent
        BY <4>2, <3>2, <2>1, <1>a DEF ToBeApplied, StoredKeys
      <4> QED
        BY <4>1, <4>2
    <3> QED
      BY <3>1, <3>2, <2>3, <2>6 DEF AppliesStored
  <2>8. RunsAsStored'
    <3> SUFFICES ASSUME NEW k \in Hot
                 PROVE  applied'[k] = Effective(stored)'[k] \/ k \in stale' \/ ToBeApplied(k)' # {}
      BY DEF RunsAsStored
    <3>1. CASE values[k] # Absent
      BY <3>1, <2>3, <2>6 DEF ToBeApplied
    <3>2. CASE values[k] = Absent
      <4>1. stored'[k] = stored[k]
        BY <3>2, <2>2, <1>a
      <4>2. ToBeApplied(k) \subseteq ToBeApplied(k)'
        <5>1. s \notin ToBeApplied(k)
          BY <2>1 DEF ToBeApplied, Applying
        <5> QED
          BY <5>1, <2>3, <2>6 DEF ToBeApplied
      <4>3. Effective(stored)'[k] = Effective(stored)[k]
        BY <4>1, <2>2, <1>a DEF Effective
      <4> QED
        BY <4>2, <4>3, <2>1 DEF RunsAsStored
    <3> QED
      BY <3>1, <3>2
  <2> QED
    BY <2>2, <2>4, <2>5, <2>7, <2>8
<1>2. ASSUME NEW s \in Savers, ApplySetting(s) PROVE SettingsInv'
  <2> DEFINE k == saving[s].at  v == saving[s].values[k]
  <2>1. /\ k \in Hot /\ UNCHANGED <<stored, events>>
        /\ applied' = IF Takes(k, v) THEN [applied EXCEPT ![k] = v] ELSE applied
        /\ stale' = IF k = "path" /\ v = EmptyText THEN stale \cup {k} ELSE stale
        /\ saving' = [saving EXCEPT ![s] = IF k = "path" THEN [saving[s] EXCEPT !.at = "proxy"] ELSE NoSave]
    BY <1>2 DEF ApplySetting
  <2>2. saving[s].values \in Plain /\ v \in Written \cup {Absent} /\ Nothing \in Plain
    BY <2>1, <1>a DEF SavesPlain, Nothing
  <2>3. /\ applied' \in [Hot -> Written] /\ stale' \subseteq Hot /\ stale \subseteq stale'
        /\ \A j \in Hot \ {k} : applied'[j] = applied[j]
    BY <2>1, <2>2, <1>a DEF Takes
  <2>4. /\ saving' \in [Savers -> [at : {"idle", "rolling"} \cup Hot, values : Map]]
        /\ \A t \in Savers \ {s} : saving'[t] = saving[t]
        /\ \/ k = "path" /\ saving'[s].at = "proxy" /\ saving'[s].values = saving[s].values
           \/ k = "proxy" /\ saving'[s].at = "idle" /\ saving'[s].values = Nothing
    BY <2>1, <2>2, <1>a DEF NoSave
  <2>5. SettingsTypeOK'
    BY <2>1, <2>3, <2>4 DEF SettingsTypeOK
  <2>6. SavesPlain' /\ MasksSensitive'
    BY <2>1, <2>2, <2>4 DEF SavesPlain, MasksSensitive
  <2>7. \A t \in Savers \ {s} : Applying(t)' = Applying(t)
    BY <2>4 DEF Applying
  <2>8. k \in Applying(s) /\ Applying(s)' = Applying(s) \ {k} /\ Applying(s) \subseteq Hot
    BY <2>1, <2>4 DEF Applying, Hot
  <2>9. AppliesStored'
    BY <2>1, <2>3, <2>4, <2>7, <2>8 DEF AppliesStored, Applying
  <2>10. RunsAsStored'
    <3> SUFFICES ASSUME NEW j \in Hot
                 PROVE  applied'[j] = Effective(stored)'[j] \/ j \in stale' \/ ToBeApplied(j)' # {}
      BY DEF RunsAsStored
    <3>1. Effective(stored)' = Effective(stored)
      BY <2>1 DEF Effective
    <3>2. CASE j # k
      <4>1. \A t \in Savers : j \in Applying(t) => j \in Applying(t)'
        BY <3>2, <2>7, <2>8
      <4>2. \A t \in Savers : j \in Applying(t) => saving'[t].values = saving[t].values
        BY <3>2, <2>4 DEF Applying
      <4>3. ToBeApplied(j) \subseteq ToBeApplied(j)'
        BY <4>1, <4>2 DEF ToBeApplied
      <4> QED
        BY <4>3, <3>1, <3>2, <2>3 DEF RunsAsStored
    <3>3. CASE j = k /\ v = Absent
      <4>1. ToBeApplied(j) \subseteq ToBeApplied(j)'
        BY <3>3, <2>4, <2>7 DEF ToBeApplied
      <4>2. applied' = applied
        BY <3>3, <2>1 DEF Takes
      <4> QED
        BY <4>1, <4>2, <3>1, <2>3 DEF RunsAsStored
    <3>4. CASE j = k /\ v # Absent
      <4>1. stored[j] = v \/ j \in stale
        BY <3>4, <2>8 DEF AppliesStored
      <4>2. CASE Takes(k, v)
        BY <3>4, <4>1, <4>2, <2>1, <2>3, <1>a, <1>b, <3>1
      <4>3. CASE ~Takes(k, v)
        BY <3>4, <4>3, <2>1 DEF Takes
      <4> QED
        BY <4>2, <4>3
    <3> QED
      BY <3>2, <3>3, <3>4
  <2> QED
    BY <2>5, <2>6, <2>9, <2>10
<1>3. ASSUME NEW s \in Savers, StartRollback(s) PROVE SettingsInv'
  <2>1. PICK i \in DOMAIN events :
          /\ Revertable(events[i])
          /\ saving' = [saving EXCEPT ![s] = [at |-> "rolling", values |-> RestoredValues(events[i])]]
    BY <1>3 DEF StartRollback
  <2>2. saving[s].at = "idle" /\ UNCHANGED <<stored, applied, events, stale>>
    BY <1>3 DEF StartRollback
  <2>3. RestoredValues(events[i]) \in Plain
    <3>1. events[i] \in [before : Map, after : Map]
      BY EventsAreRecords
    <3> QED
      BY <2>1, <3>1, UndoingIsWhole DEF MasksSensitive
  <2>4. /\ saving' \in [Savers -> [at : {"idle", "rolling"} \cup Hot, values : Map]]
        /\ saving'[s].at = "rolling" /\ saving'[s].values = RestoredValues(events[i])
        /\ \A t \in Savers \ {s} : saving'[t] = saving[t]
    BY <2>1, <2>3, <1>a
  <2>5. SettingsTypeOK' /\ SavesPlain' /\ MasksSensitive'
    BY <2>2, <2>3, <2>4 DEF SettingsTypeOK, SavesPlain, MasksSensitive
  <2>6. /\ Applying(s) = {} /\ Applying(s)' = {}
        /\ \A t \in Savers \ {s} : Applying(t)' = Applying(t)
    BY <2>2, <2>4 DEF Applying
  <2>7. AppliesStored'
    BY <2>2, <2>4, <2>6 DEF AppliesStored
  <2>8. \A k \in Hot : ToBeApplied(k)' = ToBeApplied(k)
    BY <2>4, <2>6 DEF ToBeApplied
  <2>9. RunsAsStored'
    BY <2>2, <2>8 DEF RunsAsStored, Effective
  <2> QED
    BY <2>5, <2>7, <2>9
<1>4. ASSUME NEW s \in Savers, ApplyRollback(s) PROVE SettingsInv'
  <2> DEFINE values == saving[s].values
  <2>1. saving[s].at = "rolling" /\ saving' = [saving EXCEPT ![s] = NoSave] /\ UNCHANGED applied
    BY <1>4 DEF ApplyRollback
  <2>2. values \in Plain /\ Nothing \in Plain
    BY <1>a DEF SavesPlain, Nothing
  <2>3. /\ saving' \in [Savers -> [at : {"idle", "rolling"} \cup Hot, values : Map]]
        /\ saving'[s].at = "idle" /\ saving'[s].values = Nothing
        /\ \A t \in Savers \ {s} : saving'[t] = saving[t]
    BY <2>1, <2>2, <1>a DEF NoSave
  <2>4. /\ Applying(s) = {} /\ Applying(s)' = {}
        /\ \A t \in Savers \ {s} : Applying(t)' = Applying(t)
    BY <2>1, <2>3 DEF Applying
  <2>5. \A k \in Hot : ToBeApplied(k)' = ToBeApplied(k)
    BY <2>3, <2>4 DEF ToBeApplied
  <2>6. SavesPlain'
    BY <2>2, <2>3 DEF SavesPlain
  <2>7. CASE Write(values) /\ stale' = stale \cup (Hot \cap StoredKeys(values))
    <3>1. /\ stored' \in Plain
          /\ \A k \in SettingKeys : stored'[k] = IF values[k] # Absent THEN values[k] ELSE stored[k]
          /\ events' \in Seq([before : Map, after : Map]) /\ Len(events') <= MaxSettingChanges
          /\ MasksSensitive'
      BY <2>2, <2>7, WriteFits
    <3>2. SettingsTypeOK'
      BY <2>1, <2>3, <2>7, <3>1, <1>a DEF SettingsTypeOK
    <3>3. \A k \in Hot : stored'[k] = stored[k] \/ k \in stale'
      BY <2>7, <3>1, <1>a DEF StoredKeys
    <3>4. AppliesStored'
      BY <2>3, <2>4, <2>7, <3>3 DEF AppliesStored
    <3>5. RunsAsStored'
      BY <2>1, <2>5, <2>7, <3>1, <3>3, <1>a DEF RunsAsStored, Effective
    <3> QED
      BY <2>6, <3>1, <3>2, <3>4, <3>5
  <2>8. CASE UNCHANGED <<stored, events, stale>>
    <3>1. SettingsTypeOK' /\ MasksSensitive' /\ AppliesStored'
      BY <2>1, <2>3, <2>4, <2>8 DEF SettingsTypeOK, MasksSensitive, AppliesStored
    <3>2. RunsAsStored'
      BY <2>1, <2>5, <2>8 DEF RunsAsStored, Effective
    <3> QED
      BY <2>6, <3>1, <3>2
  <2> QED
    BY <1>4, <2>7, <2>8 DEF ApplyRollback
<1>5. ASSUME RestartWithSettings PROVE SettingsInv'
  <2>1. /\ applied' = Effective(stored) /\ stale' = {} /\ saving' = [s \in Savers |-> NoSave]
        /\ UNCHANGED <<stored, events>>
    BY <1>5 DEF RestartWithSettings
  <2>2. Nothing \in Plain /\ Effective(stored) \in [Hot -> Written]
    BY <1>a DEF Nothing, Effective, Written, EmptyText
  <2>3. SettingsTypeOK' /\ SavesPlain' /\ MasksSensitive'
    BY <2>1, <2>2, <1>a DEF SettingsTypeOK, SavesPlain, MasksSensitive, NoSave
  <2>4. AppliesStored' /\ RunsAsStored'
    BY <2>1 DEF AppliesStored, RunsAsStored, Applying, NoSave, Effective
  <2> QED
    BY <2>3, <2>4
<1>6. CASE UNCHANGED settingsVars
  BY <1>6 DEF settingsVars, SettingsTypeOK, SavesPlain, MasksSensitive, AppliesStored, RunsAsStored,
              Applying, ToBeApplied, Effective
<1> QED
  BY <1>1, <1>2, <1>3, <1>4, <1>5, <1>6 DEF SettingsNext

\* What the run checks follows from it.
LEMMA SettingsHold == SettingsInv => RunsAsStored /\ UndoesWhole
<1> SUFFICES ASSUME SettingsInv PROVE UndoesWhole
  BY DEF SettingsInv
<1>1. \A i \in DOMAIN events : events[i] \in [before : Map, after : Map]
  BY EventsAreRecords DEF SettingsInv
<1> QED
  BY <1>1, UndoingIsWhole DEF SettingsInv, MasksSensitive, UndoesWhole

\* The server runs on what is stored, and an undoing is whole (settings, rollback).
THEOREM SettingsHoldAlways == SettingsSpec => [](RunsAsStored /\ UndoesWhole)
  BY SettingsInitInv, SettingsStep, SettingsHold, PTL DEF SettingsSpec

-----------------------------------------------------------------------------
(***************************************************************************)
(* The rows of the media type rules (media_type_rules.go).                 *)
(***************************************************************************)

\* A request to store a row.
UpsertAsked ==
  [does : {"upsert"}, scope : Scopes, type : RuleTypes, suffix : Extensions, enabled : BOOLEAN]

\* Rows carry the ids given so far.
IdsWereGiven == \A r \in rules : r.id <= ruleCount

\* No request is about to store a built-in suffix under a second type.
AsksKeepType ==
  \A c \in RuleClients :
    asking[c].does = "upsert" /\ asking[c].suffix = BuiltinSuffix => asking[c].type = BuiltinType

\* The inductive invariant of the rows.
RulesInv ==
  MediaRulesTypeOK /\ IdsWereGiven /\ AsksKeepType /\ OneRowPerKey /\ BuiltinKeepsType

\* It holds at first.
LEMMA RulesInitInv == RulesInit => RulesInv
<1> SUFFICES ASSUME RulesInit PROVE RulesInv
  OBVIOUS
<1> USE MediaRulesAssumption DEF RulesInit, Quiet
<1>1. MediaRulesTypeOK
  BY DEF MediaRulesTypeOK
<1>2. IdsWereGiven /\ AsksKeepType /\ OneRowPerKey /\ BuiltinKeepsType
  BY DEF IdsWereGiven, AsksKeepType, OneRowPerKey, BuiltinKeepsType
<1> QED
  BY <1>1, <1>2 DEF RulesInv

\* A request that only asks: it is remembered, and nothing else changes.
LEMMA AskingKeeps ==
  ASSUME RulesInv, NEW c \in RuleClients, NEW what, Asks(c, what),
         what \in UpsertAsked \cup [does : {"delete"}, id : 1..MaxRules],
         what.does = "upsert" /\ what.suffix = BuiltinSuffix => what.type = BuiltinType
  PROVE  RulesInv'
<1>1. /\ asking' = [asking EXCEPT ![c] = what] /\ UNCHANGED <<rules, libraries, ruleCount>>
      /\ asking \in [RuleClients -> {Quiet} \cup [does : {"delete"}, id : 1..MaxRules] \cup UpsertAsked]
  BY DEF RulesInv, MediaRulesTypeOK, Asks, UpsertAsked
<1>2. asking' \in [RuleClients -> {Quiet} \cup [does : {"delete"}, id : 1..MaxRules] \cup UpsertAsked]
  BY <1>1
<1>3. MediaRulesTypeOK'
  BY <1>1, <1>2 DEF RulesInv, MediaRulesTypeOK, UpsertAsked
<1>4. AsksKeepType'
  BY <1>1 DEF RulesInv, AsksKeepType
<1> QED
  BY <1>1, <1>3, <1>4 DEF RulesInv, IdsWereGiven, OneRowPerKey, BuiltinKeepsType

\* A request that is answered is forgotten.
LEMMA AnsweringKeeps ==
  ASSUME RulesInv, NEW c \in RuleClients, Answered(c)
  PROVE  /\ AsksKeepType'
         /\ asking' \in [RuleClients ->
              {Quiet} \cup [does : {"delete"}, id : 1..MaxRules] \cup UpsertAsked]
<1>1. /\ asking' = [asking EXCEPT ![c] = Quiet]
      /\ asking \in [RuleClients -> {Quiet} \cup [does : {"delete"}, id : 1..MaxRules] \cup UpsertAsked]
  BY DEF RulesInv, MediaRulesTypeOK, Answered, UpsertAsked
<1> QED
  BY <1>1 DEF RulesInv, AsksKeepType, Quiet

\* Switching a row on or off leaves everything else of it.
LEMMA SwitchingKeeps ==
  ASSUME RulesInv, NEW r \in rules, NEW enabled \in BOOLEAN,
         rules' = (rules \ {r}) \cup {[r EXCEPT !.enabled = enabled]},
         UNCHANGED ruleCount
  PROVE  /\ rules' \subseteq RuleRow /\ \A s, t \in rules' : s.id = t.id => s = t
         /\ IdsWereGiven' /\ OneRowPerKey' /\ BuiltinKeepsType'
<1> DEFINE new == [r EXCEPT !.enabled = enabled]
<1>1. rules \subseteq RuleRow /\ r \in RuleRow
  BY DEF RulesInv, MediaRulesTypeOK
<1>2. /\ new \in RuleRow /\ new.id = r.id /\ new.scope = r.scope /\ new.type = r.type
      /\ new.suffix = r.suffix
  BY <1>1 DEF RuleRow
<1>3. \A s \in rules' : (s \in rules /\ s # r) \/ s = new
  OBVIOUS
<1> HIDE DEF new
<1>4. rules' \subseteq RuleRow
  BY <1>1, <1>2, <1>3
<1>5. \A s, t \in rules' : s.id = t.id => s = t
  BY <1>2, <1>3 DEF RulesInv, MediaRulesTypeOK
<1>6. OneRowPerKey'
  BY <1>2, <1>3 DEF RulesInv, OneRowPerKey
<1>7. IdsWereGiven' /\ BuiltinKeepsType'
  BY <1>2, <1>3 DEF RulesInv, IdsWereGiven, BuiltinKeepsType
<1> QED
  BY <1>4, <1>5, <1>6, <1>7

\* Every request keeps it: the insert looks for the key in the transaction that writes.
LEMMA RulesStep == RulesInv /\ [RulesNext]_ruleVars => RulesInv'
<1> SUFFICES ASSUME RulesInv, [RulesNext]_ruleVars PROVE RulesInv'
  OBVIOUS
<1> USE MediaRulesAssumption
<1>a. /\ rules \subseteq RuleRow /\ libraries \subseteq RuleLibraries /\ ruleCount \in 0..MaxRules
      /\ RuleLibraries \subseteq Scopes
  BY DEF RulesInv, MediaRulesTypeOK, Scopes
<1>b. \A e \in {"on", "off", "unset"} : Default(e) \in BOOLEAN
  BY DEF Default
<1>c. \A scope \in Scopes, type \in RuleTypes, suffix \in Extensions, e \in BOOLEAN :
        LET u == Upsert(scope, type, suffix, e)
        IN  u \in UpsertAsked /\ u.suffix = suffix /\ u.type = type
  BY DEF Upsert, UpsertAsked
<1>1. ASSUME NEW c \in RuleClients, AskCreate(c) PROVE RulesInv'
  <2>1. PICK scope \in Scopes, type \in RuleTypes, suffix \in Extensions, e \in {"on", "off", "unset"} :
          TypeFits(type, suffix) /\ Asks(c, Upsert(scope, type, suffix, Default(e)))
    BY <1>1 DEF AskCreate
  <2> DEFINE u == Upsert(scope, type, suffix, Default(e))
  <2>2. Default(e) \in BOOLEAN
    BY <1>b
  <2>3. u \in UpsertAsked /\ u.suffix = suffix /\ u.type = type
    BY <2>2, <1>c
  <2>4. Asks(c, u) /\ (suffix = BuiltinSuffix => type = BuiltinType)
    BY <2>1 DEF TypeFits
  <2> HIDE DEF u
  <2> QED
    BY <2>3, <2>4, AskingKeeps
<1>2. ASSUME NEW c \in RuleClients, AskBuiltin(c) PROVE RulesInv'
  <2>1. PICK scope \in Scopes, e \in {"on", "off", "unset"} :
          Asks(c, Upsert(scope, BuiltinType, BuiltinSuffix, Default(e)))
    BY <1>2 DEF AskBuiltin
  <2> DEFINE u == Upsert(scope, BuiltinType, BuiltinSuffix, Default(e))
  <2>2. Default(e) \in BOOLEAN /\ BuiltinType \in RuleTypes /\ BuiltinSuffix \in Extensions
    BY <1>b
  <2>3. u \in UpsertAsked /\ u.type = BuiltinType
    BY <2>2, <1>c
  <2>4. Asks(c, u)
    BY <2>1
  <2> HIDE DEF u
  <2> QED
    BY <2>3, <2>4, AskingKeeps
<1>3. ASSUME NEW c \in RuleClients, AskExtension(c) PROVE RulesInv'
  <2>1. PICK l \in libraries, type \in RuleTypes, suffix \in Extensions \ {BuiltinSuffix} :
          Asks(c, Upsert(l, type, suffix, TRUE))
    BY <1>3 DEF AskExtension
  <2>2. l \in Scopes /\ suffix \in Extensions /\ suffix # BuiltinSuffix
    BY <1>a
  <2>3. LET u == Upsert(l, type, suffix, TRUE)
        IN  u \in UpsertAsked /\ u.suffix = suffix
    BY <2>2, <1>c
  <2> QED
    BY <2>1, <2>2, <2>3, AskingKeeps
<1>4. ASSUME NEW c \in RuleClients, UpsertRule(c) PROVE RulesInv'
  <2> DEFINE asked == asking[c]
             fresh == [id |-> ruleCount + 1, scope |-> asked.scope, type |-> asked.type,
                       suffix |-> asked.suffix, enabled |-> asked.enabled]
             found == {r \in rules : SameKey(r, asked)}
  <2>1. asked.does = "upsert" /\ Answered(c) /\ UNCHANGED libraries
    BY <1>4 DEF UpsertRule
  <2>2. asked \in UpsertAsked
    BY <2>1 DEF RulesInv, MediaRulesTypeOK, UpsertAsked, Quiet
  <2>3. AsksKeepType' /\ asking' \in [RuleClients ->
              {Quiet} \cup [does : {"delete"}, id : 1..MaxRules] \cup UpsertAsked]
    BY <2>1, AnsweringKeeps
  <2>4. CASE \E r \in found : /\ rules' = (rules \ {r}) \cup {[r EXCEPT !.enabled = asked.enabled]}
                              /\ UNCHANGED ruleCount
    <3>1. PICK r \in rules : /\ rules' = (rules \ {r}) \cup {[r EXCEPT !.enabled = asked.enabled]}
                             /\ UNCHANGED ruleCount
      BY <2>4
    <3>2. asked.enabled \in BOOLEAN
      BY <2>2 DEF UpsertAsked
    <3>3. /\ rules' \subseteq RuleRow /\ \A s, t \in rules' : s.id = t.id => s = t
          /\ IdsWereGiven' /\ OneRowPerKey' /\ BuiltinKeepsType'
      BY <3>1, <3>2, SwitchingKeeps
    <3>4. MediaRulesTypeOK'
      BY <1>a, <2>1, <2>3, <3>1, <3>3 DEF MediaRulesTypeOK, UpsertAsked
    <3> QED
      BY <2>3, <3>3, <3>4 DEF RulesInv
  <2>5. CASE /\ ~Collides(asked) /\ ruleCount < MaxRules
             /\ rules' = rules \cup {fresh} /\ ruleCount' = ruleCount + 1
    <3>1. ruleCount' \in 0..MaxRules /\ ruleCount + 1 \in 1..MaxRules
      BY <2>5, <1>a
    <3>2. /\ fresh \in RuleRow /\ fresh.id = ruleCount + 1 /\ fresh.scope = asked.scope
          /\ fresh.type = asked.type /\ fresh.suffix = asked.suffix
      BY <2>2, <3>1 DEF RuleRow, UpsertAsked
    <3> HIDE DEF fresh
    <3>3. \A r \in rules : r.id \in 1..MaxRules /\ r.id <= ruleCount
      BY <1>a DEF RulesInv, IdsWereGiven, RuleRow
    <3>4. \A s, t \in rules' : s.id = t.id => s = t
      BY <1>a, <2>5, <3>2, <3>3 DEF RulesInv, MediaRulesTypeOK
    <3>5. MediaRulesTypeOK'
      BY <1>a, <2>1, <2>3, <2>5, <3>1, <3>2, <3>4 DEF MediaRulesTypeOK, UpsertAsked
    <3>6. IdsWereGiven'
      BY <1>a, <2>5, <3>2, <3>3 DEF IdsWereGiven
    <3>7. OneRowPerKey'
      BY <2>5, <3>2 DEF RulesInv, OneRowPerKey, Collides
    <3>8. BuiltinKeepsType'
      BY <2>1, <2>5, <3>2 DEF RulesInv, BuiltinKeepsType, AsksKeepType
    <3> QED
      BY <2>3, <3>5, <3>6, <3>7, <3>8 DEF RulesInv
  <2>6. CASE UNCHANGED <<rules, ruleCount>>
    BY <2>1, <2>3, <2>6
       DEF RulesInv, MediaRulesTypeOK, UpsertAsked, IdsWereGiven, OneRowPerKey, BuiltinKeepsType
  <2> QED
    BY <1>4, <2>4, <2>5, <2>6 DEF UpsertRule
<1>5. ASSUME NEW c \in RuleClients, AskDelete(c) PROVE RulesInv'
  <2>1. PICK r \in rules : Asks(c, [does |-> "delete", id |-> r.id])
    BY <1>5 DEF AskDelete
  <2>2. [does |-> "delete", id |-> r.id] \in [does : {"delete"}, id : 1..MaxRules]
    BY <1>a DEF RuleRow
  <2> QED
    BY <2>1, <2>2, AskingKeeps
<1>6. ASSUME NEW c \in RuleClients, AskDeleteExtension(c) PROVE RulesInv'
  <2>1. PICK r \in rules : Asks(c, [does |-> "delete", id |-> r.id])
    BY <1>6 DEF AskDeleteExtension
  <2>2. [does |-> "delete", id |-> r.id] \in [does : {"delete"}, id : 1..MaxRules]
    BY <1>a DEF RuleRow
  <2> QED
    BY <2>1, <2>2, AskingKeeps
<1>7. ASSUME NEW c \in RuleClients, DeleteRule(c) PROVE RulesInv'
  <2>1. Answered(c) /\ rules' \subseteq rules /\ UNCHANGED <<libraries, ruleCount>>
    BY <1>7 DEF DeleteRule
  <2>2. AsksKeepType' /\ asking' \in [RuleClients ->
              {Quiet} \cup [does : {"delete"}, id : 1..MaxRules] \cup UpsertAsked]
    BY <2>1, AnsweringKeeps
  <2> QED
    BY <2>1, <2>2
       DEF RulesInv, MediaRulesTypeOK, UpsertAsked, IdsWereGiven, OneRowPerKey, BuiltinKeepsType
<1>8. ASSUME UpdateRule PROVE RulesInv'
  <2>1. PICK r \in rules, enabled \in BOOLEAN : rules' = (rules \ {r}) \cup {[r EXCEPT !.enabled = enabled]}
    BY <1>8 DEF UpdateRule
  <2>2. UNCHANGED <<libraries, ruleCount, asking>>
    BY <1>8 DEF UpdateRule
  <2>3. /\ rules' \subseteq RuleRow /\ \A s, t \in rules' : s.id = t.id => s = t
        /\ IdsWereGiven' /\ OneRowPerKey' /\ BuiltinKeepsType'
    BY <2>1, <2>2, SwitchingKeeps
  <2> QED
    BY <2>2, <2>3 DEF RulesInv, MediaRulesTypeOK, AsksKeepType
<1>9. ASSUME DeleteLibrary PROVE RulesInv'
  BY <1>9 DEF DeleteLibrary, RulesInv, MediaRulesTypeOK, IdsWereGiven, AsksKeepType, OneRowPerKey,
              BuiltinKeepsType
<1>10. CASE UNCHANGED ruleVars
  BY <1>10 DEF ruleVars, RulesInv, MediaRulesTypeOK, IdsWereGiven, AsksKeepType, OneRowPerKey,
               BuiltinKeepsType
<1> QED
  BY <1>1, <1>2, <1>3, <1>4, <1>5, <1>6, <1>7, <1>8, <1>9, <1>10 DEF RulesNext

\* A key has one row, and a built-in suffix keeps its type (media_type_rules.go).
THEOREM OneRowPerKeyAlways == RulesSpec => [](OneRowPerKey /\ BuiltinKeepsType)
<1>1. RulesInv => OneRowPerKey /\ BuiltinKeepsType
  BY DEF RulesInv
<1> QED
  BY RulesInitInv, RulesStep, <1>1, PTL DEF RulesSpec

-----------------------------------------------------------------------------
(***************************************************************************)
(* The policy made from the rows.  What the two folds compute is written   *)
(* down for every set of rows and of keys (Settled, Highest); it satisfies *)
(* the equation of the fold, and on a smallest set where a solution of the *)
(* equation differed from it, the equation would be false.                 *)
(***************************************************************************)

\* The place of a row in the listing.
Rank(r) == r.id + IF r.scope = Everywhere THEN 0 ELSE MaxRules

\* The rows are listed by their rank, and no two share one.
LEMMA RanksList ==
  ASSUME MediaRulesTypeOK, NEW r \in rules, NEW s \in rules
  PROVE  /\ Rank(r) \in 1..(2 * MaxRules) /\ (ListsBefore(r, s) <=> Rank(r) < Rank(s))
         /\ Rank(r) = Rank(s) => r = s
  BY MediaRulesAssumption DEF MediaRulesTypeOK, RuleRow, Rank, ListsBefore, Scopes, Everywhere

\* A row listed after all others of a set is the last of it.
LEMMA LastIs ==
  ASSUME MediaRulesTypeOK, NEW T \in SUBSET rules, NEW r \in T,
         \A s \in T \ {r} : ListsBefore(s, r)
  PROVE  LastListed(T) = r
<1>1. \A q \in T : (\A s \in T \ {q} : ListsBefore(s, q)) => q = r
  BY RanksList
<1> QED
  BY <1>1 DEF LastListed

\* A set of rows has a last one.
LEMMA LastExists ==
  ASSUME MediaRulesTypeOK, NEW T \in SUBSET rules, T # {}
  PROVE  LastListed(T) \in T /\ \A s \in T \ {LastListed(T)} : ListsBefore(s, LastListed(T))
<1> DEFINE behind == {n \in Nat : \E r \in T : n = 2 * MaxRules - Rank(r)}
<1>1. \A r \in T : 2 * MaxRules - Rank(r) \in behind
  BY RanksList, MediaRulesAssumption
<1>2. behind # {} /\ behind \in SUBSET Nat
  BY <1>1
<1>3. PICK n \in behind : \A k \in behind : n <= k
  <2> HIDE DEF behind
  <2> QED
    BY <1>2, LeastNatural
<1>4. PICK r \in T : n = 2 * MaxRules - Rank(r)
  OBVIOUS
<1>5. ASSUME NEW s \in T \ {r} PROVE ListsBefore(s, r)
  <2>1. n <= 2 * MaxRules - Rank(s)
    BY <1>1, <1>3
  <2> QED
    BY <1>4, <2>1, RanksList, MediaRulesAssumption
<1>6. LastListed(T) = r
  BY <1>5, LastIs
<1> QED
  BY <1>5, <1>6

\* The rows of one key.
Matching(T, k) == {r \in T : <<r.type, r.suffix>> = k}

\* What a set of rows makes of every key: its last row decides.
Settled(T) ==
  [k \in RuleTypes \X Extensions |->
     IF Matching(T, k) = {} THEN BuiltinMap[k]
     ELSE IF LastListed(Matching(T, k)).enabled THEN "on" ELSE "off"]

\* Putting the last row over what the others make gives what all of them make.
LEMMA SettledStep ==
  ASSUME MediaRulesTypeOK, NEW T \in SUBSET rules, T # {}
  PROVE  Settled(T) = Applied(Settled(T \ {LastListed(T)}), LastListed(T))
<1>1. PICK r \in T : r = LastListed(T) /\ \A s \in T \ {r} : ListsBefore(s, r)
  BY LastExists
<1>2. <<r.type, r.suffix>> \in RuleTypes \X Extensions
  BY DEF MediaRulesTypeOK, RuleRow
<1>3. ASSUME NEW k \in RuleTypes \X Extensions
      PROVE  Settled(T)[k] = IF k = <<r.type, r.suffix>> THEN IF r.enabled THEN "on" ELSE "off"
                             ELSE Settled(T \ {r})[k]
  <2>1. CASE k = <<r.type, r.suffix>>
    <3>1. r \in Matching(T, k) /\ LastListed(Matching(T, k)) = r
      <4>1. r \in Matching(T, k) /\ Matching(T, k) \in SUBSET rules
        BY <2>1 DEF Matching
      <4>2. \A s \in Matching(T, k) \ {r} : ListsBefore(s, r)
        BY <1>1 DEF Matching
      <4> QED
        BY <4>1, <4>2, LastIs
    <3> QED
      BY <2>1, <3>1 DEF Settled
  <2>2. CASE k # <<r.type, r.suffix>>
    <3>1. Matching(T \ {r}, k) = Matching(T, k)
      BY <2>2 DEF Matching
    <3> QED
      BY <2>2, <3>1 DEF Settled
  <2> QED
    BY <2>1, <2>2
<1>4. /\ Settled(T) = [k \in RuleTypes \X Extensions |-> Settled(T)[k]]
      /\ DOMAIN Settled(T \ {r}) = RuleTypes \X Extensions
  BY DEF Settled
<1> QED
  BY <1>1, <1>2, <1>3, <1>4 DEF Applied

\* There are finitely many rows: their ids are bounded.
LEMMA RulesAreFinite ==
  ASSUME MediaRulesTypeOK PROVE IsFiniteSet(rules)
<1> DEFINE number == [r \in rules |-> r.id]
<1>1. number \in [rules -> 1..MaxRules] /\ \A r, s \in rules : number[r] = number[s] => r = s
  BY DEF MediaRulesTypeOK, RuleRow
<1>2. IsFiniteSet(1..MaxRules)
  BY FS_Interval, MediaRulesAssumption
<1>3. number \in Injection(rules, 1..MaxRules)
  BY <1>1 DEF Injection, IsInjective
<1> QED
  BY <1>2, <1>3, FS_Injection DEF ExistsInjection

\* The fold of resolveMediaTypeRules, as a function of the rows it has put over.
FoldsRows(f, L) ==
  f = [T \in SUBSET L |-> IF T = {} THEN BuiltinMap
                          ELSE Applied(f[T \ {LastListed(T)}], LastListed(T))]

\* The last row of a key decides about it, else the code.
LEMMA ResolvedIs ==
  ASSUME MediaRulesTypeOK, NEW l PROVE Resolved(l) = Settled(ListBySpace(l))
<1> DEFINE L == ListBySpace(l)
           made == [T \in SUBSET L |-> Settled(T)]
           fold == CHOOSE f : FoldsRows(f, L)
<1>1. L \in SUBSET rules /\ IsFiniteSet(L)
  BY RulesAreFinite, FS_Subset DEF ListBySpace
<1>2. FoldsRows(made, L)
  <2>1. Settled({}) = BuiltinMap
    BY DEF Settled, Matching, BuiltinMap
  <2>2. \A T \in SUBSET L : T # {} =>
          /\ T \ {LastListed(T)} \in SUBSET L
          /\ Settled(T) = Applied(Settled(T \ {LastListed(T)}), LastListed(T))
    BY <1>1, SettledStep
  <2> HIDE DEF L
  <2> QED
    BY <2>1, <2>2 DEF FoldsRows
<1>3. FoldsRows(fold, L)
  BY <1>2, Zenon
<1>4. Resolved(l) = fold[L]
  BY DEF Resolved, MapThenFoldSet, FoldsRows
<1>5. fold[L] = Settled(L)
  <2> HIDE DEF L, fold
  <2> SUFFICES ASSUME fold[L] # Settled(L) PROVE FALSE
    OBVIOUS
  <2> DEFINE B == {T \in SUBSET L : fold[T] # Settled(T)}
  <2>1. L \in B /\ B \in SUBSET SUBSET L
    OBVIOUS
  <2>2. PICK T \in B : \A U \in B : U \subseteq T => U = T
    <3> HIDE DEF B
    <3> QED
      BY <1>1, <2>1, SmallestSet
  <2>3. T \in SUBSET L /\ fold[T] # Settled(T)
    OBVIOUS
  <2>4. T # {}
    <3>1. Settled({}) = BuiltinMap
      BY DEF Settled, Matching, BuiltinMap
    <3> QED
      BY <1>3, <2>3, <3>1 DEF FoldsRows
  <2>5. PICK r \in T : r = LastListed(T)
    BY <1>1, <2>3, <2>4, LastExists
  <2>6. fold[T \ {r}] = Settled(T \ {r})
    BY <2>2, <2>3
  <2>7. fold[T] = Applied(fold[T \ {r}], r)
    BY <1>3, <2>3, <2>4, <2>5 DEF FoldsRows
  <2>8. Settled(T) = Applied(Settled(T \ {r}), r)
    BY <1>1, <2>3, <2>4, <2>5, SettledStep
  <2> QED
    BY <2>3, <2>6, <2>7, <2>8
<1> QED
  BY <1>4, <1>5

\* The keys that some rows switch on are finitely many.
LEMMA KeysAreFinite ==
  ASSUME MediaRulesTypeOK, NEW l
  PROVE  SwitchedOn(Resolved(l)) \in SUBSET (RuleTypes \X Extensions)
         /\ IsFiniteSet(SwitchedOn(Resolved(l)))
<1> DEFINE on == SwitchedOn(Resolved(l))
           keyOf == [r \in rules |-> <<r.type, r.suffix>>]
           ruled == {keyOf[r] : r \in rules}
<1>1. Resolved(l) = Settled(ListBySpace(l)) /\ ListBySpace(l) \in SUBSET rules
  BY ResolvedIs DEF ListBySpace
<1>2. on \in SUBSET (RuleTypes \X Extensions)
  BY <1>1 DEF SwitchedOn, Settled
<1>3. IsFiniteSet(ruled \cup {<<BuiltinType, BuiltinSuffix>>})
  <2>1. keyOf \in [rules -> ruled] /\ \A k \in ruled : \E r \in rules : keyOf[r] = k
    OBVIOUS
  <2>2. keyOf \in Surjection(rules, ruled)
    <3> HIDE DEF keyOf, ruled
    <3> QED
      BY <2>1 DEF Surjection
  <2>3. IsFiniteSet(ruled)
    <3> HIDE DEF keyOf, ruled
    <3> QED
      BY <2>2, RulesAreFinite, FS_Surjection DEF ExistsSurjection
  <2> QED
    BY <2>3, FS_AddElement
<1>4. ASSUME NEW k \in on PROVE k \in ruled \cup {<<BuiltinType, BuiltinSuffix>>}
  <2>1. k \in RuleTypes \X Extensions /\ Settled(ListBySpace(l))[k] = "on"
    BY <1>1, <1>2 DEF SwitchedOn
  <2>2. CASE Matching(ListBySpace(l), k) = {}
    <3>1. BuiltinMap[k] = "on"
      BY <2>1, <2>2 DEF Settled
    <3>2. k = <<BuiltinType, BuiltinSuffix>>
      BY <2>1, <3>1 DEF BuiltinMap, Builtin
    <3> QED
      BY <3>2
  <2>3. CASE Matching(ListBySpace(l), k) # {}
    <3>1. PICK r \in rules : keyOf[r] = k
      BY <1>1, <2>3 DEF Matching
    <3> QED
      BY <3>1
  <2> QED
    BY <2>2, <2>3
<1> HIDE DEF on, ruled
<1>5. IsFiniteSet(on)
  BY <1>3, <1>4, FS_Subset
<1> QED
  BY <1>2, <1>5 DEF on

\* Finitely many keys have one of the last type.
LEMMA LastTypeExists ==
  ASSUME MediaRulesAssumption, NEW K \in SUBSET (RuleTypes \X Extensions), IsFiniteSet(K), K # {}
  PROVE  LastSorted(K) \in K /\ \A j \in K : j[1] <= LastSorted(K)[1]
<1> USE MediaRulesAssumption
<1> DEFINE from == [k \in K |-> {j \in K : j[1] >= k[1]}]
           B == {from[k] : k \in K}
<1>0. \A k \in K : k[1] \in Nat /\ from[k] \in SUBSET K
  OBVIOUS
<1>1. B \in SUBSET SUBSET K /\ B # {}
  <2> HIDE DEF from
  <2> QED
    BY <1>0
<1>2. PICK T \in B : \A U \in B : U \subseteq T => U = T
  <2> HIDE DEF B
  <2> QED
    BY <1>1, SmallestSet
<1>3. PICK k \in K : T = from[k]
  OBVIOUS
<1>4. ASSUME NEW j \in K PROVE j[1] <= k[1]
  <2>1. SUFFICES ASSUME j[1] > k[1] PROVE FALSE
    BY <1>0
  <2>2. from[j] \subseteq from[k] /\ k \notin from[j] /\ k \in from[k]
    BY <1>0, <2>1
  <2> QED
    BY <1>2, <1>3, <2>2
<1> QED
  BY <1>4 DEF LastSorted

\* The last of the types that a set of keys gives to every suffix.
Highest(K) ==
  [x \in Extensions |-> LET named == {k \in K : k[2] = x}
                        IN  IF named = {} THEN NoType ELSE LastSorted(named)[1]]

\* A key of the last type names its suffix for good.
LEMMA HighestStep ==
  ASSUME NEW K \in SUBSET (RuleTypes \X Extensions), IsFiniteSet(K), K # {}
  PROVE  Highest(K) = Named(Highest(K \ {LastSorted(K)}), LastSorted(K))
<1> USE MediaRulesAssumption
<1>1. PICK k \in K : k = LastSorted(K) /\ \A j \in K : j[1] <= k[1]
  BY LastTypeExists
<1>2. k[1] \in RuleTypes /\ k[2] \in Extensions /\ RuleTypes \subseteq Nat
  OBVIOUS
<1>3. ASSUME NEW x \in Extensions
      PROVE  Highest(K)[x] = IF x = k[2] THEN k[1] ELSE Highest(K \ {k})[x]
  <2> DEFINE named == {j \in K : j[2] = x}
  <2>1. CASE x = k[2]
    <3>1. k \in named /\ named \in SUBSET K
      BY <2>1
    <3>2. IsFiniteSet(named) /\ named # {} /\ named \in SUBSET (RuleTypes \X Extensions)
      BY <3>1, FS_Subset
    <3>3. LastSorted(named) \in named /\ k[1] <= LastSorted(named)[1]
      <4> HIDE DEF named
      <4> QED
        BY <3>1, <3>2, LastTypeExists
    <3>4. LastSorted(named)[1] = k[1]
      <4> HIDE DEF named
      <4>1. PICK last \in K : last = LastSorted(named)
        BY <3>1, <3>3
      <4>2. last[1] \in Nat /\ last[1] <= k[1] /\ k[1] <= last[1]
        BY <1>1, <1>2, <3>3, <4>1
      <4>3. last[1] = k[1]
        <5>1. k[1] \in Nat
          BY <1>2
        <5> QED
          BY <4>2, <5>1
      <4> QED
        BY <4>1, <4>3
    <3> QED
      BY <2>1, <3>1, <3>4 DEF Highest
  <2>2. CASE x # k[2]
    <3>1. {j \in K \ {k} : j[2] = x} = named
      BY <2>2
    <3> QED
      BY <2>2, <3>1 DEF Highest
  <2> QED
    BY <2>1, <2>2
<1>4. /\ Highest(K) = [x \in Extensions |-> Highest(K)[x]]
      /\ DOMAIN Highest(K \ {k}) = Extensions
  BY DEF Highest
<1> QED
  BY <1>1, <1>2, <1>3, <1>4 DEF Named

\* The fold of mediaExtensionPolicyInSpace, as a function of the keys it has seen.
FoldsKeys(f, on) ==
  f = [K \in SUBSET on |-> IF K = {} THEN Unnamed
                           ELSE Named(f[K \ {LastSorted(K)}], LastSorted(K))]

\* The policy gives a suffix the last type that is switched on for it.
LEMMA PolicyIs ==
  ASSUME MediaRulesTypeOK, NEW l PROVE Policy(l) = Highest(SwitchedOn(Resolved(l)))
<1> DEFINE on == SwitchedOn(Resolved(l))
           made == [K \in SUBSET on |-> Highest(K)]
           fold == CHOOSE f : FoldsKeys(f, on)
<1>1. /\ on \in SUBSET (RuleTypes \X Extensions) /\ IsFiniteSet(on)
      /\ \A K \in SUBSET on : IsFiniteSet(K)
  BY KeysAreFinite, FS_Subset
<1>2. Highest({}) = Unnamed
  BY DEF Highest, Unnamed
<1>3. \A K \in SUBSET on : K # {} =>
        /\ K \ {LastSorted(K)} \in SUBSET on
        /\ Highest(K) = Named(Highest(K \ {LastSorted(K)}), LastSorted(K))
  <2> HIDE DEF on
  <2> QED
    BY <1>1, HighestStep
<1>4. FoldsKeys(made, on)
  <2> HIDE DEF on
  <2> QED
    BY <1>2, <1>3 DEF FoldsKeys
<1>5. FoldsKeys(fold, on)
  BY <1>4, Zenon
<1>6. Policy(l) = fold[on]
  BY DEF Policy, MapThenFoldSet, FoldsKeys
<1>7. fold[on] = Highest(on)
  <2> HIDE DEF on, fold
  <2> SUFFICES ASSUME fold[on] # Highest(on) PROVE FALSE
    OBVIOUS
  <2> DEFINE B == {K \in SUBSET on : fold[K] # Highest(K)}
  <2>1. on \in B /\ B \in SUBSET SUBSET on
    OBVIOUS
  <2>2. PICK K \in B : \A U \in B : U \subseteq K => U = K
    <3> HIDE DEF B
    <3> QED
      BY <1>1, <2>1, SmallestSet
  <2>3. K \in SUBSET on /\ fold[K] # Highest(K)
    OBVIOUS
  <2>4. K # {}
    BY <1>2, <1>5, <2>3 DEF FoldsKeys
  <2>5. PICK k \in K : k = LastSorted(K)
    BY <1>1, <2>3, <2>4, LastTypeExists, MediaRulesAssumption
  <2>6. fold[K \ {k}] = Highest(K \ {k})
    BY <2>2, <2>3
  <2>7. fold[K] = Named(fold[K \ {k}], k)
    BY <1>5, <2>3, <2>4, <2>5 DEF FoldsKeys
  <2> QED
    BY <1>3, <2>3, <2>4, <2>5, <2>6, <2>7
<1> QED
  BY <1>6, <1>7

\* A type is switched on for a suffix when the rows of the library, else those of the
\* space, else the code say so.
LEMMA OnIsDecided ==
  ASSUME MediaRulesTypeOK, OneRowPerKey, NEW l \in RuleLibraries, NEW y \in RuleTypes,
         NEW x \in Extensions
  PROVE  <<y, x>> \in SwitchedOn(Resolved(l)) <=> Decides(l, y, x)
<1> DEFINE k == <<y, x>>
           L == ListBySpace(l)
           of(scope) == {r \in rules : r.scope = scope /\ r.type = y /\ r.suffix = x}
<1>1. k \in SwitchedOn(Resolved(l)) <=> Settled(L)[k] = "on"
  BY ResolvedIs DEF SwitchedOn, Settled
<1>2. /\ Matching(L, k) = of(l) \cup of(Everywhere) /\ Matching(L, k) \in SUBSET rules
      /\ l # Everywhere
  BY MediaRulesAssumption DEF Matching, ListBySpace, Everywhere
<1>3. \A scope : \A r, s \in of(scope) : r = s
  BY DEF OneRowPerKey
<1>4. CASE of(l) # {}
  <2>1. PICK r \in of(l) : TRUE
    BY <1>4
  <2>2. r \in Matching(L, k) /\ \A s \in Matching(L, k) \ {r} : ListsBefore(s, r)
    BY <1>2, <1>3 DEF ListsBefore
  <2>3. LastListed(Matching(L, k)) = r
    BY <1>2, <2>2, LastIs
  <2>4. Settled(L)[k] = "on" <=> r.enabled
    BY <2>2, <2>3 DEF Settled
  <2>5. Decides(l, y, x) <=> r.enabled
    BY <1>3, <1>4, <2>1 DEF Decides
  <2> QED
    BY <1>1, <2>4, <2>5
<1>5. CASE of(l) = {} /\ of(Everywhere) # {}
  <2>1. PICK r \in of(Everywhere) : TRUE
    BY <1>5
  <2>2. r \in Matching(L, k) /\ \A s \in Matching(L, k) \ {r} : ListsBefore(s, r)
    BY <1>2, <1>3, <1>5
  <2>3. LastListed(Matching(L, k)) = r
    BY <1>2, <2>2, LastIs
  <2>4. Settled(L)[k] = "on" <=> r.enabled
    BY <2>2, <2>3 DEF Settled
  <2>5. Decides(l, y, x) <=> r.enabled
    BY <1>3, <1>5, <2>1 DEF Decides
  <2> QED
    BY <1>1, <2>4, <2>5
<1>6. CASE of(l) = {} /\ of(Everywhere) = {}
  <2>1. Settled(L)[k] = BuiltinMap[k]
    BY <1>2, <1>6 DEF Settled
  <2>2. BuiltinMap[k] = "on" <=> Builtin(y, x)
    BY DEF BuiltinMap
  <2>3. Decides(l, y, x) <=> Builtin(y, x)
    BY <1>6 DEF Decides
  <2> QED
    BY <1>1, <2>1, <2>2, <2>3
<1> QED
  BY <1>4, <1>5, <1>6

\* In every state with one row per key the policy is the one the rows decide.
LEMMA PolicyIsDecided == MediaRulesTypeOK /\ OneRowPerKey => PolicyIsLast
<1> SUFFICES ASSUME MediaRulesTypeOK, OneRowPerKey, NEW l \in libraries, NEW x \in Extensions
             PROVE  LET on == {y \in RuleTypes : Decides(l, y, x)}
                    IN  IF on = {} THEN Policy(l)[x] = NoType
                        ELSE Policy(l)[x] \in on /\ \A y \in on : y <= Policy(l)[x]
  BY DEF PolicyIsLast
<1> DEFINE on == {y \in RuleTypes : Decides(l, y, x)}
           keys == SwitchedOn(Resolved(l))
           named == {k \in keys : k[2] = x}
<1>1. l \in RuleLibraries
  BY DEF MediaRulesTypeOK
<1>2. keys \in SUBSET (RuleTypes \X Extensions) /\ IsFiniteSet(keys)
  BY KeysAreFinite
<1>3. \A y \in RuleTypes : <<y, x>> \in keys <=> y \in on
  BY <1>1, OnIsDecided
<1>4. Policy(l)[x] = IF named = {} THEN NoType ELSE LastSorted(named)[1]
  BY PolicyIs DEF Highest
<1> HIDE DEF keys, on
<1>5. \A k \in named : k[1] \in on /\ k = <<k[1], x>>
  BY <1>2, <1>3
<1>6. \A y \in on : <<y, x>> \in named
  BY <1>3 DEF on
<1>7. CASE named = {}
  BY <1>4, <1>6, <1>7 DEF on
<1>8. CASE named # {}
  <2>1. named \in SUBSET (RuleTypes \X Extensions) /\ IsFiniteSet(named)
    BY <1>2, FS_Subset
  <2>2. LastSorted(named) \in named /\ \A j \in named : j[1] <= LastSorted(named)[1]
    <3> HIDE DEF named
    <3> QED
      BY <1>8, <2>1, LastTypeExists, MediaRulesAssumption
  <2>3. \A y \in on : y <= LastSorted(named)[1]
    BY <1>6, <2>2
  <2> QED
    BY <1>4, <1>5, <1>8, <2>2, <2>3 DEF on
<1> QED
  BY <1>7, <1>8

\* And the listing goes by the same decisions.
LEMMA PolicyDecides == MediaRulesTypeOK /\ OneRowPerKey => PolicyFits
<1> SUFFICES ASSUME MediaRulesTypeOK, OneRowPerKey PROVE PolicyFits
  OBVIOUS
<1>1. PolicyIsLast
  BY PolicyIsDecided
<1>2. ASSUME NEW l \in libraries, NEW x \in Extensions, NEW y \in RuleTypes
      PROVE  /\ Policy(l)[x] = y => Listed(l, y, x)
             /\ Listed(l, y, x) => Decides(l, y, x) \/ EnabledExtensions(l, y) = {}
  <2>1. l \in RuleLibraries
    BY DEF MediaRulesTypeOK
  <2>2. x \in EnabledExtensions(l, y) <=> Decides(l, y, x)
    BY <2>1, OnIsDecided DEF EnabledExtensions
  <2>3. ASSUME Policy(l)[x] = y PROVE Decides(l, y, x)
    <3>1. y # NoType
      BY MediaRulesAssumption DEF NoType
    <3> DEFINE on == {z \in RuleTypes : Decides(l, z, x)}
    <3>2. IF on = {} THEN Policy(l)[x] = NoType
          ELSE Policy(l)[x] \in on /\ \A z \in on : z <= Policy(l)[x]
      BY <1>1 DEF PolicyIsLast
    <3>3. y \in on
      BY <2>3, <3>1, <3>2
    <3> QED
      BY <3>3
  <2> QED
    BY <2>2, <2>3 DEF Listed
<1> QED
  BY <1>1, <1>2 DEF PolicyFits, ListingFits

\* The media types a library goes by are those that its rows decide (resolveMediaTypeRules,
\* mediaExtensionPolicyInSpace), whatever requests have stored, in whatever order,
\* and the listing filters by the same decisions (EnabledExtensionsForType).
THEOREM PolicyFitsAlways == RulesSpec => []PolicyFits
<1>1. RulesInv => PolicyFits
  BY PolicyDecides DEF RulesInv
<1> QED
  BY <1>1, RulesInitInv, RulesStep, PTL DEF RulesSpec

-----------------------------------------------------------------------------
(***************************************************************************)
(* Encoders (capability_service.go, fallback.go). A probe publishes what   *)
(* it found only for the path it captured, and at most one is past the     *)
(* mutex.                                                                  *)
(***************************************************************************)

\* A request that is under way.
Working(r) == prober[r].at # "idle"

\* What a probe is stored under.
Keys == Identities \cup Unidentified

\* What a request captured is of the path of its generation.
CapturesThePath ==
  \A r \in Probers : Working(r) =>
    /\ prober[r].key \in Keys /\ prober[r].generation <= ffmpeg.generation
    /\ prober[r].generation = ffmpeg.generation => prober[r].key[1] = ffmpeg.path

\* And of the build that is there, unless that was replaced under a request.
CapturesTheBuild ==
  swapped = "for good" \/
  \A r \in Probers : Working(r) =>
    /\ prober[r].key \in Identities => prober[r].key[2] = builds[prober[r].key[1]]
    /\ prober[r].at \in {"save", "publish"} => prober[r].works \subseteq builds[prober[r].key[1]]

\* The inductive invariant of encoders.
EncodersInv ==
  EncodersTypeOK /\ CapturesThePath /\ CapturesTheBuild /\ SnapshotFits /\ RowsFit /\ FallbackSaves

\* A key tells the path, and the build when it was identified.
LEMMA KeysDiffer ==
  /\ \A p \in FFmpegs, b \in Builds : /\ <<p, b>> \in Identities /\ <<p, b>> \notin Unidentified
                                      /\ <<p, b>>[1] = p /\ <<p, b>>[2] = b
  /\ \A p \in FFmpegs : <<p>> \in Unidentified /\ <<p>> \notin Identities /\ <<p>>[1] = p
  /\ \A key \in Keys : key[1] \in FFmpegs
  /\ \A key \in Identities : key \notin Unidentified /\ key[2] \in Builds
  BY DEF Identities, Unidentified, Keys

\* It holds at first.
LEMMA EncodersInitInv == EncodersInit /\ mishaps = 0 => EncodersInv
<1> SUFFICES ASSUME EncodersInit, mishaps = 0 PROVE EncodersInv
  OBVIOUS
<1> USE EncodersAssumption, FaultsAssumption DEF EncodersInit
<1>1. EncodersTypeOK
  <2>1. ffmpeg \in [path : FFmpegs, generation : 0 .. MaxPathChanges]
    OBVIOUS
  <2>2. /\ snapshot \in [of : FFmpegs \cup {<<>>}, works : Builds] /\ probed = {}
        /\ encoding \in [at : {"idle", "chosen", "failed"}, fallback : BOOLEAN,
                         encoder : Families \cup {0}]
    BY DEF NoSnapshot, NoEncoding, Builds
  <2>3. \A r \in Probers : prober[r].at = "idle"
    BY DEF NoProber
  <2>4. NoProber \in
       [at : {"idle", "asked", "read", "probe", "save", "publish"}, force : BOOLEAN,
        generation : 0 .. MaxPathChanges, key : Identities \cup Unidentified \cup {<<>>},
        works : Builds]
    BY DEF NoProber, Builds
  <2> QED
    <3>1. prober = [r \in Probers |-> NoProber] /\ mishaps \in 0 .. MaxMishaps
      OBVIOUS
    <3>2. \A r, q \in Probers : "idle" \in {prober[r].at, prober[q].at} \cap {"idle", "asked"}
      BY <2>3
    <3>3. builds \in [FFmpegs -> Builds] /\ swapped = "no"
      OBVIOUS
    <3> QED
      BY ONLY <2>1, <2>2, <2>4, <3>1, <3>2, <3>3 DEF EncodersTypeOK
<1>2. CapturesThePath /\ CapturesTheBuild
  BY DEF CapturesThePath, CapturesTheBuild, Working, NoProber
<1>3. SnapshotFits /\ RowsFit /\ FallbackSaves
  BY DEF SnapshotFits, RowsFit, FallbackSaves, NoEncoding
<1> QED
  BY <1>1, <1>2, <1>3 DEF EncodersInv

\* What a request is doing.
ProberRecord ==
  [at : {"idle", "asked", "read", "probe", "save", "publish"}, force : BOOLEAN,
   generation : 0 .. MaxPathChanges, key : Identities \cup Unidentified \cup {<<>>}, works : Builds]

\* At most one request is past the mutex of the service.
OneInService ==
  \A r, q \in Probers : {prober[r].at, prober[q].at} \cap {"idle", "asked"} = {} => r = q

\* A request goes on or leaves: what it captured stays, what it found fits the build.
LEMMA ProberMoves ==
  ASSUME EncodersInv, NEW r \in Probers, NEW q \in ProberRecord,
         prober' = [prober EXCEPT ![r] = q], UNCHANGED <<builds, ffmpeg, swapped>>,
         \/ q.at = "idle"
         \/ /\ prober[r].at \notin {"idle", "asked"} \/ q.at = "asked"
               \/ \A d \in Probers : prober[d].at \in {"idle", "asked"}
            /\ q.key \in Keys /\ q.generation <= ffmpeg.generation
            /\ q.generation = ffmpeg.generation => q.key[1] = ffmpeg.path
            /\ swapped # "for good" =>
                 /\ q.key \in Identities => q.key[2] = builds[q.key[1]]
                 /\ q.at \in {"save", "publish"} => q.works \subseteq builds[q.key[1]]
  PROVE  prober' \in [Probers -> ProberRecord] /\ OneInService' /\ CapturesThePath' /\ CapturesTheBuild'
<1>1. prober \in [Probers -> ProberRecord] /\ OneInService
  BY DEF EncodersInv, EncodersTypeOK, ProberRecord, OneInService
<1>2. prober' \in [Probers -> ProberRecord] /\ prober'[r] = q
      /\ \A d \in Probers \ {r} : prober'[d] = prober[d]
  BY <1>1
<1>3. OneInService'
  <2>1. \A a, b : {a, b} \cap {"idle", "asked"} = {} <=>
                  a \notin {"idle", "asked"} /\ b \notin {"idle", "asked"}
    OBVIOUS
  <2>2. \A d, e \in Probers : prober[d].at \notin {"idle", "asked"} /\ prober[e].at \notin {"idle", "asked"}
                             => d = e
    <3> SUFFICES ASSUME NEW d \in Probers, NEW e \in Probers, prober[d].at \notin {"idle", "asked"},
                        prober[e].at \notin {"idle", "asked"}
                 PROVE  d = e
      OBVIOUS
    <3>1. {prober[d].at, prober[e].at} \cap {"idle", "asked"} = {}
      BY <2>1
    <3> QED
      BY <1>1, <3>1 DEF OneInService
  <2>3. \A d, e \in Probers : prober'[d].at \notin {"idle", "asked"} /\ prober'[e].at \notin {"idle", "asked"}
                             => d = e
    BY <1>2, <2>2
  <2> QED
    BY <2>1, <2>3 DEF OneInService
<1>4. CapturesThePath'
  BY <1>2 DEF EncodersInv, CapturesThePath, Working, Keys
<1>5. CapturesTheBuild'
  BY <1>2 DEF EncodersInv, CapturesTheBuild, Working
<1> QED
  BY <1>2, <1>3, <1>4, <1>5

\* Every step of a probe, of a change of the path and of a transcode keeps it.
LEMMA EncodersStep == EncodersInv /\ [EncodersNext]_encoderVars => EncodersInv'
<1> SUFFICES ASSUME EncodersInv, [EncodersNext]_encoderVars PROVE EncodersInv'
  OBVIOUS
<1> USE EncodersAssumption, FaultsAssumption
<1>a. /\ builds \in [FFmpegs -> Builds]
      /\ ffmpeg \in [path : FFmpegs, generation : 0 .. MaxPathChanges]
      /\ snapshot \in [of : FFmpegs \cup {<<>>}, works : Builds]
      /\ probed \subseteq [key : Identities, works : Builds]
      /\ \A a, b \in probed : a.key = b.key => a = b
      /\ prober \in [Probers -> ProberRecord] /\ OneInService
      /\ encoding \in [at : {"idle", "chosen", "failed"}, fallback : BOOLEAN,
                       encoder : Families \cup {0}]
      /\ swapped \in {"no", "until set", "for good"} /\ mishaps \in 0 .. MaxMishaps
  BY DEF EncodersInv, EncodersTypeOK, ProberRecord, OneInService
<1>b. Mishap \/ Smooth => mishaps' \in 0 .. MaxMishaps
  <2>1. mishaps \in 0 .. MaxMishaps /\ MaxMishaps \in Nat
    BY <1>a
  <2> QED
    BY ONLY <2>1 DEF Mishap, Smooth
<1>c. NoProber \in ProberRecord /\ NoProber.at = "idle"
  BY DEF NoProber, ProberRecord, Builds
<1>d. NoSnapshot \in [of : FFmpegs \cup {<<>>}, works : Builds]
  BY DEF NoSnapshot, Builds
<1>e. \A r \in Probers : Working(r) =>
        /\ prober[r].key \in Keys /\ prober[r].generation <= ffmpeg.generation
        /\ prober[r].generation = ffmpeg.generation => prober[r].key[1] = ffmpeg.path
        /\ swapped # "for good" =>
             /\ prober[r].key \in Identities => prober[r].key[2] = builds[prober[r].key[1]]
             /\ prober[r].at \in {"save", "publish"} => prober[r].works \subseteq builds[prober[r].key[1]]
  BY DEF EncodersInv, CapturesThePath, CapturesTheBuild
<1>f. ASSUME prober' \in [Probers -> ProberRecord], OneInService', builds' \in [FFmpegs -> Builds],
             ffmpeg' \in [path : FFmpegs, generation : 0 .. MaxPathChanges],
             snapshot' \in [of : FFmpegs \cup {<<>>}, works : Builds],
             probed' \subseteq [key : Identities, works : Builds],
             \A a, b \in probed' : a.key = b.key => a = b,
             encoding' \in [at : {"idle", "chosen", "failed"}, fallback : BOOLEAN,
                            encoder : Families \cup {0}],
             swapped' \in {"no", "until set", "for good"}, mishaps' \in 0 .. MaxMishaps
      PROVE  EncodersTypeOK'
  BY <1>f DEF EncodersTypeOK, ProberRecord, OneInService
\* A step of a request that leaves the rows and the snapshot alone.
<1>g. ASSUME prober' \in [Probers -> ProberRecord], OneInService', CapturesThePath', CapturesTheBuild',
             UNCHANGED <<builds, ffmpeg, snapshot, probed, encoding, swapped>>, Mishap \/ Smooth
      PROVE  EncodersInv'
  BY <1>a, <1>b, <1>f, <1>g DEF EncodersInv, SnapshotFits, RowsFit, FallbackSaves
<1>1. ASSUME NEW p \in FFmpegs, SetFFmpegPath(p) PROVE EncodersInv'
  <2>1. /\ ffmpeg.generation < MaxPathChanges
        /\ ffmpeg' = [path |-> p, generation |-> ffmpeg.generation + 1] /\ snapshot' = NoSnapshot
        /\ swapped' = IF swapped = "until set" THEN "no" ELSE swapped
        /\ UNCHANGED <<builds, probed, prober, encoding>> /\ Smooth
    BY <1>1 DEF SetFFmpegPath
  <2>2. ffmpeg.generation + 1 \in 0 .. MaxPathChanges /\ ffmpeg'.generation = ffmpeg.generation + 1
    <3>1. ffmpeg.generation \in 0 .. MaxPathChanges /\ MaxPathChanges \in Nat
      BY <1>a
    <3>2. ffmpeg.generation < MaxPathChanges
      BY <2>1
    <3>3. ffmpeg'.generation = ffmpeg.generation + 1
      BY <2>1
    <3>4. ffmpeg.generation + 1 \in 0 .. MaxPathChanges
      BY ONLY <3>1, <3>2
    <3> QED
      BY <3>3, <3>4
  <2>3. ffmpeg' \in [path : FFmpegs, generation : 0 .. MaxPathChanges]
    BY <2>1, <2>2
  <2>4. ffmpeg.generation \in Nat /\ \A r \in Probers : prober[r].generation \in Nat
    <3>1. \A r \in Probers : prober[r].generation \in 0 .. MaxPathChanges
      BY <1>a DEF ProberRecord
    <3>2. ffmpeg.generation \in 0 .. MaxPathChanges /\ MaxPathChanges \in Nat
      BY <1>a
    <3> QED
      BY ONLY <3>1, <3>2
  <2>5. CapturesThePath' /\ CapturesTheBuild'
    <3>1. \A r \in Probers : Working(r) => /\ prober[r].generation <= ffmpeg'.generation
                                           /\ prober[r].generation # ffmpeg'.generation
      <4>1. \A r \in Probers : Working(r) => prober[r].generation <= ffmpeg.generation
        BY <1>e
      <4> QED
        BY ONLY <2>2, <2>4, <4>1
    <3>2. CapturesThePath'
      BY <1>e, <2>1, <3>1 DEF CapturesThePath, Working, Keys
    <3>3. CapturesTheBuild'
      BY <1>e, <2>1 DEF CapturesTheBuild, Working
    <3> QED
      BY <3>2, <3>3
  <2>6. OneInService'
    BY <1>a, <2>1 DEF OneInService
  <2>7. EncodersTypeOK'
    BY <1>a, <1>b, <1>d, <1>f, <2>1, <2>3, <2>6 DEF ProberRecord
  <2>8. SnapshotFits' /\ RowsFit' /\ FallbackSaves'
    BY <2>1 DEF EncodersInv, SnapshotFits, RowsFit, FallbackSaves
  <2> QED
    BY <2>5, <2>7, <2>8 DEF EncodersInv
<1>2. ASSUME NEW p \in FFmpegs, NEW b \in Builds, ReplaceBuild(p, b) PROVE EncodersInv'
  <2>1. /\ Mishap /\ builds' = [builds EXCEPT ![p] = b]
        /\ swapped' = IF \E r \in Probers : prober[r].at # "idle" THEN "for good"
                      ELSE IF swapped = "no" THEN "until set" ELSE swapped
        /\ UNCHANGED <<ffmpeg, snapshot, probed, prober, encoding>>
    BY <1>2 DEF ReplaceBuild
  <2>2. CapturesThePath' /\ CapturesTheBuild'
    BY <1>e, <2>1 DEF CapturesThePath, CapturesTheBuild, Working, Keys
  <2>3. EncodersTypeOK'
    <3>1. OneInService' /\ builds' \in [FFmpegs -> Builds] /\ prober' \in [Probers -> ProberRecord]
      BY <1>a, <2>1 DEF OneInService, ProberRecord
    <3>2. swapped' \in {"no", "until set", "for good"}
      BY <1>a, <2>1
    <3> QED
      BY <1>a, <1>b, <1>f, <2>1, <3>1, <3>2
  <2>4. SnapshotFits'
    BY <1>a, <2>1 DEF EncodersInv, SnapshotFits
  <2>5. RowsFit' /\ FallbackSaves'
    BY <1>a, <2>1 DEF EncodersInv, RowsFit, FallbackSaves
  <2> QED
    BY <2>2, <2>3, <2>4, <2>5 DEF EncodersInv
<1>3. ASSUME NEW r \in Probers, NEW force \in BOOLEAN, AskCapabilities(r, force) PROVE EncodersInv'
  <2>1. PICK key \in {<<ffmpeg.path, builds[ffmpeg.path]>>, <<ffmpeg.path>>} :
          /\ prober' = [prober EXCEPT ![r] = [NoProber EXCEPT
                       !.at = "asked", !.force = force, !.key = key,
                       !.generation = ffmpeg.generation]]
          /\ IF key \in Unidentified THEN Mishap ELSE Smooth
    BY <1>3 DEF AskCapabilities
  <2> DEFINE q == [NoProber EXCEPT !.at = "asked", !.force = force, !.key = key,
                                   !.generation = ffmpeg.generation]
  <2>2. /\ key \in Keys /\ key[1] = ffmpeg.path
        /\ key \in Identities => key[2] = builds[key[1]]
    <3>1. ffmpeg.path \in FFmpegs /\ builds[ffmpeg.path] \in Builds
      BY <1>a
    <3>2. CASE key = <<ffmpeg.path, builds[ffmpeg.path]>>
      BY <3>1, <3>2, KeysDiffer DEF Keys
    <3>3. CASE key = <<ffmpeg.path>>
      BY <3>1, <3>3, KeysDiffer DEF Keys
    <3> QED
      BY <3>2, <3>3
  <2>3. /\ q.at = "asked" /\ q.key = key /\ q.generation = ffmpeg.generation
        /\ q \in ProberRecord
    BY <1>a, <1>c, <2>2 DEF NoProber, ProberRecord, Keys
  <2>4. UNCHANGED <<builds, ffmpeg, snapshot, probed, encoding, swapped>>
    BY <1>3 DEF AskCapabilities
  <2> HIDE DEF q
  <2>5. prober' = [prober EXCEPT ![r] = q]
    BY <2>1 DEF q
  <2>6. prober' \in [Probers -> ProberRecord] /\ OneInService' /\ CapturesThePath' /\ CapturesTheBuild'
    <3>1. q.generation <= ffmpeg.generation
      <4>1. ffmpeg.generation \in 0 .. MaxPathChanges /\ q.generation = ffmpeg.generation
        BY <1>a, <2>3
      <4> QED
        BY ONLY <4>1
    <3> QED
      BY <2>2, <2>3, <2>4, <2>5, <3>1, ProberMoves
  <2> QED
    BY <1>g, <2>1, <2>4, <2>6
<1>h. ASSUME NEW r \in Probers, NEW at \in {"read", "probe", "publish"}, NEW q,
             prober[r].at \notin {"idle", "asked"} \/ \A d \in Probers : prober[d].at \in {"idle", "asked"},
             Working(r), at = "publish" => prober[r].at = "save",
             UNCHANGED <<builds, ffmpeg, swapped>>,
             q = [prober[r] EXCEPT !.at = at], prober' = [prober EXCEPT ![r] = q]
      PROVE  prober' \in [Probers -> ProberRecord] /\ OneInService' /\ CapturesThePath' /\ CapturesTheBuild'
  <2>1. /\ q \in ProberRecord /\ q.at = at /\ q.key = prober[r].key
        /\ q.generation = prober[r].generation /\ q.works = prober[r].works
    BY <1>a, <1>h DEF ProberRecord
  <2> QED
    BY <1>e, <1>h, <2>1, ProberMoves
<1>i. ASSUME NEW r \in Probers, Leave(r), UNCHANGED <<builds, ffmpeg, swapped>>
      PROVE  prober' \in [Probers -> ProberRecord] /\ OneInService' /\ CapturesThePath' /\ CapturesTheBuild'
  BY <1>c, <1>i, ProberMoves DEF Leave
<1>4. ASSUME NEW r \in Probers, EnterService(r) PROVE EncodersInv'
  <2> DEFINE at == IF prober[r].force THEN "probe" ELSE "read"
  <2>1. /\ prober[r].at = "asked" /\ \A q \in Probers : prober[q].at \in {"idle", "asked"}
        /\ prober' = [prober EXCEPT ![r] = [prober[r] EXCEPT !.at = at]] /\ at \in {"read", "probe"}
        /\ UNCHANGED <<builds, ffmpeg, snapshot, probed, encoding, swapped>> /\ Smooth
    BY <1>4 DEF EnterService
  <2> HIDE DEF at
  <2>2. prober' \in [Probers -> ProberRecord] /\ OneInService' /\ CapturesThePath' /\ CapturesTheBuild'
    BY <1>h, <2>1 DEF Working
  <2> QED
    BY <1>g, <2>1, <2>2
\* Results that fit may be published, and the snapshot withdrawn.
<1>j. ASSUME NEW r \in Probers, NEW works \in Builds, Working(r), Publishes(r, works),
             UNCHANGED <<builds, ffmpeg, swapped>>,
             swapped # "for good" => works \subseteq builds[prober[r].key[1]]
      PROVE  SnapshotFits' /\ snapshot' \in [of : FFmpegs \cup {<<>>}, works : Builds]
  BY <1>a, <1>e, <1>j DEF Publishes, EncodersInv, SnapshotFits
<1>k. ASSUME NEW r \in Probers, Withdraws(r), UNCHANGED <<builds, ffmpeg, swapped>>
      PROVE  SnapshotFits' /\ snapshot' \in [of : FFmpegs \cup {<<>>}, works : Builds]
  BY <1>a, <1>d, <1>k DEF Withdraws, EncodersInv, SnapshotFits
<1>5. ASSUME NEW r \in Probers, ReadCache(r) PROVE EncodersInv'
  <2>1. /\ prober[r].at = "read" /\ Working(r)
        /\ UNCHANGED <<builds, ffmpeg, probed, encoding, swapped>>
    BY <1>5 DEF ReadCache, Working
  <2>2. SnapshotFits' /\ snapshot' \in [of : FFmpegs \cup {<<>>}, works : Builds]
    <3>1. CASE \E row \in Rows(prober[r].key) : Publishes(r, row.works)
      <4>1. PICK row \in probed : row.key = prober[r].key /\ Publishes(r, row.works)
        BY <3>1 DEF Rows
      <4>2. row.works \in Builds /\ row.key \in Identities
        BY <1>a
      <4>3. swapped # "for good" => row.works \subseteq builds[prober[r].key[1]]
        BY <1>e, <2>1, <4>1, <4>2 DEF EncodersInv, RowsFit
      <4> QED
        BY <1>j, <2>1, <4>1, <4>2, <4>3
    <3>2. CASE Withdraws(r)
      BY <1>k, <2>1, <3>2
    <3> QED
      BY <1>5, <3>1, <3>2 DEF ReadCache
  <2>3. prober' \in [Probers -> ProberRecord] /\ OneInService' /\ CapturesThePath' /\ CapturesTheBuild'
    <3>1. CASE Leave(r)
      BY <1>i, <2>1, <3>1
    <3>2. CASE prober' = [prober EXCEPT ![r] = [prober[r] EXCEPT !.at = "probe"]]
      BY <1>h, <2>1, <3>2
    <3> QED
      BY <1>5, <3>1, <3>2 DEF ReadCache
  <2>4. Mishap \/ Smooth
    BY <1>5 DEF ReadCache
  <2>5. EncodersTypeOK'
    BY <1>a, <1>b, <1>f, <2>1, <2>2, <2>3, <2>4
  <2> QED
    BY <2>1, <2>2, <2>3, <2>5 DEF EncodersInv, RowsFit, FallbackSaves
<1>6. ASSUME NEW r \in Probers, NEW p \in FFmpegs, ProbeEncoders(r, p) PROVE EncodersInv'
  <2>1. /\ prober[r].at = "probe" /\ Working(r) /\ p = prober[r].key[1]
        /\ UNCHANGED <<builds, ffmpeg, snapshot, probed, encoding, swapped>>
    BY <1>6 DEF ProbeEncoders, Working
  <2>2. Mishap \/ Smooth
    BY <1>6 DEF ProbeEncoders
  <2>3. ASSUME NEW works \in Builds, works \subseteq builds[p],
               prober' = [prober EXCEPT ![r] = [prober[r] EXCEPT !.at = "save", !.works = works]]
        PROVE  EncodersInv'
    <3> DEFINE q == [prober[r] EXCEPT !.at = "save", !.works = works]
    <3>1. /\ q \in ProberRecord /\ q.at = "save" /\ q.key = prober[r].key
          /\ q.generation = prober[r].generation /\ q.works = works
      BY <1>a DEF ProberRecord
    <3> HIDE DEF q
    <3>2. prober' = [prober EXCEPT ![r] = q]
      BY <2>3 DEF q
    <3>3. prober' \in [Probers -> ProberRecord] /\ OneInService' /\ CapturesThePath' /\ CapturesTheBuild'
      <4>1. prober[r].at \notin {"idle", "asked"}
        BY <2>1
      <4>2. q.generation = ffmpeg.generation => q.key[1] = ffmpeg.path
          BY <1>e, <2>1, <3>1
      <4>3. q.key \in Keys /\ q.generation <= ffmpeg.generation
        BY <1>e, <2>1, <3>1
      <4>4. swapped # "for good" =>
                 /\ q.key \in Identities => q.key[2] = builds[q.key[1]]
                 /\ q.at \in {"save", "publish"} => q.works \subseteq builds[q.key[1]]
        BY <1>e, <2>1, <2>3, <3>1
      <4> QED
        BY <2>1, <3>1, <3>2, <4>1, <4>2, <4>3, <4>4, ProberMoves
    <3> QED
      BY <1>g, <2>1, <2>2, <3>3
  <2>4. ASSUME Leave(r) PROVE EncodersInv'
    BY <1>g, <1>i, <2>1, <2>2, <2>4
  <2>5. builds[p] \in Builds /\ \A f \in builds[p] : builds[p] \ {f} \in Builds
    BY <1>a DEF Builds
  <2>6. \/ Leave(r)
        \/ prober' = [prober EXCEPT ![r] = [prober[r] EXCEPT !.at = "save", !.works = builds[p]]]
        \/ \E f \in builds[p] :
             prober' = [prober EXCEPT ![r] = [prober[r] EXCEPT !.at = "save", !.works = builds[p] \ {f}]]
    BY <1>6 DEF ProbeEncoders
  <2> QED
    BY <2>3, <2>4, <2>5, <2>6
<1>7. ASSUME NEW r \in Probers, SaveCache(r) PROVE EncodersInv'
  <2> DEFINE row == [key |-> prober[r].key, works |-> prober[r].works]
  <2>1. /\ prober[r].at = "save" /\ Working(r)
        /\ UNCHANGED <<builds, ffmpeg, snapshot, encoding, swapped>>
        /\ Mishap \/ Smooth
        /\ \/ probed' = probed
           \/ row.key \notin Unidentified /\ probed' = (probed \ Rows(row.key)) \cup {row}
        /\ Leave(r) \/ prober' = [prober EXCEPT ![r] = [prober[r] EXCEPT !.at = "publish"]]
    BY <1>7 DEF SaveCache, Working
  <2>2. prober' \in [Probers -> ProberRecord] /\ OneInService' /\ CapturesThePath' /\ CapturesTheBuild'
    <3>1. CASE Leave(r)
      BY <1>i, <2>1, <3>1
    <3>2. CASE prober' = [prober EXCEPT ![r] = [prober[r] EXCEPT !.at = "publish"]]
      BY <1>h, <2>1, <3>2
    <3> QED
      BY <2>1, <3>1, <3>2
  <2>3. /\ probed' \subseteq [key : Identities, works : Builds]
        /\ \A a, b \in probed' : a.key = b.key => a = b
        /\ RowsFit'
    <3>1. CASE probed' = probed
      BY <1>a, <2>1, <3>1 DEF EncodersInv, RowsFit
    <3>2. CASE row.key \notin Unidentified /\ probed' = (probed \ Rows(row.key)) \cup {row}
      <4>1. row.key = prober[r].key /\ row.works = prober[r].works /\ prober[r].works \in Builds
        BY <1>a DEF ProberRecord
      <4>2. row.key \in Identities
        BY <1>e, <2>1, <3>2, <4>1 DEF Keys
      <4>3. row \in [key : Identities, works : Builds]
        BY <4>1, <4>2
      <4>4. swapped # "for good" => row.works \subseteq row.key[2]
        BY <1>e, <2>1, <4>1, <4>2
      <4> HIDE DEF row
      <4>5. \A a \in probed' : a = row \/ (a \in probed /\ a.key # row.key)
        BY <3>2 DEF Rows
      <4> QED
        BY <1>a, <2>1, <4>3, <4>4, <4>5 DEF EncodersInv, RowsFit
    <3> QED
      BY <2>1, <3>1, <3>2
  <2>4. EncodersTypeOK'
    BY <1>a, <1>b, <1>f, <2>1, <2>2, <2>3
  <2> QED
    BY <2>1, <2>2, <2>3, <2>4 DEF EncodersInv, SnapshotFits, FallbackSaves
<1>8. ASSUME NEW r \in Probers, PublishResults(r) PROVE EncodersInv'
  <2>1. /\ prober[r].at = "publish" /\ Working(r) /\ Publishes(r, prober[r].works) /\ Leave(r)
        /\ UNCHANGED <<builds, ffmpeg, probed, encoding, swapped>> /\ Smooth
    BY <1>8 DEF PublishResults, Working
  <2>2. prober[r].works \in Builds
    BY <1>a DEF ProberRecord
  <2>3. SnapshotFits' /\ snapshot' \in [of : FFmpegs \cup {<<>>}, works : Builds]
    BY <1>e, <1>j, <2>1, <2>2
  <2>4. prober' \in [Probers -> ProberRecord] /\ OneInService' /\ CapturesThePath' /\ CapturesTheBuild'
    BY <1>i, <2>1
  <2>5. EncodersTypeOK'
    BY <1>a, <1>b, <1>f, <2>1, <2>3, <2>4
  <2> QED
    BY <2>1, <2>3, <2>4, <2>5 DEF EncodersInv, RowsFit, FallbackSaves
<1>9. ASSUME CleanCodecCache PROVE EncodersInv'
  <2>1. /\ probed' = {} /\ snapshot' = NoSnapshot
        /\ UNCHANGED <<builds, ffmpeg, prober, encoding, swapped>> /\ Smooth
    BY <1>9 DEF CleanCodecCache
  <2>2. OneInService' /\ CapturesThePath' /\ CapturesTheBuild' /\ prober' \in [Probers -> ProberRecord]
    BY <1>a, <2>1 DEF EncodersInv, OneInService, CapturesThePath, CapturesTheBuild, Working, Keys,
                      ProberRecord
  <2>3. EncodersTypeOK'
    BY <1>a, <1>b, <1>d, <1>f, <2>1, <2>2
  <2> QED
    BY <2>1, <2>2, <2>3 DEF EncodersInv, SnapshotFits, RowsFit, FallbackSaves
\* A transcode leaves everything but itself alone.
<1>l. ASSUME encoding' \in [at : {"idle", "chosen", "failed"}, fallback : BOOLEAN,
                            encoder : Families \cup {0}],
             encoding'.fallback => encoding'.at # "failed",
             UNCHANGED <<builds, ffmpeg, snapshot, probed, prober, swapped>>, Smooth
      PROVE  EncodersInv'
  <2>1. OneInService' /\ CapturesThePath' /\ CapturesTheBuild' /\ prober' \in [Probers -> ProberRecord]
    BY <1>a, <1>l DEF EncodersInv, OneInService, CapturesThePath, CapturesTheBuild, Working, Keys,
                      ProberRecord
  <2>2. EncodersTypeOK'
    BY <1>a, <1>b, <1>f, <1>l, <2>1
  <2> QED
    BY <1>l, <2>1, <2>2 DEF EncodersInv, SnapshotFits, RowsFit, FallbackSaves
<1>m. \A fallback \in BOOLEAN :
        /\ Failed(fallback) \in [at : {"idle", "chosen", "failed"}, fallback : BOOLEAN,
                                 encoder : Families \cup {0}]
        /\ Failed(fallback).fallback = fallback
  BY DEF Failed, NoEncoding
<1>n. /\ NoEncoding \in [at : {"idle", "chosen", "failed"}, fallback : BOOLEAN,
                         encoder : Families \cup {0}]
      /\ NoEncoding.at = "idle"
  BY DEF NoEncoding
<1>10. ASSUME NEW mode \in {"auto", "software", "specific"}, NEW family \in Families,
              NEW fallback \in BOOLEAN, ChooseEncoder(mode, family, fallback)
       PROVE  EncodersInv'
  <2> DEFINE encoder == Choice(mode, family, snapshot.works)
  <2>1. /\ encoding' = IF encoder # 0 THEN [at |-> "chosen", fallback |-> fallback, encoder |-> encoder]
                       ELSE IF mode = "specific" /\ ~fallback THEN Failed(fallback) ELSE NoEncoding
        /\ UNCHANGED <<builds, ffmpeg, snapshot, probed, prober, swapped>> /\ Smooth
    BY <1>10 DEF ChooseEncoder
  <2>2. encoder \in Families \cup {0}
    <3>1. snapshot.works \subseteq Families
      BY <1>a DEF Builds
    <3>2. Preferred(snapshot.works) \in Families \cup {0}
      <4>1. CASE snapshot.works # {}
        <5>1. \E f \in snapshot.works : \A g \in snapshot.works : f <= g
          BY <3>1, <4>1, LeastNatural
        <5> QED
          BY <3>1, <4>1, <5>1 DEF Preferred
      <4> QED
        BY <4>1 DEF Preferred
    <3> QED
      BY <3>2 DEF Choice
  <2> HIDE DEF encoder
  <2> QED
    BY <1>l, <1>m, <1>n, <2>1, <2>2
<1>11. ASSUME RunEncoder PROVE EncodersInv'
  <2>1. /\ encoding.at = "chosen"
        /\ encoding' = NoEncoding \/ (~encoding.fallback /\ encoding' = Failed(encoding.fallback))
        /\ UNCHANGED <<builds, ffmpeg, snapshot, probed, prober, swapped>> /\ Smooth
    BY <1>11 DEF RunEncoder, FallsBack
  <2>2. encoding.fallback \in BOOLEAN
    BY <1>a
  <2> QED
    BY <1>l, <1>m, <1>n, <2>1, <2>2
<1>12. ASSUME FailEncoding PROVE EncodersInv'
  BY <1>12, <1>l, <1>n DEF FailEncoding
<1>13. CASE UNCHANGED encoderVars
  BY <1>13 DEF encoderVars, EncodersInv, EncodersTypeOK, CapturesThePath, CapturesTheBuild, Working,
               SnapshotFits, RowsFit, FallbackSaves, Keys
<1> QED
  BY <1>1, <1>2, <1>3, <1>4, <1>5, <1>6, <1>7, <1>8, <1>9, <1>10, <1>11, <1>12, <1>13
     DEF EncodersNext, ProberStep

\* The encoders offered are of the FFmpeg in use (capability_service.go, fallback.go).
THEOREM EncodersFitAlways == EncodersSpec => [](SnapshotFits /\ RowsFit /\ FallbackSaves)
<1>1. EncodersInv => SnapshotFits /\ RowsFit /\ FallbackSaves
  BY DEF EncodersInv
<1> QED
  BY EncodersInitInv, EncodersStep, <1>1, PTL DEF EncodersSpec

-----------------------------------------------------------------------------
(***************************************************************************)
(* Bookmarks (bookmark_service.go). A confirmed change stands in the       *)
(* history at the revision it was asked for, once; nothing a client knows  *)
(* is ahead of the row. All of it is one comparison and change of the row. *)
(***************************************************************************)

\* A request under way, with the number of those that were begun.
Asked ==
  [does : {"update", "delete"}, revision : 1..MaxBookmarkRequests + 1, id : 1..begun,
   at : {"read", "write", "look", "answered"}, tries : 1..2,
   answer : {"none", "saved", "conflict", "error"}, snapshot : 0..MaxBookmarkRequests + 1]

\* A client with a request under way.
Sending(c) == sent[c].does # "nothing"

\* Requests are numbered, and have an answer only once they are answered.
RequestsFit ==
  /\ sent \in [BookmarkClients -> {NoSent} \cup Asked]
  /\ \A c \in BookmarkClients : Sending(c) => (sent[c].at = "answered" <=> sent[c].answer # "none")
  /\ \A c, d \in BookmarkClients : Sending(c) /\ Sending(d) /\ sent[c].id = sent[d].id => c = d

\* No request is written twice, and none that was not begun.
WrittenOnce ==
  /\ \A i \in DOMAIN history : history[i] <= begun
  /\ \A i, j \in DOMAIN history : history[i] = history[j] => i = j

\* Whatever revision a client knows or asks about is not ahead of the row.
Past(revision) == revision <= bookmark.revision \/ bookmark.revision = 0
NothingIsAhead ==
  \A c \in BookmarkClients :
    Past(seen[c]) /\ (Sending(c) => Past(sent[c].revision) /\ Past(sent[c].snapshot))

\* The inductive invariant of bookmarks.
BookmarksInv ==
  /\ BookmarksTypeOK /\ BookmarksSafe /\ RequestsFit /\ WrittenOnce /\ NothingIsAhead

\* It holds at first.
LEMMA BookmarksInitInv == BookmarksInit => BookmarksInv
<1> SUFFICES ASSUME BookmarksInit PROVE BookmarksInv
  OBVIOUS
<1> USE BookmarksAssumption DEF BookmarksInit, NoSent, Sending
<1>1. BookmarksTypeOK /\ RequestsFit
  BY DEF BookmarksTypeOK, RequestsFit
<1>2. BookmarksSafe
  BY DEF BookmarksSafe, SavedExactlyOnce, NoUnseenOverwrite, RowIsLatest, ConflictIsTrue
<1>3. WrittenOnce /\ NothingIsAhead
  BY DEF WrittenOnce, NothingIsAhead, Past
<1> QED
  BY <1>1, <1>2, <1>3 DEF BookmarksInv

\* A sequence without repetition of numbers up to n has at most n elements.
LEMMA HistoryFits ==
  ASSUME NEW n \in Nat, NEW h \in Seq(1..n), \A i, j \in DOMAIN h : h[i] = h[j] => i = j
  PROVE  Len(h) <= n
<1> DEFINE D == 1..Len(h)
<1>1. h \in [D -> 1..n] /\ \A i, j \in D : h[i] = h[j] => i = j
  OBVIOUS
<1>2. h \in Injection(D, 1..n)
  BY <1>1, Fun_IsInj
<1>3. IsFiniteSet(D) /\ Cardinality(D) = Len(h) /\ IsFiniteSet(1..n) /\ Cardinality(1..n) = n
  <2>1. ASSUME NEW k \in Nat PROVE IsFiniteSet(1..k) /\ Cardinality(1..k) = k
    BY FS_Interval
  <2>2. Len(h) \in Nat
    OBVIOUS
  <2> QED
    BY <2>1, <2>2
<1>4. Cardinality(D) <= Cardinality(1..n)
  BY <1>2, <1>3, FS_Injection
<1> QED
  BY <1>3, <1>4

\* A client sends just when its request is one that was asked.
LEMMA AskedIsSending ==
  ASSUME RequestsFit, NEW c \in BookmarkClients
  PROVE  /\ sent[c] \in {NoSent} \cup Asked
         /\ Sending(c) <=> sent[c] \in Asked
         /\ Sending(c) <=> sent[c] # NoSent
  BY DEF RequestsFit, Asked, Sending, NoSent

\* A request goes on without writing: read, refused, or looked up after a conflict.
LEMMA SentMoves ==
  ASSUME BookmarksInv, NEW c \in BookmarkClients, Sending(c), sent[c].at # "answered",
         NEW q \in Asked, q.does = sent[c].does, q.id = sent[c].id,
         q.revision = sent[c].revision, q.answer # "saved",
         q.at = "answered" <=> q.answer # "none",
         q.answer = "conflict" => bookmark.revision # q.revision, Past(q.snapshot),
         sent' = [sent EXCEPT ![c] = q], UNCHANGED <<bookmark, history, seen, begun>>
  PROVE  BookmarksInv'
<1> USE BookmarksAssumption
<1>1. RequestsFit /\ BookmarksTypeOK
  BY DEF BookmarksInv
<1>2. sent'[c] = q /\ \A d \in BookmarkClients \ {c} : sent'[d] = sent[d]
  BY <1>1 DEF RequestsFit
<1>3. sent' \in [BookmarkClients -> {NoSent} \cup Asked]
  BY <1>1 DEF RequestsFit
<1>4. Asked' = Asked
  BY DEF Asked
<1>5. \A d \in BookmarkClients : Sending(d) <=> sent'[d].does # "nothing"
  BY <1>2 DEF Sending
<1>a. RequestsFit'
  BY <1>1, <1>2, <1>3, <1>4, <1>5 DEF RequestsFit, Sending
<1>b. \A d \in BookmarkClients : Sending(d)' <=> (sent[d] # NoSent)'
  BY <1>a DEF RequestsFit, Asked, Sending, NoSent
<1>c. \A d \in BookmarkClients : Sending(d) <=> sent[d] # NoSent
  BY <1>1, AskedIsSending
<1>d. BookmarksTypeOK'
  <2>1. \A d \in BookmarkClients : (sent[d] # NoSent)' => sent'[d] \in Asked
    BY <1>3
  <2> QED
    BY <1>1, <2>1 DEF BookmarksTypeOK, Asked, BookmarkCASMaxAttempts
<1>e. \A d \in BookmarkClients : WrittenBy(sent[d].id)' = WrittenBy(sent[d].id)
  BY <1>2 DEF WrittenBy
<1>f. WrittenBy(sent[c].id) = {}
  BY <1>c DEF BookmarksInv, BookmarksSafe, SavedExactlyOnce, RequestsFit
<1>g. SavedExactlyOnce'
  BY <1>2, <1>b, <1>c, <1>e, <1>f, <1>5 DEF BookmarksInv, BookmarksSafe, SavedExactlyOnce, Sending
<1>h. NoUnseenOverwrite'
  BY <1>2, <1>b, <1>c, <1>e DEF BookmarksInv, BookmarksSafe, NoUnseenOverwrite, Sending
<1>i. RowIsLatest' /\ WrittenOnce'
  BY DEF BookmarksInv, BookmarksSafe, RowIsLatest, WrittenOnce
<1>j. ConflictIsTrue'
  BY <1>2, <1>b, <1>c DEF BookmarksInv, BookmarksSafe, ConflictIsTrue, RowMatches, Sending
<1>k. NothingIsAhead'
  BY <1>2 DEF BookmarksInv, NothingIsAhead, Past, Sending
<1> QED
  BY <1>a, <1>d, <1>g, <1>h, <1>i, <1>j, <1>k DEF BookmarksInv, BookmarksSafe

\* A saved change stands in the history, at the revision it was asked for.
LEMMA BookmarkWritten ==
  ASSUME BookmarksInv, NEW c \in BookmarkClients, WriteBookmark(c)
  PROVE  BookmarksInv'
<1> USE BookmarksAssumption
<1> DEFINE n == MaxBookmarkRequests  id == sent[c].id  rev == sent[c].revision
           new == Append(history, id)
           q == [sent[c] EXCEPT !.at = "answered", !.answer = "saved",
                                !.snapshot = bookmark'.revision]
<1>1. RequestsFit /\ BookmarksTypeOK /\ RowIsLatest /\ Sending(c)
  BY DEF BookmarksInv, BookmarksSafe, WriteBookmark, Sending
<1>2. sent[c] \in Asked /\ rev \in 1..n + 1 /\ id \in 1..begun /\ begun \in 0..n
  BY <1>1, AskedIsSending DEF Asked, BookmarksTypeOK
<1>3. history \in Seq(1..n) /\ bookmark.revision = rev /\ rev = Len(history) + 1
  BY <1>1, <1>2 DEF BookmarksTypeOK, RowIsLatest, WriteBookmark, RowMatches
<1>4. sent[c].answer = "none" /\ WrittenBy(id) = {}
  BY <1>1, <1>2, AskedIsSending
     DEF BookmarksInv, BookmarksSafe, SavedExactlyOnce, RequestsFit, WriteBookmark
<1>5. /\ new \in Seq(1..n) /\ Len(new) = rev /\ new[rev] = id
      /\ DOMAIN new = DOMAIN history \cup {rev} /\ rev \notin DOMAIN history
      /\ \A i \in DOMAIN history : new[i] = history[i]
  BY <1>2, <1>3
<1>6. history' = new /\ UNCHANGED <<seen, begun, mishaps>>
  BY DEF WriteBookmark
<1>7. (\A i, j \in DOMAIN new : new[i] = new[j] => i = j) /\ \A i \in DOMAIN new : new[i] <= begun
  BY <1>2, <1>4, <1>5 DEF BookmarksInv, WrittenOnce, WrittenBy
<1>8. rev <= n
  <2>1. n \in Nat /\ Len(new) <= n
    BY <1>5, <1>7, HistoryFits
  <2> QED
    BY <2>1, <1>5
<1>9. /\ bookmark' \in [revision : 0..n + 1, by : 0..n]
      /\ bookmark'.revision = 0 \/ (bookmark'.revision = rev + 1 /\ bookmark'.by = id)
  <2>1. bookmark.revision + 1 \in 0..n + 1 /\ id \in 0..n /\ 0 \in 0..n + 1 /\ 0 \in 0..n
    BY <1>2, <1>3, <1>8
  <2>2. CASE sent[c].does = "delete"
    <3>1. bookmark' = [revision |-> 0, by |-> 0]
      BY <2>2 DEF WriteBookmark, DeletedRow
    <3>2. [revision |-> 0, by |-> 0] \in [revision : 0..n + 1, by : 0..n]
      BY <2>1
    <3> QED
      BY <3>1, <3>2
  <2>3. CASE sent[c].does # "delete"
    <3>1. bookmark' = [revision |-> bookmark.revision + 1, by |-> id]
      BY <2>3 DEF WriteBookmark, Bumped
    <3> QED
      BY <2>1, <3>1, <1>3
  <2> QED
    BY <2>2, <2>3
<1>10. sent' = [sent EXCEPT ![c] = q]
  BY DEF WriteBookmark, AnswersBookmark
<1>11. /\ q \in Asked /\ q.does = sent[c].does /\ q.id = id /\ q.revision = rev
       /\ q.at = "answered" /\ q.answer = "saved" /\ q.snapshot = bookmark'.revision
  BY <1>2, <1>9 DEF Asked
<1>12. Asked' = Asked
  BY <1>6 DEF Asked
<1>13. sent'[c] = q /\ \A d \in BookmarkClients \ {c} : sent'[d] = sent[d]
  BY <1>1, <1>10 DEF RequestsFit
<1>a. RequestsFit'
  BY <1>1, <1>10, <1>11, <1>12, <1>13 DEF RequestsFit, Sending
<1>b. \A d \in BookmarkClients : Sending(d)' <=> (sent[d] # NoSent)'
  BY <1>a DEF RequestsFit, Asked, Sending, NoSent
<1>c. \A d \in BookmarkClients : Sending(d) <=> sent[d] # NoSent
  BY <1>1, AskedIsSending
<1>d. BookmarksTypeOK'
  <2>1. \A d \in BookmarkClients : (sent[d] # NoSent)' => sent'[d] \in Asked
    BY <1>a, <1>12 DEF RequestsFit
  <2> QED
    BY <1>1, <2>1, <1>5, <1>6, <1>9 DEF BookmarksTypeOK, Asked, BookmarkCASMaxAttempts
<1>e. \A d \in BookmarkClients \ {c} : Sending(d) =>
        WrittenBy(sent[d].id)' = WrittenBy(sent[d].id)
  BY <1>1, <1>5, <1>6, <1>13 DEF WrittenBy, RequestsFit
<1>f. WrittenBy(sent[c].id)' = {rev}
  BY <1>4, <1>5, <1>6, <1>11, <1>13 DEF WrittenBy
<1>g. \A d \in BookmarkClients \ {c} : Sending(d)' <=> Sending(d)
  BY <1>13 DEF Sending
<1>h. SavedExactlyOnce'
  <2>1. \E i \in DOMAIN history' : WrittenBy(sent[c].id)' = {i}
    BY <1>5, <1>6, <1>f
  <2>2. \A d \in BookmarkClients \ {c} : Sending(d) =>
          IF sent[d].answer = "saved" THEN \E i \in DOMAIN history : WrittenBy(sent[d].id) = {i}
          ELSE WrittenBy(sent[d].id) = {}
    BY <1>c DEF BookmarksInv, BookmarksSafe, SavedExactlyOnce
  <2>3. \A d \in BookmarkClients \ {c} : Sending(d) =>
          IF sent'[d].answer = "saved" THEN \E i \in DOMAIN history' : WrittenBy(sent[d].id)' = {i}
          ELSE WrittenBy(sent[d].id)' = {}
    <3>1. DOMAIN history \subseteq DOMAIN history'
      BY <1>5, <1>6
    <3> QED
      BY <2>2, <3>1, <1>13, <1>e
  <2> QED
    BY <2>1, <2>3, <1>11, <1>13, <1>b, <1>g DEF SavedExactlyOnce
<1>i. NoUnseenOverwrite'
  BY <1>11, <1>13, <1>b, <1>c, <1>e, <1>f, <1>g
     DEF BookmarksInv, BookmarksSafe, NoUnseenOverwrite
<1>j. RowIsLatest'
  BY <1>5, <1>6, <1>9 DEF RowIsLatest
<1>k. WrittenOnce'
  BY <1>6, <1>7 DEF WrittenOnce
<1>l. \A d \in BookmarkClients \ {c} : Sending(d) => Past(sent[d].revision) /\ Past(sent[d].snapshot)
  BY DEF BookmarksInv, NothingIsAhead
<1>m. ConflictIsTrue'
  <2>1. \A d \in BookmarkClients \ {c} : Sending(d) => sent[d].revision \in 1..n + 1
    BY <1>1, AskedIsSending DEF Asked
  <2> QED
    <3>1. \A d \in BookmarkClients \ {c} : Sending(d) => sent[d].revision <= rev
      BY <2>1, <1>2, <1>3, <1>l DEF Past
    <3>2. \A d \in BookmarkClients \ {c} : Sending(d) => bookmark'.revision # sent[d].revision
      BY <2>1, <3>1, <1>2, <1>9
    <3> QED
      BY <3>2, <1>11, <1>13, <1>b, <1>g DEF ConflictIsTrue, RowMatches
<1>n. NothingIsAhead'
  <2>1. \A d \in BookmarkClients : Past(seen[d]) /\ seen[d] \in 0..n + 1
    BY <1>1 DEF BookmarksInv, NothingIsAhead, BookmarksTypeOK
  <2>2. \A d \in BookmarkClients : Sending(d) =>
          sent[d].revision \in 1..n + 1 /\ sent[d].snapshot \in 0..n + 1
    BY <1>1, AskedIsSending DEF Asked
  <2> QED
    <3>1. \A k \in 0..n + 1 : Past(k) => Past(k)'
      BY <1>2, <1>3, <1>9 DEF Past
    <3>2. \A d \in BookmarkClients : Past(seen[d])'
      BY <2>1, <3>1, <1>6
    <3>3. \A d \in BookmarkClients \ {c} : Sending(d)' =>
            Past(sent[d].revision)' /\ Past(sent[d].snapshot)'
      BY <2>2, <3>1, <1>13, <1>g, <1>l DEF Past
    <3>4. Past(sent[c].revision)' /\ Past(sent[c].snapshot)'
      BY <1>2, <1>9, <1>11, <1>13 DEF Past
    <3> QED
      BY <3>2, <3>3, <3>4 DEF NothingIsAhead
<1> QED
  BY <1>a, <1>d, <1>h, <1>i, <1>j, <1>k, <1>m, <1>n DEF BookmarksInv, BookmarksSafe

\* Every step of a request keeps it.
LEMMA BookmarksStep == BookmarksInv /\ [BookmarksNext]_bookmarkVars => BookmarksInv'
<1> SUFFICES ASSUME BookmarksInv, [BookmarksNext]_bookmarkVars PROVE BookmarksInv'
  OBVIOUS
<1> USE BookmarksAssumption
<1>a. /\ bookmark.revision \in 0..MaxBookmarkRequests + 1
      /\ seen \in [BookmarkClients -> 0..MaxBookmarkRequests + 1]
      /\ sent \in [BookmarkClients -> {NoSent} \cup Asked] /\ RequestsFit
      /\ begun \in 0..MaxBookmarkRequests
  BY DEF BookmarksInv, BookmarksTypeOK, RequestsFit
<1>b. \A c \in BookmarkClients : Past(seen[c])
  BY DEF BookmarksInv, NothingIsAhead
<1>c. Past(bookmark.revision) /\ Past(0)
  BY <1>a DEF Past
<1>1. ASSUME NEW c \in BookmarkClients, ListBookmarks(c) PROVE BookmarksInv'
  <2>1. /\ seen' \in [BookmarkClients -> 0..MaxBookmarkRequests + 1]
        /\ \A d \in BookmarkClients : seen'[d] = seen[d] \/ seen'[d] = bookmark.revision
        /\ UNCHANGED <<bookmark, history, sent, begun, mishaps>>
    BY <1>1, <1>a DEF ListBookmarks
  <2>2. BookmarksTypeOK' /\ RequestsFit' /\ WrittenOnce' /\ BookmarksSafe'
    <3>1. BookmarksTypeOK' /\ WrittenOnce'
      BY <2>1 DEF BookmarksInv, BookmarksTypeOK, WrittenOnce
    <3>2. RequestsFit'
      BY <2>1 DEF BookmarksInv, RequestsFit, Asked, Sending
    <3>3. BookmarksSafe'
      BY <2>1 DEF BookmarksInv, BookmarksSafe, SavedExactlyOnce, NoUnseenOverwrite, RowIsLatest,
                  ConflictIsTrue, RowMatches, WrittenBy
    <3> QED
      BY <3>1, <3>2, <3>3
  <2>3. NothingIsAhead'
    BY <2>1, <1>a DEF BookmarksInv, NothingIsAhead, Past, Sending
  <2> QED
    BY <2>2, <2>3 DEF BookmarksInv
<1>2. ASSUME NEW c \in BookmarkClients, SendRequest(c) PROVE BookmarksInv'
  <2>1. PICK does \in {"update", "delete"} : sent' = [sent EXCEPT ![c] = AskedChange(does, seen[c], begun + 1)]
    BY <1>2 DEF SendRequest
  <2> DEFINE q == AskedChange(does, seen[c], begun + 1)
  <2>2. /\ sent[c] = NoSent /\ seen[c] > 0 /\ begun' = begun + 1
        /\ begun' \in 0..MaxBookmarkRequests
        /\ UNCHANGED <<bookmark, history, seen, mishaps>> /\ ~Sending(c)
    BY <1>2, <1>a DEF SendRequest, Sending, NoSent
  <2>3. /\ q.does = does /\ q.id = begun + 1 /\ q.revision = seen[c] /\ q.at = "read"
        /\ q.answer = "none" /\ q.snapshot = 0
    BY DEF AskedChange
  <2>4. q \in Asked' /\ Asked \subseteq Asked'
    BY <2>2, <1>a DEF Asked, AskedChange
  <2>5. sent'[c] = q /\ \A d \in BookmarkClients \ {c} : sent'[d] = sent[d]
    BY <1>a, <2>1
  <2>6. sent' \in [BookmarkClients -> {NoSent} \cup Asked']
    BY <1>a, <2>1, <2>4
  <2>7. \A d \in BookmarkClients \ {c} : /\ (Sending(d)' <=> Sending(d))
                                         /\ (Sending(d) => sent[d].id \in 1..begun)
    BY <1>a, <2>5, AskedIsSending DEF Sending, Asked
  <2>8. RequestsFit'
    BY <1>a, <2>2, <2>3, <2>5, <2>6, <2>7 DEF RequestsFit
  <2>9. \A d \in BookmarkClients : Sending(d)' <=> (sent[d] # NoSent)'
    BY <2>8 DEF RequestsFit, Asked, Sending, NoSent
  <2>10. \A d \in BookmarkClients : Sending(d) <=> sent[d] # NoSent
    BY <1>a, AskedIsSending
  <2>11. BookmarksTypeOK'
    BY <2>2, <2>6 DEF BookmarksInv, BookmarksTypeOK, Asked, BookmarkCASMaxAttempts
  <2>12. WrittenBy(sent[c].id)' = {} /\ WrittenOnce'
    BY <1>a, <2>2, <2>3, <2>5 DEF BookmarksInv, BookmarksTypeOK, WrittenOnce, WrittenBy
  <2>13. \A d \in BookmarkClients \ {c} : WrittenBy(sent[d].id)' = WrittenBy(sent[d].id)
    BY <2>2, <2>5 DEF WrittenBy
  <2>14. SavedExactlyOnce' /\ NoUnseenOverwrite' /\ ConflictIsTrue'
    BY <2>2, <2>3, <2>5, <2>7, <2>9, <2>10, <2>12, <2>13
       DEF BookmarksInv, BookmarksSafe, SavedExactlyOnce, NoUnseenOverwrite, ConflictIsTrue, RowMatches
  <2>15. RowIsLatest'
    BY <2>2 DEF BookmarksInv, BookmarksSafe, RowIsLatest
  <2>16. NothingIsAhead'
    BY <1>a, <1>b, <2>2, <2>3, <2>5, <2>7 DEF BookmarksInv, NothingIsAhead, Past
  <2> QED
    BY <2>8, <2>11, <2>12, <2>14, <2>15, <2>16 DEF BookmarksInv, BookmarksSafe
<1>3. ASSUME NEW c \in BookmarkClients, ReadBookmark(c) PROVE BookmarksInv'
  <2> DEFINE q == sent'[c]
  <2>1. sent[c] \in Asked /\ Sending(c) /\ sent[c].answer = "none"
    BY <1>3, <1>a, AskedIsSending DEF ReadBookmark, RequestsFit, Sending
  <2>2. CASE RowMatches(c)
    <3>1. sent' = [sent EXCEPT ![c] = [sent[c] EXCEPT !.at = "write", !.snapshot = bookmark.revision]]
      BY <1>3, <2>2 DEF ReadBookmark
    <3>2. [sent[c] EXCEPT !.at = "write", !.snapshot = bookmark.revision] \in Asked
      BY <2>1, <1>a DEF Asked
    <3> QED
      BY <1>3, <1>a, <1>c, <2>1, <3>1, <3>2, SentMoves DEF ReadBookmark, Asked
  <2>3. CASE ~RowMatches(c)
    <3>1. sent' = [sent EXCEPT ![c] = [sent[c] EXCEPT !.at = "answered", !.answer = "conflict",
                                                  !.snapshot = bookmark.revision]]
      BY <1>3, <2>3 DEF ReadBookmark, AnswersBookmark
    <3>2. [sent[c] EXCEPT !.at = "answered", !.answer = "conflict", !.snapshot = bookmark.revision] \in Asked
      BY <2>1, <1>a DEF Asked
    <3> QED
      BY <1>3, <1>a, <1>c, <2>1, <2>3, <3>1, <3>2, SentMoves DEF ReadBookmark, Asked, RowMatches
  <2> QED
    BY <2>2, <2>3
<1>4. ASSUME NEW c \in BookmarkClients, WriteBookmark(c) PROVE BookmarksInv'
  BY <1>4, BookmarkWritten
<1>5. ASSUME NEW c \in BookmarkClients, WriteIsBusy(c) PROVE BookmarksInv'
  <2>1. sent[c] \in Asked /\ Sending(c) /\ sent[c].answer = "none" /\ Past(sent[c].snapshot)
    BY <1>5, <1>a, AskedIsSending DEF WriteIsBusy, RequestsFit, Sending, BookmarksInv,
           NothingIsAhead
  <2>2. sent' = [sent EXCEPT ![c] = [sent[c] EXCEPT !.at = "look"]]
    BY <1>5 DEF WriteIsBusy, GoesOn
  <2>3. [sent[c] EXCEPT !.at = "look"] \in Asked
    BY <2>1 DEF Asked
  <2> QED
    BY <1>5, <1>a, <2>1, <2>2, <2>3, SentMoves DEF WriteIsBusy, Asked
<1>6. ASSUME NEW c \in BookmarkClients, BookmarkFails(c) PROVE BookmarksInv'
  <2>1. sent[c] \in Asked /\ Sending(c) /\ sent[c].answer = "none"
    BY <1>6, <1>a, AskedIsSending DEF BookmarkFails, RequestsFit, Sending
  <2>2. sent' = [sent EXCEPT ![c] = [sent[c] EXCEPT !.at = "answered", !.answer = "error",
                                                  !.snapshot = seen[c]]]
    BY <1>6 DEF BookmarkFails, AnswersBookmark
  <2>3. [sent[c] EXCEPT !.at = "answered", !.answer = "error", !.snapshot = seen[c]] \in Asked
    BY <2>1, <1>a DEF Asked
  <2> QED
    BY <1>6, <1>a, <1>b, <2>1, <2>2, <2>3, SentMoves DEF BookmarkFails, Asked
<1>7. ASSUME NEW c \in BookmarkClients, LookAfterBusy(c) PROVE BookmarksInv'
  <2>1. sent[c] \in Asked /\ Sending(c) /\ sent[c].answer = "none"
    BY <1>7, <1>a, AskedIsSending DEF LookAfterBusy, RequestsFit, Sending
  <2>2. CASE Differs(c)
    <3>1. sent' = [sent EXCEPT ![c] = [sent[c] EXCEPT !.at = "answered", !.answer = "conflict",
                                                  !.snapshot = bookmark.revision]]
      BY <1>7, <2>2 DEF LookAfterBusy, AnswersBookmark
    <3>2. [sent[c] EXCEPT !.at = "answered", !.answer = "conflict", !.snapshot = bookmark.revision] \in Asked
      BY <2>1, <1>a DEF Asked
    <3> QED
      BY <1>7, <1>a, <1>c, <2>1, <2>2, <3>1, <3>2, SentMoves DEF LookAfterBusy, Asked, Differs,
             RowMatches
  <2>3. CASE ~Differs(c) /\ MoreTries(c)
    <3>1. sent' = [sent EXCEPT ![c] = [sent[c] EXCEPT !.at = "read", !.tries = @ + 1, !.snapshot = 0]]
      BY <1>7, <2>3 DEF LookAfterBusy
    <3>2. [sent[c] EXCEPT !.at = "read", !.tries = @ + 1, !.snapshot = 0] \in Asked
      <4>1. sent[c].tries + 1 \in 1..2
        BY <2>1, <2>3 DEF Asked, MoreTries, BookmarkCASMaxAttempts
      <4>2. \A r \in Asked, t \in 1..2 :
              [r EXCEPT !.at = "read", !.tries = t, !.snapshot = 0] \in Asked
        <5>1. 0 \in 0..MaxBookmarkRequests + 1
          BY <1>a
        <5> QED
          BY <5>1 DEF Asked
      <4> QED
        BY <2>1, <4>1, <4>2
    <3> QED
      BY <1>7, <1>a, <1>c, <2>1, <3>1, <3>2, SentMoves DEF LookAfterBusy, Asked
  <2>4. CASE ~Differs(c) /\ ~MoreTries(c)
    <3>1. sent' = [sent EXCEPT ![c] = [sent[c] EXCEPT !.at = "answered", !.answer = "error",
                                                  !.snapshot = seen[c]]]
      BY <1>7, <2>4 DEF LookAfterBusy, AnswersBookmark
    <3>2. [sent[c] EXCEPT !.at = "answered", !.answer = "error", !.snapshot = seen[c]] \in Asked
      BY <2>1, <1>a DEF Asked
    <3> QED
      BY <1>7, <1>a, <1>b, <2>1, <3>1, <3>2, SentMoves DEF LookAfterBusy, Asked
  <2> QED
    BY <2>2, <2>3, <2>4
<1>8. ASSUME NEW c \in BookmarkClients, ReceiveAnswer(c) PROVE BookmarksInv'
  <2>1. /\ sent[c] \in Asked /\ Sending(c) /\ Past(sent[c].snapshot)
        /\ sent[c].snapshot \in 0..MaxBookmarkRequests + 1
    BY <1>8, <1>a, AskedIsSending DEF ReceiveAnswer, Sending, BookmarksInv, NothingIsAhead, Asked
  <2>2. sent' = [sent EXCEPT ![c] = NoSent] /\ UNCHANGED <<bookmark, history, begun>>
    BY <1>8 DEF ReceiveAnswer
  <2>3. seen' \in [BookmarkClients -> 0..MaxBookmarkRequests + 1] /\ \A d \in BookmarkClients : Past(seen'[d])
    BY <1>8, <1>a, <1>b, <2>1 DEF ReceiveAnswer
  <2>4. sent'[c] = NoSent /\ \A d \in BookmarkClients \ {c} : sent'[d] = sent[d]
    BY <1>a, <2>2
  <2>5. sent' \in [BookmarkClients -> {NoSent} \cup Asked] /\ Asked' = Asked
    BY <1>a, <2>2 DEF Asked
  <2>6. ~Sending(c)' /\ \A d \in BookmarkClients \ {c} : Sending(d)' <=> Sending(d)
    BY <2>4 DEF Sending, NoSent
  <2>7. RequestsFit'
    BY <1>a, <2>4, <2>5, <2>6 DEF RequestsFit
  <2>8. BookmarksTypeOK'
    BY <2>2, <2>3, <2>4 DEF BookmarksInv, BookmarksTypeOK
  <2>9. \A d \in BookmarkClients \ {c} : WrittenBy(sent[d].id)' = WrittenBy(sent[d].id)
    BY <2>2, <2>4 DEF WrittenBy
  <2>10. BookmarksSafe' /\ WrittenOnce'
    BY <2>2, <2>4, <2>9
       DEF BookmarksInv, BookmarksSafe, SavedExactlyOnce, NoUnseenOverwrite, ConflictIsTrue, RowMatches,
           RowIsLatest, WrittenOnce
  <2>11. NothingIsAhead'
    BY <2>2, <2>3, <2>4, <2>6 DEF BookmarksInv, NothingIsAhead, Past
  <2> QED
    BY <2>7, <2>8, <2>10, <2>11 DEF BookmarksInv
<1>9. CASE UNCHANGED bookmarkVars
  <2>1. UNCHANGED <<bookmark, history, seen, sent, begun>>
    BY <1>9 DEF bookmarkVars
  <2>2. BookmarksTypeOK' /\ RequestsFit' /\ WrittenOnce' /\ BookmarksSafe'
    <3>1. BookmarksTypeOK' /\ WrittenOnce'
      BY <2>1 DEF BookmarksInv, BookmarksTypeOK, WrittenOnce
    <3>2. RequestsFit'
      BY <2>1 DEF BookmarksInv, RequestsFit, Asked, Sending
    <3>3. BookmarksSafe'
      BY <2>1 DEF BookmarksInv, BookmarksSafe, SavedExactlyOnce, NoUnseenOverwrite, RowIsLatest,
                  ConflictIsTrue, RowMatches, WrittenBy
    <3> QED
      BY <3>1, <3>2, <3>3
  <2>3. NothingIsAhead'
    BY <2>1 DEF BookmarksInv, NothingIsAhead, Past, Sending
  <2> QED
    BY <2>2, <2>3 DEF BookmarksInv
<1> QED
  BY <1>1, <1>2, <1>3, <1>4, <1>5, <1>6, <1>7, <1>8, <1>9 DEF BookmarksNext

\* A change of a bookmark that was confirmed is kept (bookmark_service.go).
THEOREM BookmarksSafeAlways == BookmarksSpec => []BookmarksSafe
<1>1. BookmarksInv => BookmarksSafe
  BY DEF BookmarksInv
<1> QED
  BY BookmarksInitInv, BookmarksStep, <1>1, PTL DEF BookmarksSpec

\* A request that goes on is still open to its client.
LEMMA CallStays ==
  ASSUME NEW c \in BookmarkClients, Sending(c), sent \in [BookmarkClients -> {NoSent} \cup Asked],
         NEW q \in Asked, sent' = [sent EXCEPT ![c] = q], UNCHANGED bookmark,
         q.does = sent[c].does, q.id = sent[c].id, q.revision = sent[c].revision,
         sent[c].answer = "none", q.answer = "none"
  PROVE  UNCHANGED Register!vars
<1>1. CallOf(c)' = CallOf(c)
  BY DEF CallOf, Asked, NoSent, Sending
<1>2. \A d \in BookmarkClients \ {c} : CallOf(d)' = CallOf(d)
  BY DEF CallOf
<1> QED
  BY <1>1, <1>2 DEF Register!vars

\* A request that is answered takes effect, or turns out to have none.
LEMMA CallIsTold ==
  ASSUME NEW c \in BookmarkClients, Sending(c), sent \in [BookmarkClients -> {NoSent} \cup Asked],
         NEW outcome \in {"saved", "conflict", "error"}, NEW shown,
         sent[c].answer = "none", AnswersBookmark(c, outcome, shown)
  PROVE  /\ Register!Open(c) /\ CallOf(c).expects = sent[c].revision
         /\ CallOf(c).does = sent[c].does /\ CallOf(c).id = sent[c].id
         /\ Register!Tell(c, outcome, IF outcome = "error" THEN 0 ELSE shown)
<1> DEFINE shows == IF outcome = "error" THEN 0 ELSE shown
           told == [does |-> CallOf(c).does, expects |-> CallOf(c).expects, id |-> CallOf(c).id,
                    outcome |-> outcome, shows |-> shows]
<1>1. sent[c] # NoSent /\ sent[c] \in Asked
  BY DEF Sending, NoSent
<1>2. CallOf(c) = [does |-> sent[c].does, expects |-> sent[c].revision, id |-> sent[c].id,
                   outcome |-> "open", shows |-> 0]
  BY <1>1 DEF CallOf
<1>3. /\ sent'[c] = [sent[c] EXCEPT !.at = "answered", !.answer = outcome, !.snapshot = shown]
      /\ \A d \in BookmarkClients \ {c} : sent'[d] = sent[d]
  BY DEF AnswersBookmark
<1>4. sent'[c].does = sent[c].does /\ sent'[c] # NoSent
  BY <1>1, <1>3 DEF Asked, NoSent
<1>5. CallOf(c)' = told
  <2> DEFINE answer == [does |-> sent[c].does, expects |-> sent[c].revision, id |-> sent[c].id,
                        outcome |-> outcome, shows |-> shows]
  <2>1. told = answer
    BY <1>2
  <2>2. /\ sent'[c].does = sent[c].does /\ sent'[c].revision = sent[c].revision
        /\ sent'[c].id = sent[c].id /\ sent'[c].answer = outcome /\ sent'[c].snapshot = shown
    BY <1>1, <1>3 DEF Asked
  <2>3. CallOf(c)' = answer
    BY <1>4, <2>2 DEF CallOf
  <2> QED
    BY <2>1, <2>3
<1>6. \A d \in BookmarkClients \ {c} : CallOf(d)' = CallOf(d)
  BY <1>3 DEF CallOf
<1>7. Register!Open(c)
  BY <1>2 DEF Register!Open
<1>8. Register!Tell(c, outcome, IF outcome = "error" THEN 0 ELSE shown)
  <2> DEFINE calls == [d \in BookmarkClients |-> CallOf(d)]
  <2>1. calls[c] = CallOf(c) /\ calls' = [d \in BookmarkClients |-> CallOf(d)']
    OBVIOUS
  <2>2. calls' = [calls EXCEPT ![c] = told]
    <3> HIDE DEF told
    <3> QED
      BY <2>1, <1>5, <1>6
  <2>3. told = [does |-> calls[c].does, expects |-> calls[c].expects, id |-> calls[c].id,
                outcome |-> outcome, shows |-> shows]
    BY <2>1
  <2> QED
    BY <2>2, <2>3 DEF Register!Tell
<1> QED
  BY <1>2, <1>7, <1>8

\* Every step of the service is one of the register or none.
LEMMA RegisterStep ==
  BookmarksInv /\ [BookmarksNext]_bookmarkVars => [Register!Next]_(Register!vars)
<1> SUFFICES ASSUME BookmarksInv, [BookmarksNext]_bookmarkVars
             PROVE  [Register!Next]_(Register!vars)
  OBVIOUS
<1> USE BookmarksAssumption
<1>a. /\ bookmark.revision \in Nat /\ seen \in [BookmarkClients -> Nat] /\ begun \in Nat
      /\ sent \in [BookmarkClients -> {NoSent} \cup Asked] /\ RequestsFit
  BY DEF BookmarksInv, BookmarksTypeOK, RequestsFit
<1>b. \A c \in BookmarkClients : Sending(c) /\ sent[c].at # "answered" =>
        sent[c] \in Asked /\ sent[c].answer = "none"
  BY <1>a, AskedIsSending DEF RequestsFit
<1>1. ASSUME NEW c \in BookmarkClients, ListBookmarks(c) PROVE UNCHANGED Register!vars
  BY <1>1 DEF ListBookmarks, CallOf, Register!vars
<1>2. ASSUME NEW c \in BookmarkClients, SendRequest(c) PROVE Register!Next
  <2>1. PICK does \in {"update", "delete"} : sent' = [sent EXCEPT ![c] = AskedChange(does, seen[c], begun + 1)]
    BY <1>2 DEF SendRequest
  <2>2. sent[c] = NoSent /\ seen[c] > 0 /\ UNCHANGED bookmark
    BY <1>2 DEF SendRequest
  <2>3. sent'[c] = AskedChange(does, seen[c], begun + 1) /\ \A d \in BookmarkClients \ {c} : sent'[d] = sent[d]
    BY <1>a, <2>1
  <2>4. CallOf(c)' = [does |-> does, expects |-> seen[c], id |-> begun + 1, outcome |-> "open", shows |-> 0]
    BY <2>3 DEF CallOf, AskedChange, NoSent
  <2>5. CallOf(c) = [outcome |-> "none"] /\ \A d \in BookmarkClients \ {c} : CallOf(d)' = CallOf(d)
    BY <2>2, <2>3 DEF CallOf
  <2>6. CallOf(c)' \in Register!Called
    BY <1>a, <2>2, <2>4 DEF Register!Called
  <2>7. Register!Call(c)
    <3> DEFINE calls == [d \in BookmarkClients |-> CallOf(d)]
    <3>1. /\ calls[c] = CallOf(c) /\ calls' = [d \in BookmarkClients |-> CallOf(d)']
          /\ calls'[c] = CallOf(c)'
      OBVIOUS
    <3>2. calls' = [calls EXCEPT ![c] = CallOf(c)']
      BY <3>1, <2>5
    <3>3. CallOf(c)'.outcome = "open" /\ CallOf(c)'.shows = 0
      BY <2>4
    <3> QED
      BY <3>1, <3>2, <3>3, <2>2, <2>5, <2>6 DEF Register!Call, Register!NoCall
  <2> QED
    BY <2>7 DEF Register!Next
<1>3. ASSUME NEW c \in BookmarkClients, Sending(c), sent[c].at # "answered",
             AnswersBookmark(c, "conflict", bookmark.revision), ~RowMatches(c), UNCHANGED bookmark
      PROVE  Register!Next
  BY <1>3, <1>a, <1>b, CallIsTold DEF Register!Conflict, Register!Next, RowMatches
<1>4. ASSUME NEW c \in BookmarkClients, Sending(c), sent[c].at # "answered",
             AnswersBookmark(c, "error", seen[c]), UNCHANGED bookmark
      PROVE  Register!Next
  BY <1>4, <1>a, <1>b, CallIsTold DEF Register!Fail, Register!Next
<1>5. ASSUME NEW c \in BookmarkClients, ReadBookmark(c) PROVE [Register!Next]_(Register!vars)
  <2>1. CASE RowMatches(c)
    <3> DEFINE q == [sent[c] EXCEPT !.at = "write", !.snapshot = bookmark.revision]
    <3>1. sent' = [sent EXCEPT ![c] = q] /\ Sending(c) /\ UNCHANGED bookmark /\ sent[c].at = "read"
      BY <1>5, <2>1 DEF ReadBookmark, Sending
    <3>2. q \in Asked /\ q.does = sent[c].does /\ q.id = sent[c].id /\ q.revision = sent[c].revision
          /\ q.answer = "none"
      <4>1. bookmark.revision \in 0..MaxBookmarkRequests + 1 /\ sent[c] \in Asked /\ sent[c].answer = "none"
        BY <1>b, <3>1 DEF BookmarksInv, BookmarksTypeOK
      <4> QED
        BY <4>1 DEF Asked
    <3> HIDE DEF q
    <3> QED
      BY <1>a, <1>b, <3>1, <3>2, CallStays
  <2>2. CASE ~RowMatches(c)
    BY <1>5, <1>3, <2>2 DEF ReadBookmark, Sending
  <2> QED
    BY <2>1, <2>2
<1>6. ASSUME NEW c \in BookmarkClients, WriteBookmark(c) PROVE Register!Next
  <2>1. /\ Sending(c) /\ sent[c].at = "write" /\ bookmark.revision = sent[c].revision
        /\ AnswersBookmark(c, "saved", bookmark'.revision)
    BY <1>6 DEF WriteBookmark, Sending, RowMatches
  <2>2. /\ Register!Open(c) /\ CallOf(c).expects = sent[c].revision
        /\ CallOf(c).does = sent[c].does /\ CallOf(c).id = sent[c].id
        /\ Register!Tell(c, "saved", bookmark'.revision)
    BY <1>a, <1>b, <2>1, CallIsTold
  <2>3. IF sent[c].does = "delete" THEN bookmark'.revision = 0 /\ bookmark'.by = 0
        ELSE bookmark'.revision = bookmark.revision + 1 /\ bookmark'.by = sent[c].id
    BY <1>6 DEF WriteBookmark, DeletedRow, Bumped
  <2>4. Register!Save(c)
    BY <2>1, <2>2, <2>3 DEF Register!Save
  <2> QED
    BY <2>2, <2>4 DEF Register!Next
<1>7. ASSUME NEW c \in BookmarkClients, WriteIsBusy(c) PROVE UNCHANGED Register!vars
  <2> DEFINE q == [sent[c] EXCEPT !.at = "look"]
  <2>1. sent' = [sent EXCEPT ![c] = q] /\ Sending(c) /\ UNCHANGED bookmark /\ sent[c].at = "write"
    BY <1>7 DEF WriteIsBusy, GoesOn, Sending
  <2>2. q \in Asked /\ q.does = sent[c].does /\ q.id = sent[c].id /\ q.revision = sent[c].revision
        /\ q.answer = "none"
    BY <1>b, <2>1 DEF Asked
  <2> HIDE DEF q
  <2> QED
    BY <1>a, <1>b, <2>1, <2>2, CallStays
<1>8. ASSUME NEW c \in BookmarkClients, BookmarkFails(c) PROVE Register!Next
  BY <1>8, <1>4 DEF BookmarkFails, Sending
<1>9. ASSUME NEW c \in BookmarkClients, LookAfterBusy(c) PROVE [Register!Next]_(Register!vars)
  <2>1. Sending(c) /\ sent[c].at = "look" /\ UNCHANGED bookmark
    BY <1>9 DEF LookAfterBusy, Sending
  <2>2. CASE ~RowMatches(c)
    BY <1>9, <1>3, <2>1, <2>2 DEF LookAfterBusy, Differs
  <2>3. CASE RowMatches(c) /\ MoreTries(c)
    <3> DEFINE q == [sent[c] EXCEPT !.at = "read", !.tries = @ + 1, !.snapshot = 0]
    <3>1. sent' = [sent EXCEPT ![c] = q]
      BY <1>9, <2>3 DEF LookAfterBusy, Differs
    <3>2. q \in Asked /\ q.does = sent[c].does /\ q.id = sent[c].id /\ q.revision = sent[c].revision
          /\ q.answer = "none"
      <4>1. sent[c] \in Asked /\ sent[c].answer = "none" /\ sent[c].tries < 2
        BY <1>b, <2>1, <2>3 DEF MoreTries, BookmarkCASMaxAttempts
      <4>2. sent[c].tries + 1 \in 1..2
        BY <4>1 DEF Asked
      <4>3. \A r \in Asked, t \in 1..2 :
              [r EXCEPT !.at = "read", !.tries = t, !.snapshot = 0] \in Asked
        <5>1. 0 \in 0..MaxBookmarkRequests + 1
          OBVIOUS
        <5> QED
          BY <5>1 DEF Asked
      <4>4. q \in Asked
        BY <4>1, <4>2, <4>3
      <4> QED
        BY <4>1, <4>4 DEF Asked
    <3> HIDE DEF q
    <3> QED
      BY <1>a, <1>b, <2>1, <3>1, <3>2, CallStays
  <2>4. CASE RowMatches(c) /\ ~MoreTries(c)
    BY <1>9, <1>4, <2>1, <2>4 DEF LookAfterBusy, Differs
  <2> QED
    BY <2>2, <2>3, <2>4
<1>10. ASSUME NEW c \in BookmarkClients, ReceiveAnswer(c) PROVE [Register!Next]_(Register!vars)
  <2>1. /\ Sending(c) /\ sent[c].at = "answered" /\ UNCHANGED bookmark
        /\ sent'[c] = NoSent /\ \A d \in BookmarkClients \ {c} : sent'[d] = sent[d]
    BY <1>10, <1>a DEF ReceiveAnswer, Sending
  <2>2. CallOf(c)' = [outcome |-> "none"] /\ \A d \in BookmarkClients \ {c} : CallOf(d)' = CallOf(d)
    BY <2>1 DEF CallOf
  <2>3. CallOf(c).outcome \in {"saved", "conflict", "error"}
    <3>1. sent[c] \in Asked /\ sent[c] # NoSent /\ sent[c].answer # "none"
      BY <1>a, <2>1, AskedIsSending DEF RequestsFit
    <3> QED
      BY <3>1 DEF CallOf, Asked
  <2>4. Register!Return(c)
    <3> DEFINE calls == [d \in BookmarkClients |-> CallOf(d)]
    <3>1. calls[c] = CallOf(c) /\ calls' = [d \in BookmarkClients |-> CallOf(d)']
      OBVIOUS
    <3>2. calls' = [calls EXCEPT ![c] = [outcome |-> "none"]]
      BY <3>1, <2>2
    <3> QED
      BY <3>1, <3>2, <2>1, <2>3 DEF Register!Return, Register!NoCall
  <2> QED
    BY <2>4 DEF Register!Next
<1>11. CASE UNCHANGED bookmarkVars
  BY <1>11 DEF bookmarkVars, CallOf, Register!vars
<1> QED
  BY <1>1, <1>2, <1>5, <1>6, <1>7, <1>8, <1>9, <1>10, <1>11 DEF BookmarksNext

\* A bookmark that was created is the register at first.
LEMMA RegisterInit == BookmarksInit => Register!Init
  BY DEF BookmarksInit, Register!Init, Register!NoCall, CallOf

\* Requests on a bookmark are linearizable: whatever is busy and tried again, each of
\* them is one comparison and change of the row, and is told what happened then.
THEOREM BookmarksAreRegisters == BookmarksSpec => BookmarkIsRegister
  BY BookmarksInitInv, BookmarksStep, RegisterInit, RegisterStep, PTL
  DEF BookmarksSpec, BookmarkIsRegister, Register!Spec

-----------------------------------------------------------------------------
(***************************************************************************)
(* Tags written back into an image (metadata_writeback.go). The content    *)
(* the user owns is in place or in a snapshot; an execution touches the    *)
(* file only once a snapshot holds what it checked the file for.           *)
(***************************************************************************)

\* Contents the file has had, or none.
Made == 0 .. writtenTags \cup {GoneContent}

\* A content some snapshot holds.
Snapshot(content) == \E t \in Seconds : snapshots[t] = content

\* A request whose snapshot was taken.
Snapped(w) == confirm[w].at \notin {"none", "hashed", "refused"}

\* Only what was made is found anywhere.
ContentsWereMade ==
  /\ owned \in 0 .. writtenTags /\ image \in Made /\ temporary \in Made /\ backup \in Made
  /\ \A t \in Seconds : snapshots[t] \in Made
  /\ \A w \in Writebacks : confirm[w].hash \in Made /\ confirm[w].second <= second

\* The user's content is there.
KeptInPlace == outsideWrites \/ Snapshot(owned) \/ owned = image

\* A request that hashed it has put it into a snapshot.
HashedIsSnapped ==
  \A w \in Writebacks : Snapped(w) /\ confirm[w].hash = owned => outsideWrites \/ Snapshot(owned)

\* An execution touches the file only once a snapshot holds what it found.
IsCovered(r) ==
  /\ r.at = "idle" => r = NoSwapper
  /\ r.at # "idle" => r.of \in Writebacks /\ Snapped(r.of)
  /\ r.at \notin {"idle", "hash", "succeed", "fail"} => outsideWrites \/ Snapshot(owned)
  /\ r.at \notin {"idle", "hash", "fail"} => r.found = confirm[r.of].hash

SwappersAreCovered == \A e \in Swappers : IsCovered(swapper[e])

\* A snapshot is of what was hashed, and none goes within its second; what a
\* success moved away is what was hashed, unless it was overtaken.
SnapshotsAreOfHashes ==
  \A w \in Writebacks :
    /\ Snapped(w) => \/ snapshots[confirm[w].second] \in {confirm[w].hash, GoneContent}
                     \/ confirm[w].second \in rewritten
    /\ Snapped(w) /\ confirm[w].second = second =>
         snapshots[second] # GoneContent \/ second \in rewritten
    /\ replaced[w] # {} => Snapped(w)
    /\ w \in overtaken \/ replaced[w] \subseteq {confirm[w].hash}

\* The inductive invariant of the writeback.
WritebackInv ==
  /\ WritebackTypeOK /\ ContentsWereMade /\ KeptInPlace /\ HashedIsSnapped /\ SwappersAreCovered
  /\ SnapshotsAreOfHashes

\* What the run checks follows from it.
LEMMA WritebackHolds == WritebackInv => ContentIsKept /\ RollbackRestores
<1> SUFFICES ASSUME WritebackInv PROVE ContentIsKept /\ RollbackRestores
  OBVIOUS
<1>1. ContentIsKept
  BY DEF WritebackInv, KeptInPlace, ContentIsKept, Snapshot
<1>2. ASSUME NEW w \in Writebacks, w \notin overtaken, confirm[w].second \notin rewritten,
             snapshots[confirm[w].second] # GoneContent, replaced[w] # {}
      PROVE  replaced[w] \subseteq {snapshots[confirm[w].second]}
  <2>1. Snapped(w) /\ replaced[w] \subseteq {confirm[w].hash}
    BY <1>2 DEF WritebackInv, SnapshotsAreOfHashes
  <2>2. snapshots[confirm[w].second] = confirm[w].hash
    BY <1>2, <2>1 DEF WritebackInv, SnapshotsAreOfHashes
  <2> QED
    BY <2>1, <2>2
<1> QED
  BY <1>1, <1>2 DEF RollbackRestores

\* It holds at first.
LEMMA WritebackInitInv == WritebackInit /\ mishaps = 0 => WritebackInv
<1> SUFFICES ASSUME WritebackInit, mishaps = 0 PROVE WritebackInv
  OBVIOUS
<1> USE WritebackAssumption, FaultsAssumption
    DEF WritebackInit, NoConfirm, NoSwapper, GoneContent, Contents, Seconds, Made
<1>1. WritebackTypeOK
  <2>a. {image, temporary, backup} \subseteq Contents /\ owned \in 0 .. MaxContents
    OBVIOUS
  <2>b. writtenTags \in 0 .. MaxContents /\ second \in Seconds
    OBVIOUS
  <2>c. snapshots \in [Seconds -> Contents]
    OBVIOUS
  <2>d. confirm \in [Writebacks -> ConfirmRecords]
    BY DEF ConfirmRecords
  <2>e. swapper \in [Swappers -> SwapperRecords]
    BY DEF SwapperRecords
  <2>f. outsideWrites \in BOOLEAN /\ rewritten \subseteq Seconds /\ mishaps \in 0 .. MaxMishaps
    <3>1. mishaps = 0 /\ MaxMishaps \in Nat
      OBVIOUS
    <3>2. mishaps \in 0 .. MaxMishaps
      BY ONLY <3>1
    <3>3. outsideWrites = FALSE /\ rewritten = {}
      OBVIOUS
    <3> QED
      BY ONLY <3>2, <3>3
  <2>g. replaced \in [Writebacks -> SUBSET Contents] /\ overtaken \subseteq Writebacks
    OBVIOUS
  <2> QED
    BY <2>a, <2>b, <2>c, <2>d, <2>e, <2>f, <2>g DEF WritebackTypeOK
<1>2. ContentsWereMade
  BY DEF ContentsWereMade
<1>3. KeptInPlace /\ HashedIsSnapped /\ SwappersAreCovered /\ SnapshotsAreOfHashes
  BY DEF KeptInPlace, HashedIsSnapped, SwappersAreCovered, IsCovered, SnapshotsAreOfHashes, Snapped
<1> QED
  BY <1>1, <1>2, <1>3 DEF WritebackInv

\* The budget of mishaps stays within its bound.
LEMMA WritebackBudget ==
  ASSUME WritebackTypeOK, Smooth \/ Mishap
  PROVE  mishaps' \in 0 .. MaxMishaps
  BY FaultsAssumption DEF WritebackTypeOK, Smooth, Mishap

\* A step of an execution that leaves the requests, the snapshots and the
\* history alone keeps the invariant if its record stays covered.
LEMMA SwapperStepKeeps ==
  ASSUME WritebackInv, NEW e \in Swappers, NEW r \in SwapperRecords,
         swapper' = [swapper EXCEPT ![e] = r],
         SwapperOnly, IsCovered(r), Smooth \/ Mishap,
         writtenTags' \in 0 .. MaxContents, writtenTags <= writtenTags',
         image' \in Made', temporary' \in Made', backup' \in Made',
         image' = image \/ Swapping(e)
  PROVE  WritebackInv'
<1> USE WritebackAssumption DEF SwapperOnly, givenUpVars
<1>0. Made \subseteq Made' /\ Made' \subseteq Contents /\ 0 .. writtenTags \subseteq 0 .. writtenTags'
  BY DEF Made, Contents, GoneContent, WritebackInv, WritebackTypeOK
<1>1. WritebackTypeOK'
  <2>1. mishaps' \in 0 .. MaxMishaps
    BY WritebackBudget DEF WritebackInv
  <2>2. swapper' \in [Swappers -> SwapperRecords]
    BY DEF WritebackInv, WritebackTypeOK
  <2>3. {image', temporary', backup'} \subseteq Contents
    BY <1>0
  <2> QED
    BY <2>1, <2>2, <2>3 DEF WritebackInv, WritebackTypeOK
<1>2. ContentsWereMade'
  <2>1. owned' \in 0 .. writtenTags' /\ \A t \in Seconds : snapshots'[t] \in Made'
    BY <1>0 DEF WritebackInv, ContentsWereMade
  <2>2. \A w \in Writebacks : confirm'[w].hash \in Made' /\ confirm'[w].second <= second'
    BY <1>0 DEF WritebackInv, ContentsWereMade
  <2> QED
    BY <2>1, <2>2 DEF ContentsWereMade
<1>3. KeptInPlace'
  BY DEF WritebackInv, KeptInPlace, SwappersAreCovered, IsCovered, Swapping, Snapshot
<1>4. HashedIsSnapped' /\ SnapshotsAreOfHashes'
  BY DEF WritebackInv, HashedIsSnapped, SnapshotsAreOfHashes, Snapped, Snapshot
<1>5. SwappersAreCovered'
  <2>1. ASSUME NEW d \in Swappers PROVE IsCovered(swapper[d])' = IsCovered(swapper'[d])
    BY DEF IsCovered, Snapped, Snapshot
  <2>2. ASSUME NEW d \in Swappers PROVE IsCovered(swapper'[d])
    BY DEF WritebackInv, WritebackTypeOK, SwappersAreCovered
  <2> QED
    BY <2>1, <2>2 DEF SwappersAreCovered
<1> QED
  BY <1>1, <1>2, <1>3, <1>4, <1>5 DEF WritebackInv

\* So does a step that only moves it on, from where it has checked the file.
LEMMA SwapToKeeps ==
  ASSUME WritebackInv, NEW e \in Swappers,
         NEW at \in {"tool", "unlink", "backup", "replace", "discard", "succeed", "back", "sweep",
                     "settle", "copy", "fail"},
         SwapTo(e, at), swapper[e].at # "idle", at # "fail" => Swapping(e),
         SwapperOnly, Smooth \/ Mishap,
         writtenTags' \in 0 .. MaxContents, writtenTags <= writtenTags',
         image' \in Made', temporary' \in Made', backup' \in Made',
         image' = image \/ Swapping(e)
  PROVE  WritebackInv'
<1> DEFINE r == [of |-> swapper[e].of, at |-> at, found |-> swapper[e].found,
                 moved |-> swapper[e].moved]
<1>1. swapper[e] \in SwapperRecords
  BY DEF WritebackInv, WritebackTypeOK
<1>2. r \in SwapperRecords
  BY <1>1 DEF SwapperRecords
<1>3. IsCovered(swapper[e])
  BY DEF WritebackInv, SwappersAreCovered
<1>4. IsCovered(r)
  BY <1>3 DEF IsCovered, Swapping
<1>5. swapper' = [swapper EXCEPT ![e] = r]
  BY DEF SwapTo
<1> HIDE DEF r
<1> QED
  BY <1>2, <1>4, <1>5, SwapperStepKeeps

\* A new content is one nobody has.
LEMMA NewContentIsMade ==
  ASSUME WritebackInv, MakesContent
  PROVE  /\ writtenTags' \in 0 .. MaxContents /\ writtenTags <= writtenTags'
         /\ NewContent \in 0 .. writtenTags' /\ NewContent \in Made' /\ Made \subseteq Made'
         /\ NewContent \notin Made
  BY WritebackAssumption
  DEF WritebackInv, WritebackTypeOK, MakesContent, NewContent, Made, GoneContent

\* Every step of an execution keeps the invariant.
LEMMA SwapperStepHolds ==
  ASSUME WritebackInv, NEW e \in Swappers, SwapperStep(e)
  PROVE  WritebackInv'
<1>a. /\ image \in Made /\ temporary \in Made /\ backup \in Made /\ GoneContent \in Made
      /\ writtenTags \in 0 .. MaxContents /\ writtenTags <= writtenTags
      /\ \A t \in Seconds : snapshots[t] \in Made
  BY WritebackAssumption DEF WritebackInv, WritebackTypeOK, ContentsWereMade, Made
<1>b. writtenTags' = writtenTags =>
        /\ Made' = Made /\ writtenTags' \in 0 .. MaxContents /\ writtenTags <= writtenTags'
  BY <1>a DEF Made, GoneContent
<1>c. /\ swapper[e] \in SwapperRecords /\ IsCovered(swapper[e])
      /\ swapper \in [Swappers -> SwapperRecords] /\ confirm \in [Writebacks -> ConfirmRecords]
      /\ image \in Contents /\ GoneContent \in Contents
  BY WritebackAssumption
  DEF WritebackInv, WritebackTypeOK, SwappersAreCovered, Contents, GoneContent
<1>1. ASSUME NEW w \in Writebacks, TakeWriteback(e, w) PROVE WritebackInv'
  <2> DEFINE r == [of |-> w, at |-> "hash", found |-> GoneContent, moved |-> GoneContent]
             c == [at |-> "running", hash |-> confirm[w].hash, second |-> confirm[w].second]
  <2>1. /\ confirm' = [confirm EXCEPT ![w] = c] /\ swapper' = [swapper EXCEPT ![e] = r]
        /\ UNCHANGED <<contentVars, second, replaced, givenUpVars>> /\ Smooth
        /\ confirm[w].at = "pending"
    BY <1>1 DEF TakeWriteback, TaskBecomes
  <2>2. r \in SwapperRecords /\ c \in ConfirmRecords
    BY <1>c DEF SwapperRecords, ConfirmRecords
  <2>3. /\ \A v \in Writebacks : /\ confirm'[v].hash = confirm[v].hash
                                 /\ confirm'[v].second = confirm[v].second
                                 /\ (Snapped(v) <=> Snapped(v)')
        /\ Snapped(w)
    BY <2>1, <1>c DEF Snapped
  <2>4. r.at = "hash" /\ r.of = w
    OBVIOUS
  <2> HIDE DEF r, c
  <2>5. WritebackTypeOK'
    <3>1. mishaps' \in 0 .. MaxMishaps
      BY <2>1, WritebackBudget DEF WritebackInv
    <3>2. swapper' \in [Swappers -> SwapperRecords] /\ confirm' \in [Writebacks -> ConfirmRecords]
      BY <1>c, <2>1, <2>2
    <3> QED
      BY <2>1, <3>1, <3>2 DEF WritebackInv, WritebackTypeOK, contentVars, givenUpVars
  <2>6. ContentsWereMade'
    BY <2>1, <2>3 DEF WritebackInv, ContentsWereMade, contentVars, givenUpVars, Made
  <2>7. KeptInPlace' /\ HashedIsSnapped'
    BY <2>1, <2>3
    DEF WritebackInv, KeptInPlace, HashedIsSnapped, Snapshot, contentVars, givenUpVars
  <2>8. SnapshotsAreOfHashes'
    BY <2>1, <2>3 DEF WritebackInv, SnapshotsAreOfHashes, contentVars, givenUpVars
  <2>9. SwappersAreCovered'
    <3>1. ASSUME NEW d \in Swappers, d # e PROVE IsCovered(swapper[d])'
      <4>1. swapper'[d] = swapper[d] /\ IsCovered(swapper[d])
        BY <2>1, <3>1, <1>c DEF WritebackInv, SwappersAreCovered
      <4> QED
        BY <4>1, <2>1, <2>3 DEF IsCovered, Snapshot, contentVars, givenUpVars
    <3>2. IsCovered(swapper[e])'
      <4>1. swapper'[e] = r
        BY <2>1, <1>c
      <4> QED
        BY <4>1, <2>3, <2>4 DEF IsCovered
    <3> QED
      BY <3>1, <3>2 DEF SwappersAreCovered
  <2> QED
    BY <2>5, <2>6, <2>7, <2>8, <2>9 DEF WritebackInv
<1>2. ASSUME VerifyOriginal(e) PROVE WritebackInv'
  <2>0. /\ swapper[e].at = "hash" /\ UNCHANGED <<image, temporary, backup, writtenTags>>
        /\ SwapperOnly /\ Smooth
    BY <1>2 DEF VerifyOriginal
  <2>1. CASE SwapTo(e, "fail")
    BY <2>0, <2>1, <1>a, <1>b, SwapToKeeps
  <2>2. CASE /\ SameAsSnapshot(swapper[e].of)
             /\ swapper' = [swapper EXCEPT ![e] =
                  [of |-> swapper[e].of, at |-> "clear", found |-> image, moved |-> GoneContent]]
    <3> DEFINE r == [of |-> swapper[e].of, at |-> "clear", found |-> image,
                     moved |-> GoneContent]
    <3>1. r \in SwapperRecords
      BY <1>c DEF SwapperRecords
    <3>2. /\ swapper[e].of \in Writebacks /\ Snapped(swapper[e].of)
          /\ image = confirm[swapper[e].of].hash
      BY <2>0, <2>2, <1>c DEF IsCovered, SameAsSnapshot
    <3>3. outsideWrites \/ Snapshot(owned)
      BY <3>2 DEF WritebackInv, KeptInPlace, HashedIsSnapped
    <3>4. IsCovered(r)
      BY <3>2, <3>3 DEF IsCovered
    <3>5. swapper' = [swapper EXCEPT ![e] = r]
      BY <2>2
    <3> HIDE DEF r
    <3> QED
      BY <2>0, <3>1, <3>4, <3>5, <1>a, <1>b, SwapperStepKeeps
  <2> QED
    BY <1>2, <2>1, <2>2 DEF VerifyOriginal
<1>3. ASSUME ClearTemporary(e) PROVE WritebackInv'
  BY <1>3, <1>a, <1>b, SwapToKeeps DEF ClearTemporary, Swapping
<1>4. ASSUME RunMagick(e) PROVE WritebackInv'
  <2>1. CASE MakesContent /\ temporary' = NewContent /\ SwapTo(e, "unlink")
    BY <1>4, <2>1, <1>a, NewContentIsMade, SwapToKeeps DEF RunMagick, Swapping, MishapIf
  <2>2. CASE SwapTo(e, "sweep") /\ UNCHANGED <<temporary, writtenTags>>
    BY <1>4, <2>2, <1>a, <1>b, SwapToKeeps DEF RunMagick, Swapping, MishapIf
  <2> QED
    BY <1>4, <2>1, <2>2 DEF RunMagick
<1>5. ASSUME ClearBackup(e) PROVE WritebackInv'
  BY <1>5, <1>a, <1>b, SwapToKeeps DEF ClearBackup, Swapping
<1>6. ASSUME RenameToBackup(e) PROVE WritebackInv'
  <2>0. swapper[e].at = "backup" /\ UNCHANGED <<temporary, writtenTags>> /\ SwapperOnly
    BY <1>6 DEF RenameToBackup
  <2>1. CASE /\ backup' = image /\ image' = GoneContent /\ Smooth
             /\ swapper' = [swapper EXCEPT ![e] =
                  [of |-> swapper[e].of, at |-> "replace", found |-> swapper[e].found,
                   moved |-> image]]
    <3> DEFINE r == [of |-> swapper[e].of, at |-> "replace", found |-> swapper[e].found,
                     moved |-> image]
    <3>1. r \in SwapperRecords
      BY <1>c DEF SwapperRecords
    <3>2. IsCovered(r)
      BY <2>0, <1>c DEF IsCovered
    <3>3. swapper' = [swapper EXCEPT ![e] = r]
      BY <2>1
    <3>4. Swapping(e)
      BY <2>0 DEF Swapping
    <3> HIDE DEF r
    <3> QED
      BY <2>0, <2>1, <3>1, <3>2, <3>3, <3>4, <1>a, <1>b, SwapperStepKeeps
  <2>2. CASE SwapTo(e, "sweep") /\ UNCHANGED <<image, backup>> /\ (Smooth \/ Mishap)
    BY <2>0, <2>2, <1>a, <1>b, SwapToKeeps DEF Swapping
  <2> QED
    BY <1>6, <2>1, <2>2 DEF RenameToBackup, MishapIf
<1>7. ASSUME RenameIntoPlace(e) PROVE WritebackInv'
  BY <1>7, <1>a, <1>b, SwapToKeeps DEF RenameIntoPlace, Swapping, MishapIf
<1>8. ASSUME DiscardBackup(e) PROVE WritebackInv'
  BY <1>8, <1>a, <1>b, SwapToKeeps DEF DiscardBackup, Swapping
<1>9. ASSUME MoveBack(e) PROVE WritebackInv'
  BY <1>9, <1>a, <1>b, SwapToKeeps DEF MoveBack, Swapping, MishapIf
<1>10. ASSUME SweepTemporary(e) PROVE WritebackInv'
  BY <1>10, <1>a, <1>b, SwapToKeeps DEF SweepTemporary, Swapping
<1>11. ASSUME SettleFailure(e) PROVE WritebackInv'
  BY <1>11, <1>a, <1>b, SwapToKeeps DEF SettleFailure, Swapping
<1>12. ASSUME RestoreOriginal(e) PROVE WritebackInv'
  <2>0. /\ swapper[e].at = "copy" /\ SwapTo(e, "fail") /\ UNCHANGED <<temporary, backup>>
        /\ SwapperOnly /\ Swapping(e)
    BY <1>12 DEF RestoreOriginal, Swapping
  <2>1. PICK t \in Seconds : CopyFromSnapshot(t)
    BY <1>12, <1>c DEF RestoreOriginal, IsCovered, ConfirmRecords
  <2>2. CASE /\ image' \in {image, snapshots[t], GoneContent} /\ writtenTags' = writtenTags
             /\ (Smooth \/ Mishap)
    BY <2>0, <2>2, <1>a, <1>b, SwapToKeeps
  <2>3. CASE MakesContent /\ image' = NewContent /\ Mishap
    BY <2>0, <2>3, <1>a, NewContentIsMade, SwapToKeeps
  <2> QED
    BY <2>1, <2>2, <2>3 DEF CopyFromSnapshot
<1>13. ASSUME EndWriteback(e) PROVE WritebackInv'
  <2>1. PICK w \in Writebacks : w = swapper[e].of /\ Snapped(w)
    BY <1>13, <1>c DEF EndWriteback, IsCovered
  <2>2. /\ UNCHANGED <<contentVars, second, owned, outsideWrites, rewritten>> /\ Smooth
        /\ swapper' = [swapper EXCEPT ![e] = NoSwapper]
    BY <1>13 DEF EndWriteback
  <2>3. PICK c \in ConfirmRecords :
          /\ confirm' = [confirm EXCEPT ![w] = c] /\ c.hash = confirm[w].hash
          /\ c.second = confirm[w].second /\ c.at \notin {"none", "hashed", "refused"}
    <3>1. CASE UNCHANGED confirm
      <4>1. confirm' = [confirm EXCEPT ![w] = confirm[w]] /\ confirm[w] \in ConfirmRecords
        BY <3>1, <1>c
      <4> QED
        BY <4>1, <2>1 DEF Snapped
    <3>2. ASSUME NEW at \in {"succeeded", "failed"}, TaskBecomes(w, at)
          PROVE  \E c \in ConfirmRecords :
                   /\ confirm' = [confirm EXCEPT ![w] = c] /\ c.hash = confirm[w].hash
                   /\ c.second = confirm[w].second /\ c.at \notin {"none", "hashed", "refused"}
      <4> DEFINE c == [at |-> at, hash |-> confirm[w].hash, second |-> confirm[w].second]
      <4>1. c \in ConfirmRecords
        BY <1>c DEF ConfirmRecords
      <4>2. confirm' = [confirm EXCEPT ![w] = c]
        BY <3>2 DEF TaskBecomes
      <4> QED
        BY <4>1, <4>2
    <3> QED
      BY <1>13, <2>1, <3>1, <3>2 DEF EndWriteback
  <2>4. /\ \A v \in Writebacks : /\ confirm'[v].hash = confirm[v].hash
                                 /\ confirm'[v].second = confirm[v].second
                                 /\ (Snapped(v) <=> Snapped(v)')
    BY <2>1, <2>3, <1>c DEF Snapped
  <2>5. PICK x \in Contents :
          \/ UNCHANGED <<replaced, overtaken>>
          \/ /\ replaced' = [replaced EXCEPT ![w] = replaced[w] \cup {x}]
             /\ \/ x = confirm[w].hash /\ overtaken' = overtaken
                \/ overtaken' = overtaken \cup {w}
    <3>1. swapper[e].moved \in Contents
      BY <1>c DEF SwapperRecords
    <3>2. swapper[e].at = "succeed" => swapper[e].found = confirm[w].hash
      BY <1>c, <2>1 DEF IsCovered
    <3>3. replaced[w] = replaced[w]
      OBVIOUS
    <3> QED
      BY <1>13, <2>1, <3>1, <3>2 DEF EndWriteback
  <2>6. \A v \in Writebacks \ {w} : replaced'[v] = replaced[v] /\ (v \in overtaken' <=> v \in overtaken)
    BY <2>5 DEF WritebackInv, WritebackTypeOK
  <2>7. /\ replaced' \in [Writebacks -> SUBSET Contents] /\ overtaken' \subseteq Writebacks
        /\ w \in overtaken' \/ replaced'[w] \subseteq {confirm[w].hash}
    BY <2>5 DEF WritebackInv, WritebackTypeOK, SnapshotsAreOfHashes
  <2>8. WritebackTypeOK'
    <3>1. mishaps' \in 0 .. MaxMishaps
      BY <2>2, WritebackBudget DEF WritebackInv
    <3>2. NoSwapper \in SwapperRecords
      BY <1>c DEF NoSwapper, SwapperRecords
    <3>3. swapper' \in [Swappers -> SwapperRecords] /\ confirm' \in [Writebacks -> ConfirmRecords]
      BY <1>c, <2>2, <2>3, <3>2
    <3> QED
      BY <2>2, <2>7, <3>1, <3>3 DEF WritebackInv, WritebackTypeOK, contentVars
  <2>9. ContentsWereMade' /\ KeptInPlace' /\ HashedIsSnapped'
    <3>1. ContentsWereMade'
      BY <2>2, <2>4 DEF WritebackInv, ContentsWereMade, contentVars, Made
    <3>2. KeptInPlace' /\ HashedIsSnapped'
      BY <2>2, <2>4 DEF WritebackInv, KeptInPlace, HashedIsSnapped, Snapshot, contentVars
    <3> QED
      BY <3>1, <3>2
  <2>10. SnapshotsAreOfHashes'
    <3>1. \A v \in Writebacks :
            /\ replaced'[v] # {} => Snapped(v)
            /\ v \in overtaken' \/ replaced'[v] \subseteq {confirm[v].hash}
      BY <2>1, <2>6, <2>7 DEF WritebackInv, SnapshotsAreOfHashes
    <3> QED
      BY <2>2, <2>4, <3>1 DEF WritebackInv, SnapshotsAreOfHashes, contentVars
  <2>11. SwappersAreCovered'
    <3>1. ASSUME NEW d \in Swappers, d # e PROVE IsCovered(swapper[d])'
      <4>1. swapper'[d] = swapper[d] /\ IsCovered(swapper[d])
        BY <2>2, <3>1, <1>c DEF WritebackInv, SwappersAreCovered
      <4> QED
        BY <4>1, <2>2, <2>4 DEF IsCovered, Snapshot, contentVars
    <3>2. IsCovered(swapper[e])'
      <4>1. swapper'[e] = NoSwapper
        BY <2>2, <1>c
      <4> QED
        BY <4>1 DEF IsCovered, NoSwapper
    <3> QED
      BY <3>1, <3>2 DEF SwappersAreCovered
  <2> QED
    BY <2>8, <2>9, <2>10, <2>11 DEF WritebackInv
<1> QED
  BY <1>1, <1>2, <1>3, <1>4, <1>5, <1>6, <1>7, <1>8, <1>9, <1>10, <1>11, <1>12, <1>13 DEF SwapperStep

\* A step that moves one request on, of a snapshot already taken or without one.
LEMMA RequestStepKeeps ==
  ASSUME WritebackInv, NEW w \in Writebacks, NEW c \in ConfirmRecords,
         confirm' = [confirm EXCEPT ![w] = c],
         UNCHANGED <<contentVars, second, swapper, replaced, givenUpVars>>, Smooth \/ Mishap,
         \/ /\ Snapped(w) /\ c.at \notin {"none", "hashed", "refused"}
            /\ c.hash = confirm[w].hash /\ c.second = confirm[w].second
         \/ ~Snapped(w) /\ c.at = "hashed" /\ c.hash = image /\ c.second = 0
  PROVE  WritebackInv'
<1> USE DEF contentVars, givenUpVars
<1>1. confirm \in [Writebacks -> ConfirmRecords] /\ second \in Nat
  BY DEF WritebackInv, WritebackTypeOK, Seconds
<1>2. WritebackTypeOK'
  <2>1. mishaps' \in 0 .. MaxMishaps
    BY WritebackBudget DEF WritebackInv
  <2>2. confirm' \in [Writebacks -> ConfirmRecords]
    BY <1>1
  <2> QED
    BY <2>1, <2>2 DEF WritebackInv, WritebackTypeOK
<1>3. \A v \in Writebacks : /\ Snapped(v)' <=> Snapped(v)
                            /\ Snapped(v) => /\ confirm'[v].hash = confirm[v].hash
                                             /\ confirm'[v].second = confirm[v].second
  BY <1>1 DEF Snapped
<1>4. ContentsWereMade'
  <2>1. ASSUME NEW v \in Writebacks PROVE confirm'[v].hash \in Made /\ confirm'[v].second <= second
    BY <1>1 DEF WritebackInv, ContentsWereMade
  <2> QED
    BY <2>1 DEF WritebackInv, ContentsWereMade, Made
<1>5. KeptInPlace' /\ HashedIsSnapped'
  BY <1>3 DEF WritebackInv, KeptInPlace, HashedIsSnapped, Snapshot
<1>6. SnapshotsAreOfHashes'
  <2>1. ASSUME NEW v \in Writebacks PROVE v \in overtaken \/ replaced[v] \subseteq {confirm'[v].hash}
    BY <1>3 DEF WritebackInv, SnapshotsAreOfHashes
  <2> QED
    BY <1>3, <2>1 DEF WritebackInv, SnapshotsAreOfHashes
<1>7. SwappersAreCovered'
  <2>1. ASSUME NEW d \in Swappers PROVE IsCovered(swapper[d])'
    <3>1. swapper'[d] = swapper[d] /\ IsCovered(swapper[d])
      BY DEF WritebackInv, SwappersAreCovered
    <3> QED
      BY <3>1, <1>3 DEF IsCovered, Snapshot
  <2> QED
    BY <2>1 DEF SwappersAreCovered
<1> QED
  BY <1>2, <1>4, <1>5, <1>6, <1>7 DEF WritebackInv

\* A request that writes a snapshot, whole or not.
LEMMA SnapshotStepKeeps ==
  ASSUME WritebackInv, NEW w \in Writebacks, NEW at \in {"pending", "reused", "refused"},
         WritesSnapshot(w, at), NEW content \in Made',
         snapshots' = [snapshots EXCEPT ![second] = content], Smooth \/ Mishap,
         writtenTags' \in 0 .. MaxContents, writtenTags <= writtenTags',
         \/ rewritten' = rewritten \cup {second}
         \/ /\ rewritten' = rewritten /\ snapshots[second] = GoneContent
            /\ content = confirm[w].hash,
         \/ at = "refused" \/ content = image
         \/ image # confirm[w].hash /\ content # GoneContent
  PROVE  WritebackInv'
<1> DEFINE c == [at |-> at, hash |-> confirm[w].hash, second |-> second]
<1>0. Made \subseteq Made' /\ Made' \subseteq Contents /\ 0 .. writtenTags \subseteq 0 .. writtenTags'
  BY WritebackAssumption DEF Made, Contents, GoneContent, WritebackInv, WritebackTypeOK
<1>1. /\ confirm \in [Writebacks -> ConfirmRecords] /\ second \in Seconds
      /\ snapshots \in [Seconds -> Contents] /\ second \in Nat
  BY DEF WritebackInv, WritebackTypeOK, Seconds
<1>2. c \in ConfirmRecords
  BY <1>1 DEF ConfirmRecords
<1>3. /\ confirm' = [confirm EXCEPT ![w] = c] /\ confirm[w].at = "hashed" /\ image # GoneContent
      /\ outsideWrites' = (outsideWrites \/ snapshots[second] = owned)
      /\ UNCHANGED <<image, temporary, backup, second, swapper, replaced, owned, overtaken>>
  BY DEF WritesSnapshot
<1>4. c.at = at /\ c.hash = confirm[w].hash /\ c.second = second
  OBVIOUS
<1> HIDE DEF c
<1>5. /\ confirm'[w] = c /\ \A v \in Writebacks \ {w} : confirm'[v] = confirm[v]
      /\ snapshots'[second] = content /\ \A t \in Seconds \ {second} : snapshots'[t] = snapshots[t]
      /\ ~Snapped(w) /\ (Snapped(w)' <=> at # "refused")
      /\ \A v \in Writebacks \ {w} : Snapped(v)' <=> Snapped(v)
  BY <1>1, <1>3, <1>4 DEF Snapped
<1>6. Snapshot(owned) => outsideWrites' \/ Snapshot(owned)'
  BY <1>1, <1>3, <1>5 DEF Snapshot
<1>7. WritebackTypeOK'
  <2>1. mishaps' \in 0 .. MaxMishaps
    BY WritebackBudget DEF WritebackInv
  <2>2. confirm' \in [Writebacks -> ConfirmRecords] /\ snapshots' \in [Seconds -> Contents]
    BY <1>0, <1>1, <1>2, <1>3
  <2>3. rewritten' \subseteq Seconds /\ outsideWrites' \in BOOLEAN
    BY <1>1, <1>3 DEF WritebackInv, WritebackTypeOK
  <2> QED
    BY <1>3, <2>1, <2>2, <2>3 DEF WritebackInv, WritebackTypeOK
<1>8. ContentsWereMade'
  <2>1. \A t \in Seconds : snapshots'[t] \in Made'
    BY <1>0, <1>5 DEF WritebackInv, ContentsWereMade
  <2>2. ASSUME NEW v \in Writebacks PROVE confirm'[v].hash \in Made' /\ confirm'[v].second <= second'
    BY <1>0, <1>1, <1>3, <1>4, <1>5 DEF WritebackInv, ContentsWereMade
  <2> QED
    BY <2>1, <2>2, <1>0, <1>3 DEF WritebackInv, ContentsWereMade
<1>9. KeptInPlace'
  BY <1>3, <1>6 DEF WritebackInv, KeptInPlace
<1>10. HashedIsSnapped'
  <2>1. ASSUME at # "refused", confirm[w].hash = owned PROVE outsideWrites' \/ Snapshot(owned)'
    <3>1. CASE content = image /\ image = owned
      BY <3>1, <1>1, <1>3, <1>5 DEF Snapshot
    <3>2. CASE image # owned
      BY <3>2, <1>3, <1>6 DEF WritebackInv, KeptInPlace
    <3> QED
      BY <2>1, <3>1, <3>2
  <2> QED
    BY <2>1, <1>3, <1>4, <1>5, <1>6 DEF WritebackInv, HashedIsSnapped
<1>11. SwappersAreCovered'
  <2>1. ASSUME NEW d \in Swappers PROVE IsCovered(swapper[d])'
    <3>1. swapper'[d] = swapper[d] /\ IsCovered(swapper[d])
      BY <1>3 DEF WritebackInv, SwappersAreCovered
    <3>2. swapper[d].at # "idle" => swapper[d].of # w
      BY <3>1, <1>5 DEF IsCovered
    <3> QED
      BY <3>1, <3>2, <1>3, <1>5, <1>6 DEF IsCovered
  <2> QED
    BY <2>1 DEF SwappersAreCovered
<1>12. SnapshotsAreOfHashes'
  <2>1. rewritten \subseteq rewritten'
    OBVIOUS
  <2>2. ASSUME NEW v \in Writebacks \ {w}, Snapped(v), confirm[v].second = second
        PROVE  second \in rewritten'
    BY <2>2 DEF WritebackInv, SnapshotsAreOfHashes
  <2>3. ASSUME NEW v \in Writebacks \ {w}, Snapped(v)
        PROVE  \/ snapshots'[confirm[v].second] \in {confirm[v].hash, GoneContent}
               \/ confirm[v].second \in rewritten'
    <3>1. confirm[v].second \in Seconds
      BY <1>1 DEF ConfirmRecords
    <3> QED
      BY <3>1, <2>1, <2>2, <2>3, <1>5 DEF WritebackInv, SnapshotsAreOfHashes
  <2>4. snapshots'[second] = confirm[w].hash \/ second \in rewritten'
    BY <1>5
  <2>5. snapshots'[second] # GoneContent \/ at = "refused"
    BY <1>3, <1>5
  <2>6. \A v \in Writebacks : /\ replaced[v] # {} => Snapped(v)
                              /\ v \in overtaken \/ replaced[v] \subseteq {confirm[v].hash}
    BY DEF WritebackInv, SnapshotsAreOfHashes
  <2>7. replaced[w] = {}
    BY <2>6, <1>5
  <2>8. ASSUME NEW v \in Writebacks
        PROVE  /\ Snapped(v)' =>
                    \/ snapshots'[confirm'[v].second] \in {confirm'[v].hash, GoneContent}
                    \/ confirm'[v].second \in rewritten'
               /\ Snapped(v)' /\ confirm'[v].second = second' =>
                    snapshots'[second'] # GoneContent \/ second' \in rewritten'
               /\ replaced'[v] # {} => Snapped(v)'
               /\ v \in overtaken' \/ replaced'[v] \subseteq {confirm'[v].hash}
    <3>1. CASE v = w
      BY <3>1, <2>4, <2>5, <2>7, <1>3, <1>4, <1>5
    <3>2. CASE v # w
      BY <3>2, <2>2, <2>3, <2>6, <1>3, <1>5
    <3> QED
      BY <3>1, <3>2
  <2> QED
    BY <2>8 DEF SnapshotsAreOfHashes
<1> QED
  BY <1>7, <1>8, <1>9, <1>10, <1>11, <1>12 DEF WritebackInv

\* Every step of the requests, of the executions and of others at the file keeps it.
LEMMA WritebackStep == WritebackInv /\ [WritebackNext]_writebackVars => WritebackInv'
<1> SUFFICES ASSUME WritebackInv, [WritebackNext]_writebackVars PROVE WritebackInv'
  OBVIOUS
<1>a. /\ image \in Made /\ GoneContent \in Made /\ image \in Contents /\ GoneContent \in Contents
      /\ writtenTags \in 0 .. MaxContents /\ writtenTags <= writtenTags /\ second \in Seconds
      /\ \A t \in Seconds : snapshots[t] \in Made
      /\ confirm \in [Writebacks -> ConfirmRecords]
  BY WritebackAssumption
  DEF WritebackInv, WritebackTypeOK, ContentsWereMade, Made, Contents, GoneContent
<1>b. writtenTags' = writtenTags =>
        /\ Made' = Made /\ writtenTags' \in 0 .. MaxContents /\ writtenTags <= writtenTags'
  BY <1>a DEF Made, GoneContent
<1>1. ASSUME Tick PROVE WritebackInv'
  <2>1. /\ second \in Nat /\ second' = second + 1 /\ second' \in Seconds
        /\ UNCHANGED <<contentVars, confirm, swapper, replaced, givenUpVars>> /\ Smooth
    BY <1>1, WritebackAssumption DEF Tick, Seconds, WritebackInv, WritebackTypeOK
  <2>2. \A v \in Writebacks : confirm[v].second < second' /\ confirm[v].second <= second'
    BY <2>1, <1>a DEF WritebackInv, ContentsWereMade, ConfirmRecords, Seconds
  <2>3. WritebackTypeOK'
    BY <2>1, WritebackBudget DEF WritebackInv, WritebackTypeOK, contentVars, givenUpVars
  <2>4. ContentsWereMade'
    BY <2>1, <2>2 DEF WritebackInv, ContentsWereMade, contentVars, givenUpVars, Made
  <2>5. KeptInPlace' /\ HashedIsSnapped' /\ SwappersAreCovered'
    BY <2>1
    DEF WritebackInv, KeptInPlace, HashedIsSnapped, SwappersAreCovered, IsCovered, Snapped, Snapshot,
        contentVars, givenUpVars
  <2>6. SnapshotsAreOfHashes'
    <3>1. \A v \in Writebacks : confirm[v].second # second'
      BY <2>1, <2>2, <1>a DEF ConfirmRecords, Seconds
    <3> QED
      BY <2>1, <3>1 DEF WritebackInv, SnapshotsAreOfHashes, Snapped, contentVars, givenUpVars
  <2> QED
    BY <2>3, <2>4, <2>5, <2>6 DEF WritebackInv
<1>2. ASSUME EditOutside PROVE WritebackInv'
  <2>1. /\ MakesContent /\ image' = NewContent /\ owned' = NewContent
        /\ outsideWrites' = \E e \in Swappers : Swapping(e)
        /\ UNCHANGED <<temporary, backup, second, snapshots, confirm, swapper, replaced, rewritten,
                       overtaken>> /\ Smooth
    BY <1>2 DEF EditOutside
  <2>2. /\ writtenTags' \in 0 .. MaxContents /\ NewContent \in 0 .. writtenTags'
        /\ NewContent \in Made' /\ Made \subseteq Made' /\ NewContent \notin Made
    BY <2>1, NewContentIsMade
  <2>3. \A v \in Writebacks : confirm[v].hash # NewContent
    BY <2>2 DEF WritebackInv, ContentsWereMade
  <2>4. WritebackTypeOK'
    <3>1. NewContent \in 0 .. MaxContents /\ NewContent \in Contents
      BY <2>1, <1>a, WritebackAssumption DEF MakesContent, NewContent, Contents, GoneContent
    <3>2. outsideWrites' \in BOOLEAN
      BY <2>1
    <3> QED
      BY <2>1, <2>2, <3>1, <3>2, WritebackBudget DEF WritebackInv, WritebackTypeOK
  <2>5. ContentsWereMade'
    BY <2>1, <2>2 DEF WritebackInv, ContentsWereMade
  <2>6. KeptInPlace' /\ HashedIsSnapped'
    BY <2>1, <2>3 DEF KeptInPlace, HashedIsSnapped, Snapped
  <2>7. SwappersAreCovered'
    <3>1. ASSUME NEW d \in Swappers PROVE IsCovered(swapper[d])'
      <4>1. swapper'[d] = swapper[d] /\ IsCovered(swapper[d])
        BY <2>1 DEF WritebackInv, SwappersAreCovered
      <4>2. swapper[d].at \notin {"idle", "hash", "succeed", "fail"} => outsideWrites'
        BY <2>1 DEF Swapping
      <4> QED
        BY <4>1, <4>2, <2>1 DEF IsCovered, Snapped
    <3> QED
      BY <3>1 DEF SwappersAreCovered
  <2>8. SnapshotsAreOfHashes'
    BY <2>1 DEF WritebackInv, SnapshotsAreOfHashes, Snapped
  <2> QED
    BY <2>4, <2>5, <2>6, <2>7, <2>8 DEF WritebackInv
<1>3. ASSUME WritebackCrash PROVE WritebackInv'
  <2>1. /\ UNCHANGED <<contentVars, second, replaced, givenUpVars>> /\ Mishap
        /\ swapper' = [e \in Swappers |-> NoSwapper]
    BY <1>3 DEF WritebackCrash
  <2>2. /\ confirm' \in [Writebacks -> ConfirmRecords]
        /\ \A v \in Writebacks : /\ confirm'[v].hash = confirm[v].hash
                                 /\ confirm'[v].second = confirm[v].second
                                 /\ (Snapped(v)' <=> Snapped(v))
    BY <1>3, <1>a DEF WritebackCrash, ConfirmRecords, Snapped
  <2>3. WritebackTypeOK'
    <3>1. NoSwapper \in SwapperRecords
      BY <1>a DEF NoSwapper, SwapperRecords
    <3> QED
      BY <2>1, <2>2, <3>1, WritebackBudget DEF WritebackInv, WritebackTypeOK, contentVars, givenUpVars
  <2>4. ContentsWereMade'
    BY <2>1, <2>2 DEF WritebackInv, ContentsWereMade, contentVars, givenUpVars, Made
  <2>5. KeptInPlace' /\ HashedIsSnapped'
    BY <2>1, <2>2
    DEF WritebackInv, KeptInPlace, HashedIsSnapped, Snapshot, contentVars, givenUpVars
  <2>6. SwappersAreCovered'
    BY <2>1 DEF SwappersAreCovered, IsCovered, NoSwapper
  <2>7. SnapshotsAreOfHashes'
    BY <2>1, <2>2 DEF WritebackInv, SnapshotsAreOfHashes, contentVars, givenUpVars
  <2> QED
    BY <2>3, <2>4, <2>5, <2>6, <2>7 DEF WritebackInv
<1>4. ASSUME NEW w \in Writebacks, HashOriginal(w) PROVE WritebackInv'
  <2> DEFINE c == [at |-> "hashed", hash |-> image, second |-> 0]
  <2>1. c \in ConfirmRecords
    BY <1>a, WritebackAssumption DEF ConfirmRecords, Seconds
  <2>2. confirm' = [confirm EXCEPT ![w] = c]
    BY <1>4 DEF HashOriginal
  <2>3. ~Snapped(w) /\ c.at = "hashed" /\ c.hash = image /\ c.second = 0
    BY <1>4 DEF HashOriginal, Snapped
  <2> HIDE DEF c
  <2> QED
    BY <1>4, <2>1, <2>2, <2>3, RequestStepKeeps DEF HashOriginal
<1>5. ASSUME NEW w \in Writebacks, SnapshotAndEnqueue(w) PROVE WritebackInv'
  <2>1. PICK at \in {"pending", "reused"} : WritesSnapshot(w, at)
    BY <1>5 DEF SnapshotAndEnqueue
  <2>2. CASE snapshots' = [snapshots EXCEPT ![second] = image] /\ UNCHANGED writtenTags
    <3>1. \/ rewritten' = rewritten \cup {second}
          \/ /\ rewritten' = rewritten /\ snapshots[second] = GoneContent
             /\ image = confirm[w].hash
      BY <1>5 DEF SnapshotAndEnqueue
    <3> QED
      BY <1>5, <2>1, <2>2, <3>1, <1>a, <1>b, SnapshotStepKeeps DEF SnapshotAndEnqueue
  <2>3. CASE /\ image # confirm[w].hash /\ MakesContent
             /\ snapshots' = [snapshots EXCEPT ![second] = NewContent]
    <3>1. rewritten' = rewritten \cup {second}
      BY <1>5, <2>3 DEF SnapshotAndEnqueue
    <3>2. /\ writtenTags' \in 0 .. MaxContents /\ writtenTags <= writtenTags'
          /\ NewContent \in Made' /\ NewContent # GoneContent
      BY <2>3, <1>a, NewContentIsMade
    <3> QED
      BY <1>5, <2>1, <2>3, <3>1, <3>2, SnapshotStepKeeps DEF SnapshotAndEnqueue
  <2> QED
    BY <1>5, <2>2, <2>3 DEF SnapshotAndEnqueue
<1>6. ASSUME NEW w \in Writebacks, SnapshotFails(w) PROVE WritebackInv'
  <2>1. CASE snapshots' = [snapshots EXCEPT ![second] = GoneContent] /\ UNCHANGED writtenTags
    BY <1>6, <2>1, <1>a, <1>b, SnapshotStepKeeps DEF SnapshotFails
  <2>2. CASE MakesContent /\ snapshots' = [snapshots EXCEPT ![second] = NewContent]
    BY <1>6, <2>2, NewContentIsMade, SnapshotStepKeeps DEF SnapshotFails
  <2> QED
    BY <1>6, <2>1, <2>2 DEF SnapshotFails
<1>7. ASSUME NEW w \in Writebacks, CancelWriteback(w) \/ RetryWriteback(w) PROVE WritebackInv'
  <2>1. PICK at \in {"pending", "canceled"} :
          confirm' = [confirm EXCEPT ![w] =
            [at |-> at, hash |-> confirm[w].hash, second |-> confirm[w].second]]
    BY <1>7 DEF CancelWriteback, RetryWriteback, TaskBecomes
  <2> DEFINE c == [at |-> at, hash |-> confirm[w].hash, second |-> confirm[w].second]
  <2>2. c \in ConfirmRecords
    BY <1>a DEF ConfirmRecords
  <2>3. /\ Snapped(w) /\ c.at \notin {"none", "hashed", "refused"}
        /\ c.hash = confirm[w].hash /\ c.second = confirm[w].second
    BY <1>7 DEF CancelWriteback, RetryWriteback, Snapped
  <2>4. confirm' = [confirm EXCEPT ![w] = c]
    BY <2>1
  <2>5. /\ UNCHANGED <<contentVars, second, swapper, replaced, givenUpVars>>
        /\ Smooth \/ Mishap
    BY <1>7 DEF CancelWriteback, RetryWriteback
  <2> HIDE DEF c
  <2> QED
    BY <2>2, <2>3, <2>4, <2>5, RequestStepKeeps
<1>8. ASSUME NEW w \in Writebacks, RollBack(w) PROVE WritebackInv'
  <2>1. /\ outsideWrites' = (outsideWrites \/ owned \notin {snapshots[t] : t \in Seconds})
        /\ UNCHANGED <<temporary, backup, second, snapshots, confirm, swapper, replaced, owned,
                       rewritten, overtaken>>
        /\ confirm[w].second \in Seconds /\ CopyFromSnapshot(confirm[w].second)
    BY <1>8, <1>a DEF RollBack, ConfirmRecords
  <2>2. /\ writtenTags' \in 0 .. MaxContents /\ writtenTags <= writtenTags' /\ image' \in Made'
        /\ Made \subseteq Made' /\ (Smooth \/ Mishap)
    <3>1. CASE MakesContent /\ image' = NewContent /\ Mishap
      BY <3>1, NewContentIsMade
    <3>2. CASE /\ image' \in {image, snapshots[confirm[w].second], GoneContent}
               /\ writtenTags' = writtenTags /\ (Smooth \/ Mishap)
      BY <3>2, <2>1, <1>a, <1>b
    <3> QED
      BY <2>1, <3>1, <3>2 DEF CopyFromSnapshot
  <2>3. outsideWrites' \/ Snapshot(owned)'
    BY <2>1 DEF Snapshot
  <2>4. outsideWrites => outsideWrites'
    BY <2>1
  <2>5. WritebackTypeOK'
    <3>1. image' \in Contents
      BY <2>2, WritebackAssumption DEF Made, Contents, GoneContent
    <3>2. outsideWrites' \in BOOLEAN
      BY <2>1
    <3> QED
      BY <2>1, <2>2, <3>1, <3>2, WritebackBudget DEF WritebackInv, WritebackTypeOK
  <2>6. ContentsWereMade'
    <3>1. 0 .. writtenTags \subseteq 0 .. writtenTags'
      BY <1>a, <2>2
    <3> QED
      BY <2>1, <2>2, <3>1 DEF WritebackInv, ContentsWereMade
  <2>7. KeptInPlace' /\ HashedIsSnapped'
    BY <2>1, <2>3 DEF KeptInPlace, HashedIsSnapped
  <2>8. SwappersAreCovered'
    <3>1. ASSUME NEW d \in Swappers PROVE IsCovered(swapper[d])'
      <4>1. swapper'[d] = swapper[d] /\ IsCovered(swapper[d])
        BY <2>1 DEF WritebackInv, SwappersAreCovered
      <4> QED
        BY <4>1, <2>1, <2>3 DEF IsCovered, Snapped
    <3> QED
      BY <3>1 DEF SwappersAreCovered
  <2>9. SnapshotsAreOfHashes'
    BY <2>1 DEF WritebackInv, SnapshotsAreOfHashes, Snapped
  <2> QED
    BY <2>5, <2>6, <2>7, <2>8, <2>9 DEF WritebackInv
<1>9. ASSUME NEW t \in Seconds, CleanupSnapshot(t) PROVE WritebackInv'
  <2>1. /\ t < second /\ Mishap /\ snapshots' = [snapshots EXCEPT ![t] = GoneContent]
        /\ outsideWrites' = (outsideWrites \/ snapshots[t] = owned)
        /\ UNCHANGED <<image, temporary, backup, writtenTags, second, confirm, swapper, replaced,
                       owned, rewritten, overtaken>>
    BY <1>9 DEF CleanupSnapshot
  <2>2. /\ snapshots \in [Seconds -> Contents] /\ t # second
        /\ snapshots'[t] = GoneContent /\ \A u \in Seconds \ {t} : snapshots'[u] = snapshots[u]
    BY <2>1, <1>a DEF WritebackInv, WritebackTypeOK, Seconds
  <2>3. Snapshot(owned) => outsideWrites' \/ Snapshot(owned)'
    BY <2>1, <2>2 DEF Snapshot
  <2>4. WritebackTypeOK'
    <3>1. snapshots' \in [Seconds -> Contents] /\ outsideWrites' \in BOOLEAN
      BY <2>1, <2>2, <1>a
    <3> QED
      BY <2>1, <3>1, WritebackBudget DEF WritebackInv, WritebackTypeOK
  <2>5. ContentsWereMade'
    <3>1. Made' = Made /\ \A u \in Seconds : snapshots'[u] \in Made
      BY <2>1, <2>2, <1>a DEF Made
    <3> QED
      BY <2>1, <3>1 DEF WritebackInv, ContentsWereMade
  <2>6. KeptInPlace' /\ HashedIsSnapped'
    BY <2>1, <2>3 DEF WritebackInv, KeptInPlace, HashedIsSnapped, Snapped
  <2>7. SwappersAreCovered'
    <3>1. ASSUME NEW d \in Swappers PROVE IsCovered(swapper[d])'
      <4>1. swapper'[d] = swapper[d] /\ IsCovered(swapper[d])
        BY <2>1 DEF WritebackInv, SwappersAreCovered
      <4> QED
        BY <4>1, <2>1, <2>3 DEF IsCovered, Snapped
    <3> QED
      BY <3>1 DEF SwappersAreCovered
  <2>8. SnapshotsAreOfHashes'
    <3>1. \A v \in Writebacks :
            snapshots'[confirm[v].second] \in {snapshots[confirm[v].second], GoneContent}
      BY <2>2, <1>a DEF ConfirmRecords
    <3>2. snapshots'[second] = snapshots[second]
      BY <2>2, <1>a
    <3> QED
      BY <2>1, <3>1, <3>2 DEF WritebackInv, SnapshotsAreOfHashes, Snapped
  <2> QED
    BY <2>4, <2>5, <2>6, <2>7, <2>8 DEF WritebackInv
<1>10. CASE UNCHANGED writebackVars
  BY <1>10
  DEF writebackVars, WritebackInv, WritebackTypeOK, ContentsWereMade, KeptInPlace, HashedIsSnapped,
      SwappersAreCovered, IsCovered, SnapshotsAreOfHashes, Snapped, Snapshot, Made
<1> QED
  BY <1>1, <1>2, <1>3, <1>4, <1>5, <1>6, <1>7, <1>8, <1>9, <1>10, SwapperStepHolds
  DEF WritebackNext

\* The user's content is kept, and a roll back restores what the write-back moved
\* away, however executions overlap (metadata_writeback.go).
THEOREM WritebackHoldsAlways == WritebackSpec => [](ContentIsKept /\ RollbackRestores)
  BY WritebackInitInv, WritebackStep, WritebackHolds, PTL DEF WritebackSpec
===============================================================================
