------------------------------- MODULE Shares -------------------------------
(***************************************************************************)
(* A share link and the visits to what it shares.                          *)
(*                                                                         *)
(* A visit reads the share once, checks the resource, the password and the *)
(* scope against what it read, and takes one use from the row in a         *)
(* transaction; then the access is sampled into the audit.  The link may   *)
(* expire or be revoked, and its media may be deleted or leave the shared  *)
(* album, between any two of these steps.                                  *)
(***************************************************************************)
EXTENDS Naturals, FiniteSets

CONSTANTS Visits,   \* requests to the link
          MaxUses   \* largest max_uses: 0 is a share without a limit

ASSUME SharesAssumption == MaxUses \in Nat \ {0} /\ IsFiniteSet(Visits)

VARIABLES
  share,     \* the row: [in, uses, max, expired, locked, download]
  inScope,   \* the media belongs to the share and is not deleted
  visit,     \* [Visits -> what each request has got to]
  sampled    \* share.accessed events of this window: [seen, events]

shareVars == <<share, inScope, visit, sampled>>

Uses   == 0 .. MaxUses
Access == {"stream", "download"}

SharesTypeOK ==
  /\ share \in [in : BOOLEAN, uses : Uses, max : Uses, expired : BOOLEAN,
                locked : BOOLEAN, download : BOOLEAN]
  /\ inScope \in BOOLEAN
  /\ visit \in [Visits -> [at : {"new", "authorised", "allowed", "sampling", "recording",
                                 "served", "refused"},
                           to : Access, knows : BOOLEAN, late : BOOLEAN]]
  /\ sampled \in [seen : BOOLEAN, events : 0 .. Cardinality(Visits)]

(* CreateShare: a negative limit has become 0.                             *)
SharesInit ==
  /\ share \in [in : {TRUE}, uses : {0}, max : Uses, expired : {FALSE},
                locked : BOOLEAN, download : BOOLEAN]
  /\ inScope = TRUE
  /\ visit \in [Visits -> [at : {"new"}, to : Access, knows : BOOLEAN, late : {FALSE}]]
  /\ sampled = [seen |-> FALSE, events |-> 0]

At(v, here) == visit[v].at = here
GoesTo(v, there) == visit' = [visit EXCEPT ![v].at = there]

-----------------------------------------------------------------------------
(* shareAuth: the only look at the row's existence and expiry.             *)
ShareAuth(v) ==
  /\ At(v, "new")
  /\ GoesTo(v, IF share.in /\ ~share.expired THEN "authorised" ELSE "refused")
  /\ UNCHANGED <<share, inScope, sampled>>

(* ShareDownload, resolveShareMedia and VerifyPassword before the use.     *)
ResolveShareMedia(v) ==
  /\ At(v, "authorised")
  /\ GoesTo(v, IF /\ visit[v].to = "download" => share.download
                  /\ inScope
                  /\ share.locked => visit[v].knows
               THEN "allowed" ELSE "refused")
  /\ UNCHANGED <<share, inScope, sampled>>

(* ConsumeUse reads the row again and counts in the same transaction.      *)
HasUse_OneMore(s) == s.max = 0 \/ s.uses <= s.max
HasUse(s) == s.max = 0 \/ s.uses < s.max

Counted(s) == IF s.max = 0 THEN s ELSE [s EXCEPT !.uses = @ + 1]

ConsumesFrom_Gone(s) == TRUE
ConsumesFrom(s) == s.in

ConsumeUse(v) ==
  /\ At(v, "allowed")
  /\ IF ConsumesFrom(share) /\ HasUse(share)
     THEN /\ share' = Counted(share)
          /\ visit' = [visit EXCEPT ![v].at = "sampling", ![v].late = ~share.in]
     ELSE GoesTo(v, "refused") /\ UNCHANGED share
  /\ UNCHANGED <<inScope, sampled>>

(* maybeRecordShareAccessed: the time of the last sample is loaded and     *)
(* stored by separate calls of the map.                                    *)
SampleAccess(v) ==
  /\ At(v, "sampling")
  /\ GoesTo(v, IF sampled.seen THEN "served" ELSE "recording")
  /\ UNCHANGED <<share, inScope, sampled>>

RecordShareAccessed(v) ==
  /\ At(v, "recording")
  /\ sampled' = [seen |-> TRUE, events |-> sampled.events + 1]
  /\ GoesTo(v, "served")
  /\ UNCHANGED <<share, inScope>>

(* The owner revokes the link, time passes, the media goes.                *)
RevokeShare ==
  /\ share.in
  /\ share' = [share EXCEPT !.in = FALSE]
  /\ UNCHANGED <<inScope, visit, sampled>>

ShareExpires ==
  /\ ~share.expired
  /\ share' = [share EXCEPT !.expired = TRUE]
  /\ UNCHANGED <<inScope, visit, sampled>>

MediaLeavesShare ==
  /\ inScope
  /\ inScope' = FALSE
  /\ UNCHANGED <<share, visit, sampled>>

SharesNext ==
  \/ \E v \in Visits :
       \/ ShareAuth(v) \/ ResolveShareMedia(v) \/ ConsumeUse(v)
       \/ SampleAccess(v) \/ RecordShareAccessed(v)
  \/ RevokeShare \/ ShareExpires \/ MediaLeavesShare

SharesSpec == SharesInit /\ [][SharesNext]_shareVars

-----------------------------------------------------------------------------
Accepted == {v \in Visits : visit[v].at \in {"sampling", "recording", "served"}}

(* However the visits overlap, a limited share is used as often as its     *)
(* limit allows, each accepted visit counts once, and no visit gets a use  *)
(* of a link that has been revoked before it asked for it.                 *)
UsesAreCounted ==
  share.max > 0 =>
    Cardinality(Accepted) <= share.max /\ share.uses = Cardinality(Accepted)
RevokedLinkIsDead == \A v \in Visits : ~visit[v].late
SharesHold == UsesAreCounted /\ RevokedLinkIsDead
=============================================================================
