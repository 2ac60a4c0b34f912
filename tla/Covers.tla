------------------------------- MODULE Covers -------------------------------
(***************************************************************************)
(* The covers of one media: candidates made from its file at a few         *)
(* positions, one of which is the cover, chosen by the server or by hand.  *)
(* A candidate is known by a fingerprint of the file's state and of the    *)
(* position.  Two tasks may be at it at once: one makes what is missing,   *)
(* the other makes all anew and then deletes what is no longer a candidate.*)
(***************************************************************************)
EXTENDS Faults

CONSTANTS Positions,        \* of frames, by number, the best first
          MaxCoverVersion,  \* states of the media's file
          CoverAttempts,
          MaxCoverRequests  \* bound: requests for covers

ASSUME CoversAssumption ==
  /\ Positions \subseteq Nat \ {0} /\ Positions # {}
  /\ MaxCoverVersion \in Nat \ {0} /\ CoverAttempts \in Nat \ {0} /\ MaxCoverRequests \in Nat

VARIABLES
  mediaVersion,  \* state of the file the media's row tells of
  coverFile,     \* fingerprints whose file is in the covers directory
  coverAsset,    \* fingerprints with a cache asset
  candidate,     \* fingerprints with a row in cover_candidates
  cover,         \* [print, manual, asset]: the row in media_covers
  coverRun,      \* coverRun[t]: [status, attempts, at, version, todo], a task
  coverSweep,    \* assets a clean of the cache is about to forget
  picked,        \* history: the last cover chosen by hand
  coverRequests, \* requests so far, up to MaxCoverRequests
  inPeace        \* history: nothing has met the last run of a refresh

coverVars == <<mediaVersion, coverFile, coverAsset, candidate, cover, coverRun, coverSweep,
               picked,
               coverRequests, inPeace, mishaps>>

CoverTasks == {"generate", "refresh"}
Prints == (1 .. MaxCoverVersion) \X Positions
PrintsOf(version) == {version} \X Positions
NoPrint == <<0, 0>>
NoCover == [print |-> NoPrint, manual |-> FALSE, asset |-> FALSE]
NoCoverRun == [status |-> "none", attempts |-> 0, at |-> "idle", version |-> 0, todo |-> {}]

CoversTypeOK ==
  /\ mediaVersion \in 1 .. MaxCoverVersion
  /\ coverFile \cup coverAsset \cup candidate \cup coverSweep \subseteq Prints
  /\ cover \in [print : Prints \cup {NoPrint}, manual : BOOLEAN, asset : BOOLEAN]
  /\ coverRun \in [CoverTasks ->
       [status : {"none", "pending", "running", "succeeded", "failed", "canceled"},
        attempts : 0 .. CoverAttempts - 1, version : 0 .. MaxCoverVersion, todo : SUBSET Prints,
        at : {"idle", "look", "make", "register", "save", "list", "prune", "report", "fail"}]]
  /\ picked \in Prints \cup {NoPrint} /\ inPeace \in BOOLEAN
  /\ coverRequests \in 0 .. MaxCoverRequests /\ mishaps \in 0 .. MaxMishaps

CoversInit ==
  /\ mediaVersion = 1 /\ coverFile = {} /\ coverAsset = {} /\ candidate = {}
  /\ cover = NoCover /\ coverRun = [t \in CoverTasks |-> NoCoverRun] /\ coverSweep = {}
  /\ picked = NoPrint /\ coverRequests = 0 /\ inPeace = FALSE

-----------------------------------------------------------------------------
(* The choice of the cover.                                                *)

(* What was chosen by hand stays chosen, with or without a candidate.      *)
RestoredCover_Stays(current, candidates) == current
RestoredCover_Anew(current, candidates) ==
  IF current.print \in candidates THEN current ELSE NoCover
RestoredCover(current, candidates) == [current EXCEPT !.asset = current.print \in candidates]

(* The best position; of several states of the file whichever comes first. *)
Best(candidates) ==
  {p \in candidates : \A q \in candidates : p[2] <= q[2]}
ResolveCoverSelection(candidates) ==
  IF cover.manual THEN cover' = RestoredCover(cover, candidates)
  ELSE \E p \in Best(candidates) : cover' = [print |-> p, manual |-> FALSE, asset |-> TRUE]

SelectCover(p) ==
  /\ p \in candidate
  /\ cover' = [print |-> p, manual |-> TRUE, asset |-> TRUE] /\ picked' = p
  /\ UNCHANGED <<mediaVersion, coverFile, coverAsset, candidate, coverRun, coverSweep,
                 inPeace, coverRequests>>
  /\ Smooth

-----------------------------------------------------------------------------
(* The tasks.                                                              *)

Alone(t) == \A u \in CoverTasks \ {t} : coverRun[u].at = "idle"
CoverAt(t, at) == coverRun' = [coverRun EXCEPT ![t].at = at]
CoverEnds(t, status) == coverRun' = [coverRun EXCEPT ![t] = [NoCoverRun EXCEPT !.status = status]]
CoverRows == <<mediaVersion, candidate, cover, coverSweep, picked, inPeace>>

GenerateCovers(t) ==
  /\ coverRun[t].at = "idle" /\ coverRun[t].status \notin {"pending", "running"}
  /\ coverRequests < MaxCoverRequests /\ coverRequests' = coverRequests + 1
  /\ CoverEnds(t, "pending") /\ UNCHANGED <<coverFile, coverAsset, CoverRows>> /\ Smooth

CancelCovers(t) ==
  /\ coverRun[t].status \in {"pending", "running"}
  /\ coverRun' = [coverRun EXCEPT ![t].status = "canceled"]
  /\ UNCHANGED <<coverFile, coverAsset, CoverRows, coverRequests>> /\ Smooth

(* The state of the file is read once, with the media's row.               *)
TakeCovers(t) ==
  /\ coverRun[t].status = "pending" /\ coverRun[t].at = "idle"
  /\ coverRun' = [coverRun EXCEPT ![t] = [@ EXCEPT !.status = "running", !.at = "look",
                    !.version = mediaVersion, !.todo = PrintsOf(mediaVersion)]]
  /\ inPeace' = (t = "refresh" /\ Alone(t) /\ coverSweep = {})
  /\ UNCHANGED <<mediaVersion, coverFile, coverAsset, candidate, cover, coverSweep, picked,
                 coverRequests>> /\ Smooth

NextCover(t) == CHOOSE p \in coverRun[t].todo : \A q \in coverRun[t].todo : p[2] <= q[2]

(* A refresh removes the file first, the other task takes one that is there*)
LookForCover(t) ==
  LET p == NextCover(t) IN
  /\ coverRun[t].at = "look"
  /\ IF t = "refresh" THEN coverFile' = coverFile \ {p} /\ CoverAt(t, "make")
     ELSE CoverAt(t, IF p \in coverFile THEN "register" ELSE "make") /\ UNCHANGED coverFile
  /\ UNCHANGED <<coverAsset, CoverRows, coverRequests>> /\ Smooth

MakeCover(t) ==
  /\ coverRun[t].at = "make"
  /\ \/ coverFile' = coverFile \cup {NextCover(t)} /\ CoverAt(t, "register") /\ Smooth
     \/ CoverAt(t, "fail") /\ UNCHANGED coverFile /\ Mishap
  /\ UNCHANGED <<coverAsset, CoverRows, coverRequests>>

(* A file that is gone is not registered; progress is not reported to a    *)
(* task that was canceled.                                                 *)
RegisterCover(t) ==
  LET p == NextCover(t)
      left == coverRun[t].todo \ {p}
      fine == p \in coverFile /\ coverRun[t].status = "running" IN
  /\ coverRun[t].at = "register"
  /\ coverAsset' = IF p \in coverFile THEN coverAsset \cup {p} ELSE coverAsset
  /\ IF ~fine THEN CoverAt(t, "fail")
     ELSE coverRun' = [coverRun EXCEPT ![t].todo = left, ![t].at = IF left = {} THEN "save" ELSE "look"]
  /\ UNCHANGED <<coverFile, CoverRows, coverRequests>> /\ Smooth

SaveGenerated(t) ==
  LET made == PrintsOf(coverRun[t].version) IN
  /\ coverRun[t].at = "save"
  /\ \/ /\ candidate' = IF t = "refresh" THEN made ELSE candidate \cup made
        /\ ResolveCoverSelection(candidate')
        /\ CoverAt(t, IF t = "refresh" THEN "list" ELSE "report")
        /\ Smooth
     \/ CoverAt(t, "fail") /\ UNCHANGED <<candidate, cover>> /\ Mishap
  /\ UNCHANGED <<mediaVersion, coverFile, coverAsset, coverSweep, picked,
                 inPeace, coverRequests>>

Unkept_All(t) == coverAsset
Unkept(t) == coverAsset \ PrintsOf(coverRun[t].version)

(* The assets to delete are listed once; the first that fails ends it.     *)
ListUnkept(t) ==
  /\ coverRun[t].at = "list"
  /\ coverRun' = [coverRun EXCEPT ![t].todo = Unkept(t), ![t].at = "prune"]
  /\ UNCHANGED <<coverFile, coverAsset, CoverRows, coverRequests>> /\ Smooth

PruneCovers(t) ==
  /\ coverRun[t].at = "prune"
  /\ \/ /\ coverFile' = coverFile \ coverRun[t].todo /\ coverAsset' = coverAsset \ coverRun[t].todo
        /\ CoverAt(t, "report") /\ Smooth
     \/ /\ \E gone \in SUBSET coverRun[t].todo : coverFile' = coverFile \ gone
        /\ UNCHANGED coverAsset /\ CoverAt(t, "fail") /\ Mishap
  /\ UNCHANGED <<CoverRows, coverRequests>>

EndCovers(t) ==
  /\ \/ /\ coverRun[t].at = "report"
        /\ CoverEnds(t, IF coverRun[t].status = "canceled" THEN "canceled" ELSE "succeeded")
     \/ /\ coverRun[t].at = "fail"
        /\ IF coverRun[t].status = "canceled" THEN CoverEnds(t, "canceled")
           ELSE IF coverRun[t].attempts + 1 = CoverAttempts THEN CoverEnds(t, "failed")
           ELSE coverRun' = [coverRun EXCEPT ![t] =
                  [NoCoverRun EXCEPT !.status = "pending", !.attempts = coverRun[t].attempts + 1]]
  /\ UNCHANGED <<coverFile, coverAsset, CoverRows, coverRequests>> /\ Smooth

-----------------------------------------------------------------------------
(* What happens around them.                                               *)

(* A scan finds the file changed.                                          *)
CoverSourceChanges ==
  /\ mediaVersion < MaxCoverVersion /\ mediaVersion' = mediaVersion + 1
  /\ UNCHANGED <<coverFile, coverAsset, candidate, cover, coverRun, coverSweep, picked,
                 inPeace, coverRequests>>
  /\ Smooth

(* A clean of the cache deletes the files, then the assets it has listed;  *)
(* candidates and cover stay.                                              *)
CleanCovers ==
  /\ coverSweep = {} /\ coverAsset # {}
  /\ coverSweep' = coverAsset /\ coverFile' = coverFile \ coverAsset /\ inPeace' = FALSE
  /\ UNCHANGED <<mediaVersion, coverAsset, candidate, cover, coverRun, picked,
                 coverRequests>> /\ Smooth

ForgetCovers ==
  /\ coverSweep # {} /\ coverSweep' = {} /\ coverAsset' = coverAsset \ coverSweep
  /\ UNCHANGED <<mediaVersion, coverFile, candidate, cover, coverRun, picked,
                 inPeace, coverRequests>>
  /\ Smooth

CoverCrash ==
  /\ Mishap
  /\ coverRun' = [t \in CoverTasks |->
       [coverRun[t] EXCEPT !.at = "idle", !.version = 0, !.todo = {},
          !.status = IF @ = "running" THEN "pending" ELSE @]]
  /\ coverSweep' = {}
  /\ UNCHANGED <<mediaVersion, coverFile, coverAsset, candidate, cover, picked,
                 inPeace, coverRequests>>

CoversNext ==
  \/ \E p \in Prints : SelectCover(p)
  \/ \E t \in CoverTasks :
       \/ GenerateCovers(t) \/ CancelCovers(t) \/ TakeCovers(t) \/ LookForCover(t) \/ MakeCover(t)
       \/ RegisterCover(t) \/ SaveGenerated(t) \/ ListUnkept(t) \/ PruneCovers(t) \/ EndCovers(t)
  \/ CoverSourceChanges \/ CleanCovers \/ ForgetCovers \/ CoverCrash

CoversSpec == CoversInit /\ mishaps = 0 /\ [][CoversNext]_coverVars

-----------------------------------------------------------------------------
(* A cover chosen by hand stays chosen, whatever is made, refreshed, cleaned
   or changed, until another is.                                           *)
ManualStays == picked # NoPrint => cover.manual /\ cover.print = picked

(* A cover that is offered is one of the candidates.                       *)
OfferedIsCandidate == cover.asset => cover.print \in candidate

(* A refresh that met nothing leaves the candidates of the file's state,   *)
(* their files and no other asset, and offers the cover if it is of them.  *)
RefreshDelivers ==
  coverRun["refresh"].status = "succeeded" /\ inPeace =>
    \E version \in 1 .. mediaVersion :
      LET fresh == PrintsOf(version) IN
      /\ candidate = fresh /\ coverAsset = fresh /\ fresh \subseteq coverFile
      /\ cover.print \in fresh => cover.asset

CoversSafe == ManualStays /\ OfferedIsCandidate /\ RefreshDelivers
=============================================================================
