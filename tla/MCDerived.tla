------------------------------ MODULE MCDerived ------------------------------
(***************************************************************************)
(* For TLC: what the server derives from the files of a library, and the   *)
(* order in which tasks are claimed.  The components have no variable in   *)
(* common but the budget of mishaps, so that every behaviour of their      *)
(* composition is one of each of them: a behaviour runs the component it   *)
(* has in focus, with the whole budget, and leaves the others where they   *)
(* start, in one state each.                                               *)
(***************************************************************************)
EXTENDS LibraryIndex, Inference, EmbeddedMetadata, HLSProfile, ClaimFairness, TLC

VARIABLE focus

Components == {"index", "titles", "metadata", "streams", "claims"}

\* Media 1 is in library 3, media 2 in library 4.
Placed == (1 :> 3) @@ (2 :> 4)

indexState == <<onDisk, prints, records, timers, waiting, failed, scanner, hasher, renamer,
                turns, hashOvertaken, moved, asked>>
titleState == <<conf, title, adding, task, inferOvertaken, givenUp>>
metadataState == <<ondisk, scanned, metaRow, changeHook, refresh, parseTask, backfill, parser,
                   overtaken, missed>>
streamState == <<adaptive, stream, directory, assets, transcoder, cleaning, excuse>>
derivedVars == <<focus, mishaps, indexState, titleState, metadataState, streamState, vars>>

Others(c) ==
  /\ IF c = "index" THEN TRUE ELSE UNCHANGED indexState
  /\ IF c = "titles" THEN TRUE ELSE UNCHANGED titleState
  /\ IF c = "metadata" THEN TRUE ELSE UNCHANGED metadataState
  /\ IF c = "streams" THEN TRUE ELSE UNCHANGED streamState
  /\ IF c = "claims" THEN TRUE ELSE UNCHANGED vars
  /\ UNCHANGED focus

\* Inference starts with a media it has no title of, one that is not there yet
\* and one library switched off; every other setting is one change away.
DerivedInit ==
  /\ focus \in Components
  /\ LibraryInit /\ InferenceInit /\ EmbeddedMetadataInit /\ HLSInit /\ Init
  /\ mishaps = 0
  /\ conf.disabled = {4} /\ title[1] = "absent" /\ title[2] = "none"
  /\ focus = "streams" \/ ~adaptive

\* Bound: the second stream is a rebuild, asked for when the first has ended.
RebuildAfterwards ==
  stream'[2].at # "none" => stream'[1].at \notin Unended /\ stream'[2].force

\* Bound: no refresh by hand while a backfill goes on; the marks and tasks of the
\* scan's hook meet the backfill all the same.
RefreshOrBackfill == refresh'.at = "idle" \/ backfill'.at = "none"

DerivedNext ==
  \/ focus = "index" /\ LibraryNext /\ Others("index")
  \/ focus = "titles" /\ InferenceNext /\ Others("titles")
  \/ focus = "metadata" /\ EmbeddedMetadataNext /\ RefreshOrBackfill /\ Others("metadata")
  \/ focus = "streams" /\ HLSNext /\ RebuildAfterwards /\ Others("streams")
  \/ focus = "claims" /\ Next /\ UNCHANGED mishaps /\ Others("claims")

-----------------------------------------------------------------------------

\* The actions the components are fair to, numbered: fairness to a union of
\* actions of different components is fairness to each, because the focus stays.
FairStep(i) ==
  /\ UNCHANGED focus
  /\ \/ /\ focus = "index"
        /\ \/ i = 1 /\ ScanWorker
           \/ i = 2 /\ \E p \in Files : InsertRecord(p)
           \/ i = 3 /\ (RenameOnDisk \/ UpdateRenamed)
           \/ i = 4 /\ StoreHash
     \/ /\ focus = "titles"
        /\ \/ i = 1 /\ \E m \in Media : NewStep(m)
           \/ i = 2 /\ \E k \in InferKeys : TaskStep(k)
     \/ /\ focus = "metadata"
        /\ \/ i = 1 /\ (HookMarksStale \/ HookEnqueues)
           \/ i = 2 /\ ParserStep("backfill")
           \/ i = 3 /\ ParserStep("p1")
           \/ i = 4 /\ ParserStep("p2")
     \/ focus = "streams" /\ i = 1 /\ \E t \in Transcoders : RunStep(t)
     \/ focus = "claims" /\ i = 1 /\ ClaimNext /\ UNCHANGED mishaps

\* The variables of the component in focus.
focused == CASE focus = "index" -> libraryVars
             [] focus = "titles" -> inferenceVars
             [] focus = "metadata" -> metadataVars
             [] focus = "streams" -> hlsVars
             [] focus = "claims" -> vars

DerivedSpec ==
  /\ DerivedInit /\ [][DerivedNext]_derivedVars
  /\ \A i \in 1 .. 4 : WF_focused(FairStep(i))

-----------------------------------------------------------------------------

\* The state of every component has the types its module states.
DerivedTypes ==
  CASE focus = "index" -> LibraryTypeOK
    [] focus = "titles" -> InferenceTypeOK
    [] focus = "metadata" -> EmbeddedMetadataTypeOK
    [] focus = "streams" -> HLSTypeOK
    [] focus = "claims" -> DOMAIN queue \subseteq 1 .. Capacity

\* What is stored about a file is about that file: a hash that counts as valid
\* (file_hash.go), a metadata row that does not say it is stale
\* (metadata_tasks.go), a manifest that offers variants (hls_preview_service.go);
\* each unless one of the overlaps that its module names has come between.
DerivedFits ==
  CASE focus = "index" -> TrustedHashFits
    [] focus = "metadata" -> RowsTruthful
    [] focus = "streams" -> OfferedPlays /\ SuccessIsOffered
    [] OTHER -> TRUE

\* No automatic step undoes a person's: the scan leaves deleted rows deleted
\* (library/service.go), inference leaves corrected titles (inference.go).
PersonsPrevail == [][SparesDeleted /\ CorrectionStays]_derivedVars

Owed(i) ==
  CASE focus = "titles" -> i \in Media
    [] focus = "metadata" -> i \in Parsed /\ ChangeScanned(i)
    [] focus = "streams" -> i \in Streams /\ RebuildAsked(i)
    [] focus = "claims" -> i \in Priority /\ Waiting(i)
    [] OTHER -> FALSE

Given(i) ==
  CASE focus = "titles" -> Inferred(i)
    [] focus = "metadata" -> i \in Parsed => ChangeParsed(i)
    [] focus = "streams" -> RebuildDone(i)
    [] focus = "claims" -> last = i
    [] OTHER -> TRUE

\* Everything derived catches up with the files over a crash or a failure
\* anywhere: MissingIsInferred, MetadataRefreshes, RebuildSucceeds and
\* NoStarvation of the modules, as one formula for what is in focus.
DerivedCatchesUp == \A i \in 1 .. 2 : Owed(i) ~> Given(i)
=============================================================================
