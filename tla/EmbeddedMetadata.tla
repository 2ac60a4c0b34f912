-------------------------- MODULE EmbeddedMetadata --------------------------
(***************************************************************************)
(* The metadata read out of the media files: rows of media_metadata with   *)
(* their stale mark, the parse tasks (metadata.parse) a scan's change hook *)
(* and a manual refresh enqueue under the fingerprint of the file, and the *)
(* backfill (metadata.backfill) that parses every file from a checkpoint.  *)
(* A fingerprint stands for the content of a file; a file is known by its  *)
(* number, as the backfill orders them.                                    *)
(***************************************************************************)
EXTENDS Faults

CONSTANTS Parsed,          \* media files
          ParseWorkers,    \* workers of metadata.parse (2 in the code)
          MaxContentTurns, \* changes of one file
          MetaAttempts     \* attempts of a task (3 in the code)

ASSUME EmbeddedMetadataAssumption ==
  /\ Parsed \subseteq Nat \ {0} /\ MaxContentTurns \in Nat
  /\ MetaAttempts \in Nat \ {0} /\ "backfill" \notin ParseWorkers

VARIABLES
  ondisk,     \* ondisk[m]: content of the file
  scanned,    \* scanned[m]: fingerprint in media_files
  metaRow,    \* metaRow[m]: [of, stale], the row and the chapters
  changeHook, \* the hook of the scan: [at, media]
  refresh,    \* a refresh that is asked for: [at, media, print]
  parseTask,  \* parseTask[m][v]: [at, tries], the task with fingerprint v
  backfill,   \* the backfill task: [at, tries, last], last its checkpoint
  parser,     \* parser[k]: what a worker is at
  overtaken,  \* history: media whose row was stored after a newer scan
  missed      \* history: media whose row was not marked after a change

metadataVars == <<ondisk, scanned, metaRow, changeHook, refresh, parseTask, backfill, parser,
                  overtaken, missed, mishaps>>

ContentTurns == 0 .. MaxContentTurns
NoMetaRow == [of |-> MaxContentTurns + 1, stale |-> FALSE]
NoHook == [at |-> "idle", media |-> 0]
NoRefresh == [at |-> "idle", media |-> 0, print |-> 0]
NoParseTask == [at |-> "none", tries |-> 0]
NoParser == [at |-> "idle", media |-> 0, expects |-> {}, got |-> 0]
MetadataWorkers == ParseWorkers \cup {"backfill"}

EmbeddedMetadataTypeOK ==
  /\ ondisk \in [Parsed -> ContentTurns] /\ scanned \in [Parsed -> ContentTurns]
  /\ \A m \in Parsed : scanned[m] <= ondisk[m]
  /\ metaRow \in [Parsed -> [of : 0 .. MaxContentTurns + 1, stale : BOOLEAN]]
  /\ changeHook \in [at : {"idle", "mark", "enqueue"}, media : Parsed \cup {0}]
  /\ refresh \in [at : {"idle", "mark", "enqueue"}, media : Parsed \cup {0}, print : ContentTurns]
  /\ parseTask \in [Parsed -> [ContentTurns ->
       [at : {"none", "pending", "running"}, tries : 0 .. MetaAttempts - 1]]]
  /\ backfill \in [at : {"none", "pending", "running"}, tries : 0 .. MetaAttempts - 1,
                   last : Parsed \cup {0}]
  /\ parser \in [MetadataWorkers ->
       [at : {"idle", "next", "parse", "check", "store", "save", "fail", "end"},
        media : Parsed \cup {0}, expects : SUBSET ContentTurns, got : ContentTurns]]
  /\ overtaken \subseteq Parsed /\ missed \subseteq Parsed
  /\ mishaps \in 0 .. MaxMishaps

EmbeddedMetadataInit ==
  /\ ondisk = [m \in Parsed |-> 0] /\ scanned = [m \in Parsed |-> 0]
  /\ metaRow = [m \in Parsed |-> NoMetaRow]
  /\ changeHook = NoHook /\ refresh = NoRefresh
  /\ parseTask = [m \in Parsed |-> [v \in ContentTurns |-> NoParseTask]]
  /\ backfill = [at |-> "none", tries |-> 0, last |-> 0]
  /\ parser = [k \in MetadataWorkers |-> NoParser]
  /\ overtaken = {} /\ missed = {}

-----------------------------------------------------------------------------
(* Files change, the scan takes the change into media_files, and its hook  *)
(* then marks the row and enqueues the parse of what media_files has now.  *)

ChangeFile(m) ==
  /\ ondisk[m] < MaxContentTurns
  /\ ondisk' = [ondisk EXCEPT ![m] = @ + 1]
  /\ UNCHANGED <<scanned, metaRow, changeHook, refresh, parseTask, backfill, parser, overtaken,
                 missed>>
  /\ Smooth

ScanFile(m) ==
  /\ changeHook = NoHook /\ scanned[m] # ondisk[m]
  /\ scanned' = [scanned EXCEPT ![m] = ondisk[m]]
  /\ changeHook' = [at |-> "mark", media |-> m]
  /\ UNCHANGED <<ondisk, metaRow, refresh, parseTask, backfill, parser, overtaken, missed>> /\ Smooth

Marked_Keeps(row) == row
Marked(row) == IF row = NoMetaRow THEN row ELSE [row EXCEPT !.stale = TRUE]

(* What is left unsaid when the hook goes no further.                      *)
Unsaid == IF changeHook.at = "mark" THEN {changeHook.media} ELSE {}

(* An error is logged and ends the hook.                                   *)
HookGivesUp == changeHook' = NoHook /\ missed' = missed \cup Unsaid /\ Mishap

HookMarksStale ==
  LET m == changeHook.media IN
  /\ changeHook.at = "mark"
  /\ \/ /\ metaRow' = [metaRow EXCEPT ![m] = Marked(@)]
        /\ changeHook' = [changeHook EXCEPT !.at = "enqueue"] /\ UNCHANGED missed /\ Smooth
     \/ HookGivesUp /\ UNCHANGED metaRow
  /\ UNCHANGED <<ondisk, scanned, refresh, parseTask, backfill, parser, overtaken>>

(* The key has the fingerprint in it: a task for an older one is another.  *)
Enqueued_ByMedia(m, v) ==
  IF \E u \in ContentTurns : parseTask[m][u].at # "none" THEN parseTask
  ELSE [parseTask EXCEPT ![m][v].at = "pending"]
Enqueued(m, v) ==
  [parseTask EXCEPT ![m][v].at = IF @ = "none" THEN "pending" ELSE @]

HookEnqueues ==
  LET m == changeHook.media IN
  /\ changeHook.at = "enqueue"
  /\ \/ /\ parseTask' = Enqueued(m, scanned[m])
        /\ changeHook' = NoHook /\ UNCHANGED missed /\ Smooth
     \/ HookGivesUp /\ UNCHANGED parseTask
  /\ UNCHANGED <<ondisk, scanned, metaRow, refresh, backfill, parser, overtaken>>

(* A request to refresh loads the media, marks its row, and enqueues the   *)
(* parse under the fingerprint it has loaded; an error ends it.            *)
RefreshMediaMetadata(m) ==
  /\ refresh = NoRefresh
  /\ refresh' = [at |-> "mark", media |-> m, print |-> scanned[m]]
  /\ UNCHANGED <<ondisk, scanned, metaRow, changeHook, parseTask, backfill, parser, overtaken,
                 missed>>
  /\ Smooth

RefreshMarksStale ==
  /\ refresh.at = "mark"
  /\ \/ /\ metaRow' = [metaRow EXCEPT ![refresh.media] = Marked(@)]
        /\ refresh' = [refresh EXCEPT !.at = "enqueue"] /\ Smooth
     \/ refresh' = NoRefresh /\ UNCHANGED metaRow /\ Mishap
  /\ UNCHANGED <<ondisk, scanned, changeHook, parseTask, backfill, parser, overtaken, missed>>

RefreshEnqueues ==
  /\ refresh.at = "enqueue" /\ refresh' = NoRefresh
  /\ \/ parseTask' = Enqueued(refresh.media, refresh.print) /\ Smooth
     \/ UNCHANGED parseTask /\ Mishap
  /\ UNCHANGED <<ondisk, scanned, metaRow, changeHook, backfill, parser, overtaken, missed>>

BackfillMediaMetadata ==
  /\ backfill.at = "none"
  /\ backfill' = [at |-> "pending", tries |-> 0, last |-> 0]
  /\ UNCHANGED <<ondisk, scanned, metaRow, changeHook, refresh, parseTask, parser, overtaken,
                 missed>>
  /\ Smooth

-----------------------------------------------------------------------------
(* The workers.                                                            *)
ParserAt(k, at) == parser' = [parser EXCEPT ![k].at = at]
MetadataInputs == <<ondisk, scanned, changeHook, refresh, missed>>

(* A task of a fingerprint that is no longer that of the media is over.    *)
MatchesFingerprint(expects, m) == expects = {} \/ scanned[m] \in expects

TakeParse(k, m, v) ==
  /\ k # "backfill" /\ parser[k] = NoParser /\ parseTask[m][v].at = "pending"
  /\ parseTask' = [parseTask EXCEPT ![m][v].at = "running"]
  /\ parser' = [parser EXCEPT ![k] =
       [NoParser EXCEPT !.at = IF MatchesFingerprint({v}, m) THEN "parse" ELSE "end",
                        !.media = m, !.expects = {v}]]
  /\ UNCHANGED <<MetadataInputs, metaRow, backfill, overtaken>> /\ Smooth

TakeBackfill ==
  /\ backfill.at = "pending" /\ parser["backfill"] = NoParser
  /\ backfill' = [backfill EXCEPT !.at = "running"]
  /\ ParserAt("backfill", "next")
  /\ UNCHANGED <<MetadataInputs, metaRow, parseTask, overtaken>> /\ Smooth

(* The next file after the checkpoint; at the end, the task has succeeded. *)
NextMedia ==
  LET later == {m \in Parsed : m > backfill.last}
      next == CHOOSE m \in later : \A n \in later : m <= n
  IN  /\ parser["backfill"].at = "next"
      /\ IF later = {} THEN ParserAt("backfill", "end")
         ELSE parser' = [parser EXCEPT !["backfill"].at = "parse", !["backfill"].media = next]
      /\ UNCHANGED <<MetadataInputs, metaRow, parseTask, backfill, overtaken>> /\ Smooth

(* The parser reads the file itself.                                       *)
ParseFile(k) ==
  /\ parser[k].at = "parse"
  /\ \/ parser' = [parser EXCEPT ![k].at = "check", ![k].got = ondisk[parser[k].media]]
        /\ Smooth
     \/ ParserAt(k, "fail") /\ Mishap
  /\ UNCHANGED <<MetadataInputs, metaRow, parseTask, backfill, overtaken>>

(* The fingerprint is asked once more; a backfill expects none.            *)
CheckAgain(k) ==
  /\ parser[k].at = "check"
  /\ ParserAt(k, IF MatchesFingerprint(parser[k].expects, parser[k].media)
                 THEN "store" ELSE "end")
  /\ UNCHANGED <<MetadataInputs, metaRow, parseTask, backfill, overtaken>> /\ Smooth

(* The row, the chapters and the columns of the media in one transaction.  *)
UpsertMetadata(k) ==
  LET m == parser[k].media IN
  /\ parser[k].at = "store"
  /\ \/ /\ metaRow' = [metaRow EXCEPT ![m] = [of |-> parser[k].got, stale |-> FALSE]]
        /\ overtaken' = IF parser[k].got < scanned[m] THEN overtaken \cup {m}
                        ELSE overtaken \ {m}
        /\ ParserAt(k, IF k = "backfill" THEN "save" ELSE "end") /\ Smooth
     \/ ParserAt(k, "fail") /\ UNCHANGED <<metaRow, overtaken>> /\ Mishap
  /\ UNCHANGED <<MetadataInputs, parseTask, backfill>>

(* A backfill stores its checkpoint and goes on.                           *)
SaveCheckpoint ==
  /\ parser["backfill"].at = "save"
  /\ \/ /\ backfill' = [backfill EXCEPT !.last = parser["backfill"].media]
        /\ parser' = [parser EXCEPT !["backfill"] = [NoParser EXCEPT !.at = "next"]] /\ Smooth
     \/ ParserAt("backfill", "fail") /\ UNCHANGED backfill /\ Mishap
  /\ UNCHANGED <<MetadataInputs, metaRow, parseTask, overtaken>>

AfterRun(task, succeeded, nothing) ==
  IF succeeded \/ task.tries + 1 = MetaAttempts THEN nothing
  ELSE [task EXCEPT !.at = "pending", !.tries = @ + 1]

EndParse(k) ==
  LET m == parser[k].media
      done == parser[k].at = "end"
  IN  /\ parser[k].at \in {"end", "fail"}
      /\ parser' = [parser EXCEPT ![k] = NoParser]
      /\ IF k = "backfill"
         THEN /\ backfill' = AfterRun(backfill, done, [at |-> "none", tries |-> 0, last |-> 0])
              /\ UNCHANGED parseTask
         ELSE /\ parseTask' = [v \in ContentTurns |-> [parseTask EXCEPT ![m][v] =
                                 AfterRun(@, done, NoParseTask)]][CHOOSE v \in parser[k].expects : TRUE]
              /\ UNCHANGED backfill
      /\ UNCHANGED <<MetadataInputs, metaRow, overtaken>> /\ Smooth

(* What was running is pending again; hook and refresh on their way are lost. *)
MetadataCrash ==
  LET again(task) == IF task.at = "running" THEN [task EXCEPT !.at = "pending"] ELSE task IN
  /\ Mishap
  /\ parseTask' = [m \in Parsed |-> [v \in ContentTurns |-> again(parseTask[m][v])]]
  /\ backfill' = again(backfill)
  /\ parser' = [k \in MetadataWorkers |-> NoParser]
  /\ changeHook' = NoHook /\ refresh' = NoRefresh
  /\ missed' = missed \cup Unsaid
  /\ UNCHANGED <<ondisk, scanned, metaRow, overtaken>>

ParserStep(k) ==
  \/ \E m \in Parsed, v \in ContentTurns : TakeParse(k, m, v)
  \/ k = "backfill" /\ (TakeBackfill \/ NextMedia \/ SaveCheckpoint)
  \/ ParseFile(k) \/ CheckAgain(k) \/ UpsertMetadata(k) \/ EndParse(k)

EmbeddedMetadataNext ==
  \/ \E m \in Parsed : ChangeFile(m) \/ ScanFile(m) \/ RefreshMediaMetadata(m)
  \/ HookMarksStale \/ HookEnqueues \/ RefreshMarksStale \/ RefreshEnqueues
  \/ BackfillMediaMetadata \/ MetadataCrash
  \/ \E k \in MetadataWorkers : ParserStep(k)

EmbeddedMetadataFairness ==
  /\ WF_metadataVars(HookMarksStale \/ HookEnqueues)
  /\ \A k \in MetadataWorkers : WF_metadataVars(ParserStep(k))

EmbeddedMetadataSpec ==
  /\ EmbeddedMetadataInit /\ mishaps = 0
  /\ [][EmbeddedMetadataNext]_metadataVars /\ EmbeddedMetadataFairness

-----------------------------------------------------------------------------
RowFresh(m) == metaRow[m].of = ondisk[m]
BeingMarked(m) == changeHook = [at |-> "mark", media |-> m]

(* A row that does not say it is stale is of what the file contains,       *)
(* unless the scan has not seen the change or its hook is about to mark    *)
(* the row.  Not so where a parse of an older content was stored after the *)
(* scan of a newer one, between the last question for the fingerprint and  *)
(* the transaction or by a backfill, which expects none, nor where the     *)
(* hook failed to mark the row, which is only logged.                      *)
RowsTruthful ==
  \A m \in Parsed :
    \/ metaRow[m] = NoMetaRow \/ metaRow[m].stale \/ RowFresh(m)
    \/ scanned[m] # ondisk[m] \/ BeingMarked(m)
    \/ m \in overtaken \cup missed

ChangeScanned(m) == scanned[m] > 0 /\ mishaps = 0
ChangeParsed(m) == RowFresh(m) \/ scanned[m] # ondisk[m] \/ m \in overtaken \/ mishaps > 0

(* A change that was scanned is parsed in the end.                         *)
MetadataRefreshes == \A m \in Parsed : ChangeScanned(m) ~> ChangeParsed(m)
=============================================================================
