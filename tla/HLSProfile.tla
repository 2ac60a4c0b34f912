----------------------------- MODULE HLSProfile -----------------------------
(***************************************************************************)
(* The directory of one HLS profile of one media, and all that writes to   *)
(* it: the tasks that transcode it (transcode.hls, with one playlist, and  *)
(* transcode.hls.abr, with a ladder of variants), the cache clean and the  *)
(* cache inventory.  Tasks with different ladders have different keys but  *)
(* the same directory, and a task that was canceled is finished while its  *)
(* handler may still be at work, so two handlers can meet in there.        *)
(***************************************************************************)
EXTENDS Faults, FiniteSets

CONSTANTS Streams,        \* tasks of the profile, as numbered
          Transcoders,    \* workers that may run one at the same time
          Variants,       \* variants a ladder may have
          StreamAttempts  \* attempts of a task (3 in the code)

ASSUME HLSAssumption ==
  /\ Variants # {} /\ IsFiniteSet(Variants) /\ "whole" \notin Variants /\ "master" \notin Variants
  /\ Streams \subseteq Nat \ {0}
  /\ StreamAttempts \in Nat \ {0}

VARIABLES
  adaptive,   \* the profile is abr-h264
  stream,     \* stream[s]: the task
  directory,  \* [there, parts, master]: the variants complete on disk, and
              \* those the manifest names, {} when there is no manifest
  assets,     \* rows of cache_assets: "whole", "master" and variants
  transcoder, \* transcoder[t]: the run of a worker, with what its task asked
  cleaning,   \* the clean: [at, left, gone], what it has listed and deleted
  excuse      \* history: "met" once two writers met in the directory, "cut"
              \* while a clean has ended between the assets of a manifest

hlsVars == <<adaptive, stream, directory, assets, transcoder, cleaning, excuse, mishaps>>

Ladders == (SUBSET Variants) \ {{}}
AssetNames == Variants \cup {"whole", "master"}
NoStream == [at |-> "none", force |-> FALSE, ladder |-> {}, tries |-> 0]
NoRun == [of |-> 0, at |-> "idle", force |-> FALSE, ladder |-> {}]
EndedAs(how) == [NoStream EXCEPT !.at = how]  \* what it was asked is over
NoClean == [at |-> "idle", left |-> {}, gone |-> {}]
NoDirectory == [there |-> FALSE, parts |-> {}, master |-> {}]
EmptyDirectory == [NoDirectory EXCEPT !.there = TRUE]

HLSTypeOK ==
  /\ adaptive \in BOOLEAN
  /\ stream \in [Streams -> [at : {"none", "pending", "running", "succeeded", "failed",
                                   "canceled"},
                             force : BOOLEAN, ladder : SUBSET Variants,
                             tries : 0 .. StreamAttempts - 1]]
  /\ directory \in [there : BOOLEAN, parts : SUBSET Variants, master : SUBSET Variants]
  /\ assets \subseteq AssetNames
  /\ transcoder \in [Transcoders ->
       [of : Streams \cup {0},
        at : {"idle", "look", "prepare", "forget", "reset", "encode", "verify", "master",
              "register", "succeed", "fail"},
        force : BOOLEAN, ladder : SUBSET Variants]]
  /\ cleaning \in [at : {"idle", "deleting"}, left : SUBSET AssetNames,
                   gone : SUBSET AssetNames]
  /\ excuse \in {"none", "cut", "met"}
  /\ mishaps \in 0 .. MaxMishaps

HLSInit ==
  /\ adaptive \in BOOLEAN
  /\ stream = [s \in Streams |-> NoStream]
  /\ directory = NoDirectory
  /\ assets = {}
  /\ transcoder = [t \in Transcoders |-> NoRun]
  /\ cleaning = NoClean
  /\ excuse = "none"

-----------------------------------------------------------------------------
Unended == {"pending", "running"}

(* The key of an adaptive task has its ladder in it.                       *)
SameStream(ladder, other) == adaptive => ladder = other

(* An unfinished task of the same key answers for a new one.               *)
EnqueueStream(s, force, ladder) ==
  /\ stream[s].at = "none"
  /\ \A r \in Streams : r < s => stream[r].at # "none"
  /\ \A r \in Streams : stream[r].at \in Unended => ~SameStream(stream[r].ladder, ladder)
  /\ ~adaptive => Cardinality(ladder) = 1
  /\ stream' = [stream EXCEPT ![s] =
                  [at |-> "pending", force |-> force, ladder |-> ladder, tries |-> 0]]
  /\ UNCHANGED <<adaptive, directory, assets, transcoder, cleaning, excuse>> /\ Smooth

(* A cancel ends the task at once; the handler sees it at its next call.   *)
CancelStream(s) ==
  /\ stream[s].at \in Unended
  /\ stream' = [stream EXCEPT ![s] = EndedAs("canceled")]
  /\ UNCHANGED <<adaptive, directory, assets, transcoder, cleaning, excuse>> /\ Smooth

-----------------------------------------------------------------------------
(* The handler of a task.                                                  *)

RunTo(t, at) == transcoder' = [transcoder EXCEPT ![t].at = at]
RunningStream(t) == stream[transcoder[t].of].at = "running"
Writers == {t \in Transcoders : transcoder[t].at # "idle"}

(* Only what a run does to the directory from here on.                     *)
RunOnly == UNCHANGED <<adaptive, stream, cleaning, excuse>>

TakeStream(t, s) ==
  /\ transcoder[t] = NoRun /\ stream[s].at = "pending"
  /\ stream' = [stream EXCEPT ![s].at = "running"]
  /\ transcoder' = [transcoder EXCEPT ![t] =
       [of |-> s, at |-> "look", force |-> stream[s].force, ladder |-> stream[s].ladder]]
  /\ excuse' = IF Writers # {} \/ cleaning # NoClean THEN "met" ELSE excuse
  /\ UNCHANGED <<adaptive, directory, assets, cleaning>> /\ Smooth

(* A manifest that is there is used as it is, unless a rebuild was asked   *)
(* for.                                                                    *)
IsBuilt_AnyFile(d) == d.there
IsBuilt(d) == d.master # {}

LookForManifest(t) ==
  /\ transcoder[t].at = "look"
  /\ RunTo(t, IF IsBuilt(directory) /\ ~transcoder[t].force
              THEN "register" ELSE "prepare")
  /\ UNCHANGED <<directory, assets>> /\ Smooth /\ RunOnly

(* PrepareHLSRebuild: the files, then the rows of them.                    *)
PrepareHLSRebuild(t) ==
  /\ transcoder[t].at = "prepare"
  /\ \/ directory' = NoDirectory /\ RunTo(t, "forget") /\ Smooth
     \/ UNCHANGED directory /\ RunTo(t, "fail") /\ Mishap
  /\ excuse' = IF excuse = "cut" /\ directory' = NoDirectory THEN "none" ELSE excuse
  /\ UNCHANGED <<adaptive, stream, assets, cleaning>>

(* Then an adaptive task writes its progress.                              *)
ForgetAssets(t) ==
  /\ transcoder[t].at = "forget"
  /\ \/ /\ assets' = {}
        /\ RunTo(t, IF adaptive /\ ~RunningStream(t) THEN "fail" ELSE "reset") /\ Smooth
     \/ UNCHANGED assets /\ RunTo(t, "fail") /\ Mishap
  /\ UNCHANGED directory /\ RunOnly

ResetHLSOutputDir_ManifestFirst(t) ==
  /\ transcoder[t].at = "reset"
  /\ directory' = [EmptyDirectory EXCEPT !.master = transcoder[t].ladder]
  /\ RunTo(t, "encode")
  /\ UNCHANGED assets /\ Smooth /\ RunOnly

ResetHLSOutputDir(t) ==
  /\ transcoder[t].at = "reset"
  /\ directory' = EmptyDirectory
  /\ RunTo(t, "encode")
  /\ UNCHANGED assets /\ Smooth /\ RunOnly

(* Every failure from here on removes the directory.                       *)
GivesUp(t) == directory' = NoDirectory /\ RunTo(t, "fail")

(* FFmpeg writes the playlists.  It is stopped by a cancel and fails where *)
(* its directory has gone.  Where the hardware fails it is tried in        *)
(* software, which starts from an empty directory again.                   *)
Encode(t) ==
  /\ transcoder[t].at = "encode"
  /\ \/ /\ directory.there
        /\ directory' = [directory EXCEPT !.parts = @ \cup transcoder[t].ladder]
        /\ RunTo(t, "verify") /\ Smooth
     \/ GivesUp(t) /\ MishapIf(directory.there /\ RunningStream(t))
  /\ UNCHANGED assets /\ RunOnly

VerifyOutputs(t) ==
  /\ transcoder[t].at = "verify"
  /\ IF transcoder[t].ladder \subseteq directory.parts
     THEN RunTo(t, "master") /\ UNCHANGED directory
     ELSE GivesUp(t)
  /\ UNCHANGED assets /\ Smooth /\ RunOnly

(* The manifest comes last; then an adaptive task writes its progress.     *)
WriteMaster(t) ==
  /\ transcoder[t].at = "master"
  /\ \/ /\ directory.there
        /\ directory' = [directory EXCEPT !.master = transcoder[t].ladder]
        /\ RunTo(t, IF adaptive /\ ~RunningStream(t) THEN "fail" ELSE "register") /\ Smooth
     \/ GivesUp(t) /\ MishapIf(directory.there)
  /\ UNCHANGED assets /\ RunOnly

(* registerABRAssets: the manifest, then each variant of the ladder;       *)
(* otherwise the directory as a whole.                                     *)
PlaylistsOnDisk == directory.parts \cup (IF directory.master # {} THEN {"master"} ELSE {})
            \cup (IF directory.there THEN {"whole"} ELSE {})
Wanted(t) == IF adaptive THEN transcoder[t].ladder \cup {"master"} ELSE {"whole"}

RegisterAssets(t) ==
  LET wanted == Wanted(t) IN
  /\ transcoder[t].at = "register"
  /\ \/ /\ wanted \subseteq PlaylistsOnDisk
        /\ assets' = assets \cup wanted /\ RunTo(t, "succeed") /\ Smooth
     \/ /\ \E some \in SUBSET (wanted \cap PlaylistsOnDisk) :
             /\ some = {} \/ some \cap {"master", "whole"} # {}
             /\ assets' = assets \cup some
        /\ RunTo(t, "fail") /\ MishapIf(wanted \subseteq PlaylistsOnDisk)
  /\ UNCHANGED directory /\ RunOnly

AttemptsRemain_OneMore(tries) == tries < StreamAttempts
AttemptsRemain(tries) == tries + 1 < StreamAttempts

EndStream(t) ==
  LET s == transcoder[t].of
      ended == IF transcoder[t].at = "succeed" THEN EndedAs("succeeded")
               ELSE IF ~AttemptsRemain(stream[s].tries) THEN EndedAs("failed")
               ELSE [stream[s] EXCEPT !.at = "pending", !.tries = @ + 1]
  IN  /\ transcoder[t].at \in {"succeed", "fail"}
      /\ stream' = IF stream[s].at # "running" THEN stream
                   ELSE [stream EXCEPT ![s] = ended]
      /\ transcoder' = [transcoder EXCEPT ![t] = NoRun]
      /\ UNCHANGED <<adaptive, directory, assets, cleaning, excuse>> /\ Smooth

-----------------------------------------------------------------------------
Cut == excuse' = IF excuse = "none" THEN "cut" ELSE excuse

(* The clean lists the rows in the order of their paths: the directory as  *)
(* a whole, its variants, the manifest.                                    *)
StartHLSClean ==
  /\ cleaning = NoClean /\ assets # {}
  /\ cleaning' = [at |-> "deleting", left |-> assets, gone |-> {}]
  /\ excuse' = IF Writers # {} THEN "met" ELSE excuse
  /\ UNCHANGED <<adaptive, stream, directory, assets, transcoder>> /\ Smooth

NextAsset ==
  IF "whole" \in cleaning.left THEN {"whole"}
  ELSE IF cleaning.left \cap Variants # {} THEN cleaning.left \cap Variants
  ELSE cleaning.left

(* An asset whose files cannot be deleted is skipped and keeps its row.    *)
DeleteOrdinaryAsset(a) ==
  /\ cleaning.at = "deleting" /\ a \in NextAsset
  /\ \/ /\ directory' = CASE a = "whole"  -> NoDirectory
                          [] a = "master" -> [directory EXCEPT !.master = {}]
                          [] OTHER        -> [directory EXCEPT !.parts = @ \ {a}]
        /\ cleaning' = [cleaning EXCEPT !.left = @ \ {a}, !.gone = @ \cup {a}]
        /\ UNCHANGED excuse /\ Smooth
     \/ /\ cleaning' = [cleaning EXCEPT !.left = @ \ {a}]
        /\ Cut
        /\ UNCHANGED directory /\ Mishap
  /\ UNCHANGED <<adaptive, stream, assets, transcoder>>

(* The rows go at the end, all in one statement.                           *)
DeleteAssetRows ==
  /\ cleaning.at = "deleting" /\ cleaning.left = {}
  /\ assets' = assets \ cleaning.gone
  /\ cleaning' = NoClean
  /\ UNCHANGED <<adaptive, stream, directory, transcoder, excuse>> /\ Smooth

(* A cancel stops it before the next asset, and leaves every row.          *)
CancelClean ==
  /\ cleaning.at = "deleting" /\ Mishap
  /\ cleaning' = NoClean
  /\ Cut
  /\ UNCHANGED <<adaptive, stream, directory, assets, transcoder>>

InventoryHLS ==
  /\ directory.master # {}
  /\ assets' = assets \cup {"whole"}
  /\ UNCHANGED <<adaptive, stream, directory, transcoder, cleaning, excuse>> /\ Smooth

-----------------------------------------------------------------------------
Recovered_NotAtAll(s) == stream[s]
Recovered(s) == IF stream[s].at = "running" THEN [stream[s] EXCEPT !.at = "pending"]
                ELSE stream[s]

HLSCrash ==
  /\ Mishap
  /\ stream' = [s \in Streams |-> Recovered(s)]
  /\ transcoder' = [t \in Transcoders |-> NoRun]
  /\ cleaning' = NoClean
  /\ IF cleaning # NoClean THEN Cut ELSE UNCHANGED excuse
  /\ UNCHANGED <<adaptive, directory, assets>>

RunStep(t) ==
  \/ \E s \in Streams : TakeStream(t, s)
  \/ LookForManifest(t) \/ PrepareHLSRebuild(t) \/ ForgetAssets(t) \/ ResetHLSOutputDir(t)
  \/ Encode(t) \/ VerifyOutputs(t) \/ WriteMaster(t) \/ RegisterAssets(t) \/ EndStream(t)

HLSNext ==
  \/ \E s \in Streams : \/ \E force \in BOOLEAN, ladder \in Ladders :
                             EnqueueStream(s, force, ladder)
                        \/ CancelStream(s)
  \/ \E t \in Transcoders : RunStep(t)
  \/ StartHLSClean \/ (\E a \in AssetNames : DeleteOrdinaryAsset(a)) \/ DeleteAssetRows
  \/ CancelClean \/ InventoryHLS \/ HLSCrash

HLSFairness == \A t \in Transcoders : WF_hlsVars(RunStep(t))

HLSSpec == HLSInit /\ mishaps = 0 /\ [][HLSNext]_hlsVars /\ HLSFairness

-----------------------------------------------------------------------------
(* A manifest that a viewer is offered plays: every variant it names is    *)
(* complete on disk.  A run that fails, is canceled or dies anywhere never *)
(* leaves one with variants missing, and what it leaves is never taken for *)
(* a finished one.  Not so where two writers met, or a clean deletes the   *)
(* variants and has not come to the manifest.                              *)
OfferedPlays ==
  \/ directory.master \subseteq directory.parts
  \/ excuse # "none" \/ cleaning # NoClean

(* The handler of a task that is about to succeed has its manifest.        *)
SuccessIsOffered ==
  \A t \in Transcoders : transcoder[t].at = "succeed" =>
    directory.master # {} \/ excuse = "met" \/ cleaning # NoClean

RebuildAsked(s) == stream[s].at = "pending" /\ stream[s].force
RebuildDone(s) == stream[s].at \in {"succeeded", "canceled"} \/ excuse = "met"

(* A forced rebuild succeeds in the end, unless it is canceled, as long as *)
(* the failures it can meet are fewer than its attempts; a task that has   *)
(* used up its attempts ends failed.                                       *)
RebuildSucceeds == \A s \in Streams : RebuildAsked(s) ~> RebuildDone(s)
=============================================================================
