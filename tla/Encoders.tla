------------------------------ MODULE Encoders ------------------------------
(***************************************************************************)
(* Which encoders of the current FFmpeg work: the snapshot transcodes      *)
(* choose from, the rows of codec_probe_cache behind it, and the requests  *)
(* that probe, read and publish while settings and the tool installer      *)
(* change the path.  A build of FFmpeg is the set of hardware families     *)
(* that work with it; the identity of a row is the path and the build.     *)
(* Families are numbers, the preferred one first; 0 is software.           *)
(***************************************************************************)
EXTENDS Faults

CONSTANTS Probers,        \* requests that may be served at the same time
          FFmpegs,        \* paths
          Families,       \* hardware families
          MaxPathChanges  \* bound on SetFFmpegPath

ASSUME EncodersAssumption ==
  Families \subseteq Nat \ {0} /\ MaxPathChanges \in Nat /\ FFmpegs # {}

VARIABLES
  builds,    \* builds[p]: the build at a path
  ffmpeg,    \* [path, generation], under ffmpegPathMu
  snapshot,  \* probeSnapshot: [of, works], of = <<>> when there is none
  probed,    \* rows of codec_probe_cache: [key, works]
  prober,    \* prober[r]: a request to the capability service
  encoding,  \* a transcode: whether it may fall back, and its choice
  swapped    \* history: a file was replaced under a request (for good), or
             \* since the path was set last

encoderVars == <<builds, ffmpeg, snapshot, probed, prober, encoding, swapped, mishaps>>

Builds == SUBSET Families
Identities == FFmpegs \X Builds
Unidentified == {<<p>> : p \in FFmpegs}
NoSnapshot == [of |-> <<>>, works |-> {}]
NoProber == [at |-> "idle", force |-> FALSE, generation |-> 0, key |-> <<>>, works |-> {}]
NoEncoding == [at |-> "idle", fallback |-> FALSE, encoder |-> 0]

EncodersTypeOK ==
  /\ builds \in [FFmpegs -> Builds]
  /\ ffmpeg \in [path : FFmpegs, generation : 0 .. MaxPathChanges]
  /\ snapshot \in [of : FFmpegs \cup {<<>>}, works : Builds]
  /\ probed \subseteq [key : Identities, works : Builds]
  /\ \A a, b \in probed : a.key = b.key => a = b
  /\ prober \in [Probers ->
       [at : {"idle", "asked", "read", "probe", "save", "publish"}, force : BOOLEAN,
        generation : 0 .. MaxPathChanges, key : Identities \cup Unidentified \cup {<<>>},
        works : Builds]]
  /\ \A r, q \in Probers :  \* the mutex of the service
       {prober[r].at, prober[q].at} \cap {"idle", "asked"} = {} => r = q
  /\ encoding \in [at : {"idle", "chosen", "failed"}, fallback : BOOLEAN,
                   encoder : Families \cup {0}]
  /\ swapped \in {"no", "until set", "for good"}
  /\ mishaps \in 0 .. MaxMishaps

EncodersInit ==
  /\ builds \in [FFmpegs -> Builds]
  /\ ffmpeg = [path |-> CHOOSE p \in FFmpegs : TRUE, generation |-> 0]
  /\ snapshot = NoSnapshot
  /\ probed = {}
  /\ prober = [r \in Probers |-> NoProber]
  /\ encoding = NoEncoding
  /\ swapped = "no"

-----------------------------------------------------------------------------
(* Saved settings and installed tools set the path; that takes no lock of  *)
(* the service.                                                            *)
SetFFmpegPath(p) ==
  /\ ffmpeg.generation < MaxPathChanges
  /\ ffmpeg' = [path |-> p, generation |-> ffmpeg.generation + 1]
  /\ snapshot' = NoSnapshot
  /\ swapped' = IF swapped = "until set" THEN "no" ELSE swapped
  /\ UNCHANGED <<builds, probed, prober, encoding>> /\ Smooth

(* The installer, or somebody, puts another build in the same place.       *)
ReplaceBuild(p, b) ==
  /\ Mishap /\ builds[p] # b
  /\ builds' = [builds EXCEPT ![p] = b]
  /\ swapped' = IF \E r \in Probers : prober[r].at # "idle" THEN "for good"
                ELSE IF swapped = "no" THEN "until set" ELSE swapped
  /\ UNCHANGED <<ffmpeg, snapshot, probed, prober, encoding>>

-----------------------------------------------------------------------------
(* The requests.  Path and generation are read together, before the mutex. *)
(* `-version` may fail: the build is not identified then, nothing cached.  *)
AskCapabilities(r, force) ==
  /\ prober[r].at = "idle"
  /\ \E key \in {<<ffmpeg.path, builds[ffmpeg.path]>>, <<ffmpeg.path>>} :
       /\ prober' = [prober EXCEPT ![r] = [NoProber EXCEPT
                       !.at = "asked", !.force = force, !.key = key,
                       !.generation = ffmpeg.generation]]
       /\ IF key \in Unidentified THEN Mishap ELSE Smooth
  /\ UNCHANGED <<builds, ffmpeg, snapshot, probed, encoding, swapped>>

EnterService(r) ==
  /\ prober[r].at = "asked" /\ \A q \in Probers : prober[q].at \in {"idle", "asked"}
  /\ prober' = [prober EXCEPT ![r].at = IF prober[r].force THEN "probe" ELSE "read"]
  /\ UNCHANGED <<builds, ffmpeg, snapshot, probed, encoding, swapped>> /\ Smooth

(* storeProbeSnapshotForGeneration                                         *)
Publishes_Always(r, works) == snapshot' = [of |-> ffmpeg.path, works |-> works]
Publishes(r, works) ==
  snapshot' = IF prober[r].generation = ffmpeg.generation
              THEN [of |-> ffmpeg.path, works |-> works] ELSE snapshot

Withdraws(r) ==
  snapshot' = IF prober[r].generation = ffmpeg.generation THEN NoSnapshot ELSE snapshot

Leave(r) == prober' = [prober EXCEPT ![r] = NoProber]
Rows(key) == {row \in probed : row.key = key}

(* A row answers.  Without one the snapshot is withdrawn; a codec test     *)
(* goes on to probe if the path is still the same, the others never do.    *)
ReadCache(r) ==
  /\ prober[r].at = "read"
  /\ \/ \E row \in Rows(prober[r].key) : Publishes(r, row.works) /\ Leave(r) /\ Smooth
     \/ /\ Rows(prober[r].key) = {} /\ Withdraws(r) /\ Smooth
        /\ \/ Leave(r)
           \/ /\ prober[r].generation = ffmpeg.generation
              /\ prober' = [prober EXCEPT ![r].at = "probe"]
     \/ Rows(prober[r].key) # {} /\ Withdraws(r) /\ Leave(r) /\ Mishap
  /\ UNCHANGED <<builds, ffmpeg, probed, encoding, swapped>>

(* The path captured at the start is probed, for minutes; an encoder that  *)
(* times out has failed.                                                   *)
ProbeEncoders(r, p) ==
  /\ prober[r].at = "probe" /\ p = prober[r].key[1]
  /\ \/ /\ prober' = [prober EXCEPT ![r].at = "save", ![r].works = builds[p]] /\ Smooth
     \/ \E f \in builds[p] :
          /\ prober' = [prober EXCEPT ![r].at = "save", ![r].works = builds[p] \ {f}]
          /\ Mishap
     \/ prober[r].generation # ffmpeg.generation /\ Leave(r) /\ Smooth
  /\ UNCHANGED <<builds, ffmpeg, snapshot, probed, encoding, swapped>>

(* commitCacheForGeneration, and what a failed write does to a forced test *)
(* and to one that was not.                                                *)
SaveCache(r) ==
  LET current == prober[r].generation = ffmpeg.generation
      row == [key |-> prober[r].key, works |-> prober[r].works]
  IN  /\ prober[r].at = "save"
      /\ \/ /\ current /\ Smooth
            /\ probed' = IF row.key \in Unidentified THEN probed
                         ELSE (probed \ Rows(row.key)) \cup {row}
            /\ prober' = [prober EXCEPT ![r].at = "publish"]
         \/ ~current /\ Leave(r) /\ UNCHANGED probed /\ Smooth
         \/ /\ current /\ UNCHANGED probed /\ Mishap
            /\ IF prober[r].force THEN Leave(r)
               ELSE prober' = [prober EXCEPT ![r].at = "publish"]
      /\ UNCHANGED <<builds, ffmpeg, snapshot, encoding, swapped>>

PublishResults(r) ==
  /\ prober[r].at = "publish"
  /\ Publishes(r, prober[r].works) /\ Leave(r)
  /\ UNCHANGED <<builds, ffmpeg, probed, encoding, swapped>> /\ Smooth

(* CleanCache holds the mutex, so no probe is under way.                   *)
CleanCodecCache ==
  /\ \A r \in Probers : prober[r].at \in {"idle", "asked"}
  /\ probed # {} /\ probed' = {} /\ snapshot' = NoSnapshot
  /\ UNCHANGED <<builds, ffmpeg, prober, encoding, swapped>> /\ Smooth

-----------------------------------------------------------------------------
(* A transcode chooses from the snapshot and starts the FFmpeg that is     *)
(* current by then.  Software works with every one.                        *)
Preferred(works) == IF works = {} THEN 0 ELSE CHOOSE f \in works : \A g \in works : f <= g

Choice(mode, family, works) ==
  CASE mode = "software" -> 0
    [] mode = "auto"     -> Preferred(works)
    [] OTHER             -> IF family \in works THEN family ELSE 0

Failed(fallback) == [NoEncoding EXCEPT !.at = "failed", !.fallback = fallback]

ChooseEncoder(mode, family, fallback) ==
  LET encoder == Choice(mode, family, snapshot.works) IN
  /\ encoding.at = "idle"
  /\ encoding' =
       IF encoder # 0 THEN [at |-> "chosen", fallback |-> fallback, encoder |-> encoder]
       ELSE IF mode = "specific" /\ ~fallback THEN Failed(fallback) ELSE NoEncoding
  /\ UNCHANGED <<builds, ffmpeg, snapshot, probed, prober, swapped>> /\ Smooth

(* What fails in hardware is done again in software, where that is allowed.*)
FallsBack_Never(e) == FALSE
FallsBack(e) == e.fallback

RunEncoder ==
  /\ encoding.at = "chosen"
  /\ encoding' =
       IF encoding.encoder \in builds[ffmpeg.path] \/ FallsBack(encoding) THEN NoEncoding
       ELSE Failed(encoding.fallback)
  /\ UNCHANGED <<builds, ffmpeg, snapshot, probed, prober, swapped>> /\ Smooth

FailEncoding ==
  /\ encoding.at = "failed" /\ encoding' = NoEncoding
  /\ UNCHANGED <<builds, ffmpeg, snapshot, probed, prober, swapped>> /\ Smooth

ProberStep(r) ==
  \/ EnterService(r) \/ ReadCache(r) \/ (\E p \in FFmpegs : ProbeEncoders(r, p))
  \/ SaveCache(r) \/ PublishResults(r)

EncodersNext ==
  \/ \E p \in FFmpegs : SetFFmpegPath(p) \/ \E b \in Builds : ReplaceBuild(p, b)
  \/ \E r \in Probers : (\E force \in BOOLEAN : AskCapabilities(r, force)) \/ ProberStep(r)
  \/ CleanCodecCache
  \/ \E mode \in {"auto", "software", "specific"}, family \in Families, fallback \in BOOLEAN :
       ChooseEncoder(mode, family, fallback)
  \/ RunEncoder \/ FailEncoding

EncodersSpec == EncodersInit /\ mishaps = 0 /\ [][EncodersNext]_encoderVars

-----------------------------------------------------------------------------
(* The snapshot transcodes choose from is of the FFmpeg they will start:   *)
(* it never claims a family that does not work there, whatever probes,     *)
(* reads, cleans and changes of the path were under way together.  A file  *)
(* replaced under a request is the exception.                              *)
SnapshotFits ==
  snapshot # NoSnapshot =>
    /\ snapshot.of = ffmpeg.path
    /\ snapshot.works \subseteq builds[ffmpeg.path] \/ swapped # "no"

(* A row never claims more for its build than works with it, so that going *)
(* back to an old FFmpeg brings back what was true of it.                  *)
RowsFit == swapped = "for good" \/ \A row \in probed : row.works \subseteq row.key[2]

(* A transcode that may fall back to software does not fail because the    *)
(* path changed between its choice and its start.                          *)
FallbackSaves == encoding.fallback => encoding.at # "failed"
=============================================================================
