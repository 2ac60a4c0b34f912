----------------------------- MODULE Thumbnails -----------------------------
(***************************************************************************)
(* Thumbnails: a picture per media and size, made by tasks.  A request for *)
(* sizes that are missing has a task per media and set of sizes, and a     *)
(* backfill has one that goes through the media by number and keeps its    *)
(* place in the task's checkpoint.  Tasks that need the same picture share *)
(* one generation (thumbnailFlights).  The cache registry lists, inventories*)
(* and cleans the files meanwhile.                                         *)
(***************************************************************************)
EXTENDS Faults, FiniteSets

CONSTANTS ThumbMedia,    \* media, by number
          Sizes,         \* widths of thumbnails
          AskedOf,         \* requests: pairs of a media and a set of sizes
          ThumbSlots,    \* workers for requests; one for the backfill
          ThumbAttempts

ASSUME ThumbnailsAssumption ==
  /\ ThumbMedia \subseteq Nat \ {0} /\ IsFiniteSet(ThumbMedia) /\ Sizes \subseteq Nat \ {0}
  /\ AskedOf \subseteq ThumbMedia \X ((SUBSET Sizes) \ {{}})
  /\ ThumbSlots \in Nat \ {0} /\ ThumbAttempts \in Nat \ {0}

VARIABLES
  thumbFile,   \* pictures whose file is there, whole
  thumbRow,    \* pictures that have a cache asset
  thumbRun,    \* thumbRun[k]: [status, attempts, at, todo, upto], a task
  thumbKeeper, \* [at, todo, rows]: the worker of the cache registry
  swept        \* history: tasks the registry has deleted something since

thumbVars == <<thumbFile, thumbRow, thumbRun, thumbKeeper, swept, mishaps>>

Pictures == ThumbMedia \X Sizes
BackfillKey == <<0, Sizes>>
ThumbKeys == AskedOf \cup {BackfillKey}
PicturesOf(k) == IF k = BackfillKey THEN Pictures ELSE {k[1]} \X k[2]
PictureInHand == {"look", "join", "wait", "make", "register", "report", "fail"}
NoThumbRun == [status |-> "none", attempts |-> 0, at |-> "idle", todo |-> {}, upto |-> 0]
NoThumbKeeper == [at |-> "idle", todo |-> {}, rows |-> {}]

(* Tasks take media by their number and sizes in ascending order.          *)
Foremost(P) == CHOOSE p \in P : \A q \in P : p[1] < q[1] \/ (p[1] = q[1] /\ p[2] <= q[2])
Current(k) == Foremost(thumbRun[k].todo)

ThumbnailsTypeOK ==
  /\ thumbFile \cup thumbRow \subseteq Pictures
  /\ thumbRun \in [ThumbKeys ->
       [status : {"none", "pending", "running", "succeeded", "failed", "canceled"},
        attempts : 0 .. ThumbAttempts - 1, at : {"idle"} \cup PictureInHand,
        todo : SUBSET Pictures, upto : ThumbMedia \cup {0}]]
  /\ \A k \in ThumbKeys : thumbRun[k].at \in PictureInHand =>
       thumbRun[k].status \in {"running", "canceled"}
  /\ thumbKeeper.at \in {"idle", "clean", "forget"}
  /\ thumbKeeper.todo \cup thumbKeeper.rows \subseteq Pictures
  /\ swept \subseteq ThumbKeys /\ mishaps \in 0 .. MaxMishaps

ThumbnailsInit ==
  /\ thumbFile = {} /\ thumbRow = {}
  /\ thumbRun = [k \in ThumbKeys |-> NoThumbRun]
  /\ thumbKeeper = NoThumbKeeper /\ swept = {}

-----------------------------------------------------------------------------
(* Requests.                                                               *)

(* One task per key is unfinished.  (A canceled one is asked for again only*)
(* when its handler has noticed.)                                          *)
EnqueueThumb(k) ==
  /\ thumbRun[k].at = "idle"
  /\ thumbRun[k].status \notin {"pending", "running"}
  /\ thumbRun' = [thumbRun EXCEPT ![k] = [NoThumbRun EXCEPT !.status = "pending"]]
  /\ swept' = swept \ {k}

(* Files that are there are registered, the others asked for.              *)
Ensure(request) ==
  LET missing == {p \in PicturesOf(request) : p \notin thumbFile}
      key == <<request[1], {p[2] : p \in missing}>> IN
  /\ thumbRow' = thumbRow \cup (PicturesOf(request) \ missing)
  /\ IF missing = {} THEN UNCHANGED <<thumbRun, swept>> ELSE key \in AskedOf /\ EnqueueThumb(key)
  /\ UNCHANGED <<thumbFile, thumbKeeper>> /\ Smooth

Backfill ==
  EnqueueThumb(BackfillKey) /\ UNCHANGED <<thumbFile, thumbRow, thumbKeeper>> /\ Smooth

CancelThumb(k) ==
  /\ thumbRun[k].status \in {"pending", "running"}
  /\ thumbRun' = [thumbRun EXCEPT ![k].status = "canceled"]
  /\ UNCHANGED <<thumbFile, thumbRow, thumbKeeper, swept>> /\ Smooth

-----------------------------------------------------------------------------
(* The handlers.                                                           *)

ThumbAt(k, at) == thumbRun' = [thumbRun EXCEPT ![k].at = at]
TaskOnly == UNCHANGED <<thumbFile, thumbRow, thumbKeeper, swept>>
AtWork == {k \in AskedOf : thumbRun[k].at # "idle"}

(* All pictures of a request; of a backfill those past its checkpoint.     *)
TakeThumb(k) ==
  /\ thumbRun[k].status = "pending" /\ thumbRun[k].at = "idle"
  /\ k = BackfillKey \/ Cardinality(AtWork) < ThumbSlots
  /\ LET left == {p \in PicturesOf(k) : p[1] > thumbRun[k].upto} IN
     thumbRun' = [thumbRun EXCEPT ![k] =
       [@ EXCEPT !.status = "running", !.todo = left,
                 !.at = IF left = {} THEN "report" ELSE "look"]]
  /\ TaskOnly /\ Smooth

LookForFile(k) ==
  /\ thumbRun[k].at = "look"
  /\ ThumbAt(k, IF Current(k) \in thumbFile THEN "register" ELSE "join")
  /\ TaskOnly /\ Smooth

Generating(p) == {k \in ThumbKeys : thumbRun[k].at = "make" /\ Current(k) = p}
WaitingForFlight(p) == {k \in ThumbKeys : thumbRun[k].at = "wait" /\ Current(k) = p}

(* The first to ask for a path generates, the others wait for its outcome. *)
JoinFlight_Alone(k) == thumbRun[k].at = "join" /\ ThumbAt(k, "make") /\ TaskOnly /\ Smooth
JoinFlight(k) ==
  /\ thumbRun[k].at = "join"
  /\ ThumbAt(k, IF Generating(Current(k)) = {} THEN "make" ELSE "wait")
  /\ TaskOnly /\ Smooth

Released_LeaderOnly(k) == {k}
Released(k) == {k} \cup WaitingForFlight(Current(k))

(* The file gets its name when it is complete.                             *)
GenerateThumbnail(k) ==
  LET p == Current(k) IN
  /\ thumbRun[k].at = "make"
  /\ \E at \in {"register", "fail"} :
       /\ thumbRun' = [j \in ThumbKeys |->
            IF j \in Released(k) THEN [thumbRun[j] EXCEPT !.at = at] ELSE thumbRun[j]]
       /\ IF at = "register" THEN thumbFile' = thumbFile \cup {p} /\ Smooth
          ELSE UNCHANGED thumbFile /\ Mishap
  /\ UNCHANGED <<thumbRow, thumbKeeper, swept>>

(* A file that has been deleted since cannot be measured.                  *)
RegisterThumb(k) ==
  LET p == Current(k) IN
  /\ thumbRun[k].at = "register"
  /\ IF p \in thumbFile THEN ThumbAt(k, "report") /\ thumbRow' = thumbRow \cup {p}
     ELSE ThumbAt(k, "fail") /\ UNCHANGED thumbRow
  /\ UNCHANGED <<thumbFile, thumbKeeper, swept>> /\ Smooth

(* A backfill keeps its place when it is through with a media.             *)
WithinMedia(k) ==
  k = BackfillKey /\ \E p \in thumbRun[k].todo \ {Current(k)} : p[1] = Current(k)[1]
Passed_Batch(k) ==
  IF k = BackfillKey /\ thumbRun[k].todo # {}
  THEN CHOOSE m \in ThumbMedia : \A p \in thumbRun[k].todo : p[1] <= m ELSE thumbRun[k].upto
Passed(k) ==
  IF k = BackfillKey /\ thumbRun[k].todo # {} /\ ~WithinMedia(k)
  THEN Current(k)[1] ELSE thumbRun[k].upto

ThumbEnds(k, status) == thumbRun' = [thumbRun EXCEPT ![k] = [NoThumbRun EXCEPT !.status = status]]

(* UpdateProgress fails when the task was canceled; a backfill calls it    *)
(* once for a media.                                                       *)
Report(k) ==
  LET left == IF thumbRun[k].todo = {} THEN {} ELSE thumbRun[k].todo \ {Current(k)} IN
  /\ thumbRun[k].at = "report"
  /\ IF thumbRun[k].status = "canceled" /\ ~(thumbRun[k].todo # {} /\ WithinMedia(k))
     THEN ThumbAt(k, "fail")
     ELSE IF left = {} THEN ThumbEnds(k, "succeeded")
     ELSE thumbRun' = [thumbRun EXCEPT ![k] =
                         [@ EXCEPT !.upto = Passed(k), !.todo = left, !.at = "look"]]
  /\ TaskOnly /\ Smooth

AttemptsSpent_OneLate(k) == thumbRun[k].attempts = ThumbAttempts
AttemptsSpent(k) == thumbRun[k].attempts + 1 = ThumbAttempts

FailThumb(k) ==
  /\ thumbRun[k].at = "fail"
  /\ IF thumbRun[k].status = "canceled" THEN ThumbEnds(k, "canceled")
     ELSE IF AttemptsSpent(k) THEN ThumbEnds(k, "failed")
     ELSE thumbRun' = [thumbRun EXCEPT ![k] =
                         [@ EXCEPT !.at = "idle", !.todo = {},
                                   !.attempts = thumbRun[k].attempts + 1, !.status = "pending"]]
  /\ TaskOnly /\ Smooth

-----------------------------------------------------------------------------
(* The cache registry: an inventory or a clean at a time.                  *)

StartThumbnailClean ==
  /\ thumbKeeper = NoThumbKeeper
  /\ thumbRow # {} /\ thumbKeeper' = [at |-> "clean", todo |-> thumbRow, rows |-> thumbRow]
  /\ UNCHANGED <<thumbFile, thumbRow, thumbRun, swept>> /\ Smooth

(* A file that cannot be deleted keeps its row.                            *)
DeleteThumb ==
  LET p == Foremost(thumbKeeper.todo)
      left == thumbKeeper.todo \ {p}
      on == [thumbKeeper EXCEPT !.todo = left, !.at = IF left = {} THEN "forget" ELSE @] IN
  /\ thumbKeeper.at = "clean"
  /\ \/ thumbFile' = thumbFile \ {p} /\ thumbKeeper' = on /\ Smooth
     \/ thumbKeeper' = [on EXCEPT !.rows = @ \ {p}] /\ UNCHANGED thumbFile /\ Mishap
  /\ swept' = ThumbKeys /\ UNCHANGED <<thumbRow, thumbRun>>

ForgetThumbs ==
  /\ thumbKeeper.at = "forget"
  /\ thumbRow' = thumbRow \ thumbKeeper.rows
  /\ thumbKeeper' = NoThumbKeeper /\ swept' = ThumbKeys
  /\ UNCHANGED <<thumbFile, thumbRun>> /\ Smooth

(* What is found is listed.  (That what is not is marked so is left out.)  *)
InventoryThumbnails ==
  /\ thumbKeeper = NoThumbKeeper
  /\ thumbRow' = thumbRow \cup thumbFile
  /\ UNCHANGED <<thumbFile, thumbRun, thumbKeeper, swept>> /\ Smooth

ThumbCrash ==
  /\ Mishap
  /\ thumbRun' = [k \in ThumbKeys |->
       [thumbRun[k] EXCEPT !.at = "idle", !.todo = {},
                           !.status = IF @ = "running" THEN "pending" ELSE @]]
  /\ thumbKeeper' = NoThumbKeeper
  /\ UNCHANGED <<thumbFile, thumbRow, swept>>

ThumbStep(k) ==
  \/ TakeThumb(k) \/ LookForFile(k) \/ JoinFlight(k) \/ GenerateThumbnail(k)
  \/ RegisterThumb(k) \/ Report(k) \/ FailThumb(k)

ThumbnailsNext ==
  \/ \E k \in AskedOf : Ensure(k)
  \/ Backfill
  \/ \E k \in ThumbKeys : CancelThumb(k) \/ ThumbStep(k)
  \/ StartThumbnailClean \/ DeleteThumb \/ ForgetThumbs
  \/ InventoryThumbnails
  \/ ThumbCrash

(* The queue is served in the order of its rows: a task is not passed over *)
(* for ever.                                                               *)
ThumbnailsFairness ==
  \A k \in ThumbKeys : WF_thumbVars(ThumbStep(k)) /\ SF_thumbVars(TakeThumb(k))

ThumbnailsSpec ==
  ThumbnailsInit /\ mishaps = 0 /\ [][ThumbnailsNext]_thumbVars /\ ThumbnailsFairness

-----------------------------------------------------------------------------
(* Two generations never write the one temporary file of a picture.        *)
OneGenerator == \A p \in Pictures : Cardinality(Generating(p)) <= 1

(* A task that succeeded has made and registered all its pictures, over a  *)
(* crash, a retry and the generations of others; a backfill skips none.    *)
SucceededDelivers ==
  \A k \in ThumbKeys : thumbRun[k].status = "succeeded" /\ k \notin swept =>
    \A p \in PicturesOf(k) : p \in thumbFile \cap thumbRow

ThumbnailsSafe == OneGenerator /\ SucceededDelivers

ThumbsAsked(k) == thumbRun[k].status \in {"pending", "running"}
ThumbsEnded(k) == thumbRun[k].status \in {"succeeded", "failed", "canceled"}

(* A task ends: none waits for ever for the generation of another.         *)
ThumbnailsEnd == \A k \in ThumbKeys : ThumbsAsked(k) ~> ThumbsEnded(k)
=============================================================================
