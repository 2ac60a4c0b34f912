----------------------------- MODULE Inference -----------------------------
(***************************************************************************)
(* Titles inferred from file names, one space.                             *)
(*                                                                         *)
(* A new media is inferred at once; what is missing when inference is      *)
(* switched on is caught up by a task that the settings transaction queues *)
(* under a new generation; a person may correct a title, or ask for a full *)
(* run, at any time.  A running task asks before each batch whether the    *)
(* settings have moved on, and then ends: the change that moved them is    *)
(* meant to have queued what is still missing.  A correction, a full run   *)
(* and a roll-back of the settings share the budget of what goes wrong.    *)
(***************************************************************************)
EXTENDS Faults, FiniteSets, FiniteSetsExt

CONSTANTS Media,          \* ids, in the order the batches go
          Libraries,
          LibraryOf,      \* [Media -> Libraries]
          BatchSize,
          MaxGeneration   \* bound on changes of the settings

ASSUME InferenceAssumption ==
  /\ Media \subseteq Nat /\ IsFiniteSet(Media)
  /\ LibraryOf \in [Media -> Libraries]
  /\ BatchSize \in Nat \ {0} /\ MaxGeneration \in Nat

VARIABLES
  conf,       \* the settings: [enabled, disabled, generation]
  title,      \* media -> "absent", "none", or whose the inference row is
  adding,     \* media -> where the inference of a new media is
  task,       \* key -> the task of that idempotency key
  inferOvertaken,  \* missing media whose task a change ended without another one
  givenUp     \* media whose inference failed for good, or was never asked for

inferenceVars ==
  <<conf, title, adding, task, inferOvertaken, givenUp, mishaps>>

Full == [mode |-> "full", of |-> 0]
OfMedia(m) == [mode |-> "media", of |-> m]
MissingTitle(g) == [mode |-> "missing", of |-> g]
InferKeys == {Full} \cup {OfMedia(m) : m \in Media} \cup {MissingTitle(g) : g \in 1 .. MaxGeneration}

Confs   == [enabled : BOOLEAN, disabled : SUBSET Libraries, generation : 0 .. MaxGeneration]
Default == [enabled |-> TRUE, disabled |-> {}, generation |-> 0]
NoInferTask  == [at |-> "none", conf |-> Default, cursor |-> 0, batch |-> {}, tries |-> 0]
InferRunning == {"listing", "listed", "storing"}

InferenceTypeOK ==
  /\ conf \in Confs
  /\ title \in [Media -> {"absent", "none", "auto", "manual"}]
  /\ adding \in [Media -> {"no", "asking", "saving", "failed"}]
  /\ task \in [InferKeys -> [at : {"none", "pending"} \cup InferRunning, conf : Confs,
                        cursor : Media \cup {0}, batch : SUBSET Media, tries : 0 .. 2]]
  /\ inferOvertaken \subseteq Media /\ givenUp \subseteq Media

InferenceInit ==
  /\ conf \in [enabled : {TRUE}, disabled : SUBSET Libraries, generation : {0}]
  /\ title \in [Media -> {"absent", "none"}]
  /\ adding = [m \in Media |-> "no"]
  /\ task = [k \in InferKeys |-> NoInferTask]
  /\ inferOvertaken = {}
  /\ givenUp = {m \in Media : title[m] = "none"}   \* not asked for yet

Covers(c, m) == c.enabled /\ LibraryOf[m] \notin c.disabled
Lacking(c) == {m \in Media : title[m] = "none" /\ Covers(c, m)}

-----------------------------------------------------------------------------
(* SetManyWithHook and its inference hook, one transaction.  Nothing is    *)
(* queued when the change takes libraries away, or when nothing is missing *)
NewlyEnabled(old, new) == old.disabled \ new.disabled

Widens(old, new) == new.enabled /\ (old.enabled => NewlyEnabled(old, new) # {})

(* Only a media of a library switched on makes the change queue a task.    *)
Backfills(old, new) ==
  {m \in Lacking(new) : old.enabled => LibraryOf[m] \in NewlyEnabled(old, new)}

(* An active task of the same key answers for the new one.                 *)
NewTask_AnyGeneration(g) == \A h \in 1 .. MaxGeneration : task[MissingTitle(h)].at = "none"
NewTask(g) == task[MissingTitle(g)].at = "none"

SaveInferenceSettings ==
  \E enabled \in BOOLEAN, disabled \in SUBSET Libraries :
    LET new == [enabled |-> enabled, disabled |-> disabled,
                generation |-> conf.generation + 1]
        queues == Widens(conf, new) /\ Backfills(conf, new) # {}
    IN  /\ conf.generation < MaxGeneration
        /\ <<enabled, disabled>> # <<conf.enabled, conf.disabled>>
        /\ conf' = new
        /\ task' = IF queues /\ NewTask(new.generation)
                   THEN [task EXCEPT ![MissingTitle(new.generation)] =
                           [NoInferTask EXCEPT !.at = "pending", !.conf = new]]
                   ELSE task
        /\ IF queues
           THEN inferOvertaken' = inferOvertaken \ Lacking(new) /\ givenUp' = givenUp \ Lacking(new)
           ELSE inferOvertaken' = inferOvertaken \cup Lacking(new) /\ UNCHANGED givenUp
        /\ Smooth
        /\ UNCHANGED <<title, adding>>

(* Rolling back a change of the settings writes the old values without the *)
(* hook: no generation, no task.                                           *)
RestoreSettings ==
  /\ Mishap
  /\ \E enabled \in BOOLEAN, disabled \in SUBSET Libraries :
       conf' = [conf EXCEPT !.enabled = enabled, !.disabled = disabled]
  /\ conf' # conf
  /\ givenUp' = givenUp \cup Lacking(conf')
  /\ UNCHANGED <<title, adding, task, inferOvertaken>>

(* UpsertManualInference.                                                  *)
CorrectTitle(m) ==
  /\ title[m] \in {"none", "auto"}
  /\ title' = [title EXCEPT ![m] = "manual"]
  /\ Mishap
  /\ UNCHANGED <<conf, adding, task, inferOvertaken, givenUp>>

-----------------------------------------------------------------------------
(* CreateMediaFile writes the row and infers at once.                      *)
CreateMedia(m) ==
  /\ title[m] = "absent"
  /\ title' = [title EXCEPT ![m] = "none"]
  /\ adding' = [adding EXCEPT ![m] = "asking"]
  /\ Smooth
  /\ UNCHANGED <<conf, task, inferOvertaken, givenUp>>

(* Whether it is switched on, and whether a person has been faster.        *)
AskNew(m) ==
  /\ adding[m] = "asking"
  /\ \/ /\ adding' = [adding EXCEPT ![m] = IF Covers(conf, m) /\ title[m] # "manual"
                                           THEN "saving" ELSE "no"]
        /\ Smooth
     \/ adding' = [adding EXCEPT ![m] = "failed"] /\ Mishap
  /\ UNCHANGED <<conf, title, task, inferOvertaken, givenUp>>

(* The upsert leaves the row of a person alone.                            *)
Saved_Always(m) == [title EXCEPT ![m] = "auto"]
Saved(m) == [title EXCEPT ![m] = IF @ = "manual" THEN @ ELSE "auto"]

SaveNew(m) ==
  /\ adding[m] = "saving"
  /\ \/ title' = Saved(m) /\ adding' = [adding EXCEPT ![m] = "no"] /\ Smooth
     \/ adding' = [adding EXCEPT ![m] = "failed"] /\ Mishap /\ UNCHANGED title
  /\ UNCHANGED <<conf, task, inferOvertaken, givenUp>>

(* compensateImmediateInferenceFailure: a task of three attempts.          *)
Compensate(m) ==
  /\ adding[m] = "failed"
  /\ adding' = [adding EXCEPT ![m] = "no"]
  /\ \/ /\ task' = IF task[OfMedia(m)].at = "none"
                   THEN [task EXCEPT ![OfMedia(m)] = [NoInferTask EXCEPT !.at = "pending"]]
                   ELSE task
        /\ Smooth
        /\ UNCHANGED givenUp
     \/ givenUp' = givenUp \cup {m} /\ Mishap /\ UNCHANGED task
  /\ UNCHANGED <<conf, title, inferOvertaken>>

-----------------------------------------------------------------------------
(* A full run is asked for.                                                *)
AskFullRun ==
  /\ task[Full].at = "none" 
  /\ Mishap
  /\ task' = [task EXCEPT ![Full].at = "pending"]
  /\ UNCHANGED <<conf, title, adding, inferOvertaken, givenUp>>

Busy == {k \in InferKeys : task[k].at \in InferRunning}

(* A worker takes a task; a full run takes the settings as they are.       *)
TakeInferBackfill(k) ==
  /\ task[k].at = "pending"
  /\ Cardinality(Busy) < 2
  /\ task' = [task EXCEPT ![k] = [@ EXCEPT
       !.at = IF k.mode = "media" THEN "listed" ELSE "listing",
       !.batch = IF k.mode = "media" THEN {k.of} ELSE {},
       !.conf = IF k.mode = "full" THEN conf ELSE task[k].conf,
       !.cursor = 0]]
  /\ Smooth
  /\ UNCHANGED <<conf, title, adding, inferOvertaken, givenUp>>

Ends(k) == task' = [task EXCEPT ![k] = NoInferTask]

(* ListBackfillBatch: the next ids after the cursor.                       *)
Candidates(k) ==
  {m \in Media : /\ m > task[k].cursor
                 /\ title[m] \in IF k.mode = "missing" THEN {"none"}
                                 ELSE {"none", "auto", "manual"}}

NextBatch(k) ==
  {m \in Candidates(k) : Cardinality({n \in Candidates(k) : n < m}) < BatchSize}

ListBatch(k) ==
  /\ task[k].at = "listing"
  /\ IF Candidates(k) = {}
     THEN Ends(k)
     ELSE task' = [task EXCEPT ![k].at = "listed", ![k].batch = NextBatch(k)]
  /\ Smooth
  /\ UNCHANGED <<conf, title, adding, inferOvertaken, givenUp>>

(* Before a batch: a task of older settings ends, successfully.            *)
CheckGeneration(k) ==
  /\ task[k].at = "listed" /\ k.mode # "media"
  /\ IF task[k].conf.generation = conf.generation
     THEN task' = [task EXCEPT ![k].at = "storing"]
     ELSE Ends(k)
  /\ Smooth
  /\ UNCHANGED <<conf, title, adding, inferOvertaken, givenUp>>

(* The task of one media asks the settings of now.                         *)
AskMedia(k) ==
  /\ task[k].at = "listed" /\ k.mode = "media"
  /\ IF Covers(conf, k.of) /\ title[k.of] # "manual"
     THEN task' = [task EXCEPT ![k].at = "storing"]
     ELSE Ends(k)
  /\ Smooth
  /\ UNCHANGED <<conf, title, adding, inferOvertaken, givenUp>>

(* inferAndStoreBackfillItem, by the settings the task carries; a full run *)
(* skips what a person wrote.                                              *)
StoreItem(k) ==
  LET m == Min(task[k].batch)
      rest == task[k].batch \ {m}
      wanted == k.mode = "media" \/ Covers(task[k].conf, m)
  IN  /\ task[k].at = "storing"
      /\ title' = IF wanted THEN Saved(m) ELSE title
      /\ IF k.mode = "media"
         THEN Ends(k)
         ELSE task' = [task EXCEPT ![k] = [@ EXCEPT !.batch = rest, !.cursor = m,
                         !.at = IF rest = {} THEN "listing" ELSE "storing"]]
      /\ Smooth
      /\ UNCHANGED <<conf, adding, inferOvertaken, givenUp>>

(* A failing task is not tried again, except that of one media.            *)
BackfillFails(k) ==
  /\ task[k].at \in InferRunning
  /\ Mishap
  /\ IF k.mode = "media" /\ task[k].tries + 1 < 3
     THEN task' = [task EXCEPT ![k].at = "pending", ![k].batch = {}, ![k].tries = @ + 1]
          /\ UNCHANGED givenUp
     ELSE Ends(k) /\ givenUp' = givenUp \cup {m \in Media : title[m] = "none"}
  /\ UNCHANGED <<conf, title, adding, inferOvertaken>>

(* A crash between the media row and its inference leaves it without one:  *)
(* only a later backfill finds it.  A running task starts over.            *)
Again_Nothing(k) == IF task[k].at \in InferRunning THEN NoInferTask ELSE task[k]
Again(k) == IF task[k].at \in InferRunning
            THEN [task[k] EXCEPT !.at = "pending", !.batch = {}, !.cursor = 0]
            ELSE task[k]

InferenceCrash ==
  /\ Mishap
  /\ task' = [k \in InferKeys |-> Again(k)]
  /\ givenUp' = givenUp \cup {m \in Media : adding[m] # "no"}
  /\ adding' = [m \in Media |-> "no"]
  /\ UNCHANGED <<conf, title, inferOvertaken>>

TaskStep(k) == \/ TakeInferBackfill(k) \/ ListBatch(k) \/ CheckGeneration(k)
               \/ AskMedia(k) \/ StoreItem(k)
NewStep(m)  == AskNew(m) \/ SaveNew(m) \/ Compensate(m)

InferenceNext ==
  \/ SaveInferenceSettings \/ RestoreSettings \/ AskFullRun \/ InferenceCrash
  \/ \E m \in Media : CreateMedia(m) \/ CorrectTitle(m) \/ NewStep(m)
  \/ \E k \in InferKeys : TaskStep(k) \/ BackfillFails(k)

(* The scan goes on with the media it has begun, the workers take what is  *)
(* pending.                                                                *)
InferenceFairness ==
  /\ WF_inferenceVars(\E m \in Media : NewStep(m))
  /\ WF_inferenceVars(\E k \in InferKeys : TaskStep(k))

InferenceSpec ==
  InferenceInit /\ mishaps = 0 /\ [][InferenceNext]_inferenceVars /\ InferenceFairness

-----------------------------------------------------------------------------
(* What a person corrected stays (no automatic result overwrites it), even *)
(* when the correction comes between the question and the save.            *)
CorrectionStays ==
  \A m \in Media : title[m] = "manual" => title'[m] = "manual"

CorrectionsStay == [][CorrectionStays]_inferenceVars

Settled(m) == title[m] # "none" \/ ~Covers(conf, m)

Inferred(m) == Settled(m) \/ m \in givenUp \/ m \in inferOvertaken

(* A media of a library with inference on gets its row, unless its         *)
(* inference failed for good or a change ended its task without another.   *)
MissingIsInferred == \A m \in Media : []<>Inferred(m)
=============================================================================
