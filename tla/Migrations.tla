----------------------------- MODULE Migrations -----------------------------
(***************************************************************************)
(* The schema migrations that run before the server serves: the runner,    *)
(* its backups and its status rows, and the catalogue of the migrations.   *)
(*                                                                         *)
(* The database is the set of the items it holds.  An item is a group of   *)
(* tables, columns and indexes that the same migrations make, drop and ask *)
(* for, or a defect of the rows that a migration repairs or refuses.       *)
(***************************************************************************)
EXTENDS Faults, Sequences

VARIABLES
  db,        \* the items in the database
  applied,    \* schema_migrations: the status per migration, or "none"
  runner,    \* where the process is
  pending,   \* the migrations still to run, by their place in the Registry
  backups,   \* the backups, each the database at that time
  original,  \* history: the database as the older version left it
  drifted,   \* history: something other than the runner changed the database
  settled    \* history: runs that finished since the last drift, up to two

migrationVars == <<db, applied, runner, pending, backups, original, drifted, settled,
                   mishaps>>

----------------------------------------------------------------------------
(* The catalogue.  A migration makes and drops items, needs some of them   *)
(* to run, and its Validate wants some there and refuses others.           *)

Entry(needs, makes, drops, wants, refuses) ==
  [needs |-> needs, makes |-> makes, drops |-> drops, wants |-> wants, refuses |-> refuses]
Table(needs, items) == Entry(needs, items, {}, items, {})

AlbumCompat == Entry({}, {}, {"albums without space"}, {}, {"albums without space"})
BaselineTables == {"libraries", "settings", "scans", "tasks", "shares", "metrics"}
CoreSchema ==
  {"libraries", "library indexes", "broad deleted index", "file state", "type rules",
   "hash columns"}
Baseline ==
  Entry({}, BaselineTables \cup CoreSchema \cup
            {"albums", "collection space", "allow download", "tags", "subtitles",
             "inferences", "metadata"},
        {}, BaselineTables, {})
DefaultSpace ==
  Entry({"libraries"}, {"spaces", "space columns"}, {"media without space"},
        {"spaces", "space columns"}, {"media without space"})
KeyIndexes ==
  Entry({"space columns"}, {"key indexes"}, {},
        {"key indexes", "library indexes", "space columns"}, {})
SpaceOwnerIndexes ==
  Entry({"spaces", "space columns", "tags", "scans"},
        {"space query indexes", "broad space index"}, {"ownerless space"},
        {"space query indexes", "tags", "scans"}, {"ownerless space"})
AuditEvents == Table({}, {"audit events"})
TasksCenter ==
  Entry({}, {"tasks", "task indexes"}, {"legacy transcodes"},
        {"tasks", "task indexes"}, {"old task status"})
LibraryKinds ==
  Entry({"space columns"}, {"library kinds"}, {"odd library kind"},
        {"library kinds"}, {"odd library kind"})
MediaTypeRules == Table({}, {"type rules"})
MediaFileState == Table({"libraries", "scans"}, {"file state"})
FileHashDedup ==
  Entry({"space columns"}, {"hash columns", "hash indexes"}, {},
        {"hash columns", "hash indexes"}, {})
MediaInferences == Table({}, {"inferences"})
CacheAssets == Table({}, {"cache assets"})
SpaceOwnedCollections ==
  Entry({}, {"albums", "shares", "collection space", "allow download"},
        {"albums without space", "collections without space"},
        {"albums", "shares", "collection space"},
        {"albums without space", "collections without space"})
ActiveQueryIndexes == Table({"space columns", "file state"}, {"active indexes"})
DeletedQueryIndexes_LeavesBroad ==
  Entry({"space columns"}, {"deleted index"}, {"broad deleted index"},
        {"deleted index"}, {"broad deleted index", "broad space index"})
DeletedQueryIndexes ==
  Entry({"space columns"}, {"deleted index"}, {"broad deleted index", "broad space index"},
        {"deleted index"}, {"broad deleted index", "broad space index"})
SettingsPreflight == Entry({}, {}, {}, {}, {"refused setting"})
HLSPreviewTasks ==
  Entry({}, {}, {"old preview tasks"}, {"tasks"}, {"old preview tasks", "broken preview task"})
MediaMetadata == Table({}, {"metadata"})
SmartCovers == Table({}, {"covers"})
TimelinePreviews == Table({}, {"timeline previews"})
SubtitleTracks ==
  Entry({}, {"subtitles", "subtitle indexes"}, {"doubled subtitles"},
        {"subtitles", "subtitle indexes"}, {})
WatchStates ==
  Entry({"space columns"}, {"watch states"}, {"legacy positions", "projection differs"},
        {"watch states"}, {"legacy positions", "projection differs", "orphan watch state"})
ChaptersBookmarks == Table({}, {"chapters"})
MediaDeleteCascade == Entry({}, {"chapters", "cascade"}, {}, {"cascade"}, {})
SpaceMembers ==
  Entry({}, {"members", "user status"}, {"missing owner row"},
        {"members", "user status"}, {"missing owner row", "demoted owner"})
ShareAllowDownload == Table({}, {"allow download"})
ContentRating == Table({}, {"media rating", "member rating"})
AuthSessions == Table({}, {"sessions"})
AIPipeline == Table({}, {"ai tables"})
AIEmbeddings == Table({}, {"embeddings"})

Registry ==
  << AlbumCompat, Baseline, DefaultSpace, KeyIndexes, SpaceOwnerIndexes, AuditEvents,
     TasksCenter, LibraryKinds, MediaTypeRules, MediaFileState, FileHashDedup,
     MediaInferences, CacheAssets, SpaceOwnedCollections, ActiveQueryIndexes,
     DeletedQueryIndexes, SettingsPreflight, HLSPreviewTasks, MediaMetadata, SmartCovers,
     TimelinePreviews, SubtitleTracks, WatchStates, ChaptersBookmarks,
     MediaDeleteCascade, SpaceMembers, ShareAllowDownload, ContentRating, AuthSessions,
     AIPipeline, AIEmbeddings >>

Ids == DOMAIN Registry
Items == UNION {Registry[m].makes \cup Registry[m].drops \cup Registry[m].refuses : m \in Ids}

(* Columns that are made, and asked for, only where their table is there,  *)
(* and what else goes when a table is lost.                                *)
ColumnOf == [i \in {"member rating", "allow download"} |->
               IF i = "member rating" THEN "members" ELSE "shares"]
Excused(d) == {i \in DOMAIN ColumnOf : ColumnOf[i] \notin d}
PartsOf(i) ==
  {i} \cup {c \in DOMAIN ColumnOf : ColumnOf[c] = i}
      \cup (IF i = "tasks" THEN {"task indexes"} ELSE {})
      \cup (IF i = "chapters" THEN {"cascade"} ELSE {})

(* The rows of legacy transcodes become tasks of the old preview type.     *)
Becomes(d, e) ==
  IF "legacy transcodes" \in d \cap e.drops THEN {"old preview tasks"} ELSE {}

CanRun(m, d) == Registry[m].needs \subseteq d
Up(m, d) ==
  LET e == Registry[m] IN
  ((d \ e.drops) \cup e.makes \cup Becomes(d, e)) \ Excused(d \cup e.makes)
Valid(m, d) ==
  LET e == Registry[m] IN
  e.wants \ Excused(d) \subseteq d /\ e.refuses \cap d = {}

----------------------------------------------------------------------------
V020 ==
  {"libraries", "library indexes", "settings", "scans", "shares", "albums",
   "albums without space", "legacy transcodes", "media without space",
   "legacy positions"}

Statuses == {"none", "running", "succeeded", "failed"}
MaxSettled == 2

MigrationTypeOK ==
  /\ db \subseteq Items
  /\ applied \in [Ids -> Statuses]
  /\ runner \in {"off", "backup", "tables", "next", "apply", "failed", "serving"}
  /\ pending \subseteq Ids
  /\ \A b \in backups : b \subseteq Items
  /\ original \subseteq Items
  /\ drifted \in BOOLEAN /\ settled \in 0 .. MaxSettled

MigrationInit ==
  /\ db \in {{}, V020}
  /\ applied = [m \in Ids |-> "none"]
  /\ runner = "off" /\ pending = {} /\ backups = {}
  /\ original = db /\ drifted = FALSE /\ settled = 0

RunnerTo(where) == runner' = where
DatabaseIsLeft == UNCHANGED <<db, applied>>
HistoryIsLeft == UNCHANGED <<original, drifted>>

(* A migration is pending unless it succeeded and still validates.         *)
Retried_Never(m) == FALSE
Retried(m) == ~Valid(m, db)
IsPending(m) == applied[m] # "succeeded" \/ Retried(m)
Pending == {m \in Ids : IsPending(m)}

(* They run in the order of the Registry.                                  *)
NextPending == CHOOSE m \in pending : \A n \in pending : m <= n

(* Settings that the registry refuses stop the start before any change.    *)
Blocked == "refused setting" \in db

(* A start: the dry run, the pending migrations, and at once to serving    *)
(* when there are none.                                                    *)
Start ==
  /\ runner = "off" /\ ~Blocked
  /\ pending' = Pending
  /\ IF Pending = {}
       THEN RunnerTo("serving") /\ settled' = (IF settled < MaxSettled THEN settled + 1 ELSE settled)
       ELSE RunnerTo("backup") /\ UNCHANGED settled
  /\ DatabaseIsLeft /\ HistoryIsLeft /\ UNCHANGED backups /\ Smooth

(* VACUUM INTO a path that no backup has yet, then an integrity check.     *)
WithBackup_LastOnly(d) == {d}
WithBackup(d) == backups \cup {d}
CreateBackup ==
  /\ runner = "backup"
  /\ \/ Smooth /\ RunnerTo("tables") /\ backups' = WithBackup(db) /\ UNCHANGED pending
     \/ Mishap /\ RunnerTo("off") /\ pending' = {} /\ UNCHANGED backups
  /\ DatabaseIsLeft /\ HistoryIsLeft /\ UNCHANGED settled

EnsureMetadataTables ==
  /\ runner = "tables"
  /\ RunnerTo("next") /\ db' = db \cup {"audit events"}
  /\ HistoryIsLeft /\ UNCHANGED <<applied, pending, backups, settled>> /\ Smooth

(* The status "running" is written before and outside the transaction.     *)
MarkRunning ==
  /\ runner = "next" /\ pending # {}
  /\ RunnerTo("apply") /\ applied' = [applied EXCEPT ![NextPending] = "running"]
  /\ HistoryIsLeft /\ UNCHANGED <<db, pending, backups, settled>> /\ Smooth

(* One transaction: the changes, the validation and the status.            *)
Apply ==
  LET m == NextPending
      d == Up(m, db)
      holds == CanRun(m, db) /\ Valid(m, d) IN
  /\ runner = "apply"
  /\ \/ /\ holds /\ Smooth
        /\ db' = d /\ applied' = [applied EXCEPT ![m] = "succeeded"]
        /\ RunnerTo("next") /\ pending' = pending \ {m}
     \/ /\ IF holds THEN Mishap ELSE Smooth
        /\ RunnerTo("failed") /\ UNCHANGED <<db, applied, pending>>
  /\ HistoryIsLeft /\ UNCHANGED <<backups, settled>>

(* The failure is recorded on its own, which may fail too, and the process *)
(* exits.                                                                  *)
MarkFailed ==
  /\ runner = "failed"
  /\ \/ Smooth /\ applied' = [applied EXCEPT ![NextPending] = "failed"]
     \/ Mishap /\ UNCHANGED applied
  /\ RunnerTo("off") /\ pending' = {}
  /\ HistoryIsLeft /\ UNCHANGED <<db, backups, settled>>

FinishRun ==
  /\ runner = "next" /\ pending = {}
  /\ RunnerTo("serving")
  /\ settled' = (IF settled < MaxSettled THEN settled + 1 ELSE settled)
  /\ DatabaseIsLeft /\ HistoryIsLeft /\ UNCHANGED <<pending, backups>> /\ Smooth

StopServing ==
  /\ runner = "serving" /\ RunnerTo("off")
  /\ DatabaseIsLeft /\ HistoryIsLeft /\ UNCHANGED <<pending, backups, settled>> /\ Smooth

MigrationCrash ==
  /\ runner \notin {"off", "serving"} /\ Mishap
  /\ RunnerTo("off") /\ pending' = {}
  /\ DatabaseIsLeft /\ HistoryIsLeft /\ UNCHANGED <<backups, settled>>

(* What is lost or spoilt between two starts, by hand or by the program.   *)
Losable ==
  {"settings", "tasks", "shares", "metrics", "library indexes", "key indexes",
   "space query indexes", "audit events", "task indexes", "type rules", "inferences",
   "hash indexes", "cache assets", "active indexes", "deleted index", "covers",
   "subtitle indexes", "chapters", "cascade", "members", "member rating", "sessions"}
Defects == {"old task status", "odd library kind", "projection differs",
            "missing owner row", "refused setting", "demoted owner", "orphan watch state"}

Drift ==
  /\ runner \in {"off", "serving"} /\ Mishap
  /\ \A m \in Ids : applied[m] = "succeeded"
  /\ \/ \E i \in Losable \cap db : db' = db \ PartsOf(i)
     \/ \E i \in Defects \ db : db' = db \cup {i}
  /\ drifted' = TRUE /\ settled' = 0
  /\ UNCHANGED <<applied, runner, pending, backups, original>>

MigrationStep ==
  \/ Start \/ CreateBackup \/ EnsureMetadataTables \/ MarkRunning \/ Apply \/ MarkFailed
  \/ FinishRun

MigrationNext == MigrationStep \/ StopServing \/ MigrationCrash \/ Drift

MigrationSpec ==
  MigrationInit /\ mishaps = 0 /\ [][MigrationNext]_migrationVars
    /\ WF_migrationVars(MigrationStep)

----------------------------------------------------------------------------
(* What no migration repairs: its Up makes or drops something else than    *)
(* its Validate asks for.                                                  *)
Stuck ==
  \/ db \cap {"refused setting", "demoted owner", "orphan watch state", "old task status"} # {}
  \/ "library indexes" \notin db

Serving == runner = "serving"

(* A migration that succeeded stays valid while later ones run: none of    *)
(* them drops what an earlier one asks for.  And after a drift two starts  *)
(* are enough to make every migration valid again.                         *)
SucceededHolds ==
  /\ ~drifted => \A m \in Ids : applied[m] = "succeeded" => Valid(m, db)
  /\ Serving /\ settled = MaxSettled => \A m \in Ids : Valid(m, db)

(* Once a migration has changed the database, a backup of what the older   *)
(* version left is on disk, whatever failed and was started again.         *)
OriginalIsKept == db # original => original \in backups

(* A start that is tried again and again ends with the server running,     *)
(* unless something stands in the database that no migration repairs.      *)
StartsServing == []<>(Serving \/ Stuck)
=============================================================================
