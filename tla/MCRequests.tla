------------------------------ MODULE MCRequests ------------------------------
(***************************************************************************)
(* For TLC: what users, clients and workers ask of the server at the same  *)
(* time, of rights, settings, files and generated assets.  The components  *)
(* have no variable in common but the budget of mishaps; a behaviour runs  *)
(* the one it has in focus, as in MCDerived.  Safety only.                 *)
(***************************************************************************)
EXTENDS Spaces, Shares, Sessions, Settings, MediaRules, Bookmarks, Uploads, Subtitles, Exports,
        Covers, Encoders, Writeback, PreviewCache

VARIABLE focus

Components == {"spaces", "shares", "sessions", "settings", "rules", "bookmarks", "uploads",
               "subtitles", "exports", "covers", "encoders", "writeback", "previews"}

sessionState == <<account, login, change, limiter, excused>>
bookmarkState == <<bookmark, history, seen, sent, begun>>
uploadState == <<landed, part, body, upload>>
subtitleState == <<track, place, delete, reading>>
exportState == <<export, artifact, exportRun, exportTurns>>
coverState == <<mediaVersion, coverFile, coverAsset, candidate, cover, coverRun, coverSweep, picked,
                coverRequests, inPeace>>
encoderState == <<builds, ffmpeg, snapshot, probed, prober, encoding, swapped>>
writebackState == <<image, temporary, backup, writtenTags, second, snapshots, confirm, swapper,
                    replaced, owned, outsideWrites, rewritten, overtaken>>
previewState == <<source, created, made, pointer, status, attempts, worker, files, rows, keeper,
                  newest, disturbed>>
requestsVars == <<focus, mishaps, spaceVars, shareVars, sessionState, settingsVars, ruleVars,
                  bookmarkState, uploadState, subtitleState, exportState, coverState, encoderState,
                  writebackState, previewState>>

Others(c) ==
  /\ IF c = "spaces" THEN TRUE ELSE UNCHANGED spaceVars
  /\ IF c = "shares" THEN TRUE ELSE UNCHANGED shareVars
  /\ IF c = "sessions" THEN TRUE ELSE UNCHANGED sessionState
  /\ IF c = "settings" THEN TRUE ELSE UNCHANGED settingsVars
  /\ IF c = "rules" THEN TRUE ELSE UNCHANGED ruleVars
  /\ IF c = "bookmarks" THEN TRUE ELSE UNCHANGED bookmarkState
  /\ IF c = "uploads" THEN TRUE ELSE UNCHANGED uploadState
  /\ IF c = "subtitles" THEN TRUE ELSE UNCHANGED subtitleState
  /\ IF c = "exports" THEN TRUE ELSE UNCHANGED exportState
  /\ IF c = "covers" THEN TRUE ELSE UNCHANGED coverState
  /\ IF c = "encoders" THEN TRUE ELSE UNCHANGED encoderState
  /\ IF c = "writeback" THEN TRUE ELSE UNCHANGED writebackState
  /\ IF c = "previews" THEN TRUE ELSE UNCHANGED previewState
  /\ UNCHANGED focus

\* What is not in focus starts, and stays, in one state.
RequestsInit ==
  /\ focus \in Components
  /\ SpacesInit /\ SharesInit /\ SessionsInit /\ SettingsInit /\ RulesInit /\ BookmarksInit
  /\ UploadsInit /\ SubtitlesInit /\ ExportsInit /\ CoversInit /\ EncodersInit /\ WritebackInit
  /\ PreviewInit /\ mishaps = 0
  /\ focus = "spaces" \/ owner = CHOOSE u \in Users : TRUE
  /\ focus = "shares" \/ /\ share.max = 0 /\ ~share.locked /\ ~share.download
                         /\ \A v \in Visits : visit[v].to = "stream" /\ ~visit[v].knows
  /\ focus = "subtitles" \/ LET t == CHOOSE u \in TrackUploads : TRUE
                            IN  /\ \A d \in Deleters : delete[d].of = t
                                /\ \A r \in Readers : reading[r].of = t
  /\ focus = "encoders" \/ \A p \in FFmpegs : builds[p] = {}

\* Bound: one mishap where two leave too many states.
AtMostOne == mishaps' <= 1

\* Bound: a media file changes once, and previews are explored with two generations,
\* with two executions and with the inventory or the clean at work, not with all
\* three at once; the cache works beside two generations only while the file stays.
NotAllAtOnce ==
  /\ source' >= source
  /\ \/ created' <= 1
     \/ keeper'.job = "off"
     \/ source' = 1 /\ worker'[2].at = "idle"

\* Bound: by hand only covers of the second position are chosen, the first being what
\* the server would choose.
PicksTheSecond == picked' = NoPrint \/ picked'[2] = 2

RequestsNext ==
  \/ focus = "spaces" /\ SpacesNext /\ UNCHANGED mishaps /\ Others("spaces")
  \/ focus = "shares" /\ SharesNext /\ UNCHANGED mishaps /\ Others("shares")
  \/ focus = "sessions" /\ SessionsNext /\ AtMostOne /\ Others("sessions")
  \/ focus = "settings" /\ SettingsNext /\ UNCHANGED mishaps /\ Others("settings")
  \/ focus = "rules" /\ RulesNext /\ UNCHANGED mishaps /\ Others("rules")
  \/ focus = "bookmarks" /\ BookmarksNext /\ Others("bookmarks")
  \/ focus = "uploads" /\ UploadsNext /\ Others("uploads")
  \/ focus = "subtitles" /\ SubtitlesNext /\ Others("subtitles")
  \/ focus = "exports" /\ ExportsNext /\ Others("exports")
  \/ focus = "covers" /\ CoversNext /\ AtMostOne /\ PicksTheSecond /\ Others("covers")
  \/ focus = "encoders" /\ EncodersNext /\ AtMostOne /\ Others("encoders")
  \/ focus = "writeback" /\ WritebackNext /\ AtMostOne /\ Others("writeback")
  \/ focus = "previews" /\ PreviewNext /\ AtMostOne /\ NotAllAtOnce /\ Others("previews")

RequestsSpec == RequestsInit /\ [][RequestsNext]_requestsVars

-----------------------------------------------------------------------------

\* The state of every component has the types its module states.
RequestsTypes ==
  CASE focus = "spaces" -> SpacesTypeOK
    [] focus = "shares" -> SharesTypeOK
    [] focus = "sessions" -> SessionsTypeOK
    [] focus = "settings" -> SettingsTypeOK
    [] focus = "rules" -> MediaRulesTypeOK
    [] focus = "bookmarks" -> BookmarksTypeOK
    [] focus = "uploads" -> UploadsTypeOK
    [] focus = "subtitles" -> SubtitlesTypeOK
    [] focus = "exports" -> ExportsTypeOK
    [] focus = "covers" -> CoversTypeOK
    [] focus = "encoders" -> EncodersTypeOK
    [] focus = "writeback" -> WritebackTypeOK
    [] focus = "previews" -> PreviewTypeOK

\* Rights hold however requests overlap: one user owns a space (space/service.go),
\* a limited share is used as often as its limit says (share/service.go), and a
\* session ends with what it was made from (auth).
AccessHolds ==
  CASE focus = "spaces" -> OneOwner
    [] focus = "shares" -> SharesHold
    [] focus = "sessions" -> SessionsHold
    [] OTHER -> TRUE

\* A row that offers a file has it, and the file is the one it was made or sent
\* for: uploads (upload.go), subtitles (subtitle/upload.go), exports
\* (media_export.go), covers (cover_repository.go), timeline previews
\* (timeline_preview_service.go); and no preview is left behind unknown.
FilesFitRows ==
  CASE focus = "uploads" -> UploadsSafe
    [] focus = "subtitles" -> SubtitlesSafe
    [] focus = "exports" -> ExportsSafe
    [] focus = "covers" -> CoversSafe
    [] focus = "previews" -> PointerHasAsset /\ NoUnknownDirectory
    [] OTHER -> TRUE

\* What a user has written is kept: the content of an image whose tags are
\* written back (metadata_writeback.go), a change of a bookmark that was
\* confirmed (bookmark_service.go).
EditsAreKept ==
  CASE focus = "writeback" -> ContentIsKept /\ RollbackRestores
    [] focus = "bookmarks" -> BookmarksSafe
    [] OTHER -> TRUE

\* What the server goes by is what was decided last: settings and their undoing
\* (settings, rollback), the rows of the media type rules (media_type_rules.go), the
\* encoders of the FFmpeg in use (capability_service.go, fallback.go).
DecisionsHold ==
  CASE focus = "settings" -> RunsAsStored /\ UndoesWhole
    [] focus = "rules" -> MediaRulesSafe
    [] focus = "encoders" -> SnapshotFits /\ RowsFit /\ FallbackSaves
    [] OTHER -> TRUE

\* The media types a library goes by are those its rules decide, the rows of the
\* library before those of the space, and what a scan takes as a type the listing
\* shows under it (Policy and EnabledExtensionsForType in media_type_rules.go).
RulesDecide == focus = "rules" => PolicyFits

\* A step that comes too late changes nothing of what has overtaken it: an
\* ownership passes on only by a transfer of its owner (space/service.go), the
\* previews of a media become current in the order they were asked for and a
\* compensation spares the current one (timeline_preview_service.go).
LateStepsYield == [][GivesOwnership /\ MovesForward /\ SparesCurrent]_requestsVars
=============================================================================
