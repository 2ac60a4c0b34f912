------------------------------ MODULE Bookmarks ------------------------------
(***************************************************************************)
(* internal/library/bookmark_service.go: clients that change or delete one *)
(* bookmark, each sending the revision it has read.  The row is read and   *)
(* written in one transaction; SQLite refuses the write as busy when       *)
(* another connection has written since the read, and the service then     *)
(* looks at the row again and tries a second time.                         *)
(*                                                                         *)
(* Every change a client asks for is a request of its own; the text of the *)
(* bookmark is the request that wrote it.                                  *)
(***************************************************************************)
EXTENDS Faults, Sequences

CONSTANTS BookmarkClients,
          MaxBookmarkRequests  \* bound: requests begun

ASSUME BookmarksAssumption == MaxBookmarkRequests \in Nat

VARIABLES bookmark, \* [revision, by]: the row; revision 0 when it is deleted
          history,  \* history: the requests that wrote the revisions 2, 3, ... and the deletion
          seen,     \* revision a client has of it (0: it knows it as deleted)
          sent,     \* request of a client: what it asks, how far the service is
          begun     \* requests begun

bookmarkVars == <<bookmark, history, seen, sent, begun, mishaps>>

BookmarkCASMaxAttempts == 2

NoSent == [does |-> "nothing"]

AskedChange(does, revision, id) ==
  [does |-> does, revision |-> revision, id |-> id, at |-> "read", tries |-> 1, answer |-> "none",
   snapshot |-> 0]

DeletedRow == [revision |-> 0, by |-> 0]

\* bookmarkUpdatedCopy.
Bumped_Same(revision) == revision
Bumped(revision) == revision + 1

-----------------------------------------------------------------------------

\* CreateMediaBookmark; the clients list the media before they change anything.
BookmarksInit ==
  /\ bookmark = [revision |-> 1, by |-> 0] /\ history = <<>>
  /\ seen = [c \in BookmarkClients |-> 1]
  /\ sent = [c \in BookmarkClients |-> NoSent] /\ begun = 0 /\ mishaps = 0

\* ListMediaBookmarks between two requests of a client.
ListBookmarks(c) ==
  /\ sent[c] = NoSent /\ seen[c] # bookmark.revision
  /\ seen' = [seen EXCEPT ![c] = bookmark.revision]
  /\ UNCHANGED <<bookmark, history, sent, begun, mishaps>>

\* UpdateMediaBookmark and DeleteMediaBookmark, with the revision the client has.
SendRequest(c) ==
  \E does \in {"update", "delete"} :
    /\ sent[c] = NoSent /\ seen[c] > 0 /\ begun < MaxBookmarkRequests
    /\ begun' = begun + 1
    /\ sent' = [sent EXCEPT ![c] = AskedChange(does, seen[c], begun + 1)]
    /\ UNCHANGED <<bookmark, history, seen, mishaps>>

GoesOn(c, at) == sent' = [sent EXCEPT ![c].at = at]

\* An answer tells the revision of the row, an error nothing.
AnswersBookmark_TheAsked(c, what, revision) ==
  sent' = [sent EXCEPT ![c].at = "answered", ![c].answer = what, ![c].snapshot = sent[c].revision]
AnswersBookmark(c, what, revision) ==
  sent' = [sent EXCEPT ![c].at = "answered", ![c].answer = what, ![c].snapshot = revision]

RowMatches(c) == bookmark.revision = sent[c].revision

\* GetTx opens the transaction's snapshot; no row, or another revision, is a conflict.
ReadBookmark(c) ==
  /\ sent[c].does # "nothing" /\ sent[c].at = "read"
  /\ IF RowMatches(c)
     THEN sent' = [sent EXCEPT ![c].at = "write", ![c].snapshot = bookmark.revision]
     ELSE AnswersBookmark(c, "conflict", bookmark.revision)
  /\ UNCHANGED <<bookmark, history, seen, begun, mishaps>>

\* UpdateCASTx or DeleteCASTx, the audit and the commit.
WriteBookmark(c) ==
  /\ sent[c].does # "nothing" /\ sent[c].at = "write"
  /\ bookmark.revision = sent[c].snapshot /\ RowMatches(c)
  /\ bookmark' = IF sent[c].does = "delete" THEN DeletedRow
                 ELSE [revision |-> Bumped(bookmark.revision), by |-> sent[c].id]
  /\ history' = Append(history, sent[c].id)
  /\ AnswersBookmark(c, "saved", bookmark'.revision) /\ UNCHANGED <<seen, begun, mishaps>>

\* SQLITE_BUSY of the write: certain when the snapshot is old, possible otherwise.
WriteIsBusy(c) ==
  /\ sent[c].does # "nothing" /\ sent[c].at = "write"
  /\ MishapIf(bookmark.revision = sent[c].snapshot)
  /\ GoesOn(c, "look") /\ UNCHANGED <<bookmark, history, seen, begun>>

\* The row cannot be read or looked at, or the write, the audit or the commit fails but
\* for being busy: everything is undone and nothing tried again.
BookmarkFails(c) ==
  /\ sent[c].does # "nothing" /\ sent[c].at # "answered" /\ Mishap
  /\ AnswersBookmark(c, "error", seen[c]) /\ UNCHANGED <<bookmark, history, seen, begun>>

\* bookmarkConflictAfterBusy.
Differs_Always(c) == TRUE
Differs(c) == ~RowMatches(c)

MoreTries(c) == sent[c].tries < BookmarkCASMaxAttempts

LookAfterBusy(c) ==
  /\ sent[c].does # "nothing" /\ sent[c].at = "look"
  /\ IF Differs(c) THEN AnswersBookmark(c, "conflict", bookmark.revision)
     ELSE IF MoreTries(c)
          THEN sent' = [sent EXCEPT ![c].at = "read", ![c].tries = @ + 1, ![c].snapshot = 0]
          ELSE AnswersBookmark(c, "error", seen[c])
  /\ UNCHANGED <<bookmark, history, seen, begun, mishaps>>

\* writeChaptersBookmarksError tells a conflict with the row the service holds;
\* an answer may also be lost on its way to the client.
ReceiveAnswer(c) ==
  /\ sent[c].does # "nothing" /\ sent[c].at = "answered"
  /\ sent' = [sent EXCEPT ![c] = NoSent]
  /\ \/ seen' = [seen EXCEPT ![c] = sent[c].snapshot] /\ UNCHANGED mishaps
     \/ UNCHANGED seen /\ Mishap
  /\ UNCHANGED <<bookmark, history, begun>>

BookmarksNext ==
  \E c \in BookmarkClients :
    \/ ListBookmarks(c) \/ SendRequest(c) \/ ReadBookmark(c) \/ WriteBookmark(c) \/ WriteIsBusy(c)
    \/ BookmarkFails(c) \/ LookAfterBusy(c) \/ ReceiveAnswer(c)

BookmarksSpec == BookmarksInit /\ [][BookmarksNext]_bookmarkVars

-----------------------------------------------------------------------------

\* The row and the requests hold what their names say.
BookmarksTypeOK ==
  /\ bookmark \in [revision : 0..MaxBookmarkRequests + 1, by : 0..MaxBookmarkRequests]
  /\ history \in Seq(1..MaxBookmarkRequests) /\ begun \in 0..MaxBookmarkRequests
  /\ seen \in [BookmarkClients -> 0..MaxBookmarkRequests + 1]
  /\ \A c \in BookmarkClients : sent[c] # NoSent =>
       /\ sent[c].at \in {"read", "write", "look", "answered"}
       /\ sent[c].tries \in 1..BookmarkCASMaxAttempts
       /\ sent[c].answer \in {"none", "saved", "conflict", "error"}

WrittenBy(id) == {i \in DOMAIN history : history[i] = id}

\* A change is stored exactly once when its client is told so, and not at all
\* when it is told of a conflict or an error, however busy the database was and
\* however often the service tried.
SavedExactlyOnce ==
  \A c \in BookmarkClients : sent[c] # NoSent =>
    IF sent[c].answer = "saved" THEN \E i \in DOMAIN history : WrittenBy(sent[c].id) = {i}
    ELSE WrittenBy(sent[c].id) = {}

\* Nothing is overwritten unseen: the change that is stored as revision r + 1
\* was asked for by a client that had read revision r.
NoUnseenOverwrite ==
  \A c \in BookmarkClients : sent[c] # NoSent /\ sent[c].answer = "saved" =>
    WrittenBy(sent[c].id) = {sent[c].revision}

\* The row is what the latest change made of it.
RowIsLatest ==
  bookmark.revision = 0 \/ (bookmark.revision = Len(history) + 1 /\
                            (history # <<>> => bookmark.by = history[Len(history)]))

\* A client that hears of a conflict has indeed an old revision: revisions
\* only grow, so the conflict is still true when it is read.
ConflictIsTrue ==
  \A c \in BookmarkClients : sent[c] # NoSent /\ sent[c].answer = "conflict" => ~RowMatches(c)

BookmarksSafe == SavedExactlyOnce /\ NoUnseenOverwrite /\ RowIsLatest /\ ConflictIsTrue

\* A request as its client knows it.
CallOf(c) ==
  IF sent[c] = NoSent THEN [outcome |-> "none"]
  ELSE [does |-> sent[c].does, expects |-> sent[c].revision, id |-> sent[c].id,
        outcome |-> IF sent[c].answer = "none" THEN "open" ELSE sent[c].answer,
        shows |-> IF sent[c].answer \in {"saved", "conflict"} THEN sent[c].snapshot ELSE 0]

Register == INSTANCE BookmarkRegister WITH
  Client <- BookmarkClients, revision <- bookmark.revision, by <- bookmark.by,
  call <- [c \in BookmarkClients |-> CallOf(c)]

\* The transactions, the busy database and the second attempt of runBookmarkCAS
\* together are one comparison and change of the row: each request takes effect at
\* one moment, and its answer tells what happened then.
BookmarkIsRegister == Register!Spec
=============================================================================
