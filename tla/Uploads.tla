------------------------------- MODULE Uploads -------------------------------
(***************************************************************************)
(* api/upload_handler.go and internal/library/upload.go: files uploaded    *)
(* under one name into one directory of a library.  The handler looks for  *)
(* a free name, writes name.part and renames it.  Nothing reserves the     *)
(* name in between.                                                        *)
(*                                                                         *)
(* A file is named by the upload that created it; two uploads that have    *)
(* the same name.part open write into the same file, and go on doing so    *)
(* when one of them has renamed it.                                        *)
(***************************************************************************)
EXTENDS Faults, FiniteSets

CONSTANT UploadIds      \* uploads, positive numbers

ASSUME UploadsAssumption == UploadIds \subseteq Nat \ {0} /\ IsFiniteSet(UploadIds)

VARIABLES landed, \* file at name(n).ext
          part,   \* file at name(n).ext.part
          body,   \* what was written into a file since it was last truncated
          upload  \* [at, slot, file, met]: met holds the uploads that had the same
                  \*   name in hand at the same time (history)

uploadVars == <<landed, part, body, upload, mishaps>>

Slots == 0..Cardinality(UploadIds)
NoFile == 0

EmptyBody == [by |-> NoFile, is |-> "empty"]
BeforeUpload == [at |-> "idle", slot |-> 0, file |-> NoFile, met |-> {}]

NameInHand(u) == upload[u].at \in {"named", "open", "half", "closed"}

-----------------------------------------------------------------------------

UploadsInit ==
  /\ landed = [s \in Slots |-> NoFile] /\ part = [s \in Slots |-> NoFile]
  /\ body = [u \in UploadIds |-> EmptyBody]
  /\ upload = [u \in UploadIds |-> BeforeUpload] /\ mishaps = 0

\* ResolveUploadConflict: the first of name, name(1), name(2), ... nothing landed at.
Chosen_TheName(s) == s = 0
Chosen(s) == landed[s] = NoFile /\ \A r \in Slots : r < s => landed[r] # NoFile

ChooseName(u) ==
  \E s \in Slots :
    LET others == {w \in UploadIds \ {u} : NameInHand(w) /\ upload[w].slot = s}
    IN  /\ upload[u] = BeforeUpload /\ Chosen(s)
        /\ upload' = [w \in UploadIds |->
             IF w = u THEN [at |-> "named", slot |-> s, file |-> NoFile, met |-> others]
             ELSE IF w \in others THEN [upload[w] EXCEPT !.met = @ \cup {u}]
             ELSE upload[w]]
        /\ UNCHANGED <<landed, part, body, mishaps>>

UploadGoes(u, at) == upload' = [upload EXCEPT ![u].at = at]

\* O_CREATE and O_TRUNC: a .part file that is there is used again, emptied.
Truncates_Not(f) == body
Truncates(f) == [body EXCEPT ![f] = EmptyBody]

OpenPart(u) ==
  LET s == upload[u].slot
      f == IF part[s] = NoFile THEN u ELSE part[s]
  IN  /\ upload[u].at = "named"
      /\ part' = [part EXCEPT ![s] = f] /\ body' = Truncates(f)
      /\ upload' = [upload EXCEPT ![u].at = "open", ![u].file = f]
      /\ UNCHANGED <<landed, mishaps>>

\* io.Copy, in two halves: a half over another's content leaves a mixture.
WriteHalf(u) ==
  LET f == upload[u].file
  IN  /\ upload[u].at = "open" /\ UploadGoes(u, "half")
      /\ body' = [body EXCEPT ![f] = IF @ = EmptyBody THEN [by |-> u, is |-> "half"]
                                     ELSE [by |-> @.by, is |-> "mixed"]]
      /\ UNCHANGED <<landed, part, mishaps>>

WriteRest(u) ==
  LET f == upload[u].file
  IN  /\ upload[u].at = "half" /\ UploadGoes(u, "closed")
      /\ body' = [body EXCEPT ![f] = IF @ = [by |-> u, is |-> "half"] THEN [by |-> u, is |-> "whole"]
                                     ELSE [by |-> u, is |-> "mixed"]]
      /\ UNCHANGED <<landed, part, mishaps>>

\* A write, the close or the rename fails: the .part file, whosever it is by
\* now, is removed.
UploadWriteFails(u) ==
  /\ upload[u].at \in {"open", "half", "closed"} /\ Mishap /\ UploadGoes(u, "failed")
  /\ part' = [part EXCEPT ![upload[u].slot] = NoFile]
  /\ UNCHANGED <<landed, body>>

\* os.Rename replaces what has landed meanwhile, and takes the .part file that
\* is there now; without one it fails.
Land(u) ==
  LET s == upload[u].slot
  IN  /\ upload[u].at = "closed"
      /\ IF part[s] = NoFile
         THEN UploadGoes(u, "failed") /\ UNCHANGED <<landed, part>>
         ELSE /\ UploadGoes(u, "uploaded")
              /\ landed' = [landed EXCEPT ![s] = part[s]]
              /\ part' = [part EXCEPT ![s] = NoFile]
      /\ UNCHANGED <<body, mishaps>>

\* The server stops: what was open stays as it is.
UploadsRestart ==
  /\ \E u \in UploadIds : NameInHand(u)
  /\ Mishap
  /\ upload' = [u \in UploadIds |-> IF NameInHand(u) THEN [upload[u] EXCEPT !.at = "failed"] ELSE upload[u]]
  /\ UNCHANGED <<landed, part, body>>

UploadsNext ==
  \/ \E u \in UploadIds : ChooseName(u) \/ OpenPart(u) \/ WriteHalf(u) \/ WriteRest(u)
                          \/ UploadWriteFails(u) \/ Land(u)
  \/ UploadsRestart

UploadsSpec == UploadsInit /\ [][UploadsNext]_uploadVars

-----------------------------------------------------------------------------

\* Names lead to files that were created, and every upload is somewhere.
UploadsTypeOK ==
  /\ landed \in [Slots -> UploadIds \cup {NoFile}] /\ part \in [Slots -> UploadIds \cup {NoFile}]
  /\ body \in [UploadIds -> [by : UploadIds \cup {NoFile}, is : {"empty", "half", "mixed", "whole"}]]
  /\ upload \in [UploadIds ->
       [at : {"idle", "named", "open", "half", "closed", "uploaded", "failed"}, slot : Slots,
        file : UploadIds \cup {NoFile}, met : SUBSET UploadIds]]

Whole(s, u) == landed[s] # NoFile /\ body[landed[s]] = [by |-> u, is |-> "whole"]

\* What a successful upload has stored stays there, whole and under its name,
\* whatever failed or was cut off before it or comes after it, as long as no
\* other upload had the same name in hand at the same time.
UploadedStays ==
  \A u \in UploadIds : upload[u].at = "uploaded" /\ upload[u].met = {} => Whole(upload[u].slot, u)

\* A scan sees no half-written file unless two uploads met under its name.
NothingHalfLands ==
  \A s \in Slots : landed[s] # NoFile =>
    \/ \E u \in UploadIds : Whole(s, u)
    \/ \E u \in UploadIds : upload[u].slot = s /\ upload[u].met # {}

UploadsSafe == UploadedStays /\ NothingHalfLands
=============================================================================
