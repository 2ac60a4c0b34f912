--------------------------- MODULE RequestsProofs -----------------------------
(***************************************************************************)
(* Theorems about the files the server offers (uploads, subtitles,         *)
(* exports, covers, timeline previews), and about all that is checked      *)
(* together in MCRequests, for every value of the constants.               *)
(***************************************************************************)
EXTENDS MCRequests, DecisionsProofs

-----------------------------------------------------------------------------
(***************************************************************************)
(* Uploads (upload.go). Only the uploads that met nobody at their name are *)
(* promised their file, and for them the name, the temporary file and what *)
(* is in it are theirs alone.                                              *)
(***************************************************************************)

\* A file stays at the name its upload took.
FilesStay ==
  \A s \in Slots :
    /\ part[s] # NoFile => upload[part[s]].slot = s
    /\ landed[s] # NoFile => upload[landed[s]].slot = s
    /\ part[s] # NoFile => part[s] # landed[s]

\* An upload at work has a file, at its own name.
WritersStay ==
  \A u \in UploadIds :
    /\ upload[u].at \in {"open", "half", "closed"} => upload[u].file # NoFile
    /\ upload[u].file # NoFile => upload[upload[u].file].slot = upload[u].slot

\* An upload that has not opened its file is named nowhere.
Unused ==
  \A u \in UploadIds : upload[u].at \in {"idle", "named"} =>
    /\ upload[u].file = NoFile
    /\ \A w \in UploadIds : upload[w].file # u
    /\ \A s \in Slots : part[s] # u /\ landed[s] # u

\* Two that have a name in hand know of each other.
TheyMet ==
  \A u, w \in UploadIds :
    NameInHand(u) /\ NameInHand(w) /\ u # w /\ upload[u].slot = upload[w].slot => upload[u].met # {}

\* One that met nobody has the name, its temporary file and what is in it for itself.
AloneInHand ==
  \A u \in UploadIds : NameInHand(u) /\ upload[u].met = {} =>
    /\ landed[upload[u].slot] = NoFile
    /\ upload[u].at # "named" => part[upload[u].slot] = upload[u].file
    /\ upload[u].at = "open" => body[upload[u].file] = EmptyBody
    /\ upload[u].at = "half" => body[upload[u].file] = [by |-> u, is |-> "half"]
    /\ upload[u].at = "closed" => body[upload[u].file] = [by |-> u, is |-> "whole"]

\* One that met nobody and ended has its whole file in place, and nobody at its name.
AloneLanded ==
  \A u \in UploadIds : upload[u].at = "uploaded" /\ upload[u].met = {} =>
    /\ Whole(upload[u].slot, u)
    /\ \A w \in UploadIds : NameInHand(w) => upload[w].slot # upload[u].slot

\* What is in place was put there by an upload that ended.
LandedByOne ==
  \A s \in Slots : landed[s] # NoFile =>
    \E u \in UploadIds : upload[u].at = "uploaded" /\ upload[u].slot = s

\* The inductive invariant of uploads.
UploadsInv ==
  /\ UploadsTypeOK /\ FilesStay /\ WritersStay /\ Unused /\ TheyMet
  /\ AloneInHand /\ AloneLanded /\ LandedByOne

\* What uploads, files and names are made of.
UploadStates == {"idle", "named", "open", "half", "closed", "uploaded", "failed"}
UploadBodies == [by : UploadIds \cup {NoFile}, is : {"empty", "half", "mixed", "whole"}]
UploadRecords == [at : UploadStates, slot : Slots, file : UploadIds \cup {NoFile}, met : SUBSET UploadIds]

\* It holds at first.
LEMMA UploadsInitInv == UploadsInit => UploadsInv
<1> SUFFICES ASSUME UploadsInit PROVE UploadsInv
  OBVIOUS
<1> USE UploadsAssumption DEF UploadsInit, BeforeUpload, EmptyBody, NoFile
<1>1. 0 \in Slots
  BY FS_CardinalityType DEF Slots
<1>2. UploadsTypeOK
  BY <1>1 DEF UploadsTypeOK
<1>3. FilesStay /\ WritersStay /\ TheyMet /\ AloneInHand /\ AloneLanded /\ LandedByOne
  BY <1>1 DEF FilesStay, WritersStay, TheyMet, AloneInHand, AloneLanded, LandedByOne, NameInHand,
         Whole
<1>4. Unused
  BY <1>1 DEF Unused
<1> QED
  BY <1>2, <1>3, <1>4 DEF UploadsInv

\* What the run checks follows from it.
LEMMA UploadsHold == UploadsInv => UploadsSafe
<1> SUFFICES ASSUME UploadsInv PROVE UploadsSafe
  OBVIOUS
<1>1. UploadedStays
  BY DEF UploadsInv, AloneLanded, UploadedStays
<1>2. NothingHalfLands
  BY DEF UploadsInv, AloneLanded, LandedByOne, NothingHalfLands
<1> QED
  BY <1>1, <1>2 DEF UploadsSafe

\* Every step of an upload, and a crash, keeps it.
LEMMA UploadsStep == UploadsInv /\ [UploadsNext]_uploadVars => UploadsInv'
<1> SUFFICES ASSUME UploadsInv, [UploadsNext]_uploadVars PROVE UploadsInv'
  OBVIOUS
<1> USE UploadsAssumption
<1> DEFINE S == UploadStates
           B == UploadBodies
           R == UploadRecords
<1>t. /\ landed \in [Slots -> UploadIds \cup {NoFile}]
      /\ part \in [Slots -> UploadIds \cup {NoFile}]
      /\ body \in [UploadIds -> B] /\ upload \in [UploadIds -> R] /\ NoFile \notin UploadIds
  BY DEF UploadsInv, UploadsTypeOK, NoFile, UploadStates, UploadBodies, UploadRecords
<1>i. FilesStay /\ WritersStay /\ Unused /\ TheyMet /\ AloneInHand /\ AloneLanded /\ LandedByOne
  BY DEF UploadsInv
<1>g. ASSUME landed' \in [Slots -> UploadIds \cup {NoFile}], part' \in [Slots -> UploadIds \cup {NoFile}],
             body' \in [UploadIds -> B], upload' \in [UploadIds -> R]
      PROVE  UploadsTypeOK'
  BY <1>g DEF UploadsTypeOK, UploadStates, UploadBodies, UploadRecords
<1>b. EmptyBody \in B /\ \A u \in UploadIds, i \in {"half", "mixed", "whole"} : [by |-> u, is |-> i] \in B
  BY DEF UploadBodies, EmptyBody
<1>y. \A b \in B : b.by \in UploadIds \cup {NoFile} /\ [by |-> b.by, is |-> "mixed"] \in B
  BY DEF UploadBodies
<1>r. \A r \in R : /\ r.at \in S /\ r.slot \in Slots /\ r.file \in UploadIds \cup {NoFile}
                   /\ r.met \in SUBSET UploadIds
  BY DEF UploadRecords, UploadStates
<1>c. \A s \in Slots, n \in SUBSET UploadIds :
        [at |-> "named", slot |-> s, file |-> NoFile, met |-> n] \in R
  BY DEF UploadRecords, UploadStates
<1>m. ASSUME NEW r \in R, NEW u \in UploadIds
      PROVE  LET q == [r EXCEPT !.met = @ \cup {u}]
             IN  /\ q \in R /\ q.at = r.at /\ q.slot = r.slot /\ q.file = r.file
                 /\ q.met = r.met \cup {u}
  BY DEF UploadRecords, UploadStates
<1>a. ASSUME NEW r \in R, NEW a \in S
      PROVE  LET q == [r EXCEPT !.at = a]
             IN  q \in R /\ q.at = a /\ q.slot = r.slot /\ q.file = r.file /\ q.met = r.met
  BY DEF UploadRecords, UploadStates
<1>o. ASSUME NEW r \in R, NEW a \in S, NEW f \in UploadIds
      PROVE  LET q == [r EXCEPT !.at = a, !.file = f]
             IN  q \in R /\ q.at = a /\ q.slot = r.slot /\ q.file = f /\ q.met = r.met
  BY DEF UploadRecords, UploadStates
<1>s. {"idle", "named", "open", "half", "closed", "uploaded", "failed"} \subseteq S
  BY DEF UploadStates
<1>p. /\ \A u \in UploadIds : /\ upload[u].slot \in Slots /\ upload[u].file \in UploadIds \cup {NoFile}
                              /\ upload[u].at \in S /\ upload[u] \in R
      /\ \A s \in Slots : /\ part[s] \in UploadIds \cup {NoFile}
                          /\ landed[s] \in UploadIds \cup {NoFile}
      /\ NoFile \notin UploadIds
  BY <1>t, <1>r
<1> HIDE DEF R, S, B
<1>1. ASSUME NEW u \in UploadIds, ChooseName(u)
      PROVE  UploadsInv'
  <2>0. PICK s \in Slots :
          LET others == {w \in UploadIds \ {u} : NameInHand(w) /\ upload[w].slot = s}
          IN  /\ upload[u] = BeforeUpload /\ Chosen(s)
              /\ upload' = [w \in UploadIds |->
                   IF w = u THEN [at |-> "named", slot |-> s, file |-> NoFile, met |-> others]
                   ELSE IF w \in others THEN [upload[w] EXCEPT !.met = @ \cup {u}]
                   ELSE upload[w]]
              /\ UNCHANGED <<landed, part, body, mishaps>>
    BY <1>1 DEF ChooseName
  <2> DEFINE others == {w \in UploadIds \ {u} : NameInHand(w) /\ upload[w].slot = s}
  <2>1. /\ upload[u].at = "idle" /\ landed[s] = NoFile /\ upload[u].file = NoFile
        /\ landed' = landed /\ part' = part /\ body' = body
        /\ upload'[u] = [at |-> "named", slot |-> s, file |-> NoFile, met |-> others]
        /\ \A w \in others : upload'[w] = [upload[w] EXCEPT !.met = @ \cup {u}]
        /\ \A w \in UploadIds \ {u} : w \notin others => upload'[w] = upload[w]
    BY <2>0 DEF BeforeUpload, Chosen
  <2>2. UploadsTypeOK'
    <3>1. upload' \in [UploadIds -> R]
      BY <1>t, <1>p, <1>c, <1>m, <2>0
    <3> QED
      BY ONLY <3>1, <1>t, <1>g, <2>1
  <2>3. /\ \A w \in UploadIds \ {u} : /\ upload'[w].at = upload[w].at /\ upload'[w].slot = upload[w].slot
                                      /\ upload'[w].file = upload[w].file
                                      /\ upload'[w].met =
                                            IF w \in others THEN upload[w].met \cup {u} ELSE upload[w].met
        /\ upload'[u].at = "named" /\ upload'[u].slot = s /\ upload'[u].file = NoFile
        /\ upload'[u].met = others
    <3>1. \A w \in others : upload'[w] = [upload[w] EXCEPT !.met = @ \cup {u}] /\ upload[w] \in R
      BY <1>p, <2>1
    <3>2. \A w \in others : /\ upload'[w].at = upload[w].at /\ upload'[w].slot = upload[w].slot
                            /\ upload'[w].file = upload[w].file
                            /\ upload'[w].met = upload[w].met \cup {u}
      <4> SUFFICES ASSUME NEW w \in others
                   PROVE  /\ upload'[w].at = upload[w].at /\ upload'[w].slot = upload[w].slot
                          /\ upload'[w].file = upload[w].file
                          /\ upload'[w].met = upload[w].met \cup {u}
        OBVIOUS
      <4>1. upload'[w] = [upload[w] EXCEPT !.met = @ \cup {u}] /\ upload[w] \in R
        BY <3>1
      <4> QED
        BY <4>1 DEF R, UploadRecords
    <3>3. \A w \in UploadIds \ {u} : w \notin others => upload'[w] = upload[w]
      BY <2>1
    <3>4. /\ upload'[u].at = "named" /\ upload'[u].slot = s /\ upload'[u].file = NoFile
          /\ upload'[u].met = others
      BY <2>1
    <3> HIDE DEF others
    <3> QED
      BY ONLY <3>2, <3>3, <3>4
  <2>4. /\ \A r \in Slots : part'[r] = part[r]
        /\ \A r \in Slots : landed'[r] = landed[r]
        /\ \A g \in UploadIds : body'[g] = body[g]
    BY <1>t, <2>1
  <2>5. /\ upload[u].at = "idle" /\ landed[s] = NoFile /\ upload[u].file = NoFile /\ s \in Slots
        /\ \A w \in UploadIds \ {u} : w \in others <=> NameInHand(w) /\ upload[w].slot = s
        /\ part' = part /\ landed' = landed /\ body' = body
    BY <2>1
  <2> HIDE DEF others
  <2>6. /\ \A w \in UploadIds \ {u} : upload'[w].at = upload[w].at /\ upload'[w].slot = upload[w].slot
        /\ \A w \in UploadIds \ {u} : upload'[w].file = upload[w].file
        /\ upload'[u].at = "named" /\ upload'[u].slot = s /\ upload'[u].file = NoFile
    BY <2>3
  <2>a. FilesStay'
    BY <1>p, <1>i, <2>3, <2>5 DEF FilesStay, Unused, NameInHand, Whole
  <2>b. WritersStay'
    BY <1>p, <1>i, <2>6, <2>5 DEF WritersStay, Unused
  <2>c. Unused'
    BY <1>p, <1>i, <2>6, <2>5 DEF Unused
  <2>d. TheyMet'
    <3> SUFFICES ASSUME NEW x \in UploadIds, NEW w \in UploadIds, NameInHand(x)', NameInHand(w)', x # w,
                        upload'[x].slot = upload'[w].slot
                 PROVE  upload'[x].met # {}
      BY DEF TheyMet
    <3>1. CASE x = u
      BY <3>1, <2>3, <2>5 DEF NameInHand
    <3>2. CASE x # u /\ w = u
      BY <3>2, <2>3, <2>5 DEF NameInHand
    <3>3. CASE x # u /\ w # u
      BY <3>3, <1>i, <2>3 DEF NameInHand, TheyMet
    <3> QED
      BY <3>1, <3>2, <3>3
  <2>e. AloneInHand'
    <3> SUFFICES ASSUME NEW x \in UploadIds, NameInHand(x)', upload'[x].met = {}
                 PROVE  /\ landed[upload'[x].slot] = NoFile
                        /\ upload'[x].at # "named" => part[upload'[x].slot] = upload'[x].file
                        /\ upload'[x].at = "open" => body[upload'[x].file] = EmptyBody
                        /\ upload'[x].at = "half" => body[upload'[x].file] = [by |-> x, is |-> "half"]
                        /\ upload'[x].at = "closed" => body[upload'[x].file] = [by |-> x, is |-> "whole"]
      BY <2>5 DEF AloneInHand
    <3>1. CASE x = u
      BY <3>1, <2>3, <2>5
    <3>2. CASE x # u
      <4>1. x \notin others /\ upload[x].met = {} /\ NameInHand(x)
        BY <3>2, <2>3 DEF NameInHand
      <4> QED
        BY <3>2, <4>1, <2>6, <1>i DEF AloneInHand
    <3> QED
      BY <3>1, <3>2
  <2>q. AloneLanded'
    <3> SUFFICES ASSUME NEW x \in UploadIds, upload'[x].at = "uploaded", upload'[x].met = {}
                 PROVE  /\ Whole(upload[x].slot, x)'
                        /\ \A w \in UploadIds : NameInHand(w)' => upload'[w].slot # upload'[x].slot
      BY DEF AloneLanded
    <3>1. x # u /\ upload[x].at = "uploaded" /\ upload[x].met = {} /\ upload'[x].slot = upload[x].slot
      BY <2>3
    <3>2. /\ Whole(upload[x].slot, x)
          /\ \A w \in UploadIds : NameInHand(w) => upload[w].slot # upload[x].slot
      BY <3>1, <1>i DEF AloneLanded
    <3>3. Whole(upload[x].slot, x)'
      BY <3>1, <3>2, <2>5 DEF Whole
    <3>4. ASSUME NEW w \in UploadIds, NameInHand(w)' PROVE upload'[w].slot # upload'[x].slot
      BY <3>1, <3>2, <3>4, <2>6, <2>5 DEF NameInHand, Whole
    <3> QED
      BY <3>3, <3>4
  <2>g. LandedByOne'
    <3> SUFFICES ASSUME NEW r \in Slots, landed'[r] # NoFile
                 PROVE  \E w \in UploadIds : upload'[w].at = "uploaded" /\ upload'[w].slot = r
      BY DEF LandedByOne
    <3>1. PICK w \in UploadIds : upload[w].at = "uploaded" /\ upload[w].slot = r
      BY <1>i, <2>5 DEF LandedByOne
    <3>2. w # u
      BY <3>1, <2>5
    <3>3. upload'[w].at = "uploaded" /\ upload'[w].slot = r
      BY <3>1, <3>2, <2>6
    <3> QED
      BY <3>3
  <2> QED
    BY <2>2, <2>a, <2>b, <2>c, <2>d, <2>e, <2>q, <2>g DEF UploadsInv
<1>2. ASSUME NEW u \in UploadIds, OpenPart(u)
      PROVE  UploadsInv'
  <2> DEFINE s == upload[u].slot
  <2>f. PICK fl \in UploadIds : fl = IF part[s] = NoFile THEN u ELSE part[s]
    BY <1>p
  <2>1. /\ upload[u].at = "named" /\ part' = [part EXCEPT ![s] = fl]
        /\ body' = [body EXCEPT ![fl] = EmptyBody]
        /\ upload' = [upload EXCEPT ![u].at = "open", ![u].file = fl]
        /\ landed' = landed /\ s \in Slots
    BY <1>2, <1>p, <2>f DEF OpenPart, Truncates
  <2>2. UploadsTypeOK'
    <3>1. upload' \in [UploadIds -> R] /\ body' \in [UploadIds -> B]
      <4>1. [upload[u] EXCEPT !.at = "open", !.file = fl] \in R
        BY <1>p, <1>o, <1>s
      <4> QED
        BY <1>t, <4>1, <1>b, <2>1
    <3>2. part' \in [Slots -> UploadIds \cup {NoFile}] /\ landed' \in [Slots -> UploadIds \cup {NoFile}]
      BY <1>t, <1>p, <2>1, <2>f
    <3> QED
      BY ONLY <3>1, <3>2, <1>g
  <2>3. /\ \A w \in UploadIds \ {u} : upload'[w] = upload[w]
        /\ upload'[u].at = "open" /\ upload'[u].slot = upload[u].slot
        /\ upload'[u].file = fl /\ upload'[u].met = upload[u].met
    <3>1. /\ upload'[u] = [upload[u] EXCEPT !.at = "open", !.file = fl]
          /\ \A w \in UploadIds \ {u} : upload'[w] = upload[w]
      BY <1>t, <2>1
    <3>2. upload[u] \in R /\ "open" \in S
      BY <1>p, <1>s
    <3> QED
      BY <3>1, <3>2, <2>f DEF R, UploadRecords
  <2>4. /\ \A r \in Slots : part'[r] = IF r = s THEN fl ELSE part[r]
        /\ \A r \in Slots : landed'[r] = landed[r]
        /\ \A g \in UploadIds : body'[g] = IF g = fl THEN EmptyBody ELSE body[g]
    BY <1>t, <2>1, <2>f
  <2>5. upload[u].at = "named" /\ s \in Slots /\ landed' = landed
    BY <2>1
  <2>a. FilesStay'
    <3> SUFFICES ASSUME NEW r \in Slots
                 PROVE  /\ part'[r] # NoFile => upload'[part'[r]].slot = r
                        /\ landed[r] # NoFile => upload'[landed[r]].slot = r
                        /\ part'[r] # NoFile => part'[r] # landed[r]
      BY <2>5 DEF FilesStay
    <3>1. \A w \in UploadIds : upload'[w].slot = upload[w].slot
      BY <2>3
    <3>2. /\ part[r] # NoFile => upload[part[r]].slot = r
          /\ landed[r] # NoFile => upload[landed[r]].slot = r
          /\ part[r] # NoFile => part[r] # landed[r]
      BY <1>i DEF FilesStay
    <3>3. part'[r] = IF r = s THEN fl ELSE part[r]
      BY <2>4
    <3>4. landed[r] # u
      BY <1>i, <2>5 DEF Unused
    <3> QED
      BY <3>1, <3>2, <3>3, <3>4, <2>f, <1>p
  <2>b. WritersStay'
    <3> SUFFICES ASSUME NEW x \in UploadIds
                 PROVE  /\ upload'[x].at \in {"open", "half", "closed"} => upload'[x].file # NoFile
                        /\ upload'[x].file # NoFile => upload'[upload'[x].file].slot = upload'[x].slot
      BY DEF WritersStay
    <3>1. /\ upload[x].at \in {"open", "half", "closed"} => upload[x].file # NoFile
          /\ upload[x].file # NoFile => upload[upload[x].file].slot = upload[x].slot
      BY <1>i DEF WritersStay
    <3>2. \A w \in UploadIds : upload'[w].slot = upload[w].slot
      BY <2>3
    <3>3. upload[fl].slot = s
      BY <1>i, <2>f, <2>5 DEF FilesStay
    <3>4. fl # NoFile /\ upload[x].file \in UploadIds \cup {NoFile}
      BY <1>p, <2>f
    <3>5. CASE x = u
      BY <3>5, <3>2, <3>3, <3>4, <2>3, <2>f
    <3>6. CASE x # u
      BY <3>6, <3>1, <3>2, <3>4, <2>3
    <3> QED
      BY <3>5, <3>6
  <2>c. Unused'
    BY <1>p, <1>i, <2>3, <2>4, <2>5, <2>f DEF Unused, NameInHand, Whole
  <2>d. TheyMet'
    BY <1>p, <1>i, <2>3, <2>4, <2>5, <2>f DEF TheyMet, NameInHand, Whole
  <2>e. AloneInHand'
    <3> SUFFICES ASSUME NEW x \in UploadIds, NameInHand(x)', upload'[x].met = {}
                 PROVE  /\ landed[upload'[x].slot] = NoFile
                        /\ upload'[x].at # "named" => part'[upload'[x].slot] = upload'[x].file
                        /\ upload'[x].at = "open" => body'[upload'[x].file] = EmptyBody
                        /\ upload'[x].at = "half" => body'[upload'[x].file] = [by |-> x, is |-> "half"]
                        /\ upload'[x].at = "closed" => body'[upload'[x].file] = [by |-> x, is |-> "whole"]
      BY <2>5 DEF AloneInHand
    <3>0. upload[x].met = {} /\ NameInHand(x) /\ NameInHand(u) /\ upload'[x].slot = upload[x].slot
      BY <2>3, <2>5 DEF NameInHand
    <3>1. CASE x = u
      BY <3>0, <3>1, <1>i, <2>3, <2>4, <2>5 DEF AloneInHand
    <3>2. CASE x # u
      <4>1. upload[x].slot # s
        BY <3>0, <3>2, <1>i DEF TheyMet
      <4>2. upload[x].file # NoFile => upload[upload[x].file].slot = upload[x].slot
        BY <1>i DEF WritersStay
      <4>3. upload[fl].slot = s
        BY <1>i, <2>f, <2>5 DEF FilesStay
      <4>4. upload[x].file # fl
        BY <4>1, <4>2, <4>3, <1>p
      <4>5. /\ landed[upload[x].slot] = NoFile
            /\ upload[x].at # "named" => part[upload[x].slot] = upload[x].file
            /\ upload[x].at = "open" => body[upload[x].file] = EmptyBody
            /\ upload[x].at = "half" => body[upload[x].file] = [by |-> x, is |-> "half"]
            /\ upload[x].at = "closed" => body[upload[x].file] = [by |-> x, is |-> "whole"]
        BY <3>0, <1>i DEF AloneInHand
      <4>6. upload[x].at \in {"open", "half", "closed"} => upload[x].file \in UploadIds
        BY <1>i, <1>p DEF WritersStay
      <4>7. part'[upload[x].slot] = part[upload[x].slot]
        BY <4>1, <1>p, <2>4
      <4>8. upload[x].at \in {"open", "half", "closed"} => body'[upload[x].file] = body[upload[x].file]
        BY <4>4, <4>6, <2>4
      <4>9. upload'[x] = upload[x]
        BY <3>2, <2>3
      <4> QED
        BY <4>5, <4>7, <4>8, <4>9
    <3> QED
      BY <3>1, <3>2
  <2>q. AloneLanded'
    <3> SUFFICES ASSUME NEW x \in UploadIds, upload'[x].at = "uploaded", upload'[x].met = {}
                 PROVE  /\ Whole(upload[x].slot, x)'
                        /\ \A w \in UploadIds : NameInHand(w)' => upload'[w].slot # upload'[x].slot
      BY DEF AloneLanded
    <3>1. x # u /\ upload'[x] = upload[x]
      BY <2>3
    <3>2. /\ Whole(upload[x].slot, x)
          /\ \A w \in UploadIds : NameInHand(w) => upload[w].slot # upload[x].slot
      BY <3>1, <1>i DEF AloneLanded
    <3>3. NameInHand(u) /\ s # upload[x].slot
      BY <3>2, <2>5 DEF NameInHand
    <3>4. upload[landed[upload[x].slot]].slot = upload[x].slot
      BY <3>2, <1>i, <1>p DEF Whole, FilesStay
    <3>5. landed[upload[x].slot] # fl /\ landed[upload[x].slot] \in UploadIds
      BY <3>2, <3>3, <3>4, <1>i, <1>p, <2>f, <2>5 DEF FilesStay, Whole
    <3>6. body'[landed[upload[x].slot]] = body[landed[upload[x].slot]]
      BY <3>5, <2>4
    <3>7. Whole(upload[x].slot, x)'
      BY <3>1, <3>2, <3>6, <2>5 DEF Whole
    <3>8. ASSUME NEW w \in UploadIds, NameInHand(w)' PROVE upload'[w].slot # upload'[x].slot
      BY <3>1, <3>2, <3>3, <3>8, <2>3 DEF NameInHand
    <3> QED
      BY <3>7, <3>8
  <2>g. LandedByOne'
    BY <1>i, <2>3, <2>4, <2>5 DEF LandedByOne, NameInHand, Whole
  <2> QED
    BY <2>2, <2>a, <2>b, <2>c, <2>d, <2>e, <2>q, <2>g DEF UploadsInv
<1>3. ASSUME NEW u \in UploadIds, WriteHalf(u)
      PROVE  UploadsInv'
  <2> DEFINE s == upload[u].slot
             f == upload[u].file
  <2>1. /\ upload[u].at = "open" /\ part' = part /\ landed' = landed
        /\ body' = [body EXCEPT ![f] = IF @ = EmptyBody THEN [by |-> u, is |-> "half"]
                                        ELSE [by |-> @.by, is |-> "mixed"]]
        /\ upload' = [upload EXCEPT ![u].at = "half"]
    BY <1>3 DEF WriteHalf, UploadGoes
  <2>f. s \in Slots /\ f \in UploadIds
    BY <1>p, <1>i, <2>1 DEF WritersStay
  <2>2. UploadsTypeOK'
    <3>1. upload' \in [UploadIds -> R] /\ body' \in [UploadIds -> B]
      BY <1>t, <1>p, <1>a, <1>o, <1>b, <1>y, <1>s, <2>1, <2>f
    <3>2. part' \in [Slots -> UploadIds \cup {NoFile}] /\ landed' \in [Slots -> UploadIds \cup {NoFile}]
      BY <1>t, <1>p, <2>1, <2>f
    <3> QED
      BY ONLY <3>1, <3>2, <1>g
  <2>3. /\ \A w \in UploadIds \ {u} : upload'[w] = upload[w]
        /\ upload'[u].at = "half" /\ upload'[u].slot = upload[u].slot
        /\ upload'[u].file = upload[u].file /\ upload'[u].met = upload[u].met
    <3>1. upload'[u] = [upload[u] EXCEPT !.at = "half"] /\ \A w \in UploadIds \ {u} : upload'[w] = upload[w]
      BY <1>t, <2>1
    <3>2. upload[u] \in R /\ "half" \in S
      BY <1>p, <1>s
    <3> QED
      BY ONLY <3>1, <3>2, <1>a
  <2>4. /\ \A r \in Slots : part'[r] = part[r]
        /\ \A r \in Slots : landed'[r] = landed[r]
        /\ \A g \in UploadIds :
             body'[g] = IF g = f THEN IF body[f] = EmptyBody THEN [by |-> u, is |-> "half"]
                                                ELSE [by |-> body[f].by, is |-> "mixed"] ELSE body[g]
    BY <1>t, <2>1, <2>f
  <2>a. FilesStay'
    BY <1>p, <1>i, <2>1, <2>3, <2>4 DEF FilesStay, Unused, NameInHand, Whole
  <2>b. WritersStay'
    BY <1>p, <1>i, <2>1, <2>3, <2>4 DEF WritersStay, FilesStay, Unused, NameInHand, Whole
  <2>c. Unused'
    BY <1>p, <1>i, <2>1, <2>3, <2>4 DEF Unused, NameInHand, Whole
  <2>d. TheyMet'
    BY <1>p, <1>i, <2>1, <2>3, <2>4 DEF TheyMet, NameInHand, Whole
  <2>e. AloneInHand'
    BY <1>p, <1>i, <2>1, <2>3, <2>4 DEF AloneInHand, WritersStay, FilesStay, TheyMet, Unused,
           NameInHand, Whole
  <2>q. AloneLanded'
    BY <1>p, <1>i, <2>1, <2>3, <2>4 DEF AloneLanded, AloneInHand, WritersStay, FilesStay, TheyMet,
           Unused, NameInHand, Whole
  <2>g. LandedByOne'
    BY <1>p, <1>i, <2>1, <2>3, <2>4 DEF LandedByOne, NameInHand, Whole
  <2> QED
    BY <2>2, <2>a, <2>b, <2>c, <2>d, <2>e, <2>q, <2>g DEF UploadsInv
<1>4. ASSUME NEW u \in UploadIds, WriteRest(u)
      PROVE  UploadsInv'
  <2> DEFINE s == upload[u].slot
             f == upload[u].file
  <2>1. /\ upload[u].at = "half" /\ part' = part /\ landed' = landed
        /\ body' = [body EXCEPT ![f] = IF @ = [by |-> u, is |-> "half"] THEN [by |-> u, is |-> "whole"]
                                        ELSE [by |-> u, is |-> "mixed"]]
        /\ upload' = [upload EXCEPT ![u].at = "closed"]
    BY <1>4 DEF WriteRest, UploadGoes
  <2>f. s \in Slots /\ f \in UploadIds
    BY <1>p, <1>i, <2>1 DEF WritersStay
  <2>2. UploadsTypeOK'
    <3>1. upload' \in [UploadIds -> R] /\ body' \in [UploadIds -> B]
      BY <1>t, <1>p, <1>a, <1>o, <1>b, <1>y, <1>s, <2>1, <2>f
    <3>2. part' \in [Slots -> UploadIds \cup {NoFile}] /\ landed' \in [Slots -> UploadIds \cup {NoFile}]
      BY <1>t, <1>p, <2>1, <2>f
    <3> QED
      BY ONLY <3>1, <3>2, <1>g
  <2>3. /\ \A w \in UploadIds \ {u} : upload'[w] = upload[w]
        /\ upload'[u].at = "closed" /\ upload'[u].slot = upload[u].slot
        /\ upload'[u].file = upload[u].file /\ upload'[u].met = upload[u].met
    <3>1. upload'[u] = [upload[u] EXCEPT !.at = "closed"] /\ \A w \in UploadIds \ {u} : upload'[w] = upload[w]
      BY <1>t, <2>1
    <3>2. upload[u] \in R /\ "closed" \in S
      BY <1>p, <1>s
    <3> QED
      BY ONLY <3>1, <3>2, <1>a
  <2>4. /\ \A r \in Slots : part'[r] = part[r]
        /\ \A r \in Slots : landed'[r] = landed[r]
        /\ \A g \in UploadIds :
             body'[g] = IF g = f THEN IF body[f] = [by |-> u, is |-> "half"] THEN [by |-> u, is |-> "whole"]
                                                ELSE [by |-> u, is |-> "mixed"] ELSE body[g]
    BY <1>t, <2>1, <2>f
  <2>a. FilesStay'
    BY <1>p, <1>i, <2>1, <2>3, <2>4 DEF FilesStay, Unused, NameInHand, Whole
  <2>b. WritersStay'
    BY <1>p, <1>i, <2>1, <2>3, <2>4 DEF WritersStay, FilesStay, Unused, NameInHand, Whole
  <2>c. Unused'
    BY <1>p, <1>i, <2>1, <2>3, <2>4 DEF Unused, NameInHand, Whole
  <2>d. TheyMet'
    BY <1>p, <1>i, <2>1, <2>3, <2>4 DEF TheyMet, NameInHand, Whole
  <2>e. AloneInHand'
    BY <1>p, <1>i, <2>1, <2>3, <2>4 DEF AloneInHand, WritersStay, FilesStay, TheyMet, Unused,
           NameInHand, Whole
  <2>q. AloneLanded'
    BY <1>p, <1>i, <2>1, <2>3, <2>4 DEF AloneLanded, AloneInHand, WritersStay, FilesStay, TheyMet,
           Unused, NameInHand, Whole
  <2>g. LandedByOne'
    BY <1>p, <1>i, <2>1, <2>3, <2>4 DEF LandedByOne, NameInHand, Whole
  <2> QED
    BY <2>2, <2>a, <2>b, <2>c, <2>d, <2>e, <2>q, <2>g DEF UploadsInv
<1>5. ASSUME NEW u \in UploadIds, UploadWriteFails(u)
      PROVE  UploadsInv'
  <2> DEFINE s == upload[u].slot
  <2>1. /\ upload[u].at \in {"open", "half", "closed"} /\ part' = [part EXCEPT ![s] = NoFile]
        /\ body' = body /\ landed' = landed
        /\ upload' = [upload EXCEPT ![u].at = "failed"]
    BY <1>5 DEF UploadWriteFails, UploadGoes
  <2>f. s \in Slots
    BY <1>p
  <2>2. UploadsTypeOK'
    <3>1. upload' \in [UploadIds -> R] /\ body' \in [UploadIds -> B]
      BY <1>t, <1>p, <1>a, <1>o, <1>b, <1>y, <1>s, <2>1, <2>f
    <3>2. part' \in [Slots -> UploadIds \cup {NoFile}] /\ landed' \in [Slots -> UploadIds \cup {NoFile}]
      BY <1>t, <1>p, <2>1, <2>f
    <3> QED
      BY ONLY <3>1, <3>2, <1>g
  <2>3. /\ \A w \in UploadIds \ {u} : upload'[w] = upload[w]
        /\ upload'[u].at = "failed" /\ upload'[u].slot = upload[u].slot
        /\ upload'[u].file = upload[u].file /\ upload'[u].met = upload[u].met
    <3>1. upload'[u] = [upload[u] EXCEPT !.at = "failed"] /\ \A w \in UploadIds \ {u} : upload'[w] = upload[w]
      BY <1>t, <2>1
    <3>2. upload[u] \in R /\ "failed" \in S
      BY <1>p, <1>s
    <3> QED
      BY ONLY <3>1, <3>2, <1>a
  <2>4. /\ \A r \in Slots : part'[r] = IF r = s THEN NoFile ELSE part[r]
        /\ \A r \in Slots : landed'[r] = landed[r]
        /\ \A g \in UploadIds : body'[g] = body[g]
    BY <1>t, <2>1, <2>f
  <2>a. FilesStay'
    BY <1>p, <1>i, <2>1, <2>3, <2>4 DEF FilesStay, Unused, NameInHand, Whole
  <2>b. WritersStay'
    BY <1>p, <1>i, <2>1, <2>3, <2>4 DEF WritersStay, FilesStay, Unused, NameInHand, Whole
  <2>c. Unused'
    BY <1>p, <1>i, <2>1, <2>3, <2>4 DEF Unused, NameInHand, Whole
  <2>d. TheyMet'
    BY <1>p, <1>i, <2>1, <2>3, <2>4 DEF TheyMet, NameInHand, Whole
  <2>e. AloneInHand'
    BY <1>p, <1>i, <2>1, <2>3, <2>4 DEF AloneInHand, WritersStay, FilesStay, TheyMet, Unused,
           NameInHand, Whole
  <2>q. AloneLanded'
    BY <1>p, <1>i, <2>1, <2>3, <2>4 DEF AloneLanded, AloneInHand, WritersStay, FilesStay, TheyMet,
           Unused, NameInHand, Whole
  <2>g. LandedByOne'
    BY <1>p, <1>i, <2>1, <2>3, <2>4 DEF LandedByOne, NameInHand, Whole
  <2> QED
    BY <2>2, <2>a, <2>b, <2>c, <2>d, <2>e, <2>q, <2>g DEF UploadsInv
<1>6. ASSUME NEW u \in UploadIds, Land(u), part[upload[u].slot] = NoFile
      PROVE  UploadsInv'
  <2> DEFINE s == upload[u].slot
  <2>1. /\ upload[u].at = "closed" /\ part' = part /\ body' = body /\ landed' = landed
        /\ upload' = [upload EXCEPT ![u].at = "failed"] /\ part[s] = NoFile
    BY <1>6 DEF Land, UploadGoes
  <2>f. s \in Slots
    BY <1>p
  <2>2. UploadsTypeOK'
    <3>1. upload' \in [UploadIds -> R] /\ body' \in [UploadIds -> B]
      BY <1>t, <1>p, <1>a, <1>o, <1>b, <1>y, <1>s, <2>1, <2>f
    <3>2. part' \in [Slots -> UploadIds \cup {NoFile}] /\ landed' \in [Slots -> UploadIds \cup {NoFile}]
      BY <1>t, <1>p, <2>1, <2>f
    <3> QED
      BY ONLY <3>1, <3>2, <1>g
  <2>3. /\ \A w \in UploadIds \ {u} : upload'[w] = upload[w]
        /\ upload'[u].at = "failed" /\ upload'[u].slot = upload[u].slot
        /\ upload'[u].file = upload[u].file /\ upload'[u].met = upload[u].met
    <3>1. upload'[u] = [upload[u] EXCEPT !.at = "failed"] /\ \A w \in UploadIds \ {u} : upload'[w] = upload[w]
      BY <1>t, <2>1
    <3>2. upload[u] \in R /\ "failed" \in S
      BY <1>p, <1>s
    <3> QED
      BY ONLY <3>1, <3>2, <1>a
  <2>4. /\ \A r \in Slots : part'[r] = part[r]
        /\ \A r \in Slots : landed'[r] = landed[r]
        /\ \A g \in UploadIds : body'[g] = body[g]
    BY <1>t, <2>1, <2>f
  <2>a. FilesStay'
    BY <1>p, <1>i, <2>1, <2>3, <2>4 DEF FilesStay, Unused, NameInHand, Whole
  <2>b. WritersStay'
    BY <1>p, <1>i, <2>1, <2>3, <2>4 DEF WritersStay, FilesStay, Unused, NameInHand, Whole
  <2>c. Unused'
    BY <1>p, <1>i, <2>1, <2>3, <2>4 DEF Unused, NameInHand, Whole
  <2>d. TheyMet'
    BY <1>p, <1>i, <2>1, <2>3, <2>4 DEF TheyMet, NameInHand, Whole
  <2>e. AloneInHand'
    BY <1>p, <1>i, <2>1, <2>3, <2>4 DEF AloneInHand, WritersStay, FilesStay, TheyMet, Unused,
           NameInHand, Whole
  <2>q. AloneLanded'
    BY <1>p, <1>i, <2>1, <2>3, <2>4 DEF AloneLanded, AloneInHand, WritersStay, FilesStay, TheyMet,
           Unused, NameInHand, Whole
  <2>g. LandedByOne'
    BY <1>p, <1>i, <2>1, <2>3, <2>4 DEF LandedByOne, NameInHand, Whole
  <2> QED
    BY <2>2, <2>a, <2>b, <2>c, <2>d, <2>e, <2>q, <2>g DEF UploadsInv
<1>7. ASSUME NEW u \in UploadIds, Land(u), part[upload[u].slot] # NoFile
      PROVE  UploadsInv'
  <2> DEFINE s == upload[u].slot
  <2>1. /\ upload[u].at = "closed" /\ part' = [part EXCEPT ![s] = NoFile] /\ body' = body
        /\ landed' = [landed EXCEPT ![s] = part[s]]
        /\ upload' = [upload EXCEPT ![u].at = "uploaded"] /\ part[s] # NoFile
    BY <1>7 DEF Land, UploadGoes
  <2>f. s \in Slots
    BY <1>p
  <2>2. UploadsTypeOK'
    <3>1. upload' \in [UploadIds -> R] /\ body' \in [UploadIds -> B]
      BY <1>t, <1>p, <1>a, <1>o, <1>b, <1>y, <1>s, <2>1, <2>f
    <3>2. part' \in [Slots -> UploadIds \cup {NoFile}] /\ landed' \in [Slots -> UploadIds \cup {NoFile}]
      BY <1>t, <1>p, <2>1, <2>f
    <3> QED
      BY ONLY <3>1, <3>2, <1>g
  <2>3. /\ \A w \in UploadIds \ {u} : upload'[w] = upload[w]
        /\ upload'[u].at = "uploaded" /\ upload'[u].slot = upload[u].slot
        /\ upload'[u].file = upload[u].file /\ upload'[u].met = upload[u].met
    <3>1. upload'[u] = [upload[u] EXCEPT !.at = "uploaded"] /\ \A w \in UploadIds \ {u} : upload'[w] = upload[w]
      BY <1>t, <2>1
    <3>2. upload[u] \in R /\ "uploaded" \in S
      BY <1>p, <1>s
    <3> QED
      BY ONLY <3>1, <3>2, <1>a
  <2>4. /\ \A r \in Slots : part'[r] = IF r = s THEN NoFile ELSE part[r]
        /\ \A r \in Slots : landed'[r] = IF r = s THEN part[s] ELSE landed[r]
        /\ \A g \in UploadIds : body'[g] = body[g]
    BY <1>t, <2>1, <2>f
  <2>a. FilesStay'
    BY <1>p, <1>i, <2>1, <2>3, <2>4 DEF FilesStay, Unused, NameInHand, Whole
  <2>b. WritersStay'
    BY <1>p, <1>i, <2>1, <2>3, <2>4 DEF WritersStay, FilesStay, Unused, NameInHand, Whole
  <2>c. Unused'
    BY <1>p, <1>i, <2>1, <2>3, <2>4 DEF Unused, NameInHand, Whole
  <2>d. TheyMet'
    BY <1>p, <1>i, <2>1, <2>3, <2>4 DEF TheyMet, NameInHand, Whole
  <2>e. AloneInHand'
    BY <1>p, <1>i, <2>1, <2>3, <2>4 DEF AloneInHand, WritersStay, FilesStay, TheyMet, Unused,
           NameInHand, Whole
  <2>q. AloneLanded'
    <3> SUFFICES ASSUME NEW x \in UploadIds, upload'[x].at = "uploaded", upload'[x].met = {}
                 PROVE  /\ Whole(upload[x].slot, x)'
                        /\ \A w \in UploadIds : NameInHand(w)' => upload'[w].slot # upload'[x].slot
      BY DEF AloneLanded
    <3>0. NameInHand(u) /\ \A w \in UploadIds : NameInHand(w)' => NameInHand(w) /\ w # u
      BY <2>1, <2>3 DEF NameInHand
    <3>1. CASE x = u
      <4>1. upload[u].met = {} /\ upload'[u].slot = s
        BY <3>1, <2>3
      <4>2. part[s] = upload[u].file /\ body[upload[u].file] = [by |-> u, is |-> "whole"]
        BY <4>1, <3>0, <1>i, <2>1 DEF AloneInHand
      <4>3. Whole(s, u)'
        BY <4>2, <2>1, <2>4, <2>f DEF Whole
      <4>4. \A w \in UploadIds : NameInHand(w)' => upload'[w].slot # s
        BY <4>1, <3>0, <1>i, <2>3 DEF TheyMet
      <4> QED
        BY <3>1, <4>1, <4>3, <4>4
    <3>2. CASE x # u
      <4>1. upload'[x] = upload[x] /\ upload[x].slot \in Slots
        BY <3>2, <2>3, <1>p
      <4>2. /\ Whole(upload[x].slot, x)
            /\ \A w \in UploadIds : NameInHand(w) => upload[w].slot # upload[x].slot
        BY <4>1, <1>i DEF AloneLanded
      <4>3. landed'[upload[x].slot] = landed[upload[x].slot] /\ body' = body
        BY <4>1, <4>2, <3>0, <2>1, <2>4
      <4>4. Whole(upload[x].slot, x)'
        BY <4>1, <4>2, <4>3 DEF Whole
      <4>5. \A w \in UploadIds : NameInHand(w)' => upload'[w].slot # upload[x].slot
        BY <4>2, <3>0, <2>3
      <4> QED
        BY <4>1, <4>4, <4>5
    <3> QED
      BY <3>1, <3>2
  <2>g. LandedByOne'
    BY <1>p, <1>i, <2>1, <2>3, <2>4 DEF LandedByOne, NameInHand, Whole
  <2> QED
    BY <2>2, <2>a, <2>b, <2>c, <2>d, <2>e, <2>q, <2>g DEF UploadsInv
<1>8. ASSUME UploadsRestart
      PROVE  UploadsInv'
  <2>1. /\ part' = part /\ body' = body /\ landed' = landed
        /\ upload' = [u \in UploadIds |->
             IF NameInHand(u) THEN [upload[u] EXCEPT !.at = "failed"] ELSE upload[u]]
    BY <1>8 DEF UploadsRestart
  <2>f. TRUE
    OBVIOUS
  <2>2. UploadsTypeOK'
    <3>1. upload' \in [UploadIds -> R] /\ body' \in [UploadIds -> B]
      BY <1>t, <1>p, <1>a, <1>o, <1>b, <1>y, <1>s, <2>1, <2>f
    <3>2. part' \in [Slots -> UploadIds \cup {NoFile}] /\ landed' \in [Slots -> UploadIds \cup {NoFile}]
      BY <1>t, <1>p, <2>1, <2>f
    <3> QED
      BY ONLY <3>1, <3>2, <1>g
  <2>3. \A w \in UploadIds : /\ upload'[w].at = IF NameInHand(w) THEN "failed" ELSE upload[w].at
                             /\ upload'[w].slot = upload[w].slot
                             /\ upload'[w].file = upload[w].file /\ upload'[w].met = upload[w].met
    <3>1. "failed" \in S
      BY <1>s
    <3>2. \A w \in UploadIds :
            upload'[w] = IF NameInHand(w) THEN [upload[w] EXCEPT !.at = "failed"] ELSE upload[w]
      BY <2>1
    <3>3. \A w \in UploadIds : upload[w] \in R
      BY <1>p
    <3> QED
      <4>1. ASSUME NEW w \in UploadIds
            PROVE  /\ upload'[w].at = IF NameInHand(w) THEN "failed" ELSE upload[w].at
                   /\ upload'[w].slot = upload[w].slot
                   /\ upload'[w].file = upload[w].file /\ upload'[w].met = upload[w].met
        <5>1. CASE NameInHand(w)
          BY <5>1, <3>2, <3>3 DEF R, UploadRecords
        <5> QED
          BY <5>1, <3>2
      <4> QED
        BY <4>1
  <2>4. /\ \A r \in Slots : part'[r] = part[r]
        /\ \A r \in Slots : landed'[r] = landed[r]
        /\ \A g \in UploadIds : body'[g] = body[g]
    BY <1>t, <2>1, <2>f
  <2>5. part' = part /\ landed' = landed /\ body' = body
    BY <2>1
  <2>a. FilesStay'
    BY <1>p, <1>i, <2>3, <2>5 DEF FilesStay, Unused, NameInHand, Whole
  <2>b. WritersStay'
    <3> SUFFICES ASSUME NEW x \in UploadIds
                 PROVE  /\ upload'[x].at \in {"open", "half", "closed"} => upload'[x].file # NoFile
                        /\ upload'[x].file # NoFile => upload'[upload'[x].file].slot = upload'[x].slot
      BY DEF WritersStay
    <3>1. /\ upload[x].at \in {"open", "half", "closed"} => upload[x].file # NoFile
          /\ upload[x].file # NoFile => upload[upload[x].file].slot = upload[x].slot
      BY <1>i DEF WritersStay
    <3>2. upload[x].file # NoFile => upload'[upload[x].file].slot = upload[upload[x].file].slot
      BY <1>p, <2>3
    <3> QED
      BY <2>3, <3>1, <3>2 DEF NameInHand
  <2>c. Unused'
    BY <1>p, <1>i, <2>3, <2>5 DEF Unused, NameInHand, Whole
  <2>d. TheyMet'
    BY <1>i, <2>3, <2>5 DEF TheyMet, NameInHand
  <2>e. AloneInHand'
    BY <1>p, <1>i, <2>3, <2>5 DEF AloneInHand, WritersStay, FilesStay, TheyMet, Unused, NameInHand,
           Whole
  <2>q. AloneLanded'
    BY <1>p, <1>i, <2>3, <2>5 DEF AloneLanded, AloneInHand, WritersStay, FilesStay, TheyMet, Unused,
           NameInHand, Whole
  <2>g. LandedByOne'
    BY <1>p, <1>i, <2>3, <2>5 DEF LandedByOne, NameInHand, Whole
  <2> QED
    BY <2>2, <2>a, <2>b, <2>c, <2>d, <2>e, <2>q, <2>g DEF UploadsInv
<1>9. CASE UNCHANGED uploadVars
  BY <1>9 DEF uploadVars, UploadsInv, UploadsTypeOK, FilesStay, WritersStay, Unused, TheyMet,
         AloneInHand,
     AloneLanded, LandedByOne, NameInHand, Whole
<1> QED
  BY <1>1, <1>2, <1>3, <1>4, <1>5, <1>6, <1>7, <1>8, <1>9 DEF UploadsNext

\* An upload that ended has its own whole file, if it met nobody (upload.go).
THEOREM UploadsSafeAlways == UploadsSpec => []UploadsSafe
<1>1. UploadsSpec => []UploadsInv
  BY UploadsInitInv, UploadsStep, PTL DEF UploadsSpec
<1> QED
  BY <1>1, UploadsHold, PTL

-----------------------------------------------------------------------------
(***************************************************************************)
(* Subtitles (subtitle/upload.go, subtitle/service.go). The steps of a     *)
(* delete are listed in a table: where it is, where it goes, and what it   *)
(* does to the file and the row of its track.                              *)
(***************************************************************************)

\* A delete that has its row deleted and not restored.
HoldsRow(d) == delete[d].at \in {"rowless", "compensating", "restoring", "reisolating"}

\* A delete that has come as far as the file.
Touched(d) == delete[d].at \notin {"new", "found", "refused"}

\* Deletes come after the upload; one at a time has a track's row.
DeletesFollow ==
  \A d \in Deleters :
    /\ delete[d].at # "new" => track[delete[d].of].at = "done"
    /\ HoldsRow(d) => ~track[delete[d].of].row
    /\ \A c \in Deleters : HoldsRow(c) /\ HoldsRow(d) /\ delete[c].of = delete[d].of => c = d

\* The upload's file is in place before its row is, and only a delete moves it.
PlacesFit ==
  \A u \in TrackUploads :
    /\ track[u].at \in {"moved", "clearing"} => place[u] = "final"
    /\ track[u].at = "failed" => place[u] = "gone"
    /\ track[u].row => place[u] \in {"final"} \cup Deleters
    /\ \A d \in Deleters : place[u] = d =>
         /\ delete[d].of = u
         /\ delete[d].at \in {"isolated", "returning", "rowless", "compensating", "stuck", "cut"}

\* A delete that restores its row has put the file back.
RestoresFindFile ==
  \A d \in Deleters : delete[d].at = "restoring" => place[delete[d].of] \in {"final"} \cup Deleters

\* A row that is gone was deleted by a delete, which a reader that missed it can name.
RowsGoByDeletes ==
  /\ \A u \in TrackUploads : track[u].at = "done" /\ ~track[u].row =>
       \E d \in Deleters : delete[d].of = u /\ Touched(d)
  /\ \A r \in Readers : reading[r].at \in {"listed", "found"} => track[reading[r].of].at = "done"
  /\ \A r \in Readers : reading[r].at = "missing" =>
       \E d \in Deleters : delete[d].of = reading[r].of /\ Touched(d)

\* In the place of an upload that is done is its file, unless a delete has touched it.
DonePlaces ==
  \A u \in TrackUploads : track[u].at = "done" =>
    place[u] = "final" \/ \E d \in Deleters : delete[d].of = u /\ Touched(d)

\* The inductive invariant of subtitles.
SubtitlesInv ==
  /\ SubtitlesTypeOK /\ AuditTellsDeletes /\ DeletesFollow /\ PlacesFit /\ RestoresFindFile
  /\ RowsGoByDeletes /\ DonePlaces

\* What the rows, the files and the requests are made of.
Tracks == [at : Uploading \cup {"new", "done", "failed", "leftover", "cut"}, row : BOOLEAN, events : 0 .. 2]
Places == {"none", "temp", "final", "gone"} \cup Deleters
Deletes == [at : Deleting \cup DeleteEnds, of : TrackUploads]
Readings == [at : {"new", "listed", "found", "served", "missing", "cut"}, of : TrackUploads]

\* What one step of a delete does to the file and the row of its track.
DeleteTable(d, to, file, row) ==
  LET from == delete[d].at
      u == delete[d].of
      Kept == file = place[u] /\ row = track[u].row
      Put(where) == file = where /\ row = track[u].row
  IN  \/ from = "new" /\ to \in {"found", "refused"} /\ track[u].at = "done" /\ Kept
      \/ from = "found" /\ to = "isolated" /\ place[u] = "final" /\ Put(d)
      \/ from = "found" /\ to = "refused" /\ Kept
      \/ from = "isolated" /\ to = "rowless" /\ track[u].row /\ file = place[u] /\ row = FALSE
      \/ from = "isolated" /\ to = "returning" /\ Kept
      \/ from = "returning" /\ to = "kept" /\ Put("final")
      \/ from = "returning" /\ to = "stuck" /\ Kept
      \/ from = "rowless" /\ to = "done" /\ Put("gone")
      \/ from = "rowless" /\ to = "compensating" /\ Kept
      \/ from = "compensating" /\ to = "restoring" /\ Put("final")
      \/ from = "compensating" /\ to = "stuck" /\ Kept
      \/ from = "restoring" /\ to = "undone" /\ file = place[u] /\ row = TRUE
      \/ from = "restoring" /\ to = "reisolating" /\ Kept
      \/ from = "reisolating" /\ to = "stuck" /\ Kept
      \/ from = "reisolating" /\ to = "stuck" /\ place[u] = "final" /\ Put(d)

\* A step of a delete by the table: the new state, point by point.
DeleteMoved(d, to, file, row) ==
  LET u == delete[d].of
  IN  /\ DeleteTable(d, to, file, row)
      /\ \A c \in Deleters : delete'[c].of = delete[c].of /\ (c # d => delete'[c].at = delete[c].at)
      /\ delete'[d].at = to
      /\ \A w \in TrackUploads : w # u => place'[w] = place[w] /\ track'[w] = track[w]
      /\ place'[u] = file /\ track'[u].at = track[u].at /\ track'[u].row = row
      /\ track'[u].events = IF row = track[u].row THEN track[u].events
                            ELSE IF row THEN track[u].events - 1 ELSE track[u].events + 1
      /\ reading' = reading

\* The types, after a step.
TypesNext ==
  /\ track' \in [TrackUploads -> Tracks] /\ place' \in [TrackUploads -> Places]
  /\ delete' \in [Deleters -> Deletes] /\ reading' \in [Readers -> Readings]

\* Every action of a delete is a line of its table.
LEMMA DeleteMoves ==
  ASSUME SubtitlesInv, NEW d \in Deleters,
         \/ FindTrack(d) \/ Isolate(d) \/ DeleteTrackRow(d) \/ ReturnFile(d)
         \/ RemoveIsolated(d) \/ CompensateFile(d) \/ RestoreTrackRow(d) \/ IsolateAgain(d)
  PROVE  \E to, file, row : DeleteMoved(d, to, file, row)
<1> DEFINE u == delete[d].of
<1>t. /\ track \in [TrackUploads -> Tracks] /\ place \in [TrackUploads -> Places]
      /\ delete \in [Deleters -> Deletes] /\ reading \in [Readers -> Readings]
  BY DEF SubtitlesInv, SubtitlesTypeOK, Tracks, Places, Deletes, Readings
<1>u. u \in TrackUploads /\ track[u].row \in BOOLEAN
  BY <1>t DEF Tracks, Deletes
<1>d. ASSUME NEW to, DeleteTo(d, to)
      PROVE  /\ \A c \in Deleters : delete'[c].of = delete[c].of /\ (c # d => delete'[c].at = delete[c].at)
             /\ delete'[d].at = to
  BY <1>t, <1>d DEF DeleteTo, Deletes
<1>p. ASSUME NEW where, PutFile(u, where)
      PROVE  place'[u] = where /\ \A w \in TrackUploads : w # u => place'[w] = place[w]
  BY <1>t, <1>u, <1>p DEF PutFile
<1>f. delete[d].at = "restoring" => ~track[u].row
  BY DEF SubtitlesInv, DeletesFollow, HoldsRow
<1>1. CASE FindTrack(d)
  <2>1. CASE DeleteTo(d, "found")
    <3>1. DeleteMoved(d, "found", place[u], track[u].row)
      BY <1>1, <2>1, <1>t, <1>u, <1>d, <1>p DEF FindTrack, DeleteMoved, DeleteTable
    <3> QED
      BY <3>1
  <2>2. CASE DeleteTo(d, "refused")
    <3>1. DeleteMoved(d, "refused", place[u], track[u].row)
      BY <1>1, <2>2, <1>t, <1>u, <1>d, <1>p DEF FindTrack, DeleteMoved, DeleteTable
    <3> QED
      BY <3>1
  <2> QED
    BY <1>1, <2>1, <2>2, <1>t DEF FindTrack, DeleteTo, Deletes
<1>2. CASE Isolate(d)
  <2>1. CASE DeleteTo(d, "isolated") /\ PutFile(u, d)
    <3>1. DeleteMoved(d, "isolated", d, track[u].row)
      BY <1>2, <2>1, <1>t, <1>u, <1>d, <1>p DEF Isolate, DeleteMoved, DeleteTable
    <3> QED
      BY <3>1
  <2>2. CASE DeleteTo(d, "refused") /\ place' = place
    <3>1. DeleteMoved(d, "refused", place[u], track[u].row)
      BY <1>2, <2>2, <1>t, <1>u, <1>d, <1>p DEF Isolate, DeleteMoved, DeleteTable
    <3> QED
      BY <3>1
  <2> QED
    BY <1>2, <2>1, <2>2, <1>t DEF Isolate, DeleteTo, Deletes
<1>3. CASE DeleteTrackRow(d)
  <2>1. CASE /\ DeleteTo(d, "rowless") /\ track[u].row
             /\ track' = [track EXCEPT ![u].row = FALSE, ![u].events = @ + 1]
    <3>1. DeleteMoved(d, "rowless", place[u], FALSE)
      BY <1>3, <2>1, <1>t, <1>u, <1>d, <1>p DEF DeleteTrackRow, DeleteMoved, DeleteTable, Tracks
    <3> QED
      BY <3>1
  <2>2. CASE DeleteTo(d, "returning") /\ track' = track
    <3>1. DeleteMoved(d, "returning", place[u], track[u].row)
      BY <1>3, <2>2, <1>t, <1>u, <1>d, <1>p DEF DeleteTrackRow, DeleteMoved, DeleteTable
    <3> QED
      BY <3>1
  <2> QED
    BY <1>3, <2>1, <2>2, <1>t DEF DeleteTrackRow, DeleteTo, Deletes
<1>4. CASE ReturnFile(d)
  <2>1. CASE DeleteTo(d, "kept") /\ PutFile(u, "final")
    <3>1. DeleteMoved(d, "kept", "final", track[u].row)
      BY <1>4, <2>1, <1>t, <1>u, <1>d, <1>p DEF ReturnFile, DeleteMoved, DeleteTable
    <3> QED
      BY <3>1
  <2>2. CASE DeleteTo(d, "stuck") /\ place' = place
    <3>1. DeleteMoved(d, "stuck", place[u], track[u].row)
      BY <1>4, <2>2, <1>t, <1>u, <1>d, <1>p DEF ReturnFile, DeleteMoved, DeleteTable
    <3> QED
      BY <3>1
  <2> QED
    BY <1>4, <2>1, <2>2, <1>t DEF ReturnFile, DeleteTo, Deletes
<1>5. CASE RemoveIsolated(d)
  <2>1. CASE DeleteTo(d, "done") /\ PutFile(u, "gone")
    <3>1. DeleteMoved(d, "done", "gone", track[u].row)
      BY <1>5, <2>1, <1>t, <1>u, <1>d, <1>p DEF RemoveIsolated, DeleteMoved, DeleteTable
    <3> QED
      BY <3>1
  <2>2. CASE DeleteTo(d, "compensating") /\ place' = place
    <3>1. DeleteMoved(d, "compensating", place[u], track[u].row)
      BY <1>5, <2>2, <1>t, <1>u, <1>d, <1>p DEF RemoveIsolated, DeleteMoved, DeleteTable
    <3> QED
      BY <3>1
  <2> QED
    BY <1>5, <2>1, <2>2, <1>t DEF RemoveIsolated, DeleteTo, Deletes
<1>6. CASE CompensateFile(d)
  <2>1. CASE DeleteTo(d, "restoring") /\ PutFile(u, "final")
    <3>1. DeleteMoved(d, "restoring", "final", track[u].row)
      BY <1>6, <2>1, <1>t, <1>u, <1>d, <1>p DEF CompensateFile, DeleteMoved, DeleteTable
    <3> QED
      BY <3>1
  <2>2. CASE DeleteTo(d, "stuck") /\ place' = place
    <3>1. DeleteMoved(d, "stuck", place[u], track[u].row)
      BY <1>6, <2>2, <1>t, <1>u, <1>d, <1>p DEF CompensateFile, DeleteMoved, DeleteTable
    <3> QED
      BY <3>1
  <2> QED
    BY <1>6, <2>1, <2>2, <1>t DEF CompensateFile, DeleteTo, Deletes
<1>7. CASE RestoreTrackRow(d)
  <2>1. CASE DeleteTo(d, "undone") /\ track' = [track EXCEPT ![u] = RestoredTrack(@)]
    <3>1. DeleteMoved(d, "undone", place[u], TRUE)
      BY <1>7, <2>1, <1>t, <1>u, <1>d, <1>p, <1>f DEF RestoreTrackRow, DeleteMoved, DeleteTable,
             RestoredTrack, Tracks
    <3> QED
      BY <3>1
  <2>2. CASE DeleteTo(d, "reisolating") /\ track' = track
    <3>1. DeleteMoved(d, "reisolating", place[u], track[u].row)
      BY <1>7, <2>2, <1>t, <1>u, <1>d, <1>p DEF RestoreTrackRow, DeleteMoved, DeleteTable
    <3> QED
      BY <3>1
  <2> QED
    BY <1>7, <2>1, <2>2, <1>t DEF RestoreTrackRow, DeleteTo, Deletes
<1>8. CASE IsolateAgain(d)
  <2>1. CASE place[u] = "final" /\ PutFile(u, d)
    <3>1. DeleteMoved(d, "stuck", d, track[u].row)
      BY <1>8, <2>1, <1>t, <1>u, <1>d, <1>p DEF IsolateAgain, DeleteMoved, DeleteTable
    <3> QED
      BY <3>1
  <2>2. CASE place' = place
    <3>1. DeleteMoved(d, "stuck", place[u], track[u].row)
      BY <1>8, <2>2, <1>t, <1>u, <1>d, <1>p DEF IsolateAgain, DeleteMoved, DeleteTable
    <3> QED
      BY <3>1
  <2> QED
    BY <1>8, <2>1, <2>2, <1>t DEF IsolateAgain, DeleteTo, Deletes
<1> QED
  BY <1>1, <1>2, <1>3, <1>4, <1>5, <1>6, <1>7, <1>8

\* And keeps the types.
LEMMA DeleteTypes ==
  ASSUME SubtitlesInv, NEW d \in Deleters,
         \/ FindTrack(d) \/ Isolate(d) \/ DeleteTrackRow(d) \/ ReturnFile(d)
         \/ RemoveIsolated(d) \/ CompensateFile(d) \/ RestoreTrackRow(d) \/ IsolateAgain(d)
  PROVE  TypesNext
<1> DEFINE u == delete[d].of
<1>t. /\ track \in [TrackUploads -> Tracks] /\ place \in [TrackUploads -> Places]
      /\ delete \in [Deleters -> Deletes] /\ reading \in [Readers -> Readings]
  BY DEF SubtitlesInv, SubtitlesTypeOK, Tracks, Places, Deletes, Readings
<1>u. u \in TrackUploads /\ track[u].row \in BOOLEAN
  BY <1>t DEF Tracks, Deletes
<1>d. ASSUME NEW to \in Deleting \cup DeleteEnds, DeleteTo(d, to) PROVE delete' \in [Deleters -> Deletes]
  BY <1>t, <1>d DEF DeleteTo, Deletes
<1>p. ASSUME NEW where \in Places, PutFile(u, where) PROVE place' \in [TrackUploads -> Places]
  BY <1>t, <1>u, <1>p DEF PutFile
<1>s. /\ Deleting \cup DeleteEnds = {"found", "isolated", "returning", "rowless", "compensating", "restoring",
                    "reisolating", "new", "refused", "done", "kept", "undone", "stuck", "cut"}
      /\ {"final", "gone", d} \subseteq Places
  BY DEF Deleting, DeleteEnds, Places
<1>1. CASE FindTrack(d)
  BY <1>1, <1>t, <1>u, <1>d, <1>p, <1>s DEF FindTrack, TypesNext
<1>2. CASE Isolate(d)
  BY <1>2, <1>t, <1>u, <1>d, <1>p, <1>s DEF Isolate, TypesNext
<1>3. CASE DeleteTrackRow(d)
  <2>1. track' \in [TrackUploads -> Tracks]
    <3>1. track[u].events + 1 \in 0 .. 2 \/ ~track[u].row
      BY <1>u DEF SubtitlesInv, AuditTellsDeletes
    <3>2. CASE track' = track
      BY <3>2, <1>t
    <3>3. CASE track[u].row /\ track' = [track EXCEPT ![u].row = FALSE, ![u].events = @ + 1]
      <4> DEFINE q == [track[u] EXCEPT !.row = FALSE, !.events = @ + 1]
      <4>1. q \in Tracks
        BY <3>1, <3>3, <1>t, <1>u DEF Tracks
      <4>2. track' = [track EXCEPT ![u] = q]
        BY <3>3, <1>t, <1>u
      <4> HIDE DEF q
      <4> QED
        BY <4>1, <4>2, <1>t
    <3> QED
      BY <1>3, <3>2, <3>3 DEF DeleteTrackRow
  <2> QED
    BY <1>3, <1>t, <1>d, <1>s, <2>1 DEF DeleteTrackRow, TypesNext
<1>4. CASE ReturnFile(d)
  BY <1>4, <1>t, <1>u, <1>d, <1>p, <1>s DEF ReturnFile, TypesNext
<1>5. CASE RemoveIsolated(d)
  BY <1>5, <1>t, <1>u, <1>d, <1>p, <1>s DEF RemoveIsolated, TypesNext
<1>6. CASE CompensateFile(d)
  BY <1>6, <1>t, <1>u, <1>d, <1>p, <1>s DEF CompensateFile, TypesNext
<1>7. CASE RestoreTrackRow(d)
  <2>1. track' \in [TrackUploads -> Tracks]
    <3>1. delete[d].at = "restoring"
      BY <1>7 DEF RestoreTrackRow
    <3>2. track[u].events = 1
      BY <3>1, <1>u DEF SubtitlesInv, AuditTellsDeletes, DeletesFollow, HoldsRow
    <3>3. RestoredTrack(track[u]) \in Tracks
      <4>1. track[u] \in Tracks /\ track[u].events - 1 \in 0 .. 2
        BY <3>2, <1>t, <1>u
      <4> QED
        BY ONLY <4>1 DEF Tracks, RestoredTrack
    <3> QED
      BY <3>3, <1>t, <1>7 DEF RestoreTrackRow
  <2> QED
    BY <1>7, <1>t, <1>d, <1>s, <2>1 DEF RestoreTrackRow, TypesNext
<1>8. CASE IsolateAgain(d)
  BY <1>8, <1>t, <1>u, <1>d, <1>p, <1>s DEF IsolateAgain, TypesNext
<1> QED
  BY <1>1, <1>2, <1>3, <1>4, <1>5, <1>6, <1>7, <1>8

\* A step of an upload, of a reader.
UploadMoved(u, to, file, row) ==
  /\ \/ track[u].at = "new" /\ to = "written" /\ file = "temp" /\ ~row
     \/ track[u].at = "written" /\ to = "moved" /\ file = "final" /\ ~row
     \/ track[u].at = "written" /\ to = "failed" /\ file = "gone" /\ ~row
     \/ track[u].at = "moved" /\ to = "done" /\ file = place[u] /\ row
     \/ track[u].at = "moved" /\ to = "clearing" /\ file = place[u] /\ ~row
     \/ track[u].at = "clearing" /\ to = "failed" /\ file = "gone" /\ ~row
     \/ track[u].at = "clearing" /\ to = "leftover" /\ file = place[u] /\ ~row
  /\ \A w \in TrackUploads : w # u => place'[w] = place[w] /\ track'[w] = track[w]
  /\ place'[u] = file /\ track'[u].at = to /\ track'[u].row = row
  /\ track'[u].events = track[u].events
  /\ delete' = delete /\ reading' = reading

\* Every action of an upload is a line of its own.
LEMMA UploadMoves ==
  ASSUME SubtitlesInv, NEW u \in TrackUploads,
         WriteTemp(u) \/ MoveUpload(u) \/ CreateTrackRow(u) \/ ClearUpload(u)
  PROVE  /\ \E to, file, row : UploadMoved(u, to, file, row)
         /\ TypesNext
<1>t. /\ track \in [TrackUploads -> Tracks] /\ place \in [TrackUploads -> Places]
      /\ delete \in [Deleters -> Deletes] /\ reading \in [Readers -> Readings]
  BY DEF SubtitlesInv, SubtitlesTypeOK, Tracks, Places, Deletes, Readings
<1>f. track[u].at # "done" => ~track[u].row /\ track[u].row \in BOOLEAN
  BY <1>t DEF SubtitlesInv, AuditTellsDeletes, Tracks
<1>s. {"written", "moved", "failed", "clearing", "leftover", "done"} \subseteq
        Uploading \cup {"new", "done", "failed", "leftover", "cut"}
  BY DEF Uploading
<1>u. ASSUME NEW to \in Uploading \cup {"new", "done", "failed", "leftover", "cut"}, UploadTo(u, to)
      PROVE  /\ track' \in [TrackUploads -> Tracks] /\ track'[u].at = to
             /\ track'[u].row = track[u].row /\ track'[u].events = track[u].events
             /\ \A w \in TrackUploads : w # u => track'[w] = track[w]
  BY <1>t, <1>u DEF UploadTo, Tracks
<1>p. ASSUME NEW where \in Places, PutFile(u, where)
      PROVE  /\ place' \in [TrackUploads -> Places] /\ place'[u] = where
             /\ \A w \in TrackUploads : w # u => place'[w] = place[w]
  BY <1>t, <1>p DEF PutFile
<1>l. {"temp", "final", "gone"} \subseteq Places
  BY DEF Places
<1>1. CASE WriteTemp(u)
  <2>1. CASE UploadTo(u, "written") /\ PutFile(u, "temp")
    <3>1. UploadMoved(u, "written", "temp", track[u].row)
      BY <1>1, <2>1, <1>t, <1>f, <1>s, <1>u, <1>p, <1>l DEF WriteTemp, UploadMoved
    <3>2. TypesNext
      BY <1>1, <2>1, <1>t, <1>s, <1>u, <1>p, <1>l DEF WriteTemp, TypesNext
    <3> QED
      BY <3>1, <3>2
  <2> QED
    BY <1>1, <2>1 DEF WriteTemp
<1>2. CASE MoveUpload(u)
  <2>1. CASE UploadTo(u, "moved") /\ PutFile(u, "final")
    <3>1. UploadMoved(u, "moved", "final", track[u].row)
      BY <1>2, <2>1, <1>t, <1>f, <1>s, <1>u, <1>p, <1>l DEF MoveUpload, UploadMoved
    <3>2. TypesNext
      BY <1>2, <2>1, <1>t, <1>s, <1>u, <1>p, <1>l DEF MoveUpload, TypesNext
    <3> QED
      BY <3>1, <3>2
  <2>2. CASE UploadTo(u, "failed") /\ PutFile(u, "gone")
    <3>1. UploadMoved(u, "failed", "gone", track[u].row)
      BY <1>2, <2>2, <1>t, <1>f, <1>s, <1>u, <1>p, <1>l DEF MoveUpload, UploadMoved
    <3>2. TypesNext
      BY <1>2, <2>2, <1>t, <1>s, <1>u, <1>p, <1>l DEF MoveUpload, TypesNext
    <3> QED
      BY <3>1, <3>2
  <2> QED
    BY <1>2, <2>1, <2>2 DEF MoveUpload
<1>3. CASE CreateTrackRow(u)
  <2> DEFINE Rowed(to, row) == [track[u] EXCEPT !.at = to, !.row = row]
  <2>1. ASSUME NEW to \in {"done", "clearing"}, NEW row \in BOOLEAN
        PROVE  /\ Rowed(to, row) \in Tracks /\ Rowed(to, row).at = to /\ Rowed(to, row).row = row
               /\ Rowed(to, row).events = track[u].events
    BY <1>t, <1>s DEF Tracks
  <2>2. \/ track' = [track EXCEPT ![u] = Rowed("done", TRUE)]
        \/ track' = [track EXCEPT ![u] = Rowed("clearing", FALSE)]
    BY <1>3, <1>t DEF CreateTrackRow
  <2>3. track[u].at = "moved" /\ place' = place /\ delete' = delete /\ reading' = reading
    BY <1>3 DEF CreateTrackRow
  <2> HIDE DEF Rowed
  <2>4. CASE track' = [track EXCEPT ![u] = Rowed("done", TRUE)]
    <3>1. Rowed("done", TRUE) \in Tracks /\ track' \in [TrackUploads -> Tracks]
      BY <2>1, <2>4, <1>t
    <3>2. /\ track'[u].at = "done" /\ track'[u].row = TRUE /\ track'[u].events = track[u].events
          /\ \A w \in TrackUploads : w # u => track'[w] = track[w]
      BY <2>1, <2>4, <1>t
    <3>3. UploadMoved(u, "done", place[u], TRUE)
      BY <3>2, <2>3 DEF UploadMoved
    <3>4. TypesNext
      BY <3>1, <2>3, <1>t DEF TypesNext
    <3> QED
      BY <3>3, <3>4
  <2>5. CASE track' = [track EXCEPT ![u] = Rowed("clearing", FALSE)]
    <3>1. Rowed("clearing", FALSE) \in Tracks /\ track' \in [TrackUploads -> Tracks]
      BY <2>1, <2>5, <1>t
    <3>2. /\ track'[u].at = "clearing" /\ track'[u].row = FALSE
          /\ track'[u].events = track[u].events
          /\ \A w \in TrackUploads : w # u => track'[w] = track[w]
      BY <2>1, <2>5, <1>t
    <3>3. UploadMoved(u, "clearing", place[u], FALSE)
      BY <3>2, <2>3 DEF UploadMoved
    <3>4. TypesNext
      BY <3>1, <2>3, <1>t DEF TypesNext
    <3> QED
      BY <3>3, <3>4
  <2> QED
    BY <2>2, <2>4, <2>5
<1>4. CASE ClearUpload(u)
  <2>1. CASE UploadTo(u, "failed") /\ PutFile(u, "gone")
    <3>1. UploadMoved(u, "failed", "gone", track[u].row)
      BY <1>4, <2>1, <1>t, <1>f, <1>s, <1>u, <1>p, <1>l DEF ClearUpload, UploadMoved
    <3>2. TypesNext
      BY <1>4, <2>1, <1>t, <1>s, <1>u, <1>p, <1>l DEF ClearUpload, TypesNext
    <3> QED
      BY <3>1, <3>2
  <2>2. CASE UploadTo(u, "leftover") /\ place' = place
    <3>1. UploadMoved(u, "leftover", place[u], track[u].row)
      BY <1>4, <2>2, <1>t, <1>f, <1>s, <1>u, <1>p, <1>l DEF ClearUpload, UploadMoved
    <3>2. TypesNext
      BY <1>4, <2>2, <1>t, <1>s, <1>u, <1>p, <1>l DEF ClearUpload, TypesNext
    <3> QED
      BY <3>1, <3>2
  <2> QED
    BY <1>4, <2>1, <2>2 DEF ClearUpload
<1> QED
  BY <1>1, <1>2, <1>3, <1>4

\* It holds at first.
LEMMA SubtitlesInitInv == SubtitlesInit => SubtitlesInv
<1> SUFFICES ASSUME SubtitlesInit PROVE SubtitlesInv
  OBVIOUS
<1>1. SubtitlesTypeOK
  BY DEF SubtitlesInit, SubtitlesTypeOK, Uploading, Deleting, DeleteEnds
<1>2. AuditTellsDeletes /\ DeletesFollow /\ RestoresFindFile /\ RowsGoByDeletes /\ DonePlaces
  BY DEF SubtitlesInit, AuditTellsDeletes, DeletesFollow, RestoresFindFile, RowsGoByDeletes,
         DonePlaces, HoldsRow
<1>3. PlacesFit
  BY SubtitlesAssumption DEF SubtitlesInit, PlacesFit
<1> QED
  BY <1>1, <1>2, <1>3 DEF SubtitlesInv

\* What the run checks follows from it.
LEMMA SubtitlesHold == SubtitlesInv => SubtitlesSafe
<1> SUFFICES ASSUME SubtitlesInv PROVE SubtitlesSafe
  OBVIOUS
<1> USE DEF SubtitlesInv
<1>1. RowHasFile
  BY DEF PlacesFit, DeletesFollow, HoldsRow, RowHasFile
<1>2. NothingDangles
  BY SubtitlesAssumption DEF PlacesFit, NothingDangles
<1>3. MissedForAReason
  BY DEF RowsGoByDeletes, Touched, MissedForAReason
<1> QED
  BY <1>1, <1>2, <1>3 DEF SubtitlesSafe

\* Every line of the table keeps the invariant.
LEMMA DeletesKeep ==
  ASSUME SubtitlesInv, NEW d \in Deleters, NEW to, NEW file, NEW row, DeleteMoved(d, to, file, row), TypesNext
  PROVE  SubtitlesInv'
<1> DEFINE u == delete[d].of
<1>t. /\ track \in [TrackUploads -> Tracks] /\ place \in [TrackUploads -> Places]
      /\ delete \in [Deleters -> Deletes] /\ reading \in [Readers -> Readings]
  BY DEF SubtitlesInv, SubtitlesTypeOK, Tracks, Places, Deletes, Readings
<1>u. u \in TrackUploads /\ track[u].row \in BOOLEAN
  BY <1>t DEF Tracks, Deletes
<1>m. DeleteTable(d, to, file, row)
  BY DEF DeleteMoved
<1>n. /\ \A c \in Deleters : delete'[c].of = delete[c].of /\ (c # d => delete'[c].at = delete[c].at)
      /\ delete'[d].at = to
      /\ \A w \in TrackUploads : w # u => place'[w] = place[w] /\ track'[w] = track[w]
      /\ place'[u] = file /\ track'[u].at = track[u].at /\ track'[u].row = row
      /\ track'[u].events = IF row = track[u].row THEN track[u].events
                            ELSE IF row THEN track[u].events - 1 ELSE track[u].events + 1
      /\ reading' = reading
  BY DEF DeleteMoved
<1>i. AuditTellsDeletes /\ DeletesFollow /\ PlacesFit /\ RestoresFindFile /\ RowsGoByDeletes /\ DonePlaces
  BY DEF SubtitlesInv
<1>d. track[u].at = "done"
  BY <1>m, <1>i DEF DeleteTable, DeletesFollow
<1>h. delete[d].at = "restoring" => ~track[u].row
  BY DEF SubtitlesInv, DeletesFollow, HoldsRow
<1>o. /\ \A c \in Deleters : delete'[c].of = delete[c].of /\ (c # d => delete'[c].at = delete[c].at)
      /\ delete'[d].at = to
      /\ \A w \in TrackUploads : w # u => place'[w] = place[w] /\ track'[w] = track[w]
      /\ \A w \in TrackUploads : track'[w].at = track[w].at
      /\ reading' = reading
  BY <1>n
<1>r. \/ track'[u].row = track[u].row /\ track'[u].events = track[u].events
      \/ /\ delete[d].at = "isolated" /\ to = "rowless" /\ track[u].row /\ ~track'[u].row
         /\ track'[u].events = track[u].events + 1
      \/ /\ delete[d].at = "restoring" /\ to = "undone" /\ track'[u].row
         /\ track'[u].events = track[u].events - 1
  BY <1>m, <1>n, <1>h DEF DeleteTable
<1>q. /\ delete[d].at = "restoring" /\ to = "undone" => track'[u].row /\ place'[u] = place[u]
      /\ delete[d].at = "isolated" /\ to = "rowless" => track[u].row /\ ~track'[u].row /\ place'[u] = place[u]
  BY <1>m, <1>n DEF DeleteTable
<1>f. LET from == delete[d].at IN
      \/ from = "new" /\ to \in {"found", "refused"} /\ place'[u] = place[u]
      \/ from = "found" /\ to = "isolated" /\ place[u] = "final" /\ place'[u] = d
      \/ from = "found" /\ to = "refused" /\ place'[u] = place[u]
      \/ from = "isolated" /\ to \in {"rowless", "returning"} /\ place'[u] = place[u]
      \/ from = "returning" /\ to = "kept" /\ place'[u] = "final"
      \/ from = "returning" /\ to = "stuck" /\ place'[u] = place[u]
      \/ from = "rowless" /\ to = "done" /\ place'[u] = "gone"
      \/ from = "rowless" /\ to = "compensating" /\ place'[u] = place[u]
      \/ from = "compensating" /\ to = "restoring" /\ place'[u] = "final"
      \/ from = "compensating" /\ to = "stuck" /\ place'[u] = place[u]
      \/ from = "restoring" /\ to \in {"undone", "reisolating"} /\ place'[u] = place[u]
      \/ from = "reisolating" /\ to = "stuck" /\ place'[u] = place[u]
      \/ from = "reisolating" /\ to = "stuck" /\ place[u] = "final" /\ place'[u] = d
  BY <1>m, <1>n DEF DeleteTable
<1>1. SubtitlesTypeOK'
  BY DEF TypesNext, SubtitlesTypeOK, Tracks, Places, Deletes, Readings
<1>y. \A c \in Deleters : delete[c].of \in TrackUploads
  BY <1>t DEF Deletes
<1>w. HoldsRow(d)' => HoldsRow(d) \/ (track[u].row /\ to = "rowless" /\ ~track'[u].row)
  BY <1>f, <1>q, <1>r, <1>o DEF HoldsRow
<1>x. HoldsRow(d)' => ~track'[u].row
  <2>1. HoldsRow(d) => ~track[u].row
    BY <1>i DEF DeletesFollow
  <2>2. HoldsRow(d)' /\ HoldsRow(d) => track'[u].row = track[u].row
    BY <1>r, <1>o DEF HoldsRow
  <2> QED
    BY <1>w, <2>1, <2>2
<1>z. Touched(d) => Touched(d)'
  BY <1>f, <1>o DEF Touched
<1>v. ~track'[u].row /\ track[u].row => Touched(d)'
  BY <1>f, <1>r, <1>o DEF Touched
<1>2. AuditTellsDeletes'
  <2> SUFFICES ASSUME NEW w \in TrackUploads
               PROVE  IF track'[w].at = "done" THEN track'[w].events = (IF track'[w].row THEN 0 ELSE 1)
                                               ELSE track'[w].events = 0 /\ ~track'[w].row
    BY DEF AuditTellsDeletes
  <2>1. CASE w = u
    <3>1. track[u].events = (IF track[u].row THEN 0 ELSE 1)
      BY <1>i, <1>d, <1>u DEF AuditTellsDeletes
    <3> QED
      BY <2>1, <3>1, <1>r, <1>h, <1>o, <1>d, <1>u
  <2>2. CASE w # u
    BY <2>2, <1>o, <1>i DEF AuditTellsDeletes
  <2> QED
    BY <2>1, <2>2
<1>3. DeletesFollow'
  <2>1. ASSUME NEW c \in Deleters, delete'[c].at # "new" PROVE track'[delete'[c].of].at = "done"
    BY <2>1, <1>o, <1>d, <1>i, <1>y DEF DeletesFollow
  <2>2. ASSUME NEW c \in Deleters, HoldsRow(c)' PROVE ~track'[delete'[c].of].row
    <3>1. CASE c = d
      BY <3>1, <2>2, <1>x, <1>o
    <3>2. CASE c # d
      <4>1. HoldsRow(c) /\ delete'[c].of = delete[c].of
        BY <3>2, <2>2, <1>o DEF HoldsRow
      <4>2. ~track[delete[c].of].row
        BY <4>1, <1>i DEF DeletesFollow
      <4>3. delete[c].of = u => ~HoldsRow(d)
        BY <4>1, <3>2, <1>i DEF DeletesFollow
      <4>4. delete[c].of = u => ~track'[u].row
        BY <4>2, <4>3, <1>r DEF HoldsRow
      <4> QED
        BY <4>1, <4>2, <4>4, <1>o, <1>y
    <3> QED
      BY <3>1, <3>2
  <2>3. ASSUME NEW c \in Deleters, NEW e \in Deleters, HoldsRow(c)', HoldsRow(e)',
               delete'[c].of = delete'[e].of
        PROVE  c = e
    <3>1. \A x \in Deleters : x # d /\ HoldsRow(x)' => HoldsRow(x) /\ ~track[delete[x].of].row
      BY <1>o, <1>i DEF HoldsRow, DeletesFollow
    <3>2. delete[c].of = delete[e].of
      BY <2>3, <1>o
    <3>3. \A x \in Deleters : HoldsRow(d)' /\ x # d /\ HoldsRow(x)' => delete[x].of # u
      BY <3>1, <1>w, <1>i DEF DeletesFollow
    <3> QED
      BY <2>3, <3>1, <3>2, <3>3, <1>i DEF DeletesFollow
  <2> QED
    BY <2>1, <2>2, <2>3 DEF DeletesFollow
<1>4. PlacesFit'
  <2> SUFFICES ASSUME NEW w \in TrackUploads
               PROVE  /\ track'[w].at \in {"moved", "clearing"} => place'[w] = "final"
                      /\ track'[w].at = "failed" => place'[w] = "gone"
                      /\ track'[w].row => place'[w] \in {"final"} \cup Deleters
                      /\ \A c \in Deleters : place'[w] = c =>
                           /\ delete'[c].of = w
                           /\ delete'[c].at \in
                                  {"isolated", "returning", "rowless", "compensating", "stuck", "cut"}
    BY DEF PlacesFit
  <2>1. /\ track[w].at \in {"moved", "clearing"} => place[w] = "final"
        /\ track[w].at = "failed" => place[w] = "gone"
        /\ track[w].row => place[w] \in {"final"} \cup Deleters
        /\ \A c \in Deleters : place[w] = c =>
             /\ delete[c].of = w
             /\ delete[c].at \in {"isolated", "returning", "rowless", "compensating", "stuck", "cut"}
    BY <1>i DEF PlacesFit
  <2>2. CASE w = u
    <3>1. track'[u].row => place'[u] \in {"final"} \cup Deleters
      <4>1. CASE delete[d].at = "restoring"
        BY <4>1, <1>i, <1>f DEF RestoresFindFile
      <4>2. CASE delete[d].at # "restoring"
        <5>1. track'[u].row => track[u].row
          BY <4>2, <1>r
        <5>2. track[u].row => ~HoldsRow(d)
          BY <1>i DEF DeletesFollow
        <5> QED
          BY <5>1, <5>2, <2>1, <2>2, <1>f DEF HoldsRow
      <4> QED
        BY <4>1, <4>2
    <3>2. ASSUME NEW c \in Deleters, place'[u] = c
          PROVE  /\ delete'[c].of = u
                 /\ delete'[c].at \in {"isolated", "returning", "rowless", "compensating", "stuck", "cut"}
      <4>0. c \notin {"none", "temp", "final", "gone"}
        BY SubtitlesAssumption
      <4>1. CASE c = d
        BY <3>2, <4>0, <4>1, <2>1, <2>2, <1>f, <1>o
      <4>2. CASE c # d
        BY <3>2, <4>0, <4>2, <2>1, <2>2, <1>f, <1>o
      <4> QED
        BY <4>1, <4>2
    <3> QED
      BY <2>2, <3>1, <3>2, <1>d, <1>o
  <2>3. CASE w # u
    <3>1. ASSUME NEW c \in Deleters, place'[w] = c
          PROVE  /\ delete'[c].of = w
                 /\ delete'[c].at \in {"isolated", "returning", "rowless", "compensating", "stuck", "cut"}
      <4>1. place[w] = c /\ delete[c].of = w /\ c # d
        BY <2>1, <2>3, <3>1, <1>o
      <4> QED
        BY <4>1, <2>1, <1>o
    <3> QED
      BY <2>1, <2>3, <3>1, <1>o
  <2> QED
    BY <2>2, <2>3
<1>5. RestoresFindFile'
  <2> SUFFICES ASSUME NEW c \in Deleters, delete'[c].at = "restoring"
               PROVE  place'[delete'[c].of] \in {"final"} \cup Deleters
    BY DEF RestoresFindFile
  <2>1. CASE c = d
    BY <2>1, <1>f, <1>o
  <2>2. CASE c # d
    <3>1. delete[c].at = "restoring" /\ place[delete[c].of] \in {"final"} \cup Deleters
      BY <2>2, <1>o, <1>i DEF RestoresFindFile
    <3>2. delete[c].of = u => ~HoldsRow(d)
      BY <3>1, <2>2, <1>i DEF DeletesFollow, HoldsRow
    <3>3. delete[c].of = u => place'[u] \in {"final"} \cup Deleters
      BY <3>1, <3>2, <1>f DEF HoldsRow
    <3> QED
      BY <3>1, <3>3, <1>o, <1>y
  <2> QED
    BY <2>1, <2>2
<1>6. RowsGoByDeletes'
  <2>1. \A c \in Deleters : Touched(c) => Touched(c)' /\ delete'[c].of = delete[c].of
    BY <1>z, <1>o DEF Touched
  <2>2. ASSUME NEW w \in TrackUploads, track'[w].at = "done", ~track'[w].row
        PROVE  \E c \in Deleters : delete'[c].of = w /\ Touched(c)'
    <3>1. CASE w = u /\ track[u].row
      BY <2>2, <3>1, <1>v, <1>o
    <3>2. CASE ~track[w].row
      <4>1. PICK c \in Deleters : delete[c].of = w /\ Touched(c)
        BY <2>2, <3>2, <1>o, <1>i DEF RowsGoByDeletes
      <4> QED
        BY <4>1, <2>1
    <3> QED
      BY <2>2, <3>1, <3>2, <1>o
  <2>3. \A r \in Readers : reading[r].of \in TrackUploads
    BY <1>t DEF Readings
  <2>4. ASSUME NEW r \in Readers, reading'[r].at \in {"listed", "found"}
        PROVE  track'[reading'[r].of].at = "done"
    BY <2>3, <2>4, <1>o, <1>i DEF RowsGoByDeletes
  <2>5. ASSUME NEW r \in Readers, reading'[r].at = "missing"
        PROVE  \E c \in Deleters : delete'[c].of = reading'[r].of /\ Touched(c)'
    <3>1. PICK c \in Deleters : delete[c].of = reading[r].of /\ Touched(c)
      BY <2>5, <1>o, <1>i DEF RowsGoByDeletes
    <3> QED
      BY <3>1, <2>1, <1>o
  <2> QED
    BY <2>2, <2>4, <2>5 DEF RowsGoByDeletes
<1>7. DonePlaces'
  BY <1>f, <1>q, <1>r, <1>o, <1>i, <1>d, <1>u DEF DonePlaces, Touched
<1> QED
  BY <1>1, <1>2, <1>3, <1>4, <1>5, <1>6, <1>7 DEF SubtitlesInv

\* Every line of an upload keeps it.
LEMMA UploadsKeep ==
  ASSUME SubtitlesInv, NEW u \in TrackUploads, NEW to, NEW file, NEW row,
         UploadMoved(u, to, file, row), TypesNext
  PROVE  SubtitlesInv'
<1>t. /\ track \in [TrackUploads -> Tracks] /\ place \in [TrackUploads -> Places]
      /\ delete \in [Deleters -> Deletes] /\ reading \in [Readers -> Readings]
  BY DEF SubtitlesInv, SubtitlesTypeOK, Tracks, Places, Deletes, Readings
<1>i. AuditTellsDeletes /\ DeletesFollow /\ PlacesFit /\ RestoresFindFile /\ RowsGoByDeletes /\ DonePlaces
  BY DEF SubtitlesInv
<1>d. /\ \A d \in Deleters : delete[d].of = u => delete[d].at = "new"
      /\ \A d \in Deleters : delete[d].of \in TrackUploads
      /\ \A r \in Readers : reading[r].of \in TrackUploads
  BY <1>i, <1>t DEF UploadMoved, DeletesFollow, Deletes, Readings
<1>1. SubtitlesTypeOK'
  BY DEF TypesNext, SubtitlesTypeOK, Tracks, Places, Deletes, Readings
<1>2. AuditTellsDeletes'
  BY <1>i DEF AuditTellsDeletes, UploadMoved
<1>3. DeletesFollow'
  BY <1>i, <1>d DEF DeletesFollow, HoldsRow, UploadMoved
<1>4. PlacesFit'
  BY <1>i, <1>d, SubtitlesAssumption DEF PlacesFit, UploadMoved
<1>5. RestoresFindFile'
  BY <1>i, <1>d DEF RestoresFindFile, UploadMoved
<1>6. RowsGoByDeletes'
  BY <1>i, <1>d DEF RowsGoByDeletes, Touched, UploadMoved
<1>7. DonePlaces'
  BY <1>i, <1>d DEF DonePlaces, PlacesFit, Touched, UploadMoved
<1> QED
  BY <1>1, <1>2, <1>3, <1>4, <1>5, <1>6, <1>7 DEF SubtitlesInv

\* A reader changes only itself, and finds nothing where a delete has been.
LEMMA ReadersKeep ==
  ASSUME SubtitlesInv, NEW r \in Readers, ListTracks(r) \/ FindContent(r) \/ ReadContent(r)
  PROVE  SubtitlesInv'
<1>t. reading \in [Readers -> Readings]
  BY DEF SubtitlesInv, SubtitlesTypeOK, Readings
<1>u. reading[r].of \in TrackUploads
  BY <1>t DEF Readings
<1>i. AuditTellsDeletes /\ DeletesFollow /\ PlacesFit /\ RestoresFindFile /\ RowsGoByDeletes /\ DonePlaces
  BY DEF SubtitlesInv
<1>m. track' = track /\ place' = place /\ delete' = delete
  BY DEF ListTracks, FindContent, ReadContent
<1>n. PICK to \in {"listed", "found", "served", "missing"} : reading' = [reading EXCEPT ![r].at = to]
  BY DEF ListTracks, FindContent, ReadContent
<1>p. /\ \A q \in Readers : reading'[q].of = reading[q].of /\ (q # r => reading'[q].at = reading[q].at)
      /\ reading'[r].at = to
  BY <1>t, <1>n DEF Readings
<1>1. SubtitlesTypeOK'
  <2>1. reading' \in [Readers -> Readings]
    BY <1>t, <1>n DEF Readings
  <2> QED
    BY <2>1, <1>m DEF SubtitlesInv, SubtitlesTypeOK, Readings
<1>2. AuditTellsDeletes' /\ DeletesFollow' /\ PlacesFit' /\ RestoresFindFile' /\ DonePlaces'
  BY <1>i, <1>m DEF AuditTellsDeletes, DeletesFollow, PlacesFit, RestoresFindFile, DonePlaces,
         HoldsRow, Touched
<1>3. reading[r].at \in {"listed", "found"} \/ track[reading[r].of].at = "done"
  BY DEF ListTracks, FindContent, ReadContent
<1>4. track[reading[r].of].at = "done"
  BY <1>3, <1>i DEF RowsGoByDeletes
<1>5. to = "missing" => ~track[reading[r].of].row \/ place[reading[r].of] # "final"
  BY <1>p, <1>t DEF ListTracks, FindContent, ReadContent, Readings
<1>6. to = "missing" => \E d \in Deleters : delete[d].of = reading[r].of /\ Touched(d)
  BY <1>4, <1>5, <1>i, <1>u DEF RowsGoByDeletes, DonePlaces
<1>7. RowsGoByDeletes'
  BY <1>i, <1>m, <1>p, <1>4, <1>6 DEF RowsGoByDeletes, Touched
<1> QED
  BY <1>1, <1>2, <1>7 DEF SubtitlesInv

\* A crash cuts everything off where it is.
LEMMA CutKeeps == SubtitlesInv /\ CutRequests => SubtitlesInv'
<1> SUFFICES ASSUME SubtitlesInv, CutRequests PROVE SubtitlesInv'
  OBVIOUS
<1>t. /\ track \in [TrackUploads -> Tracks] /\ place \in [TrackUploads -> Places]
      /\ delete \in [Deleters -> Deletes] /\ reading \in [Readers -> Readings]
  BY DEF SubtitlesInv, SubtitlesTypeOK, Tracks, Places, Deletes, Readings
<1>i. AuditTellsDeletes /\ DeletesFollow /\ PlacesFit /\ RestoresFindFile /\ RowsGoByDeletes /\ DonePlaces
  BY DEF SubtitlesInv
<1>a. /\ \A w \in TrackUploads : /\ track'[w].at = IF track[w].at \in Uploading THEN "cut" ELSE track[w].at
                                /\ track'[w].row = track[w].row
                                /\ track'[w].events = track[w].events
      /\ track' \in [TrackUploads -> Tracks]
  BY <1>t DEF CutRequests, Tracks
<1>b. /\ \A d \in Deleters : /\ delete'[d].at = IF delete[d].at \in Deleting THEN "cut" ELSE delete[d].at
                            /\ delete'[d].of = delete[d].of
      /\ delete' \in [Deleters -> Deletes]
  BY <1>t DEF CutRequests, Deletes, DeleteEnds
<1>c. /\ \A r \in Readers : /\ reading'[r].at = IF reading[r].at \in {"listed", "found"} THEN "cut"
                                                ELSE reading[r].at
                           /\ reading'[r].of = reading[r].of
      /\ reading' \in [Readers -> Readings] /\ place' = place
  BY <1>t DEF CutRequests, Readings
<1>d. /\ \A d \in Deleters : delete[d].of \in TrackUploads
      /\ \A r \in Readers : reading[r].of \in TrackUploads
  BY <1>t DEF Deletes, Readings
<1>1. SubtitlesTypeOK'
  BY <1>a, <1>b, <1>c, <1>t DEF SubtitlesTypeOK, Tracks, Places, Deletes, Readings
<1>2. AuditTellsDeletes'
  BY <1>i, <1>a DEF AuditTellsDeletes, Uploading
<1>3. DeletesFollow'
  BY <1>i, <1>a, <1>b, <1>d DEF DeletesFollow, HoldsRow, Deleting, Uploading
<1>4. PlacesFit'
  BY <1>i, <1>a, <1>b, <1>c DEF PlacesFit, Deleting, Uploading
<1>5. RestoresFindFile'
  BY <1>i, <1>b, <1>c DEF RestoresFindFile, Deleting
<1>6. RowsGoByDeletes'
  BY <1>i, <1>a, <1>b, <1>c, <1>d DEF RowsGoByDeletes, Touched, Deleting, Uploading
<1>7. DonePlaces'
  BY <1>i, <1>a, <1>b, <1>c DEF DonePlaces, Touched, Deleting, Uploading
<1> QED
  BY <1>1, <1>2, <1>3, <1>4, <1>5, <1>6, <1>7 DEF SubtitlesInv

\* Every step keeps the invariant.
LEMMA SubtitlesStep == SubtitlesInv /\ [SubtitlesNext]_subtitleVars => SubtitlesInv'
<1> SUFFICES ASSUME SubtitlesInv, [SubtitlesNext]_subtitleVars PROVE SubtitlesInv'
  OBVIOUS
<1>1. ASSUME NEW u \in TrackUploads, WriteTemp(u) \/ MoveUpload(u) \/ CreateTrackRow(u) \/ ClearUpload(u)
      PROVE  SubtitlesInv'
  BY <1>1, UploadMoves, UploadsKeep
<1>2. ASSUME NEW d \in Deleters,
             \/ FindTrack(d) \/ Isolate(d) \/ DeleteTrackRow(d) \/ ReturnFile(d)
             \/ RemoveIsolated(d) \/ CompensateFile(d) \/ RestoreTrackRow(d) \/ IsolateAgain(d)
      PROVE  SubtitlesInv'
  <2>1. PICK to, file, row : DeleteMoved(d, to, file, row)
    BY <1>2, DeleteMoves
  <2>2. TypesNext
    BY <1>2, DeleteTypes
  <2> QED
    BY <2>1, <2>2, DeletesKeep
<1>3. ASSUME NEW r \in Readers, ListTracks(r) \/ FindContent(r) \/ ReadContent(r)
      PROVE  SubtitlesInv'
  BY <1>3, ReadersKeep
<1>4. CASE CutRequests
  BY <1>4, CutKeeps
<1>5. CASE UNCHANGED subtitleVars
  BY <1>5 DEF subtitleVars, SubtitlesInv, SubtitlesTypeOK, AuditTellsDeletes, DeletesFollow,
         PlacesFit,
     RestoresFindFile, RowsGoByDeletes, DonePlaces, HoldsRow, Touched
<1> QED
  BY <1>1, <1>2, <1>3, <1>4, <1>5 DEF SubtitlesNext

\* A track that is listed has its file, and the audit tells the deletes
\* (subtitle/upload.go, subtitle/service.go).
THEOREM SubtitlesSafeAlways == SubtitlesSpec => []SubtitlesSafe
<1>1. SubtitlesSpec => []SubtitlesInv
  BY SubtitlesInitInv, SubtitlesStep, PTL DEF SubtitlesSpec
<1> QED
  BY <1>1, SubtitlesHold, PTL

-----------------------------------------------------------------------------
(***************************************************************************)
(* Exports (media_export.go). An export that was never taken twice at a    *)
(* time has one run, and what that run finished is whole.                  *)
(***************************************************************************)

\* An export that two runs have been at.
Shared(t) == export[t].past = "shared"

\* A run is idle just when it has no export; what may be taken has attempts left.
Attempted ==
  /\ \A r \in ExportRuns : exportRun[r].of = 0 <=> exportRun[r].at = "idle"
  /\ \A t \in Exports :
       export[t].status \in {"none", "pending", "running"} => export[t].attempts < ExportAttempts
  /\ mishaps \in Nat

\* Unless it was shared, an export has one run at a time.
OneRunUnlessShared ==
  \A t \in Exports : ~Shared(t) => \A r, q \in ExportRuns :
    exportRun[r].of = t /\ exportRun[q].of = t => r = q

\* And none once it has ended.
EndedHasNoRun ==
  \A t \in Exports : ~Shared(t) /\ export[t].status \in {"succeeded", "failed"} =>
    \A r \in ExportRuns : exportRun[r].of # t

\* What its run finished is whole.
FinishedIsWhole ==
  \A t \in Exports : ~Shared(t) =>
    /\ export[t].status = "succeeded" => artifact[t] = "whole"
    /\ \A r \in ExportRuns : exportRun[r].of = t /\ exportRun[r].at \in {"made", "reported"} =>
         artifact[t] = "whole"

\* A part of a file is at the hands of a run, if nothing has cut one off.
PartialIsAtWork ==
  \A t \in Exports : export[t].past = "alone" /\ artifact[t] = "partial" =>
    \E r \in ExportRuns : exportRun[r].of = t /\ exportRun[r].at \in {"making", "removing"}

\* An export that ended and met no fault names its file.
ReportedIsNamed ==
  \A t \in Exports : ~Shared(t) /\ mishaps = 0 =>
    /\ export[t].status = "succeeded" => export[t].result
    /\ \A r \in ExportRuns : exportRun[r].of = t /\ exportRun[r].at = "reported"
                             /\ export[t].status = "running" => export[t].result

\* The inductive invariant of exports.
ExportsInv ==
  /\ ExportsTypeOK /\ Attempted /\ OneRunUnlessShared /\ EndedHasNoRun /\ FinishedIsWhole
  /\ PartialIsAtWork /\ ReportedIsNamed

\* What exports and runs are made of.
ExportStates == Active \cup {"none", "succeeded", "failed", "canceled"}
ExportRows == [status : ExportStates, attempts : 0 .. ExportAttempts, result : BOOLEAN,
               past : {"alone", "cut", "shared"}]
RunRows == [of : Exports \cup {0}, copies : BOOLEAN,
            at : {"idle", "taken", "making", "removing", "made", "reported", "failing"}]

\* It holds at first.
LEMMA ExportsInitInv == ExportsInit => ExportsInv
<1> SUFFICES ASSUME ExportsInit PROVE ExportsInv
  OBVIOUS
<1> USE ExportsAssumption DEF ExportsInit, NewExport, IdleExport
<1>0. 0 \notin Exports
  BY FS_CardinalityType
<1>1. ExportsTypeOK
  BY DEF ExportsTypeOK, Active
<1>2. Attempted
  BY DEF Attempted
<1>3. OneRunUnlessShared /\ EndedHasNoRun /\ FinishedIsWhole /\ PartialIsAtWork /\ ReportedIsNamed
  BY <1>0 DEF OneRunUnlessShared, EndedHasNoRun, FinishedIsWhole, PartialIsAtWork, ReportedIsNamed,
         Shared
<1> QED
  BY <1>1, <1>2, <1>3 DEF ExportsInv

\* What the run checks follows from it.
LEMMA ExportsHold == ExportsInv => ExportsSafe
<1> SUFFICES ASSUME ExportsInv PROVE ExportsSafe
  OBVIOUS
<1>1. DeliveredIsWhole /\ ResultIsNamed
  BY DEF ExportsInv, FinishedIsWhole, ReportedIsNamed, DeliveredIsWhole, ResultIsNamed, Shared
<1>2. FailedLeavesNothing
  BY DEF ExportsInv, PartialIsAtWork, EndedHasNoRun, FailedLeavesNothing, Shared
<1> QED
  BY <1>1, <1>2 DEF ExportsSafe

\* Every step of a request, of a run and of the recovery keeps it.
LEMMA ExportsStep == ExportsInv /\ [ExportsNext]_exportVars => ExportsInv'
<1> SUFFICES ASSUME ExportsInv, [ExportsNext]_exportVars PROVE ExportsInv'
  OBVIOUS
<1>t. /\ export \in [Exports -> ExportRows]
      /\ artifact \in [Exports -> {"none", "partial", "whole"}]
      /\ exportRun \in [ExportRuns -> RunRows] /\ exportTurns \in 0 .. MaxExportTurns
  BY DEF ExportsInv, ExportsTypeOK, ExportRows, ExportStates, RunRows
<1>i. /\ Attempted /\ OneRunUnlessShared /\ EndedHasNoRun /\ FinishedIsWhole /\ PartialIsAtWork
      /\ ReportedIsNamed
  BY DEF ExportsInv
<1>z. 0 \notin Exports
  BY ExportsAssumption, FS_CardinalityType
<1>p. /\ \A t \in Exports : /\ export[t].past \in {"alone", "cut", "shared"} /\ export[t].result \in BOOLEAN
                            /\ export[t].status \in ExportStates
                            /\ artifact[t] \in {"none", "partial", "whole"}
      /\ \A r \in ExportRuns : exportRun[r].of \in Exports \cup {0}
  BY <1>t DEF ExportRows, RunRows
<1>m. ASSUME Smooth \/ Mishap
      PROVE  mishaps' \in Nat /\ (mishaps' = 0 => mishaps = 0)
  BY <1>m, <1>i, FaultsAssumption DEF Attempted, Smooth, Mishap
<1>g. ASSUME export' \in [Exports -> ExportRows], artifact' \in [Exports -> {"none", "partial", "whole"}],
             exportRun' \in [ExportRuns -> RunRows], exportTurns' \in 0 .. MaxExportTurns
      PROVE  ExportsTypeOK'
  BY <1>g DEF ExportsTypeOK, ExportRows, ExportStates, RunRows
<1>e. ExportTurn => exportTurns' \in 0 .. MaxExportTurns
  BY <1>t, ExportsAssumption DEF ExportTurn
<1>w. ASSUME NEW r \in ExportRuns, NEW at \in {"making", "removing", "made", "reported", "failing"},
             ExportAt(r, at)
      PROVE  /\ exportRun' \in [ExportRuns -> RunRows]
             /\ exportRun'[r].at = at /\ exportRun'[r].of = exportRun[r].of
             /\ \A q \in ExportRuns \ {r} : exportRun'[q] = exportRun[q]
  BY <1>t, <1>w DEF ExportAt, RunRows
<1>1. ASSUME NEW t \in Exports, EnqueueExport(t)
      PROVE  ExportsInv'
  <2> DEFINE new == [export[t] EXCEPT !.status = "pending"]
  <2>1. /\ export[t].status = "none" /\ exportTurns' \in 0 .. MaxExportTurns
        /\ export' = [export EXCEPT ![t] = new] /\ artifact' = artifact /\ exportRun' = exportRun
    BY <1>1, <1>e, <1>t DEF EnqueueExport
  <2>n. /\ new \in ExportRows /\ new.status = "pending" /\ new.past = export[t].past
        /\ new.attempts = export[t].attempts
    BY <1>t DEF ExportRows, ExportStates, Active
  <2> HIDE DEF new
  <2>2. /\ \A w \in Exports \ {t} : export'[w] = export[w]
        /\ export'[t].status = "pending" /\ export'[t].past = export[t].past
        /\ export'[t].attempts = export[t].attempts /\ export[t].status = "none"
    BY <1>t, <2>1, <2>n
  <2>m. mishaps' = mishaps /\ mishaps \in Nat /\ artifact' = artifact /\ exportRun' = exportRun
    BY <1>1, <1>i, <2>1 DEF EnqueueExport, Smooth, Attempted
  <2>t. ExportsTypeOK'
    BY <1>t, <1>g, <2>1, <2>n
  <2>va. Attempted'
    BY <1>i, <1>p, <1>z, <2>2, <2>m DEF Attempted, Shared
  <2>vb. OneRunUnlessShared'
    BY <1>i, <1>p, <1>z, <2>2, <2>m DEF OneRunUnlessShared, Shared
  <2>vc. EndedHasNoRun'
    BY <1>i, <1>p, <1>z, <2>2, <2>m DEF EndedHasNoRun, OneRunUnlessShared, Shared
  <2>vd. FinishedIsWhole'
    BY <1>i, <1>p, <1>z, <2>2, <2>m DEF FinishedIsWhole, EndedHasNoRun, OneRunUnlessShared, Shared
  <2>ve. PartialIsAtWork'
    BY <1>i, <1>p, <1>z, <2>2, <2>m DEF PartialIsAtWork, Shared
  <2>vf. ReportedIsNamed'
    BY <1>i, <1>p, <1>z, <2>2, <2>m DEF ReportedIsNamed, Shared
  <2> QED
    BY <2>t, <2>va, <2>vb, <2>vc, <2>vd, <2>ve, <2>vf DEF ExportsInv
<1>2. ASSUME NEW t \in Exports, CancelExport(t)
      PROVE  ExportsInv'
  <2> DEFINE new == [export[t] EXCEPT !.status = "canceled"]
  <2>1. /\ exportTurns' \in 0 .. MaxExportTurns
        /\ export' = [export EXCEPT ![t] = new] /\ artifact' = artifact /\ exportRun' = exportRun
    BY <1>2, <1>e, <1>t DEF CancelExport
  <2>n. /\ new \in ExportRows /\ new.status = "canceled" /\ new.past = export[t].past
    BY <1>t DEF ExportRows, ExportStates, Active
  <2> HIDE DEF new
  <2>2. /\ \A w \in Exports \ {t} : export'[w] = export[w]
        /\ export'[t].status = "canceled" /\ export'[t].past = export[t].past
    BY <1>t, <2>1, <2>n
  <2>m. mishaps' = mishaps /\ mishaps \in Nat /\ artifact' = artifact /\ exportRun' = exportRun
    BY <1>2, <1>i, <2>1 DEF CancelExport, Smooth, Attempted
  <2>t. ExportsTypeOK'
    BY <1>t, <1>g, <2>1, <2>n
  <2>va. Attempted'
    BY <1>i, <1>p, <1>z, <2>2, <2>m DEF Attempted, Shared
  <2>vb. OneRunUnlessShared'
    BY <1>i, <1>p, <1>z, <2>2, <2>m DEF OneRunUnlessShared, Shared
  <2>vc. EndedHasNoRun'
    BY <1>i, <1>p, <1>z, <2>2, <2>m DEF EndedHasNoRun, OneRunUnlessShared, Shared
  <2>vd. FinishedIsWhole'
    BY <1>i, <1>p, <1>z, <2>2, <2>m DEF FinishedIsWhole, EndedHasNoRun, OneRunUnlessShared, Shared
  <2>ve. PartialIsAtWork'
    BY <1>i, <1>p, <1>z, <2>2, <2>m DEF PartialIsAtWork, Shared
  <2>vf. ReportedIsNamed'
    BY <1>i, <1>p, <1>z, <2>2, <2>m DEF ReportedIsNamed, Shared
  <2> QED
    BY <2>t, <2>va, <2>vb, <2>vc, <2>vd, <2>ve, <2>vf DEF ExportsInv
<1>3. ASSUME NEW t \in Exports, RetryExport(t)
      PROVE  ExportsInv'
  <2> DEFINE new == [NewExport EXCEPT !.status = "pending", !.past = export[t].past]
  <2>1. /\ exportTurns' \in 0 .. MaxExportTurns
        /\ export' = [export EXCEPT ![t] = new] /\ artifact' = artifact /\ exportRun' = exportRun
    BY <1>3, <1>e, <1>t DEF RetryExport
  <2>n. /\ new \in ExportRows /\ new.status = "pending" /\ new.past = export[t].past
        /\ new.attempts = 0
    <3>2. /\ NewExport \in ExportRows /\ NewExport.attempts = 0
          /\ "pending" \in ExportStates /\ export[t].past \in {"alone", "cut", "shared"}
      BY <1>p, ExportsAssumption DEF ExportRows, ExportStates, Active, NewExport
    <3> QED
      BY <3>2 DEF ExportRows
  <2> HIDE DEF new
  <2>2. /\ \A w \in Exports \ {t} : export'[w] = export[w]
        /\ export'[t].status = "pending" /\ export'[t].past = export[t].past
        /\ export'[t].attempts < ExportAttempts
    BY <1>t, <2>1, <2>n, ExportsAssumption
  <2>m. mishaps' = mishaps /\ mishaps \in Nat /\ artifact' = artifact /\ exportRun' = exportRun
    BY <1>3, <1>i, <2>1 DEF RetryExport, Smooth, Attempted
  <2>t. ExportsTypeOK'
    BY <1>t, <1>g, <2>1, <2>n
  <2>va. Attempted'
    BY <1>i, <1>p, <1>z, <2>2, <2>m DEF Attempted, Shared
  <2>vb. OneRunUnlessShared'
    BY <1>i, <1>p, <1>z, <2>2, <2>m DEF OneRunUnlessShared, Shared
  <2>vc. EndedHasNoRun'
    BY <1>i, <1>p, <1>z, <2>2, <2>m DEF EndedHasNoRun, OneRunUnlessShared, Shared
  <2>vd. FinishedIsWhole'
    BY <1>i, <1>p, <1>z, <2>2, <2>m DEF FinishedIsWhole, EndedHasNoRun, OneRunUnlessShared, Shared
  <2>ve. PartialIsAtWork'
    BY <1>i, <1>p, <1>z, <2>2, <2>m DEF PartialIsAtWork, Shared
  <2>vf. ReportedIsNamed'
    BY <1>i, <1>p, <1>z, <2>2, <2>m DEF ReportedIsNamed, Shared
  <2> QED
    BY <2>t, <2>va, <2>vb, <2>vc, <2>vd, <2>ve, <2>vf DEF ExportsInv
<1>4. ASSUME NEW t \in Exports, NEW r \in ExportRuns, TakeExport(t, r)
      PROVE  ExportsInv'
  <2> DEFINE past == IF RunsOf(t) # {} THEN "shared" ELSE export[t].past
             new == [export[t] EXCEPT !.status = "running", !.past = past]
             run == [IdleExport EXCEPT !.of = t, !.at = "taken"]
  <2>1. /\ export[t].status = "pending" /\ exportRun[r].of = 0
        /\ export' = [export EXCEPT ![t] = new] /\ artifact' = artifact
        /\ exportRun' = [exportRun EXCEPT ![r] = run] /\ exportTurns' = exportTurns
    BY <1>4, <1>t DEF TakeExport
  <2>n. /\ new \in ExportRows /\ new.status = "running" /\ new.past = past
        /\ new.attempts = export[t].attempts /\ new.result = export[t].result
    BY <1>t, <1>p DEF ExportRows, ExportStates, Active
  <2>r. run \in RunRows /\ run.of = t /\ run.at = "taken"
    BY DEF RunRows, IdleExport
  <2>u. /\ past = "shared" \/ (past = export[t].past /\ \A q \in ExportRuns : exportRun[q].of # t)
        /\ \A q \in ExportRuns : exportRun[q].of = t => past = "shared"
    BY DEF RunsOf
  <2> HIDE DEF new, run, past
  <2>2. /\ \A w \in Exports \ {t} : export'[w] = export[w]
        /\ export'[t].status = "running" /\ export'[t].past = past
        /\ export'[t].attempts = export[t].attempts
        /\ export[t].status = "pending" /\ artifact' = artifact
        /\ \A q \in ExportRuns \ {r} : exportRun'[q] = exportRun[q]
        /\ exportRun'[r].of = t /\ exportRun'[r].at = "taken" /\ exportRun[r].of = 0
    BY <1>t, <2>1, <2>n, <2>r
  <2>m. mishaps' = mishaps /\ mishaps \in Nat
    BY <1>4, <1>i DEF TakeExport, Smooth, Attempted
  <2>t. ExportsTypeOK'
    BY <1>t, <1>g, <2>1, <2>n, <2>r
  <2>va. Attempted'
    BY <1>i, <1>p, <1>z, <2>2, <2>m, <2>u DEF Attempted, Shared
  <2>vb. OneRunUnlessShared'
    BY <1>i, <1>p, <1>z, <2>2, <2>m, <2>u DEF OneRunUnlessShared, Shared
  <2>vc. EndedHasNoRun'
    BY <1>i, <1>p, <1>z, <2>2, <2>m, <2>u DEF EndedHasNoRun, OneRunUnlessShared, Shared
  <2>vd. FinishedIsWhole'
    BY <1>i, <1>p, <1>z, <2>2, <2>m, <2>u DEF FinishedIsWhole, EndedHasNoRun, OneRunUnlessShared,
           Shared
  <2>ve. PartialIsAtWork'
    BY <1>i, <1>p, <1>z, <2>2, <2>m, <2>u DEF PartialIsAtWork, Shared
  <2>vf. ReportedIsNamed'
    BY <1>i, <1>p, <1>z, <2>2, <2>m, <2>u DEF ReportedIsNamed, Shared
  <2> QED
    BY <2>t, <2>va, <2>vb, <2>vc, <2>vd, <2>ve, <2>vf DEF ExportsInv
<1>5. ASSUME NEW r \in ExportRuns, StartMaking(r)
      PROVE  ExportsInv'
  <2> DEFINE t == exportRun[r].of
  <2>0. /\ exportRun[r].at = "taken" /\ t \in Exports /\ export' = export
        /\ exportTurns' = exportTurns
    BY <1>5, <1>p, <1>i DEF StartMaking, Attempted
  <2>1. PICK at \in {"making", "failing"}, file \in {"none", "partial", "whole"} :
          /\ (at = "making" /\ file = "partial") \/ (at = "failing" /\ file = artifact[t])
          /\ artifact' = [artifact EXCEPT ![t] = file]
          /\ exportRun' \in [ExportRuns -> RunRows]
          /\ exportRun'[r].at = at /\ exportRun'[r].of = t
          /\ \A q \in ExportRuns \ {r} : exportRun'[q] = exportRun[q]
    <3>1. CASE ExportAt(r, "failing") /\ artifact' = artifact
      BY <3>1, <1>w, <1>t, <1>p, <2>0
    <3>2. ASSUME NEW clip \in BOOLEAN, exportRun' = [exportRun EXCEPT ![r].at = "making", ![r].copies = clip],
                 artifact' = [artifact EXCEPT ![t] = "partial"]
          PROVE  /\ exportRun' \in [ExportRuns -> RunRows]
                 /\ exportRun'[r].at = "making" /\ exportRun'[r].of = t
                 /\ \A q \in ExportRuns \ {r} : exportRun'[q] = exportRun[q]
      <4> DEFINE run == [exportRun[r] EXCEPT !.at = "making", !.copies = clip]
      <4>1. run \in RunRows /\ run.at = "making" /\ run.of = t
        BY <1>t DEF RunRows
      <4>2. exportRun' = [exportRun EXCEPT ![r] = run]
        BY <3>2, <1>t
      <4> HIDE DEF run
      <4> QED
        BY <4>1, <4>2, <1>t
    <3> QED
      BY <1>5, <3>1, <3>2, <2>0 DEF StartMaking
  <2>2. /\ \A w \in Exports \ {t} : artifact'[w] = artifact[w]
        /\ artifact'[t] = file /\ export' = export
    BY <1>t, <2>0, <2>1
  <2>3. /\ exportRun'[r].at = at /\ exportRun'[r].of = t
        /\ \A q \in ExportRuns \ {r} : exportRun'[q] = exportRun[q]
        /\ (at = "making" /\ file = "partial") \/ (at = "failing" /\ file = artifact[t])
        /\ exportRun[r].at = "taken" /\ t \in Exports
    BY <2>0, <2>1
  <2>m. mishaps' \in Nat /\ (mishaps' = 0 => mishaps = 0)
    BY <1>5, <1>m DEF StartMaking
  <2>t. ExportsTypeOK'
    BY <1>t, <1>g, <2>0, <2>1
  <2>va. Attempted'
    BY <1>i, <1>p, <1>z, <2>2, <2>3, <2>m DEF Attempted, Shared
  <2>vb. OneRunUnlessShared'
    BY <1>i, <1>p, <1>z, <2>2, <2>3, <2>m DEF OneRunUnlessShared, Shared
  <2>vc. EndedHasNoRun'
    BY <1>i, <1>p, <1>z, <2>2, <2>3, <2>m DEF EndedHasNoRun, OneRunUnlessShared, Shared
  <2>vd. FinishedIsWhole'
    BY <1>i, <1>p, <1>z, <2>2, <2>3, <2>m DEF FinishedIsWhole, EndedHasNoRun, OneRunUnlessShared,
           Shared
  <2>ve. PartialIsAtWork'
    BY <1>i, <1>p, <1>z, <2>2, <2>3, <2>m DEF PartialIsAtWork, Shared
  <2>vf. ReportedIsNamed'
    BY <1>i, <1>p, <1>z, <2>2, <2>3, <2>m DEF ReportedIsNamed, Shared
  <2> QED
    BY <2>t, <2>va, <2>vb, <2>vc, <2>vd, <2>ve, <2>vf DEF ExportsInv
<1>6. ASSUME NEW r \in ExportRuns, EndMaking(r)
      PROVE  ExportsInv'
  <2> DEFINE t == exportRun[r].of
  <2>0. /\ exportRun[r].at = "making" /\ t \in Exports /\ export' = export
        /\ exportTurns' = exportTurns
    BY <1>6, <1>p, <1>i DEF EndMaking, Attempted
  <2>1. PICK at \in {"making", "made", "removing"}, file \in {"none", "partial", "whole"} :
          /\ \/ at = "made" /\ file = "whole"
             \/ at = "making" /\ file = "partial"
             \/ at = "removing" /\ file = artifact[t]
          /\ artifact' = [artifact EXCEPT ![t] = file]
          /\ exportRun' \in [ExportRuns -> RunRows]
          /\ exportRun'[r].at = at /\ exportRun'[r].of = t
          /\ \A q \in ExportRuns \ {r} : exportRun'[q] = exportRun[q]
    <3>1. CASE ExportAt(r, "made") /\ artifact' = [artifact EXCEPT ![t] = "whole"]
      BY <3>1, <1>w, <2>0
    <3>2. CASE /\ exportRun' = [exportRun EXCEPT ![r].copies = FALSE]
               /\ artifact' = [artifact EXCEPT ![t] = "partial"]
      <4>1. /\ exportRun' \in [ExportRuns -> RunRows]
            /\ exportRun'[r].at = "making" /\ exportRun'[r].of = t
            /\ \A q \in ExportRuns \ {r} : exportRun'[q] = exportRun[q]
        BY <3>2, <1>t, <2>0 DEF RunRows
      <4> QED
        BY <3>2, <4>1
    <3>3. CASE ExportAt(r, "removing") /\ artifact' = artifact
      BY <3>3, <1>w, <1>t, <1>p, <2>0
    <3> QED
      BY <1>6, <3>1, <3>2, <3>3 DEF EndMaking
  <2>2. /\ \A w \in Exports \ {t} : artifact'[w] = artifact[w]
        /\ artifact'[t] = file /\ export' = export
    BY <1>t, <2>0, <2>1
  <2>3. /\ exportRun'[r].at = at /\ exportRun'[r].of = t
        /\ \A q \in ExportRuns \ {r} : exportRun'[q] = exportRun[q]
        /\ \/ at = "made" /\ file = "whole"
           \/ at = "making" /\ file = "partial"
           \/ at = "removing" /\ file = artifact[t]
        /\ exportRun[r].at = "making" /\ t \in Exports
    BY <2>0, <2>1
  <2>m. mishaps' \in Nat /\ (mishaps' = 0 => mishaps = 0)
    BY <1>6, <1>m DEF EndMaking
  <2>t. ExportsTypeOK'
    BY <1>t, <1>g, <2>0, <2>1
  <2>va. Attempted'
    BY <1>i, <1>p, <1>z, <2>2, <2>3, <2>m DEF Attempted, Shared
  <2>vb. OneRunUnlessShared'
    BY <1>i, <1>p, <1>z, <2>2, <2>3, <2>m DEF OneRunUnlessShared, Shared
  <2>vc. EndedHasNoRun'
    BY <1>i, <1>p, <1>z, <2>2, <2>3, <2>m DEF EndedHasNoRun, OneRunUnlessShared, Shared
  <2>vd. FinishedIsWhole'
    BY <1>i, <1>p, <1>z, <2>2, <2>3, <2>m DEF FinishedIsWhole, EndedHasNoRun, OneRunUnlessShared,
           Shared
  <2>ve. PartialIsAtWork'
    BY <1>i, <1>p, <1>z, <2>2, <2>3, <2>m DEF PartialIsAtWork, Shared
  <2>vf. ReportedIsNamed'
    BY <1>i, <1>p, <1>z, <2>2, <2>3, <2>m DEF ReportedIsNamed, Shared
  <2> QED
    BY <2>t, <2>va, <2>vb, <2>vc, <2>vd, <2>ve, <2>vf DEF ExportsInv
<1>7. ASSUME NEW r \in ExportRuns, RemoveUnfinished(r)
      PROVE  ExportsInv'
  <2> DEFINE t == exportRun[r].of
  <2>0. /\ exportRun[r].at = "removing" /\ t \in Exports /\ export' = export
        /\ exportTurns' = exportTurns /\ artifact' = [artifact EXCEPT ![t] = "none"]
        /\ ExportAt(r, "failing")
    BY <1>7, <1>p, <1>i DEF RemoveUnfinished, Attempted, Removed
  <2>2. /\ \A w \in Exports \ {t} : artifact'[w] = artifact[w]
        /\ artifact'[t] = "none" /\ export' = export
    BY <1>t, <2>0
  <2>3. /\ exportRun'[r].at = "failing" /\ exportRun'[r].of = t
        /\ \A q \in ExportRuns \ {r} : exportRun'[q] = exportRun[q]
        /\ exportRun[r].at = "removing" /\ t \in Exports
    BY <2>0, <1>w
  <2>m. mishaps' \in Nat /\ (mishaps' = 0 => mishaps = 0)
    BY <1>7, <1>m DEF RemoveUnfinished
  <2>t. ExportsTypeOK'
    BY <1>t, <1>w, <1>g, <2>0
  <2>va. Attempted'
    BY <1>i, <1>p, <1>z, <2>2, <2>3, <2>m DEF Attempted, Shared
  <2>vb. OneRunUnlessShared'
    BY <1>i, <1>p, <1>z, <2>2, <2>3, <2>m DEF OneRunUnlessShared, Shared
  <2>vc. EndedHasNoRun'
    BY <1>i, <1>p, <1>z, <2>2, <2>3, <2>m DEF EndedHasNoRun, OneRunUnlessShared, Shared
  <2>vd. FinishedIsWhole'
    BY <1>i, <1>p, <1>z, <2>2, <2>3, <2>m DEF FinishedIsWhole, EndedHasNoRun, OneRunUnlessShared,
           Shared
  <2>ve. PartialIsAtWork'
    BY <1>i, <1>p, <1>z, <2>2, <2>3, <2>m DEF PartialIsAtWork, Shared
  <2>vf. ReportedIsNamed'
    BY <1>i, <1>p, <1>z, <2>2, <2>3, <2>m DEF ReportedIsNamed, Shared
  <2> QED
    BY <2>t, <2>va, <2>vb, <2>vc, <2>vd, <2>ve, <2>vf DEF ExportsInv
<1>8. ASSUME NEW r \in ExportRuns, ReportExport(r)
      PROVE  ExportsInv'
  <2> DEFINE t == exportRun[r].of
  <2>0. exportRun[r].at = "made" /\ t \in Exports /\ artifact' = artifact /\ exportTurns' = exportTurns
    BY <1>8, <1>p, <1>i DEF ReportExport, Attempted
  <2>1. PICK at \in {"reported", "failing"}, named \in BOOLEAN :
          /\ \/ at = "failing" /\ artifact[t] = "none" /\ named = export[t].result
             \/ /\ at = "reported" /\ (mishaps' = 0 /\ export[t].status = "running" => named)
                /\ export[t].result => named
          /\ export' = [export EXCEPT ![t] = [export[t] EXCEPT !.result = named]]
          /\ ExportAt(r, at) /\ (Smooth \/ Mishap)
    <3>1. CASE artifact[t] = "none"
      <4>1. export' = export /\ ExportAt(r, "failing") /\ Smooth
        BY <1>8, <3>1 DEF ReportExport
      <4>2. [export[t] EXCEPT !.result = export[t].result] = export[t]
        BY <1>t, <2>0 DEF ExportRows
      <4>3. export' = [export EXCEPT ![t] = [export[t] EXCEPT !.result = export[t].result]]
        BY <4>1, <4>2, <1>t, <2>0
      <4> QED
        BY <3>1, <4>1, <4>3, <1>p, <2>0
    <3>2. CASE artifact[t] # "none"
      <4>1. PICK named \in BOOLEAN :
              /\ MishapIf(~named /\ export[t].status = "running")
              /\ ExportAt(r, "reported")
              /\ export' = [export EXCEPT ![t].result = @ \/ (named /\ export[t].status = "running")]
        BY <1>8, <3>2 DEF ReportExport
      <4> DEFINE name == export[t].result \/ (named /\ export[t].status = "running")
      <4>2. export' = [export EXCEPT ![t] = [export[t] EXCEPT !.result = name]]
        BY <4>1, <1>t, <2>0
      <4>3. mishaps' = 0 /\ export[t].status = "running" => named
        BY <4>1, <1>i DEF MishapIf, Mishap, Attempted
      <4>4. name \in BOOLEAN /\ (Smooth \/ Mishap)
        BY <4>1 DEF MishapIf
      <4>5. (mishaps' = 0 /\ export[t].status = "running" => name) /\ (export[t].result => name)
        BY <4>3
      <4> HIDE DEF name
      <4> QED
        BY <4>1, <4>2, <4>4, <4>5
    <3> QED
      BY <3>1, <3>2
  <2>n. LET new == [export[t] EXCEPT !.result = named]
        IN  /\ new \in ExportRows /\ new.status = export[t].status /\ new.past = export[t].past
            /\ new.attempts = export[t].attempts /\ new.result = named
    BY <1>t, <2>0 DEF ExportRows
  <2>2. /\ \A w \in Exports \ {t} : export'[w] = export[w]
        /\ export'[t].status = export[t].status /\ export'[t].past = export[t].past
        /\ export'[t].attempts = export[t].attempts /\ export'[t].result = named
    BY <1>t, <2>0, <2>1, <2>n
  <2>3. /\ exportRun'[r].at = at /\ exportRun'[r].of = t
        /\ \A q \in ExportRuns \ {r} : exportRun'[q] = exportRun[q]
        /\ at = "failing" \/ (mishaps' = 0 /\ export[t].status = "running" => named)
        /\ export[t].result => named
        /\ at \in {"reported", "failing"}
        /\ exportRun[r].at = "made" /\ t \in Exports /\ artifact' = artifact
    BY <1>w, <2>0, <2>1
  <2>m. mishaps' \in Nat /\ (mishaps' = 0 => mishaps = 0)
    BY <2>1, <1>m
  <2>t. ExportsTypeOK'
    BY <1>t, <1>w, <1>g, <2>0, <2>1, <2>n
  <2>va. Attempted'
    BY <1>i, <1>p, <1>z, <2>2, <2>3, <2>m DEF Attempted, Shared
  <2>vb. OneRunUnlessShared'
    BY <1>i, <1>p, <1>z, <2>2, <2>3, <2>m DEF OneRunUnlessShared, Shared
  <2>vc. EndedHasNoRun'
    BY <1>i, <1>p, <1>z, <2>2, <2>3, <2>m DEF EndedHasNoRun, OneRunUnlessShared, Shared
  <2>vd. FinishedIsWhole'
    BY <1>i, <1>p, <1>z, <2>2, <2>3, <2>m DEF FinishedIsWhole, EndedHasNoRun, OneRunUnlessShared,
           Shared
  <2>ve. PartialIsAtWork'
    BY <1>i, <1>p, <1>z, <2>2, <2>3, <2>m DEF PartialIsAtWork, Shared
  <2>vf. ReportedIsNamed'
    BY <1>i, <1>p, <1>z, <2>2, <2>3, <2>m DEF ReportedIsNamed, Shared
  <2> QED
    BY <2>t, <2>va, <2>vb, <2>vc, <2>vd, <2>ve, <2>vf DEF ExportsInv
<1>9. ASSUME NEW r \in ExportRuns, EndExport(r)
      PROVE  ExportsInv'
  <2> DEFINE t == exportRun[r].of
             well == exportRun[r].at = "reported"
             new == EndedExport(export[t], well)
  <2>0. /\ exportRun[r].at \in {"reported", "failing"} /\ t \in Exports /\ artifact' = artifact
        /\ exportTurns' = exportTurns /\ mishaps' = mishaps
        /\ export' = [export EXCEPT ![t] = new]
        /\ exportRun' = [exportRun EXCEPT ![r] = IdleExport]
    BY <1>9, <1>p, <1>i, <1>t DEF EndExport, Attempted, Smooth
  <2>n. /\ new \in ExportRows /\ new.past = export[t].past /\ new.result = export[t].result
        /\ export[t].status # "running" => new = export[t]
        /\ export[t].status = "running" =>
             \/ well /\ new.status = "succeeded"
             \/ ~well /\ new.status = "pending" /\ new.attempts < ExportAttempts
             \/ ~well /\ new.status = "failed"
    <3>1. /\ export[t] \in ExportRows
          /\ export[t].status = "running" => export[t].attempts + 1 \in 0 .. ExportAttempts
      BY <1>t, <1>i, <2>0, ExportsAssumption DEF Attempted, ExportRows
    <3>2. {"succeeded", "pending", "failed"} \subseteq ExportStates
      BY DEF ExportStates, Active
    <3>3. CASE export[t].status # "running"
      <4>1. new = export[t]
        BY <3>3 DEF EndedExport
      <4> HIDE DEF new
      <4> QED
        BY <3>1, <3>3, <4>1
    <3>4. CASE export[t].status = "running" /\ well
      BY <3>1, <3>2, <3>4 DEF EndedExport, ExportRows
    <3>5. CASE export[t].status = "running" /\ ~well
      <4>1. new = [export[t] EXCEPT !.attempts = @ + 1,
                     !.status = IF export[t].attempts + 1 < ExportAttempts THEN "pending" ELSE "failed"]
        BY <3>5 DEF EndedExport
      <4> DEFINE n == export[t].attempts + 1
                 st == IF n < ExportAttempts THEN "pending" ELSE "failed"
      <4>2. /\ n \in 0 .. ExportAttempts /\ st \in ExportStates
            /\ (st = "pending" /\ n < ExportAttempts) \/ st = "failed"
        BY <3>1, <3>2, <3>5
      <4>3. new = [export[t] EXCEPT !.attempts = n, !.status = st]
        BY <4>1
      <4> HIDE DEF n, st, new
      <4>4. /\ new \in ExportRows /\ new.past = export[t].past /\ new.result = export[t].result
            /\ new.status = st /\ new.attempts = n
        BY <3>1, <4>2, <4>3 DEF ExportRows
      <4> QED
        BY <3>5, <4>2, <4>4
    <3> QED
      BY <3>3, <3>4, <3>5
  <2> HIDE DEF new
  <2>2. /\ \A w \in Exports \ {t} : export'[w] = export[w]
        /\ export'[t] = new
    BY <1>t, <2>0
  <2>3. /\ exportRun'[r].at = "idle" /\ exportRun'[r].of = 0
        /\ \A q \in ExportRuns \ {r} : exportRun'[q] = exportRun[q]
        /\ exportRun[r].at \in {"reported", "failing"} /\ t \in Exports /\ artifact' = artifact
    BY <1>t, <2>0 DEF IdleExport
  <2>m. mishaps' \in Nat /\ (mishaps' = 0 => mishaps = 0)
    BY <2>0, <1>i DEF Attempted
  <2>t. ExportsTypeOK'
    <3>1. IdleExport \in RunRows
      BY DEF IdleExport, RunRows
    <3> QED
      BY <1>t, <1>g, <2>0, <2>n, <3>1
  <2>va. Attempted'
    BY <1>i, <1>p, <1>z, <2>2, <2>3, <2>m, <2>n DEF Attempted, Shared
  <2>vb. OneRunUnlessShared'
    BY <1>i, <1>p, <1>z, <2>2, <2>3, <2>m, <2>n DEF OneRunUnlessShared, Shared
  <2>vc. EndedHasNoRun'
    BY <1>i, <1>p, <1>z, <2>2, <2>3, <2>m, <2>n DEF EndedHasNoRun, OneRunUnlessShared, Shared
  <2>vd. FinishedIsWhole'
    BY <1>i, <1>p, <1>z, <2>2, <2>3, <2>m, <2>n DEF FinishedIsWhole, EndedHasNoRun,
           OneRunUnlessShared, Shared
  <2>ve. PartialIsAtWork'
    BY <1>i, <1>p, <1>z, <2>2, <2>3, <2>m, <2>n DEF PartialIsAtWork, Shared
  <2>vf. ReportedIsNamed'
    BY <1>i, <1>p, <1>z, <2>2, <2>3, <2>m, <2>n DEF ReportedIsNamed, Shared
  <2> QED
    BY <2>t, <2>va, <2>vb, <2>vc, <2>vd, <2>ve, <2>vf DEF ExportsInv
<1>10. ASSUME ExportCrash
       PROVE  ExportsInv'
  <2>1. ASSUME NEW w \in Exports
        PROVE  /\ export'[w] \in ExportRows
               /\ export'[w].status = IF export[w].status = "running" THEN "pending" ELSE export[w].status
               /\ export'[w].past = IF export[w].past = "alone" /\ RunsOf(w) # {} THEN "cut"
                                    ELSE export[w].past
               /\ export'[w].attempts = export[w].attempts /\ export'[w].result = export[w].result
    <3> DEFINE st == IF export[w].status = "running" THEN "pending" ELSE export[w].status
               ps == IF export[w].past = "alone" /\ RunsOf(w) # {} THEN "cut" ELSE export[w].past
    <3>1. export'[w] = [export[w] EXCEPT !.status = st, !.past = ps]
      BY <1>10 DEF ExportCrash
    <3>2. export[w] \in ExportRows /\ st \in ExportStates /\ ps \in {"alone", "cut", "shared"}
      BY <1>t, <1>p DEF ExportStates, Active
    <3> HIDE DEF st, ps
    <3>3. LET new == [export[w] EXCEPT !.status = st, !.past = ps]
          IN  /\ new \in ExportRows /\ new.status = st /\ new.past = ps
              /\ new.attempts = export[w].attempts /\ new.result = export[w].result
      BY <3>2 DEF ExportRows
    <3>4. /\ export'[w] \in ExportRows /\ export'[w].status = st /\ export'[w].past = ps
          /\ export'[w].attempts = export[w].attempts /\ export'[w].result = export[w].result
      BY <3>1, <3>3
    <3> QED
      BY <3>4 DEF st, ps
  <2>2. \A w \in Exports :
          /\ export'[w].status = IF export[w].status = "running" THEN "pending" ELSE export[w].status
          /\ export'[w].past = "shared" <=> export[w].past = "shared"
          /\ export'[w].past = "alone" =>
               export[w].past = "alone" /\ \A q \in ExportRuns : exportRun[q].of # w
          /\ export'[w].attempts = export[w].attempts /\ export'[w].result = export[w].result
    BY <2>1, <1>p DEF RunsOf
  <2>3. /\ \A q \in ExportRuns : exportRun'[q].of = 0 /\ exportRun'[q].at = "idle"
        /\ artifact' = artifact
    BY <1>10 DEF ExportCrash, IdleExport
  <2>m. mishaps' \in Nat /\ mishaps' # 0
    <3>1. mishaps \in Nat /\ mishaps' = mishaps + 1
      BY <1>10, <1>i DEF ExportCrash, Mishap, Attempted
    <3> QED
      BY ONLY <3>1
  <2>t. ExportsTypeOK'
    <3>1. IdleExport \in RunRows
      BY DEF IdleExport, RunRows
    <3>2. exportRun' \in [ExportRuns -> RunRows]
      BY <1>10, <3>1 DEF ExportCrash
    <3>3. export' \in [Exports -> ExportRows]
      BY <1>10, <2>1 DEF ExportCrash
    <3> QED
      BY <3>2, <3>3, <1>t, <1>g, <1>10 DEF ExportCrash
  <2>va. Attempted'
    BY <1>i, <1>p, <1>z, <2>2, <2>3, <2>m DEF Attempted, Shared
  <2>vb. OneRunUnlessShared'
    BY <1>i, <1>p, <1>z, <2>2, <2>3, <2>m DEF OneRunUnlessShared, Shared
  <2>vc. EndedHasNoRun'
    BY <1>i, <1>p, <1>z, <2>2, <2>3, <2>m DEF EndedHasNoRun, OneRunUnlessShared, Shared
  <2>vd. FinishedIsWhole'
    BY <1>i, <1>p, <1>z, <2>2, <2>3, <2>m DEF FinishedIsWhole, EndedHasNoRun, OneRunUnlessShared,
           Shared
  <2>ve. PartialIsAtWork'
    BY <1>i, <1>p, <1>z, <2>2, <2>3, <2>m DEF PartialIsAtWork, Shared
  <2>vf. ReportedIsNamed'
    BY <1>i, <1>p, <1>z, <2>2, <2>3, <2>m DEF ReportedIsNamed, Shared
  <2> QED
    BY <2>t, <2>va, <2>vb, <2>vc, <2>vd, <2>ve, <2>vf DEF ExportsInv
<1>11. CASE UNCHANGED exportVars
  BY <1>11 DEF exportVars, ExportsInv, ExportsTypeOK, Attempted, OneRunUnlessShared, EndedHasNoRun,
     FinishedIsWhole, PartialIsAtWork, ReportedIsNamed, Shared
<1> QED
  BY <1>1, <1>2, <1>3, <1>4, <1>5, <1>6, <1>7, <1>8, <1>9, <1>10, <1>11 DEF ExportsNext

\* An export that is delivered is whole, named, and leaves nothing when it fails
\* (media_export.go).
THEOREM ExportsSafeAlways == ExportsSpec => []ExportsSafe
<1>1. ExportsSpec => []ExportsInv
  BY ExportsInitInv, ExportsStep, PTL DEF ExportsSpec
<1> QED
  BY <1>1, ExportsHold, PTL

-----------------------------------------------------------------------------
(***************************************************************************)
(* Covers (covers.go, cover_repository.go). A refresh that nothing has met *)
(* is alone at it: what is no longer left to do is done.                   *)
(***************************************************************************)

\* What the tasks and the cover are made of.
CoverStatuses == {"none", "pending", "running", "succeeded", "failed", "canceled"}
CoverSteps == {"idle", "look", "make", "register", "save", "list", "prune", "report", "fail"}
CoverRunRows ==
  [status : CoverStatuses, attempts : 0 .. CoverAttempts - 1, version : 0 .. MaxCoverVersion,
   todo : SUBSET Prints, at : CoverSteps]
CoverChoices == [print : Prints \cup {NoPrint}, manual : BOOLEAN, asset : BOOLEAN]

\* A task at work has a state of the file that was there, and is running or was canceled.
RunsAreOfStates ==
  \A t \in CoverTasks : coverRun[t].at # "idle" =>
    coverRun[t].version \in 1 .. mediaVersion /\ coverRun[t].status \in {"running", "canceled"}

\* While it makes covers, what is left is of that state and not empty.
LeftIsOfState ==
  \A t \in CoverTasks : coverRun[t].at \in {"look", "make", "register"} =>
    coverRun[t].todo # {} /\ coverRun[t].todo \subseteq PrintsOf(coverRun[t].version)

\* Only a refresh deletes what is no longer a candidate.
OnlyRefreshPrunes == coverRun["generate"].at \notin {"list", "prune"}

\* The cover has its asset just when it is a candidate.
AssetIffCandidate == cover.asset <=> cover.print \in candidate

\* A refresh nothing has met works alone.
PeaceIsAlone == inPeace => coverSweep = {} /\ coverRun["generate"].at = "idle"

\* How far it is: what is not left to do is done.
RefreshIsOnCourse ==
  inPeace =>
    LET r == coverRun["refresh"]
        fresh == PrintsOf(r.version) IN
    /\ r.at \in {"look", "make", "register", "save", "list", "prune", "report"} =>
         \A p \in fresh : p \in r.todo \/ (p \in coverFile /\ p \in coverAsset)
    /\ r.at \in {"save", "list", "prune", "report"} => \A p \in fresh : p \notin r.todo
    /\ r.at \in {"list", "prune", "report"} => candidate = fresh
    /\ r.at = "prune" => \A p \in coverAsset : p \in fresh \/ p \in r.todo
    /\ r.at = "report" => \A p \in coverAsset : p \in fresh

\* The inductive invariant of covers.
CoversInv ==
  /\ CoversTypeOK /\ RunsAreOfStates /\ LeftIsOfState /\ OnlyRefreshPrunes /\ AssetIffCandidate
  /\ ManualStays /\ PeaceIsAlone /\ RefreshIsOnCourse /\ RefreshDelivers

\* What the run checks follows from it.
LEMMA CoversHold == CoversInv => CoversSafe
  BY DEF CoversInv, CoversSafe, AssetIffCandidate, OfferedIsCandidate

\* It holds at first.
LEMMA CoversInitInv == CoversInit /\ mishaps = 0 => CoversInv
<1> SUFFICES ASSUME CoversInit, mishaps = 0 PROVE CoversInv
  OBVIOUS
<1>1. CoversTypeOK
  <2>1. /\ mediaVersion \in 1 .. MaxCoverVersion /\ coverRequests \in 0 .. MaxCoverRequests
        /\ mishaps \in 0 .. MaxMishaps
    BY CoversAssumption, FaultsAssumption DEF CoversInit
  <2>2. NoCoverRun \in CoverRunRows
    BY CoversAssumption DEF NoCoverRun, CoverRunRows, CoverStatuses, CoverSteps
  <2>3. coverRun \in [CoverTasks -> CoverRunRows]
    BY <2>2 DEF CoversInit
  <2>4. cover \in CoverChoices /\ picked \in Prints \cup {NoPrint} /\ inPeace \in BOOLEAN
    BY DEF CoversInit, NoCover, CoverChoices
  <2> QED
    BY <2>1, <2>3, <2>4 DEF CoversInit, CoversTypeOK, CoverRunRows, CoverStatuses, CoverSteps,
           CoverChoices
<1>2. coverRun["generate"].at = "idle" /\ \A t \in CoverTasks : coverRun[t].at = "idle"
  BY DEF CoversInit, NoCoverRun, CoverTasks
<1>3. RunsAreOfStates /\ LeftIsOfState /\ OnlyRefreshPrunes
  BY <1>2 DEF RunsAreOfStates, LeftIsOfState, OnlyRefreshPrunes
<1>4. AssetIffCandidate /\ ManualStays
  BY DEF CoversInit, NoCover, AssetIffCandidate, ManualStays
<1>5. PeaceIsAlone /\ RefreshIsOnCourse /\ RefreshDelivers
  BY DEF CoversInit, PeaceIsAlone, RefreshIsOnCourse, RefreshDelivers
<1> QED
  BY <1>1, <1>3, <1>4, <1>5 DEF CoversInv

\* Every step of the tasks, of the choice and of the clean keeps it.
LEMMA CoversStep == CoversInv /\ [CoversNext]_coverVars => CoversInv'
<1> SUFFICES ASSUME CoversInv, [CoversNext]_coverVars PROVE CoversInv'
  OBVIOUS
<1>t. /\ mediaVersion \in 1 .. MaxCoverVersion /\ coverFile \subseteq Prints
      /\ coverAsset \subseteq Prints
      /\ candidate \subseteq Prints /\ coverSweep \subseteq Prints /\ cover \in CoverChoices
      /\ coverRun \in [CoverTasks -> CoverRunRows] /\ picked \in Prints \cup {NoPrint}
      /\ inPeace \in BOOLEAN /\ coverRequests \in 0 .. MaxCoverRequests
      /\ mishaps \in 0 .. MaxMishaps
  BY DEF CoversInv, CoversTypeOK, CoverRunRows, CoverStatuses, CoverSteps, CoverChoices
<1>i. /\ RunsAreOfStates /\ LeftIsOfState /\ OnlyRefreshPrunes /\ AssetIffCandidate /\ ManualStays
      /\ PeaceIsAlone /\ RefreshIsOnCourse /\ RefreshDelivers
  BY DEF CoversInv
<1>g. ASSUME mediaVersion' \in 1 .. MaxCoverVersion, coverFile' \subseteq Prints, coverAsset' \subseteq Prints,
             candidate' \subseteq Prints, coverSweep' \subseteq Prints, cover' \in CoverChoices,
             coverRun' \in [CoverTasks -> CoverRunRows], picked' \in Prints \cup {NoPrint},
             inPeace' \in BOOLEAN, coverRequests' \in 0 .. MaxCoverRequests, Smooth \/ Mishap
      PROVE  CoversTypeOK'
  <2>1. mishaps' \in 0 .. MaxMishaps
    BY <1>t, <1>g, FaultsAssumption DEF Smooth, Mishap
  <2> QED
    BY <2>1, <1>g DEF CoversTypeOK, CoverRunRows, CoverStatuses, CoverSteps, CoverChoices
<1>r. \A t \in CoverTasks : /\ coverRun[t].status \in CoverStatuses
                            /\ coverRun[t].attempts \in 0 .. CoverAttempts - 1
                            /\ coverRun[t].version \in 0 .. MaxCoverVersion
                            /\ coverRun[t].todo \subseteq Prints /\ coverRun[t].at \in CoverSteps
                            /\ coverRun[t] \in CoverRunRows
  BY <1>t DEF CoverRunRows
<1>n. ASSUME NEW t \in CoverTasks, NEW new \in CoverRunRows, coverRun' = [coverRun EXCEPT ![t] = new]
      PROVE  /\ coverRun' \in [CoverTasks -> CoverRunRows] /\ coverRun'[t] = new
             /\ \A u \in CoverTasks \ {t} : coverRun'[u] = coverRun[u]
  BY <1>t, <1>n
<1>w. ASSUME NEW t \in CoverTasks, NEW at \in CoverSteps, CoverAt(t, at)
      PROVE  /\ coverRun' \in [CoverTasks -> CoverRunRows]
             /\ coverRun'[t].at = at /\ coverRun'[t].status = coverRun[t].status
             /\ coverRun'[t].version = coverRun[t].version /\ coverRun'[t].todo = coverRun[t].todo
             /\ \A u \in CoverTasks \ {t} : coverRun'[u] = coverRun[u]
  BY <1>t, <1>w DEF CoverAt, CoverRunRows
<1>e. ASSUME NEW t \in CoverTasks, NEW s \in CoverStatuses, CoverEnds(t, s)
      PROVE  /\ coverRun' \in [CoverTasks -> CoverRunRows]
             /\ coverRun'[t].at = "idle" /\ coverRun'[t].status = s
             /\ \A u \in CoverTasks \ {t} : coverRun'[u] = coverRun[u]
  <2>1. /\ [NoCoverRun EXCEPT !.status = s] \in CoverRunRows
        /\ [NoCoverRun EXCEPT !.status = s].at = "idle"
        /\ [NoCoverRun EXCEPT !.status = s].status = s
    BY <1>e, CoversAssumption DEF NoCoverRun, CoverRunRows, CoverSteps
  <2> QED
    BY <1>e, <1>n, <2>1 DEF CoverEnds
<1>c. "generate" \in CoverTasks /\ "refresh" \in CoverTasks /\ CoverTasks = {"generate", "refresh"}
  BY DEF CoverTasks
<1>s. {"pending", "running", "succeeded", "failed", "canceled"} \subseteq CoverStatuses
  BY DEF CoverStatuses
<1>a. {"idle", "look", "make", "register", "save", "list", "prune", "report", "fail"} = CoverSteps
  BY DEF CoverSteps
<1>x. ASSUME NEW t \in CoverTasks, coverRun[t].todo # {}
      PROVE  NextCover(t) \in coverRun[t].todo
  <2> DEFINE todo == coverRun[t].todo
             marks == {p[2] : p \in todo}
  <2>1. todo \subseteq Prints /\ todo # {}
    BY <1>r, <1>x
  <2>2. marks \in SUBSET Nat /\ marks # {}
    BY <2>1, CoversAssumption DEF Prints
  <2>3. PICK m \in marks : \A n \in marks : m <= n
    BY <2>2, LeastNatural
  <2>4. \E p \in todo : \A q \in todo : p[2] <= q[2]
    BY <2>3
  <2> QED
    BY <2>4 DEF NextCover
<1>f. \A v \in 1 .. MaxCoverVersion : PrintsOf(v) \subseteq Prints /\ PrintsOf(v) # {}
  <2> SUFFICES ASSUME NEW v \in 1 .. MaxCoverVersion PROVE PrintsOf(v) \subseteq Prints /\ PrintsOf(v) # {}
    OBVIOUS
  <2>1. PICK q \in Positions : TRUE
    BY CoversAssumption
  <2>2. <<v, q>> \in PrintsOf(v)
    BY <2>1 DEF PrintsOf
  <2>3. PrintsOf(v) \subseteq Prints
    BY DEF PrintsOf, Prints
  <2> QED
    BY <2>2, <2>3
<1>1. ASSUME NEW p \in Prints, SelectCover(p) PROVE CoversInv'
  <2>1. /\ p \in candidate /\ cover' = [print |-> p, manual |-> TRUE, asset |-> TRUE] /\ picked' = p
        /\ mediaVersion' = mediaVersion /\ coverFile' = coverFile /\ coverAsset' = coverAsset
        /\ candidate' = candidate /\ coverRun' = coverRun /\ coverSweep' = coverSweep
        /\ inPeace' = inPeace
        /\ coverRequests' = coverRequests /\ Smooth
    BY <1>1 DEF SelectCover
  <2>2. cover' \in CoverChoices /\ cover'.print = p /\ cover'.manual /\ cover'.asset
    BY <2>1 DEF CoverChoices
  <2>t. CoversTypeOK'
    BY <1>t, <1>g, <2>1, <2>2
  <2>va. RunsAreOfStates'
    BY <1>i, <2>1, <2>2 DEF RunsAreOfStates, CoverTasks
  <2>vb. LeftIsOfState'
    BY <1>i, <2>1, <2>2 DEF LeftIsOfState, CoverTasks
  <2>vc. OnlyRefreshPrunes'
    BY <1>i, <2>1, <2>2 DEF OnlyRefreshPrunes, CoverTasks
  <2>vd. AssetIffCandidate'
    BY <1>i, <2>1, <2>2 DEF AssetIffCandidate, CoverTasks
  <2>ve. ManualStays'
    BY <1>i, <2>1, <2>2 DEF ManualStays, CoverTasks
  <2>vf. PeaceIsAlone'
    BY <1>i, <2>1, <2>2 DEF PeaceIsAlone, CoverTasks
  <2>vg. RefreshIsOnCourse'
    BY <1>i, <2>1, <2>2 DEF RefreshIsOnCourse, CoverTasks
  <2>vh. RefreshDelivers'
    BY <1>i, <2>1, <2>2 DEF RefreshDelivers, CoverTasks
  <2> QED
    BY <2>t, <2>va, <2>vb, <2>vc, <2>vd, <2>ve, <2>vf, <2>vg, <2>vh DEF CoversInv
<1>2. ASSUME NEW t \in CoverTasks, GenerateCovers(t) PROVE CoversInv'
  <2>1. /\ coverRun[t].at = "idle" /\ coverRun[t].status \notin {"pending", "running"}
        /\ coverRequests' \in 0 .. MaxCoverRequests /\ CoverEnds(t, "pending")
        /\ mediaVersion' = mediaVersion /\ coverFile' = coverFile /\ coverAsset' = coverAsset
        /\ candidate' = candidate /\ cover' = cover /\ coverSweep' = coverSweep
        /\ inPeace' = inPeace
        /\ picked' = picked /\ Smooth
    BY <1>2, <1>t, CoversAssumption DEF GenerateCovers, CoverRows
  <2>2. /\ coverRun' \in [CoverTasks -> CoverRunRows]
        /\ coverRun'[t].at = "idle" /\ coverRun'[t].status = "pending"
        /\ \A u \in CoverTasks \ {t} : coverRun'[u] = coverRun[u]
    BY <1>e, <1>s, <2>1
  <2>t. CoversTypeOK'
    BY <1>t, <1>g, <2>1, <2>2
  <2>va. RunsAreOfStates'
    BY <1>i, <2>1, <2>2 DEF RunsAreOfStates, CoverTasks
  <2>vb. LeftIsOfState'
    BY <1>i, <2>1, <2>2 DEF LeftIsOfState, CoverTasks
  <2>vc. OnlyRefreshPrunes'
    BY <1>i, <2>1, <2>2 DEF OnlyRefreshPrunes, CoverTasks
  <2>vd. AssetIffCandidate'
    BY <1>i, <2>1, <2>2 DEF AssetIffCandidate, CoverTasks
  <2>ve. ManualStays'
    BY <1>i, <2>1, <2>2 DEF ManualStays, CoverTasks
  <2>vf. PeaceIsAlone'
    BY <1>i, <2>1, <2>2 DEF PeaceIsAlone, CoverTasks
  <2>vg. RefreshIsOnCourse'
    BY <1>i, <2>1, <2>2 DEF RefreshIsOnCourse, CoverTasks
  <2>vh. RefreshDelivers'
    BY <1>i, <2>1, <2>2 DEF RefreshDelivers, CoverTasks
  <2> QED
    BY <2>t, <2>va, <2>vb, <2>vc, <2>vd, <2>ve, <2>vf, <2>vg, <2>vh DEF CoversInv
<1>3. ASSUME NEW t \in CoverTasks, CancelCovers(t) PROVE CoversInv'
  <2>1. /\ coverRun[t].status \in {"pending", "running"}
        /\ coverRun' = [coverRun EXCEPT ![t].status = "canceled"] /\ coverRequests' = coverRequests
        /\ mediaVersion' = mediaVersion /\ coverFile' = coverFile /\ coverAsset' = coverAsset
        /\ candidate' = candidate /\ cover' = cover /\ coverSweep' = coverSweep
        /\ inPeace' = inPeace
        /\ picked' = picked /\ Smooth
    BY <1>3 DEF CancelCovers, CoverRows
  <2>2. /\ coverRun' \in [CoverTasks -> CoverRunRows]
        /\ coverRun'[t].at = coverRun[t].at /\ coverRun'[t].status = "canceled"
        /\ coverRun'[t].version = coverRun[t].version /\ coverRun'[t].todo = coverRun[t].todo
        /\ \A u \in CoverTasks \ {t} : coverRun'[u] = coverRun[u]
    BY <1>t, <2>1 DEF CoverRunRows, CoverStatuses
  <2>t. CoversTypeOK'
    BY <1>t, <1>g, <2>1, <2>2
  <2>va. RunsAreOfStates'
    BY <1>i, <2>1, <2>2 DEF RunsAreOfStates, CoverTasks
  <2>vb. LeftIsOfState'
    BY <1>i, <2>1, <2>2 DEF LeftIsOfState, CoverTasks
  <2>vc. OnlyRefreshPrunes'
    BY <1>i, <2>1, <2>2 DEF OnlyRefreshPrunes, CoverTasks
  <2>vd. AssetIffCandidate'
    BY <1>i, <2>1, <2>2 DEF AssetIffCandidate, CoverTasks
  <2>ve. ManualStays'
    BY <1>i, <2>1, <2>2 DEF ManualStays, CoverTasks
  <2>vf. PeaceIsAlone'
    BY <1>i, <2>1, <2>2 DEF PeaceIsAlone, CoverTasks
  <2>vg. RefreshIsOnCourse'
    BY <1>i, <2>1, <2>2 DEF RefreshIsOnCourse, CoverTasks
  <2>vh. RefreshDelivers'
    BY <1>i, <2>1, <2>2 DEF RefreshDelivers, CoverTasks
  <2> QED
    BY <2>t, <2>va, <2>vb, <2>vc, <2>vd, <2>ve, <2>vf, <2>vg, <2>vh DEF CoversInv
<1>4. ASSUME NEW t \in CoverTasks, TakeCovers(t) PROVE CoversInv'
  <2> DEFINE new == [coverRun[t] EXCEPT !.status = "running", !.at = "look", !.version = mediaVersion,
                                        !.todo = PrintsOf(mediaVersion)]
  <2>1. /\ coverRun[t].status = "pending" /\ coverRun[t].at = "idle"
        /\ coverRun' = [coverRun EXCEPT ![t] = new]
        /\ inPeace' = (t = "refresh" /\ Alone(t) /\ coverSweep = {})
        /\ mediaVersion' = mediaVersion /\ coverFile' = coverFile /\ coverAsset' = coverAsset
        /\ candidate' = candidate /\ cover' = cover /\ coverSweep' = coverSweep
        /\ picked' = picked /\ coverRequests' = coverRequests /\ Smooth
    BY <1>4, <1>t DEF TakeCovers
  <2>2. /\ new \in CoverRunRows /\ new.status = "running" /\ new.at = "look"
        /\ new.version = mediaVersion
        /\ new.todo = PrintsOf(mediaVersion) /\ new.todo # {}
    <3>1. "running" \in CoverStatuses /\ "look" \in CoverSteps /\ coverRun[t] \in CoverRunRows
          /\ mediaVersion \in 0 .. MaxCoverVersion /\ PrintsOf(mediaVersion) \in SUBSET Prints
          /\ PrintsOf(mediaVersion) # {}
      BY <1>t, <1>s, <1>a, <1>r, <1>f
    <3> QED
      BY <3>1 DEF CoverRunRows
  <2> HIDE DEF new
  <2>3. /\ coverRun' \in [CoverTasks -> CoverRunRows] /\ coverRun'[t] = new
        /\ \A u \in CoverTasks \ {t} : coverRun'[u] = coverRun[u]
    BY <1>n, <2>1, <2>2
  <2>4. inPeace' => t = "refresh" /\ coverRun["generate"].at = "idle" /\ coverSweep = {}
    BY <2>1 DEF Alone, CoverTasks
  <2>5. inPeace' \in BOOLEAN
    BY <2>1
  <2>6. /\ coverRun'[t].status = "running" /\ coverRun'[t].at = "look"
        /\ coverRun'[t].version = mediaVersion
        /\ coverRun'[t].todo = PrintsOf(mediaVersion) /\ coverRun'[t].todo # {}
        /\ mediaVersion \in 1 .. mediaVersion /\ mediaVersion' = mediaVersion
        /\ coverFile' = coverFile /\ coverAsset' = coverAsset
        /\ candidate' = candidate /\ cover' = cover /\ coverSweep' = coverSweep /\ picked' = picked
    BY <1>t, <2>1, <2>2, <2>3
  <2>t. CoversTypeOK'
    BY <1>t, <1>g, <2>1, <2>3, <2>5
  <2>va. RunsAreOfStates'
    BY <1>i, <2>3, <2>4, <2>6 DEF RunsAreOfStates, CoverTasks
  <2>vb. LeftIsOfState'
    BY <1>i, <2>3, <2>4, <2>6 DEF LeftIsOfState, CoverTasks
  <2>vc. OnlyRefreshPrunes'
    BY <1>i, <2>3, <2>4, <2>6 DEF OnlyRefreshPrunes, CoverTasks
  <2>vd. AssetIffCandidate'
    BY <1>i, <2>3, <2>4, <2>6 DEF AssetIffCandidate, CoverTasks
  <2>ve. ManualStays'
    BY <1>i, <2>3, <2>4, <2>6 DEF ManualStays, CoverTasks
  <2>vf. PeaceIsAlone'
    BY <1>i, <2>3, <2>4, <2>6 DEF PeaceIsAlone, CoverTasks
  <2>vg. RefreshIsOnCourse'
    BY <1>i, <2>3, <2>4, <2>6 DEF RefreshIsOnCourse, CoverTasks
  <2>vh. RefreshDelivers'
    BY <1>i, <2>3, <2>4, <2>6 DEF RefreshDelivers, CoverTasks
  <2> QED
    BY <2>t, <2>va, <2>vb, <2>vc, <2>vd, <2>ve, <2>vf, <2>vg, <2>vh DEF CoversInv
<1>5. ASSUME NEW t \in CoverTasks, LookForCover(t) PROVE CoversInv'
  <2>1. /\ coverRun[t].at = "look"
        /\ mediaVersion' = mediaVersion /\ coverAsset' = coverAsset
        /\ candidate' = candidate /\ cover' = cover /\ coverSweep' = coverSweep
        /\ inPeace' = inPeace
        /\ picked' = picked /\ coverRequests' = coverRequests /\ Smooth
    BY <1>5 DEF LookForCover, CoverRows
  <2>2. NextCover(t) \in coverRun[t].todo
    BY <1>x, <1>i, <2>1 DEF LeftIsOfState
  <2>3. PICK p \in coverRun[t].todo, at \in {"make", "register"} :
          /\ CoverAt(t, at) /\ coverFile' \in {coverFile, coverFile \ {p}}
          /\ t # "refresh" => coverFile' = coverFile
    BY <1>5, <2>2 DEF LookForCover
  <2>4. /\ coverRun' \in [CoverTasks -> CoverRunRows]
        /\ coverRun'[t].at \in {"make", "register"} /\ coverRun'[t].status = coverRun[t].status
        /\ coverRun'[t].version = coverRun[t].version /\ coverRun'[t].todo = coverRun[t].todo
        /\ \A u \in CoverTasks \ {t} : coverRun'[u] = coverRun[u]
    BY <1>w, <1>a, <2>3
  <2>5. /\ coverFile' \subseteq coverFile /\ \A q \in coverFile : q \in coverRun[t].todo \/ q \in coverFile'
        /\ t # "refresh" => coverFile' = coverFile
    BY <2>3
  <2>t. CoversTypeOK'
    BY <1>t, <1>g, <2>1, <2>4, <2>5
  <2>va. RunsAreOfStates'
    BY <1>i, <2>1, <2>4, <2>5 DEF RunsAreOfStates, CoverTasks
  <2>vb. LeftIsOfState'
    BY <1>i, <2>1, <2>4, <2>5 DEF LeftIsOfState, CoverTasks
  <2>vc. OnlyRefreshPrunes'
    BY <1>i, <2>1, <2>4, <2>5 DEF OnlyRefreshPrunes, CoverTasks
  <2>vd. AssetIffCandidate'
    BY <1>i, <2>1, <2>4, <2>5 DEF AssetIffCandidate, CoverTasks
  <2>ve. ManualStays'
    BY <1>i, <2>1, <2>4, <2>5 DEF ManualStays, CoverTasks
  <2>vf. PeaceIsAlone'
    BY <1>i, <2>1, <2>4, <2>5 DEF PeaceIsAlone, CoverTasks
  <2>vg. RefreshIsOnCourse'
    BY <1>i, <2>1, <2>4, <2>5 DEF RefreshIsOnCourse, CoverTasks
  <2>vh. RefreshDelivers'
    BY <1>i, <2>1, <2>4, <2>5 DEF RefreshDelivers, RunsAreOfStates, PeaceIsAlone, CoverTasks
  <2> QED
    BY <2>t, <2>va, <2>vb, <2>vc, <2>vd, <2>ve, <2>vf, <2>vg, <2>vh DEF CoversInv
<1>6. ASSUME NEW t \in CoverTasks, MakeCover(t) PROVE CoversInv'
  <2>1. /\ coverRun[t].at = "make"
        /\ mediaVersion' = mediaVersion /\ coverAsset' = coverAsset
        /\ candidate' = candidate /\ cover' = cover /\ coverSweep' = coverSweep
        /\ inPeace' = inPeace
        /\ picked' = picked /\ coverRequests' = coverRequests
    BY <1>6 DEF MakeCover, CoverRows
  <2>2. NextCover(t) \in Prints
    BY <1>x, <1>i, <1>r, <2>1 DEF LeftIsOfState
  <2>3. PICK at \in {"register", "fail"} :
          /\ CoverAt(t, at) /\ coverFile' \in {coverFile, coverFile \cup {NextCover(t)}} /\ (Smooth \/ Mishap)
    BY <1>6 DEF MakeCover
  <2>4. /\ coverRun' \in [CoverTasks -> CoverRunRows]
        /\ coverRun'[t].at \in {"register", "fail"} /\ coverRun'[t].status = coverRun[t].status
        /\ coverRun'[t].version = coverRun[t].version /\ coverRun'[t].todo = coverRun[t].todo
        /\ \A u \in CoverTasks \ {t} : coverRun'[u] = coverRun[u]
    BY <1>w, <1>a, <2>3
  <2>5. coverFile \subseteq coverFile' /\ coverFile' \subseteq Prints
    BY <1>t, <2>2, <2>3
  <2>t. CoversTypeOK'
    BY <1>t, <1>g, <2>1, <2>3, <2>4, <2>5
  <2>va. RunsAreOfStates'
    BY <1>i, <2>1, <2>4, <2>5 DEF RunsAreOfStates, CoverTasks
  <2>vb. LeftIsOfState'
    BY <1>i, <2>1, <2>4, <2>5 DEF LeftIsOfState, CoverTasks
  <2>vc. OnlyRefreshPrunes'
    BY <1>i, <2>1, <2>4, <2>5 DEF OnlyRefreshPrunes, CoverTasks
  <2>vd. AssetIffCandidate'
    BY <1>i, <2>1, <2>4, <2>5 DEF AssetIffCandidate, CoverTasks
  <2>ve. ManualStays'
    BY <1>i, <2>1, <2>4, <2>5 DEF ManualStays, CoverTasks
  <2>vf. PeaceIsAlone'
    BY <1>i, <2>1, <2>4, <2>5 DEF PeaceIsAlone, CoverTasks
  <2>vg. RefreshIsOnCourse'
    BY <1>i, <2>1, <2>4, <2>5 DEF RefreshIsOnCourse, CoverTasks
  <2>vh. RefreshDelivers'
    BY <1>i, <2>1, <2>4, <2>5 DEF RefreshDelivers, CoverTasks
  <2> QED
    BY <2>t, <2>va, <2>vb, <2>vc, <2>vd, <2>ve, <2>vf, <2>vg, <2>vh DEF CoversInv
<1>7. ASSUME NEW t \in CoverTasks, RegisterCover(t) PROVE CoversInv'
  <2> DEFINE left == coverRun[t].todo \ {NextCover(t)}
  <2>1. /\ coverRun[t].at = "register"
        /\ mediaVersion' = mediaVersion /\ coverFile' = coverFile
        /\ candidate' = candidate /\ cover' = cover /\ coverSweep' = coverSweep
        /\ inPeace' = inPeace
        /\ picked' = picked /\ coverRequests' = coverRequests /\ Smooth
    BY <1>7 DEF RegisterCover, CoverRows
  <2>2. NextCover(t) \in coverRun[t].todo /\ NextCover(t) \in Prints
    BY <1>x, <1>i, <1>r, <2>1 DEF LeftIsOfState
  <2>3. coverAsset' = IF NextCover(t) \in coverFile THEN coverAsset \cup {NextCover(t)} ELSE coverAsset
    BY <1>7 DEF RegisterCover
  <2>4. \/ CoverAt(t, "fail")
        \/ /\ NextCover(t) \in coverFile
           /\ coverRun' = [coverRun EXCEPT ![t].todo = left, ![t].at = IF left = {} THEN "save" ELSE "look"]
    BY <1>7 DEF RegisterCover
  <2>5. /\ coverAsset \subseteq coverAsset' /\ coverAsset' \subseteq Prints
        /\ \A q \in coverAsset' : q \in coverAsset \/ q \in coverRun[t].todo
    BY <1>t, <2>2, <2>3
  <2>6. CASE CoverAt(t, "fail")
    <3>1. /\ coverRun' \in [CoverTasks -> CoverRunRows]
          /\ coverRun'[t].at = "fail" /\ coverRun'[t].status = coverRun[t].status
          /\ coverRun'[t].version = coverRun[t].version /\ coverRun'[t].todo = coverRun[t].todo
          /\ \A u \in CoverTasks \ {t} : coverRun'[u] = coverRun[u]
      BY <1>w, <1>a, <2>6
    <3>t. CoversTypeOK'
      BY <1>t, <1>g, <2>1, <2>5, <3>1
    <3> QED
      BY <1>i, <2>1, <2>5, <3>1, <3>t DEF CoversInv, RunsAreOfStates, LeftIsOfState,
             OnlyRefreshPrunes, AssetIffCandidate, ManualStays, PeaceIsAlone, RefreshIsOnCourse,
             RefreshDelivers, CoverTasks
  <2>7. CASE /\ NextCover(t) \in coverFile
             /\ coverRun' = [coverRun EXCEPT ![t].todo = left, ![t].at = IF left = {} THEN "save" ELSE "look"]
    <3> DEFINE at == IF left = {} THEN "save" ELSE "look"
               new == [coverRun[t] EXCEPT !.todo = left, !.at = at]
    <3>0. left \in SUBSET Prints /\ at \in CoverSteps /\ (at = "save" <=> left = {}) /\ at \in {"look", "save"}
      BY <1>r, <1>a
    <3>1. coverRun' = [coverRun EXCEPT ![t] = new]
      BY <2>7, <1>t DEF CoverRunRows
    <3>2. /\ new \in CoverRunRows /\ new.todo = left /\ new.at = at
          /\ new.status = coverRun[t].status
          /\ new.version = coverRun[t].version
      BY <1>r, <3>0 DEF CoverRunRows
    <3> HIDE DEF new, at, left
    <3>3. /\ coverRun' \in [CoverTasks -> CoverRunRows] /\ coverRun'[t] = new
          /\ \A u \in CoverTasks \ {t} : coverRun'[u] = coverRun[u]
      BY <1>n, <3>1, <3>2
    <3>4. /\ coverRun'[t].todo = left /\ coverRun'[t].at \in {"look", "save"}
          /\ (coverRun'[t].at = "save" <=> left = {})
          /\ coverRun'[t].status = coverRun[t].status /\ coverRun'[t].version = coverRun[t].version
      BY <3>0, <3>2, <3>3
    <3>5. /\ left \subseteq coverRun[t].todo
          /\ \A q \in coverRun[t].todo : q \in left \/ (q \in coverFile /\ q \in coverAsset')
      BY <2>7, <2>3 DEF left
    <3>t. CoversTypeOK'
      BY <1>t, <1>g, <2>1, <2>5, <3>3
    <3>a. RunsAreOfStates' /\ LeftIsOfState' /\ OnlyRefreshPrunes'
      BY <1>i, <2>1, <3>3, <3>4, <3>5 DEF RunsAreOfStates, LeftIsOfState, OnlyRefreshPrunes,
             CoverTasks
    <3>b. AssetIffCandidate' /\ ManualStays' /\ PeaceIsAlone'
      BY <1>i, <2>1, <3>3, <3>4, <3>5 DEF AssetIffCandidate, ManualStays, PeaceIsAlone, CoverTasks
    <3>c. RefreshIsOnCourse'
      BY <1>i, <2>1, <2>5, <3>3, <3>4, <3>5 DEF PeaceIsAlone, RefreshIsOnCourse, CoverTasks
    <3>d. RefreshDelivers'
      BY <1>i, <2>1, <2>5, <3>3, <3>4, <3>5 DEF PeaceIsAlone, RunsAreOfStates, RefreshDelivers,
             CoverTasks
    <3> QED
      BY <3>t, <3>a, <3>b, <3>c, <3>d DEF CoversInv
  <2> QED
    BY <2>4, <2>6, <2>7
<1>8. ASSUME NEW t \in CoverTasks, SaveGenerated(t) PROVE CoversInv'
  <2> DEFINE anew == PrintsOf(coverRun[t].version)
  <2>1. /\ coverRun[t].at = "save"
        /\ mediaVersion' = mediaVersion /\ coverFile' = coverFile /\ coverAsset' = coverAsset
        /\ coverSweep' = coverSweep /\ inPeace' = inPeace
        /\ picked' = picked /\ coverRequests' = coverRequests /\ (Smooth \/ Mishap)
    BY <1>8 DEF SaveGenerated
  <2>2. anew \subseteq Prints /\ anew # {} /\ coverRun[t].version \in 1 .. mediaVersion
    <3>1. coverRun[t].version \in 1 .. mediaVersion
      BY <1>i, <2>1 DEF RunsAreOfStates
    <3> QED
      <4>1. coverRun[t].version \in 1 .. MaxCoverVersion
        <5>1. mediaVersion \in 1 .. MaxCoverVersion /\ MaxCoverVersion \in Nat
          BY <1>t, CoversAssumption
        <5> QED
          BY ONLY <3>1, <5>1
      <4> QED
        BY <3>1, <4>1, <1>f
  <2>3. CASE CoverAt(t, "fail") /\ candidate' = candidate /\ cover' = cover
    <3>1. /\ coverRun' \in [CoverTasks -> CoverRunRows]
          /\ coverRun'[t].at = "fail" /\ coverRun'[t].status = coverRun[t].status
          /\ coverRun'[t].version = coverRun[t].version /\ coverRun'[t].todo = coverRun[t].todo
          /\ \A u \in CoverTasks \ {t} : coverRun'[u] = coverRun[u]
      BY <1>w, <1>a, <2>3
    <3>t. CoversTypeOK'
      BY <1>t, <1>g, <2>1, <2>3, <3>1
    <3> QED
      BY <1>i, <2>1, <2>3, <3>1, <3>t DEF CoversInv, RunsAreOfStates, LeftIsOfState,
             OnlyRefreshPrunes, AssetIffCandidate, ManualStays, PeaceIsAlone, RefreshIsOnCourse,
             RefreshDelivers, CoverTasks
  <2>4. CASE /\ candidate' = IF t = "refresh" THEN anew ELSE candidate \cup anew
             /\ ResolveCoverSelection(candidate')
             /\ CoverAt(t, IF t = "refresh" THEN "list" ELSE "report")
    <3>1. candidate' \subseteq Prints /\ (t = "refresh" => candidate' = anew)
      BY <1>t, <2>2, <2>4
    <3>2. /\ cover' \in CoverChoices /\ (cover'.asset <=> cover'.print \in candidate')
          /\ cover.manual => cover'.manual /\ cover'.print = cover.print
      <4>1. CASE cover.manual
        <5>1. cover' = [cover EXCEPT !.asset = cover.print \in candidate']
          BY <2>4, <4>1 DEF ResolveCoverSelection, RestoredCover
        <5>2. (cover.print \in candidate') \in BOOLEAN
          OBVIOUS
        <5> QED
          BY <1>t, <4>1, <5>1, <5>2 DEF CoverChoices
      <4>2. CASE ~cover.manual
        <5>1. PICK p \in candidate' : cover' = [print |-> p, manual |-> FALSE, asset |-> TRUE]
          BY <2>4, <4>2 DEF ResolveCoverSelection, Best
        <5> QED
          BY <3>1, <4>2, <5>1 DEF CoverChoices
      <4> QED
        BY <4>1, <4>2
    <3>3. /\ coverRun' \in [CoverTasks -> CoverRunRows]
          /\ (t = "refresh" => coverRun'[t].at = "list") /\ (t # "refresh" => coverRun'[t].at = "report")
          /\ coverRun'[t].at \in {"list", "report"}
          /\ coverRun'[t].status = coverRun[t].status
          /\ coverRun'[t].version = coverRun[t].version /\ coverRun'[t].todo = coverRun[t].todo
          /\ \A u \in CoverTasks \ {t} : coverRun'[u] = coverRun[u]
      BY <1>w, <1>a, <2>4
    <3>4. t = "refresh" => candidate' = PrintsOf(coverRun[t].version)
      BY <3>1
    <3> HIDE DEF anew
    <3>t. CoversTypeOK'
      BY <1>t, <1>g, <2>1, <3>1, <3>2, <3>3
    <3>a. RunsAreOfStates' /\ LeftIsOfState' /\ OnlyRefreshPrunes'
      BY <1>i, <2>1, <3>3 DEF RunsAreOfStates, LeftIsOfState, OnlyRefreshPrunes, CoverTasks
    <3>b. AssetIffCandidate' /\ ManualStays' /\ PeaceIsAlone'
      BY <1>i, <2>1, <3>2, <3>3 DEF AssetIffCandidate, ManualStays, PeaceIsAlone, CoverTasks
    <3>c. RefreshIsOnCourse'
      BY <1>i, <2>1, <3>3, <3>4 DEF PeaceIsAlone, RefreshIsOnCourse, CoverTasks
    <3>d. RefreshDelivers'
      BY <1>i, <2>1, <3>3 DEF PeaceIsAlone, RunsAreOfStates, RefreshDelivers, CoverTasks
    <3> QED
      BY <3>t, <3>a, <3>b, <3>c, <3>d DEF CoversInv
  <2> QED
    BY <1>8, <2>3, <2>4 DEF SaveGenerated
<1>9. ASSUME NEW t \in CoverTasks, ListUnkept(t) PROVE CoversInv'
  <2> DEFINE new == [coverRun[t] EXCEPT !.todo = Unkept(t), !.at = "prune"]
  <2>1. /\ coverRun[t].at = "list"
        /\ coverRun' = [coverRun EXCEPT ![t].todo = Unkept(t), ![t].at = "prune"]
        /\ mediaVersion' = mediaVersion /\ coverFile' = coverFile /\ coverAsset' = coverAsset
        /\ candidate' = candidate /\ cover' = cover /\ coverSweep' = coverSweep
        /\ inPeace' = inPeace
        /\ picked' = picked /\ coverRequests' = coverRequests /\ Smooth
    BY <1>9 DEF ListUnkept, CoverRows
  <2>2. coverRun' = [coverRun EXCEPT ![t] = new]
    BY <2>1, <1>t DEF CoverRunRows
  <2>3. Unkept(t) \in SUBSET Prints /\ "prune" \in CoverSteps
    BY <1>t, <1>a DEF Unkept
  <2>4. /\ new \in CoverRunRows /\ new.todo = Unkept(t) /\ new.at = "prune"
        /\ new.status = coverRun[t].status
        /\ new.version = coverRun[t].version
    BY <1>r, <2>3 DEF CoverRunRows
  <2> HIDE DEF new
  <2>5. /\ coverRun' \in [CoverTasks -> CoverRunRows] /\ coverRun'[t] = new
        /\ \A u \in CoverTasks \ {t} : coverRun'[u] = coverRun[u]
    BY <1>n, <2>2, <2>4
  <2>6. /\ coverRun[t].at = "list" /\ coverRun'[t].todo = coverAsset \ PrintsOf(coverRun[t].version)
        /\ coverRun'[t].at = "prune"
        /\ coverRun'[t].status = coverRun[t].status /\ coverRun'[t].version = coverRun[t].version
        /\ mediaVersion' = mediaVersion /\ coverFile' = coverFile /\ coverAsset' = coverAsset
        /\ candidate' = candidate /\ cover' = cover /\ coverSweep' = coverSweep
        /\ inPeace' = inPeace
        /\ picked' = picked
    BY <2>1, <2>4, <2>5 DEF Unkept
  <2>t. CoversTypeOK'
    BY <1>t, <1>g, <2>1, <2>5
  <2>va. RunsAreOfStates'
    BY <1>i, <2>5, <2>6 DEF RunsAreOfStates, CoverTasks
  <2>vb. LeftIsOfState'
    BY <1>i, <2>5, <2>6 DEF LeftIsOfState, CoverTasks
  <2>vc. OnlyRefreshPrunes'
    BY <1>i, <2>5, <2>6 DEF OnlyRefreshPrunes, CoverTasks
  <2>vd. AssetIffCandidate'
    BY <1>i, <2>5, <2>6 DEF AssetIffCandidate, CoverTasks
  <2>ve. ManualStays'
    BY <1>i, <2>5, <2>6 DEF ManualStays, CoverTasks
  <2>vf. PeaceIsAlone'
    BY <1>i, <2>5, <2>6 DEF PeaceIsAlone, CoverTasks
  <2>vg. RefreshIsOnCourse'
    BY <1>i, <2>5, <2>6 DEF RefreshIsOnCourse, CoverTasks
  <2>vh. RefreshDelivers'
    BY <1>i, <2>5, <2>6 DEF RefreshDelivers, CoverTasks
  <2> QED
    BY <2>t, <2>va, <2>vb, <2>vc, <2>vd, <2>ve, <2>vf, <2>vg, <2>vh DEF CoversInv
<1>10. ASSUME NEW t \in CoverTasks, PruneCovers(t) PROVE CoversInv'
  <2>1. /\ coverRun[t].at = "prune" /\ t = "refresh"
        /\ mediaVersion' = mediaVersion
        /\ candidate' = candidate /\ cover' = cover /\ coverSweep' = coverSweep
        /\ inPeace' = inPeace
        /\ picked' = picked /\ coverRequests' = coverRequests
    BY <1>10, <1>i DEF PruneCovers, CoverRows, OnlyRefreshPrunes, CoverTasks
  <2>2. PICK at \in {"report", "fail"} :
          /\ CoverAt(t, at) /\ (Smooth \/ Mishap)
          /\ coverFile' \subseteq coverFile /\ coverAsset' \subseteq coverAsset
          /\ at = "report" => /\ coverFile' = coverFile \ coverRun[t].todo
                              /\ coverAsset' = coverAsset \ coverRun[t].todo
    BY <1>10 DEF PruneCovers
  <2>3. /\ coverRun' \in [CoverTasks -> CoverRunRows]
        /\ coverRun'[t].at = at /\ coverRun'[t].status = coverRun[t].status
        /\ coverRun'[t].version = coverRun[t].version /\ coverRun'[t].todo = coverRun[t].todo
        /\ \A u \in CoverTasks \ {t} : coverRun'[u] = coverRun[u]
    BY <1>w, <1>a, <2>2
  <2>t. CoversTypeOK'
    BY <1>t, <1>g, <2>1, <2>2, <2>3
  <2>va. RunsAreOfStates'
    BY <1>i, <2>1, <2>2, <2>3 DEF RunsAreOfStates, CoverTasks
  <2>vb. LeftIsOfState'
    BY <1>i, <2>1, <2>2, <2>3 DEF LeftIsOfState, CoverTasks
  <2>vc. OnlyRefreshPrunes'
    BY <1>i, <2>1, <2>2, <2>3 DEF OnlyRefreshPrunes, CoverTasks
  <2>vd. AssetIffCandidate'
    BY <1>i, <2>1, <2>2, <2>3 DEF AssetIffCandidate, CoverTasks
  <2>ve. ManualStays'
    BY <1>i, <2>1, <2>2, <2>3 DEF ManualStays, CoverTasks
  <2>vf. PeaceIsAlone'
    BY <1>i, <2>1, <2>2, <2>3 DEF PeaceIsAlone, CoverTasks
  <2>vg. RefreshIsOnCourse'
    BY <1>i, <2>1, <2>2, <2>3 DEF RefreshIsOnCourse, CoverTasks
  <2>vh. RefreshDelivers'
    BY <1>i, <2>1, <2>2, <2>3 DEF RefreshDelivers, RunsAreOfStates, CoverTasks
  <2> QED
    BY <2>t, <2>va, <2>vb, <2>vc, <2>vd, <2>ve, <2>vf, <2>vg, <2>vh DEF CoversInv
<1>11. ASSUME NEW t \in CoverTasks, EndCovers(t) PROVE CoversInv'
  <2>1. /\ coverRun[t].at \in {"report", "fail"}
        /\ mediaVersion' = mediaVersion /\ coverFile' = coverFile /\ coverAsset' = coverAsset
        /\ candidate' = candidate /\ cover' = cover /\ coverSweep' = coverSweep
        /\ inPeace' = inPeace
        /\ picked' = picked /\ coverRequests' = coverRequests /\ Smooth
    BY <1>11 DEF EndCovers, CoverRows
  <2>2. /\ coverRun' \in [CoverTasks -> CoverRunRows]
        /\ coverRun'[t].at = "idle" /\ (coverRun'[t].status = "succeeded" => coverRun[t].at = "report")
        /\ \A u \in CoverTasks \ {t} : coverRun'[u] = coverRun[u]
    <3>1. CASE \E s \in CoverStatuses : CoverEnds(t, s) /\ (s = "succeeded" => coverRun[t].at = "report")
      BY <1>e, <3>1
    <3> DEFINE new == [NoCoverRun EXCEPT !.status = "pending", !.attempts = coverRun[t].attempts + 1]
    <3>2. CASE /\ coverRun[t].attempts + 1 # CoverAttempts
               /\ coverRun' = [coverRun EXCEPT ![t] = new]
      <4>1. coverRun[t].attempts + 1 \in 0 .. CoverAttempts - 1
        BY <1>r, <3>2, CoversAssumption
      <4>2. NoCoverRun \in CoverRunRows /\ NoCoverRun.at = "idle" /\ "pending" \in CoverStatuses
        BY <1>s, CoversAssumption DEF NoCoverRun, CoverRunRows, CoverSteps, CoverStatuses
      <4>3. new \in CoverRunRows /\ new.at = "idle" /\ new.status = "pending"
        BY <4>1, <4>2 DEF CoverRunRows
      <4> HIDE DEF new
      <4> QED
        BY <1>n, <3>2, <4>3
    <3> QED
      BY <1>11, <1>s, <3>1, <3>2 DEF EndCovers
  <2>3. coverRun["refresh"].at = "report" => coverRun["refresh"].version \in 1 .. mediaVersion
    BY <1>i, <1>c DEF RunsAreOfStates
  <2>t. CoversTypeOK'
    BY <1>t, <1>g, <2>1, <2>2
  <2>va. RunsAreOfStates'
    BY <1>i, <2>1, <2>2, <2>3 DEF RunsAreOfStates, CoverTasks
  <2>vb. LeftIsOfState'
    BY <1>i, <2>1, <2>2, <2>3 DEF LeftIsOfState, CoverTasks
  <2>vc. OnlyRefreshPrunes'
    BY <1>i, <2>1, <2>2, <2>3 DEF OnlyRefreshPrunes, CoverTasks
  <2>vd. AssetIffCandidate'
    BY <1>i, <2>1, <2>2, <2>3 DEF AssetIffCandidate, CoverTasks
  <2>ve. ManualStays'
    BY <1>i, <2>1, <2>2, <2>3 DEF ManualStays, CoverTasks
  <2>vf. PeaceIsAlone'
    BY <1>i, <2>1, <2>2, <2>3 DEF PeaceIsAlone, CoverTasks
  <2>vg. RefreshIsOnCourse'
    BY <1>i, <2>1, <2>2, <2>3 DEF RefreshIsOnCourse, CoverTasks
  <2>vh. RefreshDelivers'
    BY <1>i, <2>1, <2>2, <2>3 DEF RefreshDelivers, RefreshIsOnCourse, AssetIffCandidate,
           PeaceIsAlone, CoverTasks
  <2> QED
    BY <2>t, <2>va, <2>vb, <2>vc, <2>vd, <2>ve, <2>vf, <2>vg, <2>vh DEF CoversInv
<1>12. ASSUME CoverSourceChanges PROVE CoversInv'
  <2>1. /\ mediaVersion' = mediaVersion + 1 /\ mediaVersion' \in 1 .. MaxCoverVersion
        /\ coverFile' = coverFile /\ coverAsset' = coverAsset
        /\ candidate' = candidate /\ cover' = cover /\ coverSweep' = coverSweep
        /\ inPeace' = inPeace
        /\ picked' = picked /\ coverRequests' = coverRequests /\ coverRun' = coverRun /\ Smooth
    BY <1>12, <1>t, CoversAssumption DEF CoverSourceChanges
  <2>2. 1 .. mediaVersion \subseteq 1 .. mediaVersion'
    BY <1>t, <2>1
  <2>3. coverFile' = coverFile /\ coverAsset' = coverAsset
        /\ candidate' = candidate /\ cover' = cover /\ coverSweep' = coverSweep
        /\ inPeace' = inPeace
        /\ picked' = picked /\ coverRun' = coverRun
    BY <2>1
  <2>t. CoversTypeOK'
    BY <1>t, <1>g, <2>1
  <2>va. RunsAreOfStates'
    BY <1>i, <2>2, <2>3 DEF RunsAreOfStates, CoverTasks
  <2>vb. LeftIsOfState'
    BY <1>i, <2>2, <2>3 DEF LeftIsOfState, CoverTasks
  <2>vc. OnlyRefreshPrunes'
    BY <1>i, <2>2, <2>3 DEF OnlyRefreshPrunes, CoverTasks
  <2>vd. AssetIffCandidate'
    BY <1>i, <2>2, <2>3 DEF AssetIffCandidate, CoverTasks
  <2>ve. ManualStays'
    BY <1>i, <2>2, <2>3 DEF ManualStays, CoverTasks
  <2>vf. PeaceIsAlone'
    BY <1>i, <2>2, <2>3 DEF PeaceIsAlone, CoverTasks
  <2>vg. RefreshIsOnCourse'
    BY <1>i, <2>2, <2>3 DEF RefreshIsOnCourse, CoverTasks
  <2>vh. RefreshDelivers'
    BY <1>i, <2>2, <2>3 DEF RefreshDelivers, CoverTasks
  <2> QED
    BY <2>t, <2>va, <2>vb, <2>vc, <2>vd, <2>ve, <2>vf, <2>vg, <2>vh DEF CoversInv
<1>13. ASSUME CleanCovers PROVE CoversInv'
  <2>1. /\ coverSweep' = coverAsset /\ coverFile' = coverFile \ coverAsset /\ inPeace' = FALSE
        /\ mediaVersion' = mediaVersion /\ coverAsset' = coverAsset
        /\ candidate' = candidate /\ cover' = cover
        /\ picked' = picked /\ coverRequests' = coverRequests /\ coverRun' = coverRun /\ Smooth
    BY <1>13 DEF CleanCovers
  <2>t. CoversTypeOK'
    BY <1>t, <1>g, <2>1
  <2>va. RunsAreOfStates'
    BY <1>i, <2>1 DEF RunsAreOfStates, CoverTasks
  <2>vb. LeftIsOfState'
    BY <1>i, <2>1 DEF LeftIsOfState, CoverTasks
  <2>vc. OnlyRefreshPrunes'
    BY <1>i, <2>1 DEF OnlyRefreshPrunes, CoverTasks
  <2>vd. AssetIffCandidate'
    BY <1>i, <2>1 DEF AssetIffCandidate, CoverTasks
  <2>ve. ManualStays'
    BY <1>i, <2>1 DEF ManualStays, CoverTasks
  <2>vf. PeaceIsAlone'
    BY <1>i, <2>1 DEF PeaceIsAlone, CoverTasks
  <2>vg. RefreshIsOnCourse'
    BY <1>i, <2>1 DEF RefreshIsOnCourse, CoverTasks
  <2>vh. RefreshDelivers'
    BY <1>i, <2>1 DEF RefreshDelivers, CoverTasks
  <2> QED
    BY <2>t, <2>va, <2>vb, <2>vc, <2>vd, <2>ve, <2>vf, <2>vg, <2>vh DEF CoversInv
<1>14. ASSUME ForgetCovers PROVE CoversInv'
  <2>1. /\ ~inPeace /\ coverSweep' = {} /\ coverAsset' \subseteq coverAsset /\ inPeace' = inPeace
        /\ mediaVersion' = mediaVersion /\ coverFile' = coverFile
        /\ candidate' = candidate /\ cover' = cover
        /\ picked' = picked /\ coverRequests' = coverRequests /\ coverRun' = coverRun /\ Smooth
    BY <1>14, <1>i DEF ForgetCovers, PeaceIsAlone
  <2>t. CoversTypeOK'
    BY <1>t, <1>g, <2>1
  <2>va. RunsAreOfStates'
    BY <1>i, <2>1 DEF RunsAreOfStates, CoverTasks
  <2>vb. LeftIsOfState'
    BY <1>i, <2>1 DEF LeftIsOfState, CoverTasks
  <2>vc. OnlyRefreshPrunes'
    BY <1>i, <2>1 DEF OnlyRefreshPrunes, CoverTasks
  <2>vd. AssetIffCandidate'
    BY <1>i, <2>1 DEF AssetIffCandidate, CoverTasks
  <2>ve. ManualStays'
    BY <1>i, <2>1 DEF ManualStays, CoverTasks
  <2>vf. PeaceIsAlone'
    BY <1>i, <2>1 DEF PeaceIsAlone, CoverTasks
  <2>vg. RefreshIsOnCourse'
    BY <1>i, <2>1 DEF RefreshIsOnCourse, CoverTasks
  <2>vh. RefreshDelivers'
    BY <1>i, <2>1 DEF RefreshDelivers, CoverTasks
  <2> QED
    BY <2>t, <2>va, <2>vb, <2>vc, <2>vd, <2>ve, <2>vf, <2>vg, <2>vh DEF CoversInv
<1>15. ASSUME CoverCrash PROVE CoversInv'
  <2>1. /\ coverSweep' = {} /\ inPeace' = inPeace /\ coverFile' = coverFile
        /\ coverAsset' = coverAsset
        /\ mediaVersion' = mediaVersion
        /\ candidate' = candidate /\ cover' = cover
        /\ picked' = picked /\ coverRequests' = coverRequests /\ Mishap
    BY <1>15 DEF CoverCrash
  <2>2. \A t \in CoverTasks : coverRun'[t] = [coverRun[t] EXCEPT !.at = "idle", !.version = 0, !.todo = {},
          !.status = IF @ = "running" THEN "pending" ELSE @]
    BY <1>15 DEF CoverCrash
  <2>3. \A t \in CoverTasks : /\ coverRun'[t] \in CoverRunRows /\ coverRun'[t].at = "idle"
                              /\ coverRun'[t].status = "succeeded" => coverRun[t].status = "succeeded"
    <3> SUFFICES ASSUME NEW t \in CoverTasks
                 PROVE  /\ coverRun'[t] \in CoverRunRows /\ coverRun'[t].at = "idle"
                        /\ coverRun'[t].status = "succeeded" => coverRun[t].status = "succeeded"
      OBVIOUS
    <3>1. coverRun[t] \in CoverRunRows /\ "pending" \in CoverStatuses /\ "idle" \in CoverSteps
          /\ 0 \in 0 .. MaxCoverVersion
      BY <1>t, <1>s, <1>a, CoversAssumption
    <3>2. PICK s \in CoverStatuses : /\ s = "succeeded" => coverRun[t].status = "succeeded"
                                     /\ s = IF coverRun[t].status = "running" THEN "pending" ELSE coverRun[t].status
      BY <1>r, <1>s
    <3>3. coverRun'[t] = [coverRun[t] EXCEPT !.at = "idle", !.version = 0, !.todo = {}, !.status = s]
      BY <2>2, <3>1, <3>2 DEF CoverRunRows
    <3> QED
      BY <3>1, <3>2, <3>3 DEF CoverRunRows
  <2>4. coverRun' \in [CoverTasks -> CoverRunRows]
    <3>1. coverRun' = [t \in CoverTasks |-> coverRun'[t]]
      BY <1>15 DEF CoverCrash
    <3> QED
      BY <2>3, <3>1
  <2>t. CoversTypeOK'
    BY <1>t, <1>g, <2>1, <2>4
  <2>va. RunsAreOfStates'
    BY <1>i, <2>1, <2>3 DEF RunsAreOfStates, CoverTasks
  <2>vb. LeftIsOfState'
    BY <1>i, <2>1, <2>3 DEF LeftIsOfState, CoverTasks
  <2>vc. OnlyRefreshPrunes'
    BY <1>i, <2>1, <2>3 DEF OnlyRefreshPrunes, CoverTasks
  <2>vd. AssetIffCandidate'
    BY <1>i, <2>1, <2>3 DEF AssetIffCandidate, CoverTasks
  <2>ve. ManualStays'
    BY <1>i, <2>1, <2>3 DEF ManualStays, CoverTasks
  <2>vf. PeaceIsAlone'
    BY <1>i, <2>1, <2>3 DEF PeaceIsAlone, CoverTasks
  <2>vg. RefreshIsOnCourse'
    BY <1>i, <2>1, <2>3 DEF RefreshIsOnCourse, CoverTasks
  <2>vh. RefreshDelivers'
    BY <1>i, <2>1, <2>3 DEF RefreshDelivers, CoverTasks
  <2> QED
    BY <2>t, <2>va, <2>vb, <2>vc, <2>vd, <2>ve, <2>vf, <2>vg, <2>vh DEF CoversInv
<1>16. CASE UNCHANGED coverVars
  BY <1>16, <1>t, <1>i DEF coverVars, CoversInv, CoversTypeOK, RunsAreOfStates, LeftIsOfState,
         OnlyRefreshPrunes, AssetIffCandidate, ManualStays, PeaceIsAlone, RefreshIsOnCourse,
         RefreshDelivers, CoverRunRows, CoverStatuses, CoverSteps, CoverChoices
<1> QED
  BY <1>1, <1>2, <1>3, <1>4, <1>5, <1>6, <1>7, <1>8, <1>9, <1>10, <1>11, <1>12, <1>13, <1>14, <1>15,
     <1>16 DEF CoversNext

\* A cover chosen by hand stays, one that is offered is a candidate, and a refresh in
\* peace delivers (cover_repository.go).
THEOREM CoversSafeAlways == CoversSpec => []CoversSafe
<1> QED
  BY CoversInitInv, CoversHold, CoversStep, PTL DEF CoversSpec

-----------------------------------------------------------------------------
(***************************************************************************)
(* Timeline previews (timeline_preview_service.go) and the cache of their  *)
(* directories. What waits was asked for after all that was ever current;  *)
(* a directory no row knows is in somebody's hands.                        *)
(***************************************************************************)

\* What tasks, pointers, the executions and the keeper are made of.
PreviewStatuses == {"none", "pending", "running", "succeeded", "stopped"}
PreviewSteps == {"idle", "verify", "generate", "latest", "prepare", "commit", "refuse", "rows", "files", "end"}
PointerRows == [current : 0 .. MaxGen, pending : 0 .. MaxGen]
WorkerRows == [gen : 0 .. MaxGen, fails : BOOLEAN, late : BOOLEAN, at : PreviewSteps]
KeeperRows == [job : {"off", "inventory", "clean"}, at : 0 .. MaxGen]

\* A generation has a task once it is asked for, and attempts until it is stopped.
TasksAreAsked ==
  /\ \A g \in Gens : g > created => status[g] = "none"
  /\ \A g \in Gens : attempts[g] = MaxAttempts => status[g] = "stopped"

\* What waits was asked for after all that was ever current.
PendingIsNewer ==
  /\ newest <= created /\ pointer.pending <= created
  /\ pointer.pending # NoGen => pointer.pending > newest

\* An execution that is not idle has a generation.
WorkerHasTask == \A e \in Workers : worker[e].at # "idle" => worker[e].gen \in Gens

\* A compensation is not at the current generation, unless that became so after it looked.
CompensatesOther ==
  \A e \in Workers :
    worker[e].at \in {"rows", "files"} /\ ~worker[e].late => worker[e].gen # pointer.current

\* An execution that will register or remove the directory of its generation.
InHand(e, g) ==
  worker[e].gen = g /\ worker[e].at \in {"latest", "prepare", "commit", "refuse", "files"}

\* A directory no row knows is at the hands of the clean or of an execution.
DirectoriesInHand ==
  ~disturbed =>
    \A g \in files : \/ g \in rows
                     \/ keeper.job = "clean" /\ keeper.at = g
                     \/ \E e \in Workers : InHand(e, g)

\* The inductive invariant of previews.
PreviewInv ==
  /\ PreviewTypeOK /\ TasksAreAsked /\ PendingIsNewer /\ WorkerHasTask /\ CompensatesOther
  /\ PointerHasAsset /\ DirectoriesInHand

\* What the run checks follows from it.
LEMMA PreviewHolds == PreviewInv => PointerHasAsset /\ NoUnknownDirectory
  BY DEF PreviewInv, DirectoriesInHand, NoUnknownDirectory, InHand

\* It holds at first.
LEMMA PreviewInitInv == PreviewInit => PreviewInv
<1> SUFFICES ASSUME PreviewInit PROVE PreviewInv
  OBVIOUS
<1>1. PreviewTypeOK
  <2>1. /\ source \in 1 .. MaxVersion /\ created \in 0 .. MaxGen /\ newest \in 0 .. MaxGen
        /\ mishaps \in 0 .. MaxMishaps /\ made \in [Gens -> 0 .. MaxVersion]
        /\ attempts \in [Gens -> 0 .. MaxAttempts]
    BY PreviewAssumption, FaultsAssumption DEF PreviewInit, NoGen
  <2>2. /\ pointer \in PointerRows /\ worker \in [Workers -> WorkerRows] /\ keeper \in KeeperRows
        /\ status \in [Gens -> PreviewStatuses]
    BY PreviewAssumption DEF PreviewInit, NoGen, PointerRows, WorkerRows, WorkerIdle, KeeperRows,
           KeeperOff, PreviewStatuses, PreviewSteps
  <2> QED
    BY <2>1, <2>2 DEF PreviewInit, PreviewTypeOK, PointerRows, WorkerRows, KeeperRows,
           PreviewStatuses, PreviewSteps
<1>2. TasksAreAsked /\ PendingIsNewer
  BY PreviewAssumption DEF PreviewInit, NoGen, TasksAreAsked, PendingIsNewer
<1>3. WorkerHasTask /\ CompensatesOther /\ PointerHasAsset /\ DirectoriesInHand
  BY DEF PreviewInit, NoGen, WorkerIdle, WorkerHasTask, CompensatesOther, PointerHasAsset,
         DirectoriesInHand
<1> QED
  BY <1>1, <1>2, <1>3 DEF PreviewInv

\* Every step keeps it, moves the pointers forward only, and spares the current
\* generation unless it is one of the clean.
LEMMA PreviewStep ==
  PreviewInv /\ [PreviewNext]_previewVars => PreviewInv' /\ MovesForward /\ SparesCurrent
<1> SUFFICES ASSUME PreviewInv, [PreviewNext]_previewVars PROVE PreviewInv' /\ MovesForward /\ SparesCurrent
  OBVIOUS
<1>t. /\ source \in 1 .. MaxVersion /\ created \in 0 .. MaxGen /\ newest \in 0 .. MaxGen
      /\ mishaps \in 0 .. MaxMishaps /\ made \in [Gens -> 0 .. MaxVersion]
      /\ attempts \in [Gens -> 0 .. MaxAttempts] /\ status \in [Gens -> PreviewStatuses]
      /\ pointer \in PointerRows /\ worker \in [Workers -> WorkerRows] /\ keeper \in KeeperRows
      /\ files \subseteq Gens /\ rows \subseteq Gens /\ disturbed \in BOOLEAN
  BY DEF PreviewInv, PreviewTypeOK, PointerRows, WorkerRows, KeeperRows, PreviewStatuses,
         PreviewSteps
<1>i. /\ TasksAreAsked /\ PendingIsNewer /\ WorkerHasTask /\ CompensatesOther /\ PointerHasAsset
      /\ DirectoriesInHand
  BY DEF PreviewInv
<1>g. ASSUME source' \in 1 .. MaxVersion, created' \in 0 .. MaxGen, newest' \in 0 .. MaxGen,
             made' \in [Gens -> 0 .. MaxVersion], attempts' \in [Gens -> 0 .. MaxAttempts],
             status' \in [Gens -> PreviewStatuses], pointer' \in PointerRows, worker' \in [Workers -> WorkerRows],
             keeper' \in KeeperRows, files' \subseteq Gens, rows' \subseteq Gens, disturbed' \in BOOLEAN,
             UNCHANGED mishaps \/ Mishap
      PROVE  PreviewTypeOK'
  <2>1. mishaps' \in 0 .. MaxMishaps
    BY <1>t, <1>g, FaultsAssumption DEF Mishap
  <2> QED
    BY <2>1, <1>g DEF PreviewTypeOK, PointerRows, WorkerRows, KeeperRows, PreviewStatuses,
           PreviewSteps
<1>z. /\ NoGen = 0 /\ MaxGen \in Nat /\ MaxAttempts \in Nat /\ MaxAttempts # 0
      /\ \A g : g \in Gens <=> g \in 1 .. MaxGen
      /\ \A g \in Gens : g \in Nat /\ g # 0 /\ g \in 0 .. MaxGen
  BY PreviewAssumption DEF NoGen, Gens
<1>y. /\ \A r \in PointerRows : r.current \in 0 .. MaxGen /\ r.pending \in 0 .. MaxGen
      /\ \A e \in Workers : /\ worker[e].gen \in 0 .. MaxGen /\ worker[e].at \in PreviewSteps
                            /\ worker[e].fails \in BOOLEAN /\ worker[e].late \in BOOLEAN
      /\ keeper.at \in 0 .. MaxGen /\ keeper.job \in {"off", "inventory", "clean"}
      /\ pointer.current \in 0 .. MaxGen /\ pointer.pending \in 0 .. MaxGen
  BY <1>t DEF PointerRows, WorkerRows, KeeperRows
<1>w. ASSUME NEW e \in Workers, NEW at \in PreviewSteps, Goto(e, at) \/ Fail(e, at)
      PROVE  /\ worker' \in [Workers -> WorkerRows] /\ worker'[e].gen = worker[e].gen
             /\ worker'[e].at = at /\ worker'[e].late = worker[e].late
             /\ \A x \in Workers \ {e} : worker'[x] = worker[x]
  <2>1. PICK fails \in BOOLEAN :
          worker' = [worker EXCEPT ![e] = [gen |-> worker[e].gen, at |-> at, fails |-> fails,
                                           late |-> worker[e].late]]
    BY <1>y, <1>w DEF Goto, Fail, Moved
  <2>2. [gen |-> worker[e].gen, at |-> at, fails |-> fails, late |-> worker[e].late] \in WorkerRows
    BY <1>y DEF WorkerRows
  <2> QED
    BY <1>t, <2>1, <2>2
<1>s. {"verify", "generate", "latest", "prepare", "commit", "refuse", "rows", "files", "end"} \subseteq PreviewSteps
  BY DEF PreviewSteps
<1>k. /\ WorkerIdle \in WorkerRows /\ WorkerIdle.at = "idle" /\ WorkerIdle.gen = NoGen
      /\ KeeperOff \in KeeperRows /\ KeeperOff.at = NoGen /\ KeeperOff.job = "off"
  BY <1>z DEF WorkerIdle, KeeperOff, WorkerRows, KeeperRows, PreviewSteps
<1>0. ASSUME pointer' = pointer, files \subseteq files' PROVE MovesForward /\ SparesCurrent
  BY <1>0 DEF MovesForward, SparesCurrent
<1>1. ASSUME NEW v \in 1 .. MaxVersion, SourceChanges(v) PROVE PreviewInv' /\ MovesForward /\ SparesCurrent
  <2>1. /\ source' = v /\ created' = created /\ made' = made /\ pointer' = pointer
        /\ status' = status
        /\ attempts' = attempts /\ worker' = worker /\ files' = files /\ rows' = rows
        /\ keeper' = keeper
        /\ mishaps' = mishaps /\ newest' = newest /\ disturbed' = disturbed
    BY <1>1 DEF SourceChanges
  <2>t. PreviewTypeOK'
    BY <1>t, <1>g, <2>1
  <2>m. MovesForward /\ SparesCurrent
    BY <1>0, <2>1
  <2>va. TasksAreAsked'
    BY <1>i, <2>1 DEF TasksAreAsked, NoGen
  <2>vb. PendingIsNewer'
    BY <1>i, <2>1 DEF PendingIsNewer, NoGen
  <2>vc. WorkerHasTask'
    BY <1>i, <2>1 DEF WorkerHasTask, NoGen
  <2>vd. CompensatesOther'
    BY <1>i, <2>1 DEF CompensatesOther, NoGen
  <2>ve. PointerHasAsset'
    BY <1>i, <2>1 DEF PointerHasAsset, NoGen
  <2>vf. DirectoriesInHand'
    BY <1>i, <2>1 DEF DirectoriesInHand, InHand, NoGen
  <2> QED
    BY <2>t, <2>m, <2>va, <2>vb, <2>vc, <2>vd, <2>ve, <2>vf DEF PreviewInv
<1>2. ASSUME NEW force \in BOOLEAN, Request(force) PROVE PreviewInv' /\ MovesForward /\ SparesCurrent
  <2> DEFINE g == created + 1
  <2>1. /\ g \in Gens /\ created' = g /\ made' = [made EXCEPT ![g] = source]
        /\ status' = [status EXCEPT ![g] = "pending"] /\ pointer' = [pointer EXCEPT !.pending = g]
        /\ source' = source
        /\ attempts' = attempts /\ worker' = worker /\ files' = files /\ rows' = rows
        /\ keeper' = keeper
        /\ mishaps' = mishaps /\ newest' = newest /\ disturbed' = disturbed
    BY <1>2 DEF Request
  <2>2. /\ pointer' \in PointerRows /\ pointer'.current = pointer.current /\ pointer'.pending = g
    BY <1>t, <1>z, <2>1 DEF PointerRows
  <2>3. /\ status' \in [Gens -> PreviewStatuses] /\ status'[g] = "pending" /\ status[g] = "none"
        /\ \A h \in Gens \ {g} : status'[h] = status[h]
    BY <1>t, <1>i, <1>z, <2>1 DEF PreviewStatuses, TasksAreAsked
  <2>4. made' \in [Gens -> 0 .. MaxVersion]
    BY <1>t, <2>1
  <2>5. created \in 0 .. MaxGen /\ newest \in 0 .. MaxGen /\ pointer.pending \in 0 .. MaxGen /\ g = created + 1
        /\ created' = g /\ g \in Gens /\ MaxGen \in Nat
    BY <1>t, <1>y, <1>z, <2>1
  <2>6. created' \in 0 .. MaxGen
    BY <1>z, <2>1
  <2> HIDE DEF g
  <2>t. PreviewTypeOK'
    BY <1>t, <1>g, <2>1, <2>2, <2>3, <2>4, <2>6
  <2>m. MovesForward /\ SparesCurrent
    BY <1>i, <2>1, <2>2, <2>5 DEF MovesForward, SparesCurrent, PendingIsNewer
  <2>va. TasksAreAsked'
    BY <1>i, <1>z, <2>1, <2>2, <2>3, <2>5 DEF TasksAreAsked, NoGen
  <2>vb. PendingIsNewer'
    BY <1>i, <1>z, <2>1, <2>2, <2>3, <2>5 DEF PendingIsNewer, NoGen
  <2>vc. WorkerHasTask'
    BY <1>i, <1>z, <2>1, <2>2, <2>3, <2>5 DEF WorkerHasTask, NoGen
  <2>vd. CompensatesOther'
    BY <1>i, <1>z, <2>1, <2>2, <2>3, <2>5 DEF CompensatesOther, NoGen
  <2>ve. PointerHasAsset'
    BY <1>i, <1>z, <2>1, <2>2, <2>3, <2>5 DEF PointerHasAsset, NoGen
  <2>vf. DirectoriesInHand'
    BY <1>i, <1>z, <2>1, <2>2, <2>3, <2>5 DEF DirectoriesInHand, InHand, NoGen
  <2> QED
    BY <2>t, <2>m, <2>va, <2>vb, <2>vc, <2>vd, <2>ve, <2>vf DEF PreviewInv
<1>3. ASSUME NEW g \in Gens, Cancel(g) \/ Retry(g) PROVE PreviewInv' /\ MovesForward /\ SparesCurrent
  <2>1. /\ source' = source /\ created' = created /\ made' = made /\ pointer' = pointer
        /\ worker' = worker /\ files' = files /\ rows' = rows /\ keeper' = keeper
        /\ (UNCHANGED mishaps \/ Mishap) /\ newest' = newest /\ disturbed' = disturbed
    BY <1>3 DEF Cancel, Retry
  <2>2. /\ status' \in [Gens -> PreviewStatuses] /\ status[g] # "none"
        /\ \A h \in Gens \ {g} : status'[h] = status[h]
        /\ attempts' \in [Gens -> 0 .. MaxAttempts] /\ \A h \in Gens \ {g} : attempts'[h] = attempts[h]
        /\ attempts'[g] = MaxAttempts => status'[g] = "stopped"
    BY <1>3, <1>t, <1>z DEF Cancel, Retry, PreviewStatuses
  <2>t. PreviewTypeOK'
    BY <1>t, <1>g, <2>1, <2>2
  <2>m. MovesForward /\ SparesCurrent
    BY <1>0, <2>1
  <2>va. TasksAreAsked'
    BY <1>i, <2>1, <2>2 DEF TasksAreAsked, NoGen
  <2>vb. PendingIsNewer'
    BY <1>i, <2>1, <2>2 DEF PendingIsNewer, NoGen
  <2>vc. WorkerHasTask'
    BY <1>i, <2>1, <2>2 DEF WorkerHasTask, NoGen
  <2>vd. CompensatesOther'
    BY <1>i, <2>1, <2>2 DEF CompensatesOther, NoGen
  <2>ve. PointerHasAsset'
    BY <1>i, <2>1, <2>2 DEF PointerHasAsset, NoGen
  <2>vf. DirectoriesInHand'
    BY <1>i, <2>1, <2>2 DEF DirectoriesInHand, InHand, NoGen
  <2> QED
    BY <2>t, <2>m, <2>va, <2>vb, <2>vc, <2>vd, <2>ve, <2>vf DEF PreviewInv
<1>4. ASSUME NEW e \in Workers, NEW g \in Gens, Claim(e, g) PROVE PreviewInv' /\ MovesForward /\ SparesCurrent
  <2>1. /\ worker[e] = WorkerIdle /\ status[g] = "pending"
        /\ status' = [status EXCEPT ![g] = "running"]
        /\ worker' = [worker EXCEPT ![e] = [gen |-> g, at |-> "verify", fails |-> FALSE,
                                            late |-> FALSE]]
        /\ source' = source /\ created' = created /\ made' = made /\ pointer' = pointer
        /\ attempts' = attempts
        /\ files' = files /\ rows' = rows /\ keeper' = keeper
        /\ mishaps' = mishaps /\ newest' = newest /\ disturbed' = disturbed
    BY <1>4 DEF Claim
  <2>2. /\ status' \in [Gens -> PreviewStatuses] /\ status'[g] = "running" /\ status[g] = "pending"
        /\ \A h \in Gens \ {g} : status'[h] = status[h]
    BY <1>t, <2>1 DEF PreviewStatuses
  <2>3. /\ worker' \in [Workers -> WorkerRows] /\ worker'[e].gen = g /\ worker'[e].at = "verify"
        /\ worker[e].gen = NoGen /\ worker[e].at = "idle"
        /\ \A x \in Workers \ {e} : worker'[x] = worker[x]
    <3>1. [gen |-> g, at |-> "verify", fails |-> FALSE, late |-> FALSE] \in WorkerRows
      BY <1>z, <1>s DEF WorkerRows
    <3> QED
      BY <1>t, <1>k, <2>1, <3>1
  <2>4. /\ created' = created /\ pointer' = pointer /\ attempts' = attempts
        /\ files' = files /\ rows' = rows /\ keeper' = keeper /\ newest' = newest
        /\ disturbed' = disturbed
    BY <2>1
  <2>t. PreviewTypeOK'
    BY <1>t, <1>g, <2>1, <2>2, <2>3
  <2>m. MovesForward /\ SparesCurrent
    BY <1>0, <2>1
  <2>va. TasksAreAsked'
    BY <1>i, <2>2, <2>3, <2>4 DEF TasksAreAsked, NoGen
  <2>vb. PendingIsNewer'
    BY <1>i, <2>2, <2>3, <2>4 DEF PendingIsNewer, NoGen
  <2>vc. WorkerHasTask'
    BY <1>i, <2>2, <2>3, <2>4 DEF WorkerHasTask, NoGen
  <2>vd. CompensatesOther'
    BY <1>i, <2>2, <2>3, <2>4 DEF CompensatesOther, NoGen
  <2>ve. PointerHasAsset'
    BY <1>i, <2>2, <2>3, <2>4 DEF PointerHasAsset, NoGen
  <2>vf. DirectoriesInHand'
    BY <1>i, <2>2, <2>3, <2>4 DEF DirectoriesInHand, InHand, NoGen
  <2> QED
    BY <2>t, <2>m, <2>va, <2>vb, <2>vc, <2>vd, <2>ve, <2>vf DEF PreviewInv
<1>5. ASSUME NEW e \in Workers,
             \/ VerifyTaskSource(e) \/ EnsureLatestPending(e) \/ Prepare(e) \/ CommitRefused(e)
             \/ CleanUnregistered(e)
      PROVE  PreviewInv' /\ MovesForward /\ SparesCurrent
  <2>1. /\ source' = source /\ created' = created /\ made' = made /\ pointer' = pointer
        /\ attempts' = attempts
        /\ status' = status /\ files' = files /\ rows' = rows /\ keeper' = keeper
        /\ mishaps' = mishaps /\ newest' = newest
    BY <1>5 DEF VerifyTaskSource, EnsureLatestPending, Prepare, CommitRefused, CleanUnregistered,
           WorkerOnly
  <2>2. \E at \in PreviewSteps :
          /\ Goto(e, at) \/ Fail(e, at)
          /\ \/ worker[e].at = "verify" /\ at \in {"generate", "end"} /\ disturbed' = disturbed
             \/ /\ worker[e].at \in {"latest", "prepare", "commit"} /\ disturbed' = disturbed
                /\ at \in {"prepare", "commit", "refuse"}
             \/ /\ worker[e].at = "refuse" /\ at = "end"
                /\ disturbed' = (disturbed \/ ~(pointer.current = worker[e].gen))
             \/ /\ worker[e].at = "refuse" /\ worker[e].gen # pointer.current /\ disturbed' = disturbed
                /\ (at = "rows" /\ worker[e].gen \in rows) \/ at = "files"
    <3>1. CASE VerifyTaskSource(e)
      BY <1>s, <3>1 DEF VerifyTaskSource
    <3>2. CASE EnsureLatestPending(e) \/ Prepare(e) \/ CommitRefused(e)
      BY <1>s, <3>2 DEF EnsureLatestPending, Prepare, CommitRefused
    <3>3. CASE CleanUnregistered(e)
      BY <1>s, <3>3 DEF CleanUnregistered, RejectCurrent
    <3> QED
      BY <1>5, <3>1, <3>2, <3>3
  <2>3. PICK at \in PreviewSteps :
          /\ worker' \in [Workers -> WorkerRows] /\ worker'[e].gen = worker[e].gen
          /\ worker'[e].at = at /\ worker'[e].late = worker[e].late
          /\ \A x \in Workers \ {e} : worker'[x] = worker[x]
          /\ \/ worker[e].at = "verify" /\ at \in {"generate", "end"} /\ disturbed' = disturbed
             \/ /\ worker[e].at \in {"latest", "prepare", "commit"} /\ disturbed' = disturbed
                /\ at \in {"prepare", "commit", "refuse"}
             \/ /\ worker[e].at = "refuse" /\ at = "end"
                /\ disturbed' = (disturbed \/ ~(pointer.current = worker[e].gen))
             \/ /\ worker[e].at = "refuse" /\ worker[e].gen # pointer.current /\ disturbed' = disturbed
                /\ (at = "rows" /\ worker[e].gen \in rows) \/ at = "files"
    BY <1>w, <2>2
  <2>4. worker[e].gen \in Gens /\ worker[e].gen # NoGen
    BY <1>i, <1>z, <2>3 DEF WorkerHasTask
  <2>5. disturbed' \in BOOLEAN /\ (disturbed => disturbed')
    <3>1. \/ disturbed' = disturbed
          \/ disturbed' = (disturbed \/ ~(pointer.current = worker[e].gen))
      BY <2>3, Zenon
    <3> QED
      BY <1>t, <3>1, Zenon
  <2>t. PreviewTypeOK'
    BY <1>t, <1>g, <2>1, <2>3, <2>5
  <2>m. MovesForward /\ SparesCurrent
    BY <1>0, <2>1
  <2>va. TasksAreAsked'
    BY <1>i, <2>1, <2>3, <2>4 DEF TasksAreAsked, NoGen
  <2>vb. PendingIsNewer'
    BY <1>i, <2>1, <2>3, <2>4 DEF PendingIsNewer, NoGen
  <2>vc. WorkerHasTask'
    BY <1>i, <2>1, <2>3, <2>4 DEF WorkerHasTask, NoGen
  <2>vd. CompensatesOther'
    BY <1>i, <2>1, <2>3, <2>4 DEF CompensatesOther, NoGen
  <2>ve. PointerHasAsset'
    BY <1>i, <2>1, <2>3, <2>4 DEF PointerHasAsset, NoGen
  <2>vf. DirectoriesInHand'
    BY <1>i, <2>1, <2>3, <2>4, <2>5 DEF DirectoriesInHand, PointerHasAsset, InHand, NoGen
  <2> QED
    BY <2>t, <2>m, <2>va, <2>vb, <2>vc, <2>vd, <2>ve, <2>vf DEF PreviewInv
<1>6. ASSUME NEW e \in Workers, Generate(e) PROVE PreviewInv' /\ MovesForward /\ SparesCurrent
  <2>1. /\ source' = source /\ created' = created /\ made' = made /\ pointer' = pointer
        /\ attempts' = attempts
        /\ status' = status /\ rows' = rows /\ keeper' = keeper /\ worker[e].at = "generate"
        /\ mishaps' = mishaps /\ newest' = newest /\ disturbed' = disturbed
    BY <1>6 DEF Generate, WorkerOnly
  <2>2. PICK at \in {"latest", "end"} :
          /\ Goto(e, at) \/ Fail(e, at)
          /\ files' = IF at = "latest" THEN files \cup {worker[e].gen} ELSE files
    BY <1>6 DEF Generate
  <2>3. /\ worker' \in [Workers -> WorkerRows] /\ worker'[e].gen = worker[e].gen
        /\ worker'[e].at = at /\ worker'[e].late = worker[e].late
        /\ \A x \in Workers \ {e} : worker'[x] = worker[x]
    BY <1>w, <1>s, <2>2
  <2>4. worker[e].gen \in Gens /\ files' \subseteq Gens /\ files \subseteq files'
    BY <1>i, <1>t, <2>1, <2>2 DEF WorkerHasTask
  <2>t. PreviewTypeOK'
    BY <1>t, <1>g, <2>1, <2>3, <2>4
  <2>m. MovesForward /\ SparesCurrent
    BY <1>0, <2>1, <2>4
  <2>va. TasksAreAsked'
    BY <1>i, <2>1, <2>2, <2>3, <2>4 DEF TasksAreAsked, NoGen
  <2>vb. PendingIsNewer'
    BY <1>i, <2>1, <2>2, <2>3, <2>4 DEF PendingIsNewer, NoGen
  <2>vc. WorkerHasTask'
    BY <1>i, <2>1, <2>2, <2>3, <2>4 DEF WorkerHasTask, NoGen
  <2>vd. CompensatesOther'
    BY <1>i, <2>1, <2>2, <2>3, <2>4 DEF CompensatesOther, NoGen
  <2>ve. PointerHasAsset'
    BY <1>i, <2>1, <2>2, <2>3, <2>4 DEF PointerHasAsset, NoGen
  <2>vf. DirectoriesInHand'
    BY <1>i, <2>1, <2>2, <2>3, <2>4 DEF DirectoriesInHand, InHand, NoGen
  <2> QED
    BY <2>t, <2>m, <2>va, <2>vb, <2>vc, <2>vd, <2>ve, <2>vf DEF PreviewInv
<1>7. ASSUME NEW e \in Workers, Commit(e) PROVE PreviewInv' /\ MovesForward /\ SparesCurrent
  <2> DEFINE g == worker[e].gen
             w(x) == [gen |-> worker[x].gen, at |-> IF x = e THEN "end" ELSE worker[x].at,
                      fails |-> worker[x].fails,
                      late |-> worker[x].late \/ (worker[x].gen = g /\ worker[x].at \in {"rows", "files"})]
  <2>1. /\ worker[e].at = "commit" /\ pointer.pending = g /\ rows' = rows \cup {g}
        /\ pointer' = [current |-> g, pending |-> NoGen]
        /\ newest' = (IF g > newest THEN g ELSE newest) /\ worker' = [x \in Workers |-> w(x)]
        /\ source' = source /\ created' = created /\ made' = made /\ attempts' = attempts
        /\ status' = status /\ files' = files /\ keeper' = keeper /\ mishaps' = mishaps
        /\ disturbed' = disturbed
    BY <1>7 DEF Commit, MakeCurrent
  <2>2. /\ worker' \in [Workers -> WorkerRows]
        /\ \A x \in Workers :
             /\ worker'[x].gen = worker[x].gen
             /\ worker'[x].at = IF x = e THEN "end" ELSE worker[x].at
             /\ worker[x].gen = g /\ worker[x].at \in {"rows", "files"} => worker'[x].late
    <3>1. \A x \in Workers : w(x) \in WorkerRows
      BY <1>y, <1>s DEF WorkerRows
    <3> QED
      BY <2>1, <3>1
  <2>3. g \in Gens /\ g # NoGen
    BY <1>i, <1>z, <2>1 DEF WorkerHasTask
  <2>4. /\ g > newest /\ newest' = g /\ newest' <= created
        /\ newest' \in 0 .. MaxGen
        /\ g \in newest + 1 .. MaxGen
    BY <1>i, <1>t, <1>z, <2>1, <2>3 DEF PendingIsNewer
  <2>5. /\ pointer' \in PointerRows /\ pointer'.current = g /\ pointer'.pending = NoGen
        /\ pointer' = [current |-> g, pending |-> NoGen]
    BY <1>z, <2>1, <2>3 DEF PointerRows
  <2>6. created \in 0 .. MaxGen /\ 0 <= created
    BY <1>t, <1>z
  <2>7. /\ pointer.pending = g /\ rows' = rows \cup {g} /\ created' = created /\ attempts' = attempts
        /\ status' = status /\ files' = files /\ keeper' = keeper /\ disturbed' = disturbed
        /\ g = worker[e].gen /\ UNCHANGED <<source, made, mishaps>>
    BY <2>1
  <2> HIDE DEF g, w
  <2>t. PreviewTypeOK'
    <3>1. /\ source' \in 1 .. MaxVersion /\ created' \in 0 .. MaxGen
          /\ made' \in [Gens -> 0 .. MaxVersion] /\ attempts' \in [Gens -> 0 .. MaxAttempts]
          /\ status' \in [Gens -> PreviewStatuses] /\ keeper' \in KeeperRows
          /\ files' \subseteq Gens /\ rows' \subseteq Gens
      BY <1>t, <2>3, <2>7
    <3>2. disturbed' \in BOOLEAN
      BY <1>t, <2>7, Zenon
    <3>3. worker' \in [Workers -> WorkerRows] /\ newest' \in 0 .. MaxGen /\ pointer' \in PointerRows
      BY <2>2, <2>4, <2>5
    <3>4. UNCHANGED mishaps
      BY <2>7
    <3> QED
      BY <1>g, <3>1, <3>2, <3>3, <3>4
  <2>m. MovesForward /\ SparesCurrent
    BY <2>7, <2>3, <2>4, <2>5 DEF MovesForward, SparesCurrent
  <2>va. TasksAreAsked'
    BY <1>i, <2>2, <2>3, <2>4, <2>5, <2>6, <2>7 DEF TasksAreAsked, NoGen
  <2>vb. PendingIsNewer'
    BY <1>i, <2>2, <2>3, <2>4, <2>5, <2>6, <2>7 DEF PendingIsNewer, NoGen
  <2>vc. WorkerHasTask'
    BY <1>i, <2>2, <2>3, <2>4, <2>5, <2>6, <2>7 DEF WorkerHasTask, NoGen
  <2>vd. CompensatesOther'
    BY <1>i, <2>2, <2>3, <2>4, <2>5, <2>6, <2>7 DEF CompensatesOther, NoGen
  <2>ve. PointerHasAsset'
    BY <1>i, <2>2, <2>3, <2>4, <2>5, <2>6, <2>7 DEF PointerHasAsset, NoGen
  <2>vf. DirectoriesInHand'
    BY <1>i, <2>2, <2>3, <2>4, <2>5, <2>6, <2>7 DEF DirectoriesInHand, InHand, NoGen
  <2> QED
    BY <2>t, <2>m, <2>va, <2>vb, <2>vc, <2>vd, <2>ve, <2>vf DEF PreviewInv
<1>d. ASSUME NEW g \in Gens, DeleteRows(g)
      PROVE  /\ rows' = rows \ {g} /\ pointer' \in PointerRows /\ pointer'.pending = pointer.pending
             /\ pointer'.current = IF pointer.current = g THEN NoGen ELSE pointer.current
  BY <1>d, <1>t, <1>z DEF DeleteRows, PointerRows
<1>8. ASSUME NEW e \in Workers, CompensateRows(e) PROVE PreviewInv' /\ MovesForward /\ SparesCurrent
  <2> DEFINE g == worker[e].gen
  <2>1. /\ worker[e].at = "rows"
        /\ source' = source /\ created' = created /\ made' = made /\ attempts' = attempts
        /\ status' = status /\ files' = files /\ keeper' = keeper /\ mishaps' = mishaps
        /\ disturbed' = disturbed
        /\ newest' = newest
    BY <1>8 DEF CompensateRows
  <2>2. /\ g \in Gens /\ g # NoGen /\ g = worker[e].gen
        /\ worker[e].late \/ g # pointer.current
    BY <1>i, <1>z, <2>1 DEF WorkerHasTask, CompensatesOther
  <2> HIDE DEF g
  <2>3. CASE Fail(e, "end") /\ rows' = rows /\ pointer' = pointer
    <3>1. /\ worker' \in [Workers -> WorkerRows] /\ worker'[e].gen = g /\ worker'[e].at = "end"
          /\ \A x \in Workers \ {e} : worker'[x] = worker[x]
      BY <1>w, <1>s, <2>2, <2>3
    <3>2. PreviewTypeOK'
      BY <1>t, <1>g, <2>1, <2>3, <3>1
    <3>3. MovesForward /\ SparesCurrent
      BY <1>0, <2>1, <2>3
    <3>4. TasksAreAsked' /\ PendingIsNewer' /\ PointerHasAsset'
      BY <1>i, <2>1, <2>3 DEF TasksAreAsked, PendingIsNewer, PointerHasAsset
    <3>5. WorkerHasTask' /\ CompensatesOther'
      BY <1>i, <2>1, <2>2, <2>3, <3>1 DEF WorkerHasTask, CompensatesOther
    <3>6. DirectoriesInHand'
      BY <1>i, <2>1, <2>2, <2>3, <3>1 DEF DirectoriesInHand, InHand
    <3> QED
      BY <3>2, <3>3, <3>4, <3>5, <3>6 DEF PreviewInv
  <2>4. CASE DeleteRows(g) /\ Goto(e, "files")
    <3>1. /\ worker' \in [Workers -> WorkerRows] /\ worker'[e].gen = g /\ worker'[e].at = "files"
          /\ worker'[e].late = worker[e].late /\ worker'[e] # worker[e]
          /\ \A x \in Workers \ {e} : worker'[x] = worker[x]
      BY <1>w, <1>s, <2>1, <2>2, <2>4
    <3>2. /\ rows' = rows \ {g} /\ pointer' \in PointerRows
          /\ pointer'.pending = pointer.pending
          /\ pointer'.current = IF pointer.current = g THEN NoGen ELSE pointer.current
      BY <1>d, <2>2, <2>4
    <3>3. PreviewTypeOK'
      BY <1>t, <1>g, <2>1, <3>1, <3>2
    <3>4. MovesForward
      BY <2>1, <3>2 DEF MovesForward
    <3>5. SparesCurrent
      BY <2>1, <2>2, <3>1, <3>2 DEF SparesCurrent, NoGen
    <3>6. TasksAreAsked' /\ PendingIsNewer' /\ PointerHasAsset'
      BY <1>i, <2>1, <3>2 DEF TasksAreAsked, PendingIsNewer, PointerHasAsset
    <3>7. WorkerHasTask' /\ CompensatesOther'
      BY <1>i, <1>z, <2>1, <2>2, <3>1, <3>2 DEF WorkerHasTask, CompensatesOther
    <3>8. DirectoriesInHand'
      BY <1>i, <2>1, <2>2, <3>1, <3>2 DEF DirectoriesInHand, InHand
    <3> QED
      BY <3>3, <3>4, <3>5, <3>6, <3>7, <3>8 DEF PreviewInv
  <2> QED
    BY <1>8, <2>3, <2>4 DEF CompensateRows, g
<1>9. ASSUME NEW e \in Workers, CompensateFiles(e) PROVE PreviewInv' /\ MovesForward /\ SparesCurrent
  <2> DEFINE g == worker[e].gen
  <2>1. /\ worker[e].at = "files"
        /\ source' = source /\ created' = created /\ made' = made /\ attempts' = attempts
        /\ status' = status /\ rows' = rows /\ keeper' = keeper /\ mishaps' = mishaps
        /\ newest' = newest /\ pointer' = pointer /\ (Goto(e, "end") \/ Fail(e, "end"))
        /\ \/ files' = files \ {g} /\ disturbed' = disturbed
           \/ files' = files /\ disturbed' = TRUE
    BY <1>9 DEF CompensateFiles, WorkerOnly
  <2>2. /\ g \in Gens /\ g = worker[e].gen
        /\ worker[e].late \/ g # pointer.current
    BY <1>i, <2>1 DEF WorkerHasTask, CompensatesOther
  <2> HIDE DEF g
  <2>3. /\ worker' \in [Workers -> WorkerRows] /\ worker'[e].gen = g /\ worker'[e].at = "end"
        /\ worker'[e] # worker[e] /\ \A x \in Workers \ {e} : worker'[x] = worker[x]
    BY <1>w, <1>s, <2>1, <2>2
  <2>t. PreviewTypeOK'
    BY <1>t, <1>g, <2>1, <2>3
  <2>m. MovesForward /\ SparesCurrent
    BY <2>1, <2>2, <2>3 DEF MovesForward, SparesCurrent
  <2>va. TasksAreAsked' /\ PendingIsNewer' /\ PointerHasAsset'
    BY <1>i, <2>1 DEF TasksAreAsked, PendingIsNewer, PointerHasAsset
  <2>vc. WorkerHasTask' /\ CompensatesOther'
    BY <1>i, <2>1, <2>2, <2>3 DEF WorkerHasTask, CompensatesOther
  <2>vf. DirectoriesInHand'
    BY <1>i, <2>1, <2>2, <2>3 DEF DirectoriesInHand, InHand
  <2> QED
    BY <2>t, <2>m, <2>va, <2>vc, <2>vf DEF PreviewInv
<1>10. ASSUME NEW e \in Workers, EndAttempt(e) PROVE PreviewInv' /\ MovesForward /\ SparesCurrent
  <2> DEFINE g == worker[e].gen
             failed == worker[e].fails
             s == IF ~failed THEN "succeeded" ELSE IF AttemptsLeft(g) THEN "pending" ELSE "stopped"
  <2>1. /\ worker[e].at = "end" /\ worker' = [worker EXCEPT ![e] = WorkerIdle]
        /\ source' = source /\ created' = created /\ made' = made
        /\ files' = files /\ rows' = rows /\ keeper' = keeper /\ mishaps' = mishaps
        /\ newest' = newest /\ pointer' = pointer /\ disturbed' = disturbed
    BY <1>10 DEF EndAttempt
  <2>2. g \in Gens
    BY <1>i, <2>1 DEF WorkerHasTask
  <2>3. \/ status' = status /\ attempts' = attempts
        \/ /\ status[g] = "running"
           /\ attempts' = IF failed THEN [attempts EXCEPT ![g] = attempts[g] + 1] ELSE attempts
           /\ status' = [status EXCEPT ![g] = s]
    BY <1>10, <1>t, <2>2 DEF EndAttempt, RecordsEnd
  <2>4. /\ s \in PreviewStatuses /\ attempts[g] \in 0 .. MaxAttempts
        /\ status[g] = "running" => attempts[g] # MaxAttempts
        /\ status[g] = "running" => attempts[g] + 1 \in 0 .. MaxAttempts
        /\ failed /\ attempts[g] + 1 = MaxAttempts => s = "stopped"
    BY <1>t, <1>i, <1>z, <2>2 DEF AttemptsLeft, TasksAreAsked, PreviewStatuses
  <2> HIDE DEF s, failed
  <2>5. /\ status' \in [Gens -> PreviewStatuses] /\ \A h \in Gens \ {g} : status'[h] = status[h]
        /\ attempts' \in [Gens -> 0 .. MaxAttempts] /\ \A h \in Gens \ {g} : attempts'[h] = attempts[h]
        /\ attempts'[g] = MaxAttempts => status'[g] = "stopped"
        /\ status[g] = "none" => status'[g] = "none"
    <3>1. CASE status' = status /\ attempts' = attempts
      BY <1>t, <1>i, <2>2, <3>1 DEF TasksAreAsked
    <3>2. CASE /\ status[g] = "running" /\ status' = [status EXCEPT ![g] = s]
               /\ attempts' = IF failed THEN [attempts EXCEPT ![g] = attempts[g] + 1] ELSE attempts
      BY <1>t, <2>2, <2>4, <3>2
    <3> QED
      BY <2>3, <3>1, <3>2
  <2>6. /\ worker' \in [Workers -> WorkerRows] /\ worker'[e].at = "idle" /\ worker'[e].gen = NoGen
        /\ \A x \in Workers \ {e} : worker'[x] = worker[x]
        /\ worker[e].at = "end" /\ created' = created /\ files' = files /\ rows' = rows
        /\ keeper' = keeper
        /\ newest' = newest /\ pointer' = pointer /\ disturbed' = disturbed
    BY <1>t, <1>k, <2>1
  <2>t. PreviewTypeOK'
    BY <1>t, <1>g, <2>1, <2>5, <2>6
  <2>m. MovesForward /\ SparesCurrent
    BY <1>0, <2>1
  <2>va. TasksAreAsked'
    BY <1>i, <2>2, <2>5, <2>6 DEF TasksAreAsked, NoGen
  <2>vb. PendingIsNewer'
    BY <1>i, <2>2, <2>5, <2>6 DEF PendingIsNewer, NoGen
  <2>vc. WorkerHasTask'
    BY <1>i, <2>2, <2>5, <2>6 DEF WorkerHasTask, NoGen
  <2>vd. CompensatesOther'
    BY <1>i, <2>2, <2>5, <2>6 DEF CompensatesOther, NoGen
  <2>ve. PointerHasAsset'
    BY <1>i, <2>2, <2>5, <2>6 DEF PointerHasAsset, NoGen
  <2>vf. DirectoriesInHand'
    BY <1>i, <2>2, <2>5, <2>6 DEF DirectoriesInHand, InHand, NoGen
  <2> QED
    BY <2>t, <2>m, <2>va, <2>vb, <2>vc, <2>vd, <2>ve, <2>vf DEF PreviewInv
<1>11. ASSUME \/ \E job \in {"inventory", "clean"} : StartKeeper(job)
              \/ \E g \in Gens : Measure(g)
              \/ UpsertMeasured \/ StopKeeper
       PROVE  PreviewInv' /\ MovesForward /\ SparesCurrent
  <2>1. /\ source' = source /\ created' = created /\ made' = made /\ pointer' = pointer
        /\ attempts' = attempts
        /\ status' = status /\ files' = files /\ worker' = worker
        /\ mishaps' = mishaps /\ newest' = newest /\ disturbed' = disturbed
    BY <1>11 DEF StartKeeper, Measure, UpsertMeasured, StopKeeper, KeeperOnly
  <2>2. /\ keeper.at = NoGen \/ keeper.job # "clean"
        /\ keeper' \in KeeperRows /\ rows \subseteq rows' /\ rows' \subseteq Gens
    <3>1. CASE \E job \in {"inventory", "clean"} : StartKeeper(job)
      BY <3>1, <1>t, <1>k, <1>z DEF StartKeeper, KeeperRows
    <3>2. CASE \E g \in Gens : Measure(g)
      BY <3>2, <1>t, <1>z DEF Measure, KeeperRows
    <3>3. CASE UpsertMeasured
      BY <3>3, <1>t, <1>z, <1>y DEF UpsertMeasured, KeeperRows
    <3>4. CASE StopKeeper
      BY <3>4, <1>t, <1>k DEF StopKeeper
    <3> QED
      BY <1>11, <3>1, <3>2, <3>3, <3>4
  <2>3. \A g \in files : g # NoGen
    BY <1>t, <1>z
  <2>t. PreviewTypeOK'
    BY <1>t, <1>g, <2>1, <2>2
  <2>m. MovesForward /\ SparesCurrent
    BY <1>0, <2>1
  <2>va. TasksAreAsked'
    BY <1>i, <2>1, <2>2, <2>3 DEF TasksAreAsked, NoGen
  <2>vb. PendingIsNewer'
    BY <1>i, <2>1, <2>2, <2>3 DEF PendingIsNewer, NoGen
  <2>vc. WorkerHasTask'
    BY <1>i, <2>1, <2>2, <2>3 DEF WorkerHasTask, NoGen
  <2>vd. CompensatesOther'
    BY <1>i, <2>1, <2>2, <2>3 DEF CompensatesOther, NoGen
  <2>ve. PointerHasAsset'
    BY <1>i, <2>1, <2>2, <2>3 DEF PointerHasAsset, NoGen
  <2>vf. DirectoriesInHand'
    BY <1>i, <2>1, <2>2, <2>3 DEF DirectoriesInHand, InHand, NoGen
  <2> QED
    BY <2>t, <2>m, <2>va, <2>vb, <2>vc, <2>vd, <2>ve, <2>vf DEF PreviewInv
<1>12. ASSUME NEW g \in Gens, CleanRows(g) PROVE PreviewInv' /\ MovesForward /\ SparesCurrent
  <2>1. /\ keeper.job = "clean" /\ keeper.at = NoGen /\ DeleteRows(g)
        /\ keeper' = [keeper EXCEPT !.at = g]
        /\ source' = source /\ created' = created /\ made' = made /\ attempts' = attempts
        /\ status' = status /\ files' = files /\ worker' = worker
        /\ mishaps' = mishaps /\ newest' = newest /\ disturbed' = disturbed
    BY <1>12 DEF CleanRows, KeeperOnly
  <2>2. keeper' \in KeeperRows /\ keeper'.job = "clean" /\ keeper'.at = g
    BY <1>t, <1>z, <2>1 DEF KeeperRows
  <2>3. /\ rows' = rows \ {g} /\ pointer' \in PointerRows /\ pointer'.pending = pointer.pending
        /\ pointer'.current = IF pointer.current = g THEN NoGen ELSE pointer.current
    BY <1>d, <2>1
  <2>4. /\ \A h \in files : h # NoGen
        /\ keeper.job = "clean" /\ keeper.at = NoGen /\ created' = created /\ attempts' = attempts
        /\ status' = status /\ files' = files /\ worker' = worker /\ newest' = newest
        /\ disturbed' = disturbed
        /\ \A e \in Workers : worker[e].at \in {"rows", "files"} => worker[e].gen # NoGen
    BY <1>t, <1>i, <1>z, <2>1 DEF WorkerHasTask
  <2>t. PreviewTypeOK'
    BY <1>t, <1>g, <2>1, <2>2, <2>3
  <2>m. MovesForward /\ SparesCurrent
    BY <2>3, <2>4 DEF MovesForward, SparesCurrent
  <2>va. TasksAreAsked'
    BY <1>i, <2>2, <2>3, <2>4 DEF TasksAreAsked, NoGen
  <2>vb. PendingIsNewer'
    BY <1>i, <2>2, <2>3, <2>4 DEF PendingIsNewer, NoGen
  <2>vc. WorkerHasTask'
    BY <1>i, <2>2, <2>3, <2>4 DEF WorkerHasTask, NoGen
  <2>vd. CompensatesOther'
    BY <1>i, <2>2, <2>3, <2>4 DEF CompensatesOther, NoGen
  <2>ve. PointerHasAsset'
    BY <1>i, <2>2, <2>3, <2>4 DEF PointerHasAsset, NoGen
  <2>vf. DirectoriesInHand'
    BY <1>i, <2>2, <2>3, <2>4 DEF DirectoriesInHand, InHand, NoGen
  <2> QED
    BY <2>t, <2>m, <2>va, <2>vb, <2>vc, <2>vd, <2>ve, <2>vf DEF PreviewInv
<1>13. ASSUME CleanFiles PROVE PreviewInv' /\ MovesForward /\ SparesCurrent
  <2>1. /\ keeper.job = "clean" /\ keeper.at # NoGen /\ keeper' = [keeper EXCEPT !.at = NoGen]
        /\ \/ files' = files \ {keeper.at} /\ disturbed' = disturbed
           \/ files' = files /\ disturbed' = TRUE
        /\ source' = source /\ created' = created /\ made' = made /\ attempts' = attempts
        /\ status' = status /\ worker' = worker /\ pointer' = pointer /\ rows' = rows
        /\ mishaps' = mishaps /\ newest' = newest
    BY <1>13 DEF CleanFiles, KeeperOnly
  <2>2. keeper' \in KeeperRows
    BY <1>t, <1>z, <2>1 DEF KeeperRows
  <2>3. /\ keeper.job = "clean" /\ created' = created /\ attempts' = attempts
        /\ status' = status /\ worker' = worker /\ pointer' = pointer /\ rows' = rows
        /\ newest' = newest
        /\ \/ files' = files \ {keeper.at} /\ disturbed' = disturbed
           \/ files' = files /\ disturbed' = TRUE
    BY <2>1
  <2>t. PreviewTypeOK'
    BY <1>t, <1>g, <2>1, <2>2
  <2>m. MovesForward /\ SparesCurrent
    BY <2>3 DEF MovesForward, SparesCurrent
  <2>va. TasksAreAsked'
    BY <1>i, <2>3 DEF TasksAreAsked, NoGen
  <2>vb. PendingIsNewer'
    BY <1>i, <2>3 DEF PendingIsNewer, NoGen
  <2>vc. WorkerHasTask'
    BY <1>i, <2>3 DEF WorkerHasTask, NoGen
  <2>vd. CompensatesOther'
    BY <1>i, <2>3 DEF CompensatesOther, NoGen
  <2>ve. PointerHasAsset'
    BY <1>i, <2>3 DEF PointerHasAsset, NoGen
  <2>vf. DirectoriesInHand'
    BY <1>i, <2>3 DEF DirectoriesInHand, InHand, NoGen
  <2> QED
    BY <2>t, <2>m, <2>va, <2>vb, <2>vc, <2>vd, <2>ve, <2>vf DEF PreviewInv
<1>14. ASSUME Crash PROVE PreviewInv' /\ MovesForward /\ SparesCurrent
  <2>1. /\ Mishap /\ disturbed' = TRUE /\ worker' = [e \in Workers |-> WorkerIdle] /\ keeper' = KeeperOff
        /\ source' = source /\ created' = created /\ made' = made /\ attempts' = attempts
        /\ pointer' = pointer /\ rows' = rows /\ files' = files /\ newest' = newest
    BY <1>14 DEF Crash
  <2>2. /\ status' \in [Gens -> PreviewStatuses]
        /\ \A g \in Gens : status'[g] = status[g] \/ (status[g] = "running" /\ status'[g] = "pending")
    BY <1>14, <1>t DEF Crash, RecoverRunning, PreviewStatuses
  <2>3. /\ worker' \in [Workers -> WorkerRows] /\ keeper' \in KeeperRows
        /\ \A e \in Workers : worker'[e].at = "idle"
        /\ created' = created /\ attempts' = attempts /\ disturbed' = TRUE
        /\ pointer' = pointer /\ rows' = rows /\ files' = files /\ newest' = newest
    BY <1>k, <2>1
  <2>t. PreviewTypeOK'
    BY <1>t, <1>g, <2>1, <2>2, <2>3
  <2>m. MovesForward /\ SparesCurrent
    BY <1>0, <2>1
  <2>va. TasksAreAsked'
    BY <1>i, <2>2, <2>3 DEF TasksAreAsked, NoGen
  <2>vb. PendingIsNewer'
    BY <1>i, <2>2, <2>3 DEF PendingIsNewer, NoGen
  <2>vc. WorkerHasTask'
    BY <1>i, <2>2, <2>3 DEF WorkerHasTask, NoGen
  <2>vd. CompensatesOther'
    BY <1>i, <2>2, <2>3 DEF CompensatesOther, NoGen
  <2>ve. PointerHasAsset'
    BY <1>i, <2>2, <2>3 DEF PointerHasAsset, NoGen
  <2>vf. DirectoriesInHand'
    BY <1>i, <2>2, <2>3 DEF DirectoriesInHand, InHand, NoGen
  <2> QED
    BY <2>t, <2>m, <2>va, <2>vb, <2>vc, <2>vd, <2>ve, <2>vf DEF PreviewInv
<1>15. CASE UNCHANGED previewVars
  <2>1. /\ source' = source /\ created' = created /\ made' = made /\ pointer' = pointer
        /\ status' = status
        /\ attempts' = attempts /\ worker' = worker /\ files' = files /\ rows' = rows
        /\ keeper' = keeper
        /\ mishaps' = mishaps /\ newest' = newest /\ disturbed' = disturbed
    BY <1>15 DEF previewVars
  <2>t. PreviewTypeOK'
    BY <1>t, <1>g, <2>1
  <2>m. MovesForward /\ SparesCurrent
    BY <1>0, <2>1
  <2>va. TasksAreAsked'
    BY <1>i, <2>1 DEF TasksAreAsked, NoGen
  <2>vb. PendingIsNewer'
    BY <1>i, <2>1 DEF PendingIsNewer, NoGen
  <2>vc. WorkerHasTask'
    BY <1>i, <2>1 DEF WorkerHasTask, NoGen
  <2>vd. CompensatesOther'
    BY <1>i, <2>1 DEF CompensatesOther, NoGen
  <2>ve. PointerHasAsset'
    BY <1>i, <2>1 DEF PointerHasAsset, NoGen
  <2>vf. DirectoriesInHand'
    BY <1>i, <2>1 DEF DirectoriesInHand, InHand, NoGen
  <2> QED
    BY <2>t, <2>m, <2>va, <2>vb, <2>vc, <2>vd, <2>ve, <2>vf DEF PreviewInv
<1>16. ASSUME NEW e \in Workers, WorkerStep(e) PROVE PreviewInv' /\ MovesForward /\ SparesCurrent
  BY <1>16, <1>4, <1>5, <1>6, <1>7, <1>8, <1>9, <1>10 DEF WorkerStep
<1>17. CASE KeeperStep
  BY <1>17, <1>11, <1>12, <1>13 DEF KeeperStep
<1> QED
  BY <1>1, <1>2, <1>3, <1>14, <1>15, <1>16, <1>17 DEF PreviewNext

\* A pointer has its asset, and no directory is left unknown
\* (timeline_preview_service.go).
THEOREM PreviewsFitAlways == PreviewSpec => [](PointerHasAsset /\ NoUnknownDirectory)
<1> QED
  BY PreviewInitInv, PreviewHolds, PreviewStep, PTL DEF PreviewSpec

-----------------------------------------------------------------------------
(***************************************************************************)
(* Together.  A behaviour of MCRequests runs the component it has in focus, *)
(* so the invariant asks of a component only what it does in focus.        *)
(***************************************************************************)

\* The invariant of the component in focus.
RequestsInv ==
  /\ focus \in Components
  /\ focus = "spaces" => SpacesInv
  /\ focus = "shares" => SharesInv
  /\ focus = "sessions" => SessionsInv
  /\ focus = "settings" => SettingsInv
  /\ focus = "rules" => RulesInv
  /\ focus = "bookmarks" => BookmarksInv
  /\ focus = "uploads" => UploadsInv
  /\ focus = "subtitles" => SubtitlesInv
  /\ focus = "exports" => ExportsInv
  /\ focus = "covers" => CoversInv
  /\ focus = "encoders" => EncodersInv
  /\ focus = "writeback" => WritebackInv
  /\ focus = "previews" => PreviewInv

\* It holds at first, whichever component that is.
LEMMA RequestsInitInv == RequestsInit => RequestsInv
  BY SpacesInitInv, SharesInitInv, SessionsInitInv, SettingsInitInv, RulesInitInv, BookmarksInitInv,
     UploadsInitInv, SubtitlesInitInv, ExportsInitInv, CoversInitInv, EncodersInitInv,
     WritebackInitInv, PreviewInitInv DEF RequestsInit, RequestsInv

\* What a step leaves alone when it is one of another component.
LEMMA OthersStay ==
  ASSUME NEW c \in Components, Others(c)
  PROVE  /\ focus' = focus
         /\ c # "spaces" => UNCHANGED spaceVars
         /\ c # "bookmarks" => UNCHANGED <<bookmark, sent>>
         /\ c # "previews" => UNCHANGED <<pointer, files>>
  BY DEF Others, bookmarkState, previewState

\* Every step keeps the invariant: it is one of the component in focus, or none.
LEMMA RequestsStep == RequestsInv /\ [RequestsNext]_requestsVars => RequestsInv'
<1> SUFFICES ASSUME RequestsInv, [RequestsNext]_requestsVars PROVE RequestsInv'
  OBVIOUS
<1>f. focus \in Components
  BY DEF RequestsInv
<1>1. CASE focus = "spaces" /\ SpacesNext /\ focus' = focus
  <2>1. SpacesInv
    BY <1>1 DEF RequestsInv
  <2>2. SpacesInv'
    BY <1>1, <2>1, SpacesStep
  <2> QED
    BY <1>1, <1>f, <2>2 DEF RequestsInv
<1>2. CASE focus = "shares" /\ SharesNext /\ focus' = focus
  <2>1. SharesInv
    BY <1>2 DEF RequestsInv
  <2>2. SharesInv'
    BY <1>2, <2>1, SharesStep
  <2> QED
    BY <1>2, <1>f, <2>2 DEF RequestsInv
<1>3. CASE focus = "sessions" /\ SessionsNext /\ focus' = focus
  <2>1. SessionsInv
    BY <1>3 DEF RequestsInv
  <2>2. SessionsInv'
    BY <1>3, <2>1, SessionsStep
  <2> QED
    BY <1>3, <1>f, <2>2 DEF RequestsInv
<1>4. CASE focus = "settings" /\ SettingsNext /\ focus' = focus
  <2>1. SettingsInv
    BY <1>4 DEF RequestsInv
  <2>2. SettingsInv'
    BY <1>4, <2>1, SettingsStep
  <2> QED
    BY <1>4, <1>f, <2>2 DEF RequestsInv
<1>5. CASE focus = "rules" /\ RulesNext /\ focus' = focus
  <2>1. RulesInv
    BY <1>5 DEF RequestsInv
  <2>2. RulesInv'
    BY <1>5, <2>1, RulesStep
  <2> QED
    BY <1>5, <1>f, <2>2 DEF RequestsInv
<1>6. CASE focus = "bookmarks" /\ BookmarksNext /\ focus' = focus
  <2>1. BookmarksInv
    BY <1>6 DEF RequestsInv
  <2>2. BookmarksInv'
    BY <1>6, <2>1, BookmarksStep
  <2> QED
    BY <1>6, <1>f, <2>2 DEF RequestsInv
<1>7. CASE focus = "uploads" /\ UploadsNext /\ focus' = focus
  <2>1. UploadsInv
    BY <1>7 DEF RequestsInv
  <2>2. UploadsInv'
    BY <1>7, <2>1, UploadsStep
  <2> QED
    BY <1>7, <1>f, <2>2 DEF RequestsInv
<1>8. CASE focus = "subtitles" /\ SubtitlesNext /\ focus' = focus
  <2>1. SubtitlesInv
    BY <1>8 DEF RequestsInv
  <2>2. SubtitlesInv'
    BY <1>8, <2>1, SubtitlesStep
  <2> QED
    BY <1>8, <1>f, <2>2 DEF RequestsInv
<1>9. CASE focus = "exports" /\ ExportsNext /\ focus' = focus
  <2>1. ExportsInv
    BY <1>9 DEF RequestsInv
  <2>2. ExportsInv'
    BY <1>9, <2>1, ExportsStep
  <2> QED
    BY <1>9, <1>f, <2>2 DEF RequestsInv
<1>10. CASE focus = "covers" /\ CoversNext /\ focus' = focus
  <2>1. CoversInv
    BY <1>10 DEF RequestsInv
  <2>2. CoversInv'
    BY <1>10, <2>1, CoversStep
  <2> QED
    BY <1>10, <1>f, <2>2 DEF RequestsInv
<1>11. CASE focus = "encoders" /\ EncodersNext /\ focus' = focus
  <2>1. EncodersInv
    BY <1>11 DEF RequestsInv
  <2>2. EncodersInv'
    BY <1>11, <2>1, EncodersStep
  <2> QED
    BY <1>11, <1>f, <2>2 DEF RequestsInv
<1>12. CASE focus = "writeback" /\ WritebackNext /\ focus' = focus
  <2>1. WritebackInv
    BY <1>12 DEF RequestsInv
  <2>2. WritebackInv'
    BY <1>12, <2>1, WritebackStep
  <2> QED
    BY <1>12, <1>f, <2>2 DEF RequestsInv
<1>13. CASE focus = "previews" /\ PreviewNext /\ focus' = focus
  <2>1. PreviewInv
    BY <1>13 DEF RequestsInv
  <2>2. PreviewInv'
    BY <1>13, <2>1, PreviewStep
  <2> QED
    BY <1>13, <1>f, <2>2 DEF RequestsInv
<1>14. CASE UNCHANGED requestsVars
  <2>1. /\ focus' = focus
        /\ UNCHANGED spaceVars
        /\ UNCHANGED shareVars
        /\ UNCHANGED sessionVars
        /\ UNCHANGED settingsVars
        /\ UNCHANGED ruleVars
        /\ UNCHANGED bookmarkVars
        /\ UNCHANGED uploadVars
        /\ UNCHANGED subtitleVars
        /\ UNCHANGED exportVars
        /\ UNCHANGED coverVars
        /\ UNCHANGED encoderVars
        /\ UNCHANGED writebackVars
        /\ UNCHANGED previewVars
    BY <1>14 DEF requestsVars, sessionState, bookmarkState, uploadState, subtitleState, exportState,
           coverState, encoderState, writebackState, previewState, sessionVars, bookmarkVars,
           uploadVars, subtitleVars, exportVars, coverVars, encoderVars, writebackVars, previewVars
  <2>2. focus = "spaces" => SpacesInv'
    BY <2>1, SpacesStep DEF RequestsInv
  <2>3. focus = "shares" => SharesInv'
    BY <2>1, SharesStep DEF RequestsInv
  <2>4. focus = "sessions" => SessionsInv'
    BY <2>1, SessionsStep DEF RequestsInv
  <2>5. focus = "settings" => SettingsInv'
    BY <2>1, SettingsStep DEF RequestsInv
  <2>6. focus = "rules" => RulesInv'
    BY <2>1, RulesStep DEF RequestsInv
  <2>7. focus = "bookmarks" => BookmarksInv'
    BY <2>1, BookmarksStep DEF RequestsInv
  <2>8. focus = "uploads" => UploadsInv'
    BY <2>1, UploadsStep DEF RequestsInv
  <2>9. focus = "subtitles" => SubtitlesInv'
    BY <2>1, SubtitlesStep DEF RequestsInv
  <2>10. focus = "exports" => ExportsInv'
    BY <2>1, ExportsStep DEF RequestsInv
  <2>11. focus = "covers" => CoversInv'
    BY <2>1, CoversStep DEF RequestsInv
  <2>12. focus = "encoders" => EncodersInv'
    BY <2>1, EncodersStep DEF RequestsInv
  <2>13. focus = "writeback" => WritebackInv'
    BY <2>1, WritebackStep DEF RequestsInv
  <2>14. focus = "previews" => PreviewInv'
    BY <2>1, PreviewStep DEF RequestsInv
  <2> QED
    BY <1>f, <2>1, <2>2, <2>3, <2>4, <2>5, <2>6, <2>7, <2>8, <2>9, <2>10, <2>11, <2>12, <2>13, <2>14
       DEF RequestsInv
<1>15. ASSUME NEW c \in Components, Others(c) PROVE focus' = focus
  BY <1>15, OthersStay
<1>16. {"spaces", "shares", "sessions", "settings", "rules", "bookmarks", "uploads", "subtitles",
        "exports", "covers", "encoders", "writeback", "previews"} \subseteq Components
  BY DEF Components
<1> QED
  BY <1>1, <1>2, <1>3, <1>4, <1>5, <1>6, <1>7, <1>8, <1>9, <1>10, <1>11, <1>12, <1>13, <1>14, <1>15,
     <1>16 DEF RequestsNext

\* The invariant of the component in focus always holds.
THEOREM RequestsInvAlways == RequestsSpec => []RequestsInv
<1> QED
  BY RequestsInitInv, RequestsStep, PTL DEF RequestsSpec

\* The state of the component in focus has the types its module states.
THEOREM RequestsAreTyped == RequestsSpec => []RequestsTypes
<1>1. RequestsInv => RequestsTypes
  <2> SUFFICES ASSUME RequestsInv PROVE RequestsTypes
    OBVIOUS
  <2>1. focus \in Components
    BY DEF RequestsInv
  <2>2. focus = "spaces" => SpacesTypeOK
    BY DEF RequestsInv, SpacesInv
  <2>3. focus = "shares" => SharesTypeOK
    BY DEF RequestsInv, SharesInv
  <2>4. focus = "sessions" => SessionsTypeOK
    BY DEF RequestsInv, SessionsInv
  <2>5. focus = "settings" => SettingsTypeOK
    BY DEF RequestsInv, SettingsInv
  <2>6. focus = "rules" => MediaRulesTypeOK
    BY DEF RequestsInv, RulesInv
  <2>7. focus = "bookmarks" => BookmarksTypeOK
    BY DEF RequestsInv, BookmarksInv
  <2>8. focus = "uploads" => UploadsTypeOK
    BY DEF RequestsInv, UploadsInv
  <2>9. focus = "subtitles" => SubtitlesTypeOK
    BY DEF RequestsInv, SubtitlesInv
  <2>10. focus = "exports" => ExportsTypeOK
    BY DEF RequestsInv, ExportsInv
  <2>11. focus = "covers" => CoversTypeOK
    BY DEF RequestsInv, CoversInv
  <2>12. focus = "encoders" => EncodersTypeOK
    BY DEF RequestsInv, EncodersInv
  <2>13. focus = "writeback" => WritebackTypeOK
    BY DEF RequestsInv, WritebackInv
  <2>14. focus = "previews" => PreviewTypeOK
    BY DEF RequestsInv, PreviewInv
  <2>15. CASE focus = "spaces"
    BY <2>2, <2>15 DEF RequestsTypes
  <2>16. CASE focus = "shares"
    BY <2>3, <2>16 DEF RequestsTypes
  <2>17. CASE focus = "sessions"
    BY <2>4, <2>17 DEF RequestsTypes
  <2>18. CASE focus = "settings"
    BY <2>5, <2>18 DEF RequestsTypes
  <2>19. CASE focus = "rules"
    BY <2>6, <2>19 DEF RequestsTypes
  <2>20. CASE focus = "bookmarks"
    BY <2>7, <2>20 DEF RequestsTypes
  <2>21. CASE focus = "uploads"
    BY <2>8, <2>21 DEF RequestsTypes
  <2>22. CASE focus = "subtitles"
    BY <2>9, <2>22 DEF RequestsTypes
  <2>23. CASE focus = "exports"
    BY <2>10, <2>23 DEF RequestsTypes
  <2>24. CASE focus = "covers"
    BY <2>11, <2>24 DEF RequestsTypes
  <2>25. CASE focus = "encoders"
    BY <2>12, <2>25 DEF RequestsTypes
  <2>26. CASE focus = "writeback"
    BY <2>13, <2>26 DEF RequestsTypes
  <2>27. CASE focus = "previews"
    BY <2>14, <2>27 DEF RequestsTypes
  <2> QED
    BY <2>1, <2>15, <2>16, <2>17, <2>18, <2>19, <2>20, <2>21, <2>22, <2>23, <2>24, <2>25, <2>26,
       <2>27 DEF Components
<1> QED
  BY <1>1, RequestsInvAlways, PTL

\* However requests overlap, one user owns a space (space/service.go), a limited share
\* is used as often as its limit says (share/service.go), and a session ends with what it
\* was made from (auth).
THEOREM AccessHoldsAlways == RequestsSpec => []AccessHolds
<1>1. RequestsInv => AccessHolds
  <2> SUFFICES ASSUME RequestsInv PROVE AccessHolds
    OBVIOUS
  <2>1. focus = "spaces" => OneOwner
    BY DEF RequestsInv, SpacesInv
  <2>2. focus = "shares" => SharesHold
    BY DEF RequestsInv, SharesInv
  <2>3. focus = "sessions" => SessionsHold
    BY DEF RequestsInv, SessionsInv
  <2> QED
    BY <2>1, <2>2, <2>3 DEF AccessHolds
<1> QED
  BY <1>1, RequestsInvAlways, PTL

\* Whatever overlaps, fails or crashes, a row that offers a file has it, and the file is
\* the one it was made or sent for (upload.go, subtitle/upload.go, media_export.go,
\* cover_repository.go, timeline_preview_service.go).
THEOREM FilesFitRowsAlways == RequestsSpec => []FilesFitRows
<1>1. RequestsInv => FilesFitRows
  <2> SUFFICES ASSUME RequestsInv PROVE FilesFitRows
    OBVIOUS
  <2>1. focus = "uploads" => UploadsSafe
    BY UploadsHold DEF RequestsInv
  <2>2. focus = "subtitles" => SubtitlesSafe
    BY SubtitlesHold DEF RequestsInv
  <2>3. focus = "exports" => ExportsSafe
    BY ExportsHold DEF RequestsInv
  <2>4. focus = "covers" => CoversSafe
    BY CoversHold DEF RequestsInv
  <2>5. focus = "previews" => PointerHasAsset /\ NoUnknownDirectory
    BY PreviewHolds DEF RequestsInv
  <2> QED
    BY <2>1, <2>2, <2>3, <2>4, <2>5 DEF FilesFitRows
<1> QED
  BY <1>1, RequestsInvAlways, PTL

\* What a user has written is kept: the content of an image whose tags are written back
\* (metadata_writeback.go), a change of a bookmark that was confirmed
\* (bookmark_service.go).
THEOREM EditsAreKeptAlways == RequestsSpec => []EditsAreKept
<1>1. RequestsInv => EditsAreKept
  <2> SUFFICES ASSUME RequestsInv PROVE EditsAreKept
    OBVIOUS
  <2>1. focus = "writeback" => ContentIsKept /\ RollbackRestores
    BY WritebackHolds DEF RequestsInv
  <2>2. focus = "bookmarks" => BookmarksSafe
    BY DEF RequestsInv, BookmarksInv
  <2> QED
    BY <2>1, <2>2 DEF EditsAreKept
<1> QED
  BY <1>1, RequestsInvAlways, PTL

\* What the server goes by is what was decided last: settings and their undoing
\* (settings, rollback), the rows of the media type rules (media_type_rules.go), the
\* encoders of the FFmpeg in use (capability_service.go, fallback.go).
THEOREM DecisionsHoldAlways == RequestsSpec => []DecisionsHold
<1>1. RequestsInv => DecisionsHold
  <2> SUFFICES ASSUME RequestsInv PROVE DecisionsHold
    OBVIOUS
  <2>1. focus = "settings" => RunsAsStored /\ UndoesWhole
    BY SettingsHold DEF RequestsInv
  <2>2. focus = "rules" => OneRowPerKey /\ BuiltinKeepsType
    BY DEF RequestsInv, RulesInv
  <2>3. focus = "encoders" => SnapshotFits /\ RowsFit /\ FallbackSaves
    BY DEF RequestsInv, EncodersInv
  <2> QED
    BY <2>1, <2>2, <2>3 DEF DecisionsHold, MediaRulesSafe
<1> QED
  BY <1>1, RequestsInvAlways, PTL

\* The media types a library goes by are those its rules decide, the rows of the library
\* before those of the space (media_type_rules.go).
THEOREM RulesDecideAlways == RequestsSpec => []RulesDecide
<1>1. RequestsInv => RulesDecide
  BY PolicyDecides DEF RequestsInv, RulesInv, RulesDecide
<1> QED
  BY <1>1, RequestsInvAlways, PTL

\* A step that comes too late changes nothing of what has overtaken it: an ownership
\* passes on only by a transfer of its owner (space/service.go), the previews of a media
\* become current in the order they were asked for and a compensation spares the current
\* one (timeline_preview_service.go).
THEOREM LateStepsYieldAlways == RequestsSpec => LateStepsYield
<1>1. RequestsInv /\ [RequestsNext]_requestsVars
        => [GivesOwnership /\ MovesForward /\ SparesCurrent]_requestsVars
  <2> SUFFICES ASSUME RequestsInv, RequestsNext PROVE GivesOwnership /\ MovesForward /\ SparesCurrent
    OBVIOUS
  <2>1. UNCHANGED spaceVars => GivesOwnership
    BY OwnershipStep
  <2>2. UNCHANGED <<pointer, files>> => MovesForward /\ SparesCurrent
    BY DEF MovesForward, SparesCurrent
  <2>3. CASE focus = "spaces" /\ SpacesNext /\ Others("spaces")
    BY <2>2, <2>3, OwnershipStep, OthersStay DEF Components
  <2>4. CASE focus = "previews" /\ PreviewNext /\ Others("previews")
    <3>1. PreviewInv
      BY <2>4 DEF RequestsInv
    <3>2. MovesForward /\ SparesCurrent
      BY <2>4, <3>1, PreviewStep
    <3> QED
      BY <2>1, <2>4, <3>2, OthersStay DEF Components
  <2>5. CASE \E c \in Components \ {"spaces", "previews"} : Others(c)
    BY <2>1, <2>2, <2>5, OthersStay
  <2> QED
    BY <2>3, <2>4, <2>5 DEF RequestsNext, Components
<1> QED
  BY <1>1, RequestsInvAlways, PTL DEF LateStepsYield, RequestsSpec

\* Requests on a bookmark are linearizable, through a busy database and second attempts
\* (bookmark_service.go).
THEOREM BookmarkIsRegisterAlways == RequestsSpec => BookmarkIsRegister
<1>1. RequestsInit => Register!Init
  BY RegisterInit DEF RequestsInit
<1>2. RequestsInv /\ [RequestsNext]_requestsVars => [Register!Next]_(Register!vars)
  <2> SUFFICES ASSUME RequestsInv, [RequestsNext]_requestsVars PROVE [Register!Next]_(Register!vars)
    OBVIOUS
  <2>1. UNCHANGED <<bookmark, sent>> => UNCHANGED Register!vars
    BY DEF CallOf, Register!vars
  <2>2. CASE focus = "bookmarks" /\ BookmarksNext
    BY <2>2, RegisterStep DEF RequestsInv
  <2>3. CASE \E c \in Components \ {"bookmarks"} : Others(c)
    BY <2>1, <2>3, OthersStay
  <2>4. CASE UNCHANGED requestsVars
    BY <2>1, <2>4 DEF requestsVars, bookmarkState
  <2> QED
    BY <2>2, <2>3, <2>4 DEF RequestsNext, Components
<1> QED
  BY <1>1, <1>2, RequestsInvAlways, PTL DEF BookmarkIsRegister, Register!Spec, RequestsSpec
===============================================================================
