-------------------------- MODULE UpkeepProofs --------------------------------
(***************************************************************************)
(* Theorems about how the server keeps itself, its tools and its files:    *)
(* the recycle bin, migrations, self-update, tools and thumbnails, each    *)
(* with the inductive invariant it needs, and all that is checked together *)
(* in MCUpkeep, for every value of the constants.                          *)
(***************************************************************************)
EXTENDS MCUpkeep, FiniteSetTheorems, WellFoundedInduction, TLAPS

\* A set of numbers has a least one: what a CHOOSE of the least finds.
LEMMA LeastNatural ==
  ASSUME NEW S \in SUBSET Nat, S # {} PROVE \E m \in S : \A n \in S : m <= n
<1> DEFINE R == {ss \in Nat \X Nat : ss[1] < ss[2]}
<1>1. IsWellFoundedOn(R, Nat)
  BY NatLessThanWellFounded DEF OpToRel
<1>2. \A x, y \in Nat : <<y, x>> \in R <=> y < x
  OBVIOUS
<1> HIDE DEF R
<1>3. PICK x \in S : \A y \in S : ~ (<<y, x>> \in R)
  BY <1>1, WFMin
<1>4. \A y \in S : y \in Nat /\ x \in Nat /\ ~ (y < x)
  BY <1>2, <1>3
<1> QED
  BY <1>4

\* A step of the budget of mishaps.
LEMMA MishapsMove ==
  ASSUME mishaps \in 0 .. MaxMishaps, Mishap \/ Smooth
  PROVE  mishaps' \in 0 .. MaxMishaps /\ mishaps' \in {mishaps, mishaps + 1}
  BY FaultsAssumption DEF Mishap, Smooth

-----------------------------------------------------------------------------
(***************************************************************************)
(* Tools (tools/installer.go). A version whose path is applied, stored or  *)
(* about to be is in its directory, in the backup of a swap under way or   *)
(* cut; and where a build is, the paths that it does not have are          *)
(* remembered.                                                             *)
(***************************************************************************)

\* The types of the module, in the form the steps use.
ToolTypes ==
  /\ downloadTask \in
       [Sources -> {"none", "pending", "running", "succeeded", "failed", "canceled"}]
  /\ installer \in [Installers -> InstallerRecords]
  /\ toolDir \in [ToolVersions -> Sources \cup {"none"}]
  /\ runtimeTool \in ToolPaths \cup {NoTool} /\ storedTool \in ToolPaths \cup {NoTool}
  /\ cut \subseteq ToolVersions /\ displaced \subseteq ToolPaths
  /\ mishaps \in 0 .. MaxMishaps

\* An execution has a task while it is at work, and between the renames of its swap
\* the build of that version that it moved aside.
ExecutionsFit ==
  \A i \in Installers :
    /\ installer[i].at # "idle" => installer[i].source \in Sources
    /\ i \in MidSwap => installer[i].backup \in Sources
                        /\ VersionOf(installer[i].backup) = Target(i)

\* A directory holds a build of its version.
DirsFit == \A v \in ToolVersions : toolDir[v] # "none" => VersionOf(toolDir[v]) = v

\* A version is not lost: it is there, in hand between two renames or cut.
VersionHeld(v) == ~Free(v) \/ BeingSwapped(v) \/ v \in cut

\* A version whose path is applied, stored or about to be.
Wanted(v) ==
  \/ v \in {runtimeTool.version, storedTool.version}
  \/ \E i \in Installers : installer[i].at \in {"apply", "store", "succeed"} /\ Target(i) = v

\* It is not lost.
InUseIsHeld == \A v \in ToolVersions : Wanted(v) => VersionHeld(v)

\* A path that is not there although its version is has been displaced.
AbsentIsDisplaced == \A p \in ToolPaths : ~Free(p.version) => There(p) \/ p \in displaced

\* The inductive invariant of the tools.
ToolInstallInv == ToolTypes /\ ExecutionsFit /\ DirsFit /\ InUseIsHeld /\ AbsentIsDisplaced

\* What a source gives.
LEMMA PathsAre ==
  /\ \A s \in Sources : VersionOf(s) \in ToolVersions /\ PathOf(s) \in ToolPaths
                        /\ PathOf(s).version = VersionOf(s) /\ PathOf(s).layout = LayoutOf(s)
  /\ \A p \in ToolPaths : p.version \in ToolVersions
                        /\ \A q \in ToolPaths : p.version = q.version /\ p.layout = q.layout => p = q
  /\ "none" \notin Sources /\ "none" \notin ToolVersions /\ NoTool \notin ToolPaths
<1>1. \A s \in Sources : VersionOf(s) \in ToolVersions
  BY ToolInstallAssumption
<1>2. \A s \in Sources : PathOf(s).version = VersionOf(s) /\ PathOf(s).layout = LayoutOf(s)
  BY DEF PathOf
<1>3. \A s \in Sources : PathOf(s) \in ToolPaths
  BY DEF ToolPaths
<1>4. ASSUME NEW p \in ToolPaths
      PROVE  p.version \in ToolVersions /\ \E s \in Sources : p = PathOf(s)
  BY <1>1, <1>2 DEF ToolPaths
<1>5. ASSUME NEW p \in ToolPaths, NEW q \in ToolPaths, p.version = q.version, p.layout = q.layout
      PROVE  p = q
  <2>1. PICK s \in Sources, r \in Sources : p = PathOf(s) /\ q = PathOf(r)
    BY <1>4
  <2> QED
    BY <2>1, <1>5, <1>2 DEF PathOf
<1>6. NoTool \notin ToolPaths
  <2>1. NoTool.version = "none"
    BY DEF NoTool
  <2> QED
    BY <2>1, <1>4, ToolInstallAssumption
<1> QED
  BY <1>1, <1>2, <1>3, <1>4, <1>5, <1>6, ToolInstallAssumption

\* It holds at first.
LEMMA ToolInstallInitInv == ToolInstallInit /\ mishaps = 0 => ToolInstallInv
<1> SUFFICES ASSUME ToolInstallInit, mishaps = 0 PROVE ToolInstallInv
  OBVIOUS
<1>1. ToolTypes
  BY FaultsAssumption DEF ToolInstallInit, ToolTypes, NoInstall, InstallerRecords
<1>2. /\ \A i \in Installers : installer[i].at = "idle"
      /\ \A v \in ToolVersions : toolDir[v] = "none"
      /\ runtimeTool.version = "none" /\ storedTool.version = "none"
  BY DEF ToolInstallInit, NoInstall, NoTool
<1>3. ExecutionsFit /\ DirsFit
  BY <1>2 DEF ExecutionsFit, MidSwap, DirsFit
<1>4. InUseIsHeld
  BY <1>2, PathsAre DEF InUseIsHeld, Wanted
<1>5. AbsentIsDisplaced
  BY <1>2, PathsAre DEF AbsentIsDisplaced, Free
<1> QED
  BY <1>1, <1>3, <1>4, <1>5 DEF ToolInstallInv

\* A build placed in the free directory of its version: the version is held, and the
\* paths that it does not have are displaced.
LEMMA PlacedKeeps ==
  ASSUME ToolInstallInv, NEW i \in Installers, NEW s \in Sources, VersionOf(s) = Target(i),
         Placed(WithBuild(i, s), s)
  PROVE  /\ toolDir' \in [ToolVersions -> Sources \cup {"none"}] /\ DirsFit'
         /\ cut' \subseteq ToolVersions /\ displaced' \subseteq ToolPaths
         /\ toolDir'[Target(i)] = s
         /\ \A v \in ToolVersions : v # Target(i) => toolDir'[v] = toolDir[v]
         /\ \A v \in ToolVersions : v # Target(i) => (v \in cut' <=> v \in cut)
         /\ AbsentIsDisplaced'
<1>1. Target(i) \in ToolVersions
  BY PathsAre
<1>2. /\ toolDir \in [ToolVersions -> Sources \cup {"none"}] /\ cut \subseteq ToolVersions
      /\ displaced \subseteq ToolPaths /\ toolDir' = [toolDir EXCEPT ![Target(i)] = s]
      /\ cut' = cut \ {Target(i)} /\ displaced' = DisplacedBy(s)
  BY DEF ToolInstallInv, ToolTypes, Placed, WithBuild
<1>3. toolDir'[Target(i)] = s /\ \A v \in ToolVersions : v # Target(i) => toolDir'[v] = toolDir[v]
  BY <1>1, <1>2
<1>4. DirsFit'
  BY <1>3 DEF DirsFit, ToolInstallInv
<1>5. ASSUME NEW p \in ToolPaths, ~Free(p.version)' PROVE There(p)' \/ p \in displaced'
  <2>1. p.version \in ToolVersions
    BY PathsAre
  <2>2. CASE p.version = Target(i)
    BY <2>2, <1>2, <1>3, PathsAre DEF There, DisplacedBy
  <2>3. CASE p.version # Target(i)
    <3>1. toolDir'[p.version] = toolDir[p.version]
      BY <2>3, <2>1, <1>3
    <3>2. There(p) \/ p \in displaced
      BY <3>1, <1>5 DEF ToolInstallInv, AbsentIsDisplaced, Free
    <3>3. p # PathOf(s)
      BY <2>3, PathsAre
    <3> QED
      BY <3>1, <3>2, <3>3, <1>2 DEF There, DisplacedBy
  <2> QED
    BY <2>2, <2>3
<1> QED
  BY <1>1, <1>2, <1>3, <1>4, <1>5 DEF AbsentIsDisplaced, DisplacedBy

\* Where directories and their history stay, so does what is held, unless a swap ends.
LEMMA QuietKeeps ==
  ASSUME ToolInstallInv, ToolTypes', ExecutionsFit', DirsStay,
         \A v \in ToolVersions : BeingSwapped(v) => BeingSwapped(v)',
         \A v \in ToolVersions : Wanted(v)' => VersionHeld(v)
  PROVE  ToolInstallInv'
<1>1. DirsFit' /\ AbsentIsDisplaced'
  BY DEF DirsStay, ToolInstallInv, DirsFit, AbsentIsDisplaced, There, Free
<1>2. \A v \in ToolVersions : VersionHeld(v) => VersionHeld(v)'
  BY DEF DirsStay, VersionHeld, Free
<1> QED
  BY <1>1, <1>2 DEF ToolInstallInv, InUseIsHeld

\* An execution moves to its next step, the others wait.
Moves(i, at, backup) ==
  /\ installer' \in [Installers -> InstallerRecords]
  /\ installer'[i].at = at /\ installer'[i].source = installer[i].source
  /\ installer'[i].canceled = installer[i].canceled /\ installer'[i].backup = backup
  /\ \A j \in Installers : j # i => installer'[j] = installer[j]

\* The steps of an execution.
Steps == {"idle", "download", "unpack", "install", "aside", "place", "put back", "apply",
          "store", "succeed", "fail"}

\* What a step writes into the record of an execution.
LEMMA StepMoves ==
  ASSUME ToolTypes, NEW i \in Installers, NEW at \in Steps, NEW b \in Sources \cup {"none"}
  PROVE  /\ InstallerAt(i, at) => Moves(i, at, installer[i].backup)
         /\ SwapEnds(i, at) => Moves(i, at, "none")
         /\ installer' = [installer EXCEPT ![i].at = at, ![i].backup = b] => Moves(i, at, b)
<1>1. installer \in [Installers -> InstallerRecords] /\ installer[i] \in InstallerRecords
  BY DEF ToolTypes
<1>2. ASSUME NEW r \in InstallerRecords, installer' = [installer EXCEPT ![i] = r]
      PROVE  /\ installer' \in [Installers -> InstallerRecords] /\ installer'[i] = r
             /\ \A j \in Installers : j # i => installer'[j] = installer[j]
  BY <1>1, <1>2
<1>3. ASSUME NEW c \in Sources \cup {"none"}
      PROVE  /\ [installer[i] EXCEPT !.at = at, !.backup = c] \in InstallerRecords
             /\ [installer[i] EXCEPT !.at = at, !.backup = c].at = at
             /\ [installer[i] EXCEPT !.at = at, !.backup = c].backup = c
             /\ [installer[i] EXCEPT !.at = at, !.backup = c].source = installer[i].source
             /\ [installer[i] EXCEPT !.at = at, !.backup = c].canceled = installer[i].canceled
  BY <1>1, <1>3 DEF InstallerRecords, Steps
<1>4. /\ [installer[i] EXCEPT !.at = at] \in InstallerRecords
      /\ [installer[i] EXCEPT !.at = at].at = at
      /\ [installer[i] EXCEPT !.at = at].backup = installer[i].backup
      /\ [installer[i] EXCEPT !.at = at].source = installer[i].source
      /\ [installer[i] EXCEPT !.at = at].canceled = installer[i].canceled
  BY <1>1 DEF InstallerRecords, Steps
<1>5. ASSUME InstallerAt(i, at) PROVE Moves(i, at, installer[i].backup)
  <2>1. installer' = [installer EXCEPT ![i] = [installer[i] EXCEPT !.at = at]]
    BY <1>5, <1>1 DEF InstallerAt
  <2> QED
    BY <2>1, <1>2, <1>4 DEF Moves
<1>6. ASSUME NEW c \in Sources \cup {"none"},
             installer' = [installer EXCEPT ![i].at = at, ![i].backup = c]
      PROVE  Moves(i, at, c)
  <2>1. installer' = [installer EXCEPT ![i] = [installer[i] EXCEPT !.at = at, !.backup = c]]
    BY <1>6, <1>1
  <2> QED
    BY <2>1, <1>2, <1>3 DEF Moves
<1> QED
  BY <1>5, <1>6 DEF SwapEnds

\* Where one execution moves, what holds of the others stays.
LEMMA MovesFit ==
  ASSUME ToolInstallInv, NEW i \in Installers, NEW at \in Steps, NEW b, Moves(i, at, b),
         installer[i].at # "idle" \/ at = "idle",
         at \in {"place", "put back"} => b \in Sources /\ VersionOf(b) = Target(i)
  PROVE  /\ ExecutionsFit' /\ Target(i)' = Target(i)
         /\ \A j \in Installers : j # i => Target(j)' = Target(j)
         /\ \A v \in ToolVersions : v # Target(i) => (BeingSwapped(v)' <=> BeingSwapped(v))
         /\ at \in {"place", "put back"} => BeingSwapped(Target(i))'
         /\ (at \in {"place", "put back"} <=> i \in MidSwap) =>
              \A v \in ToolVersions : BeingSwapped(v)' <=> BeingSwapped(v)
  BY DEF ToolInstallInv, ExecutionsFit, Moves, MidSwap, Target, BeingSwapped

\* A request keeps it: it touches neither directories nor paths.
LEMMA RequestKeeps ==
  ASSUME ToolInstallInv, NEW s \in Sources, EnqueueDownload(s) \/ CancelDownload(s)
  PROVE  ToolInstallInv'
<1>t. ToolTypes /\ ExecutionsFit /\ InUseIsHeld
  BY DEF ToolInstallInv
<1>m. mishaps' \in 0 .. MaxMishaps
  BY <1>t DEF ToolTypes, EnqueueDownload, CancelDownload, Smooth
<1>1. /\ installer' \in [Installers -> InstallerRecords]
      /\ \A i \in Installers : /\ installer'[i].at = installer[i].at
                               /\ installer'[i].source = installer[i].source
                               /\ installer'[i].backup = installer[i].backup
  <2>1. CASE EnqueueDownload(s)
    BY <2>1, <1>t DEF EnqueueDownload, ToolTypes
  <2>2. CASE CancelDownload(s)
    <3>1. \A i \in Installers :
            /\ [installer[i] EXCEPT !.canceled = TRUE] \in InstallerRecords
            /\ [installer[i] EXCEPT !.canceled = TRUE].at = installer[i].at
            /\ [installer[i] EXCEPT !.canceled = TRUE].source = installer[i].source
            /\ [installer[i] EXCEPT !.canceled = TRUE].backup = installer[i].backup
            /\ installer[i] \in InstallerRecords
      BY <1>t DEF ToolTypes, InstallerRecords
    <3> QED
      BY <2>2, <3>1 DEF CancelDownload
  <2> QED
    BY <2>1, <2>2
<1>2. DirsStay /\ PathsStay
  BY DEF EnqueueDownload, CancelDownload
<1>3. ToolTypes'
  BY <1>1, <1>2, <1>t, <1>m DEF EnqueueDownload, CancelDownload, ToolTypes, DirsStay, PathsStay
<1>4. ExecutionsFit' /\ \A v \in ToolVersions : BeingSwapped(v) => BeingSwapped(v)'
  BY <1>1, <1>t DEF ExecutionsFit, MidSwap, Target, BeingSwapped
<1>5. \A v \in ToolVersions : Wanted(v)' => Wanted(v)
  BY <1>1, <1>2 DEF PathsStay, Wanted, Target
<1> QED
  BY <1>2, <1>3, <1>4, <1>5, <1>t, QuietKeeps DEF InUseIsHeld

\* A step of an execution keeps it.
LEMMA ExecutionKeeps ==
  ASSUME ToolInstallInv, NEW i \in Installers, InstallerStep(i)
  PROVE  ToolInstallInv'
<1>t. ToolTypes /\ ExecutionsFit /\ InUseIsHeld
  BY DEF ToolInstallInv
<1>i. installer \in [Installers -> InstallerRecords] /\ installer[i] \in InstallerRecords
      /\ installer[i].backup \in Sources \cup {"none"} /\ installer[i].source \in Sources \cup {"none"}
  BY <1>t DEF ToolTypes, InstallerRecords
<1>m. Mishap \/ Smooth => mishaps' \in 0 .. MaxMishaps
  BY <1>t, MishapsMove DEF ToolTypes
<1>s. installer[i].at # "idle" => installer[i].source \in Sources /\ Target(i) \in ToolVersions
                                  /\ PathOf(installer[i].source) \in ToolPaths
                                  /\ PathOf(installer[i].source).version = Target(i)
                                  /\ PathOf(installer[i].source) # NoTool
  BY <1>t, PathsAre DEF ExecutionsFit, Target
<1>d. /\ toolDir \in [ToolVersions -> Sources \cup {"none"}]
      /\ runtimeTool \in ToolPaths \cup {NoTool} /\ storedTool \in ToolPaths \cup {NoTool}
      /\ cut \subseteq ToolVersions /\ displaced \subseteq ToolPaths
      /\ downloadTask \in [Sources -> {"none", "pending", "running", "succeeded", "failed", "canceled"}]
  BY <1>t DEF ToolTypes
\* A step that leaves directories and paths alone.
<1>q. ASSUME NEW at \in Steps, Moves(i, at, installer[i].backup), installer[i].at # "idle",
             at \in {"place", "put back"} <=> i \in MidSwap, DirsStay, InstallOnly, Mishap \/ Smooth,
             at \in {"apply", "store", "succeed"} => VersionHeld(Target(i))
      PROVE  ToolInstallInv'
  <2>1. ToolTypes'
    BY <1>q, <1>d, <1>m DEF Moves, DirsStay, InstallOnly, PathsStay, ToolTypes
  <2>2. at \in {"place", "put back"} =>
          installer[i].backup \in Sources /\ VersionOf(installer[i].backup) = Target(i)
    BY <1>q, <1>t DEF ExecutionsFit
  <2>3. ExecutionsFit' /\ \A v \in ToolVersions : BeingSwapped(v)' <=> BeingSwapped(v)
    BY <1>q, <2>2, MovesFit
  <2>4. \A v \in ToolVersions : Wanted(v)' => VersionHeld(v)
    BY <1>q, <1>t DEF Moves, InUseIsHeld, Wanted, Target, InstallOnly, PathsStay
  <2> QED
    BY <1>q, <2>1, <2>3, <2>4, QuietKeeps
\* A step that places a build.
<1>p. ASSUME NEW at \in {"apply", "fail"}, NEW b, Moves(i, at, b), installer[i].at # "idle",
             NEW s \in Sources, VersionOf(s) = Target(i), Placed(WithBuild(i, s), s), InstallOnly, Smooth
      PROVE  ToolInstallInv'
  <2>1. /\ toolDir' \in [ToolVersions -> Sources \cup {"none"}] /\ DirsFit'
        /\ cut' \subseteq ToolVersions /\ displaced' \subseteq ToolPaths
        /\ toolDir'[Target(i)] = s
        /\ \A v \in ToolVersions : v # Target(i) => toolDir'[v] = toolDir[v]
        /\ \A v \in ToolVersions : v # Target(i) => (v \in cut' <=> v \in cut)
        /\ AbsentIsDisplaced'
    BY <1>p, PlacedKeeps
  <2>2. ToolTypes'
    BY <1>p, <2>1, <1>d, <1>m DEF Moves, InstallOnly, PathsStay, ToolTypes
  <2>3. /\ ExecutionsFit' /\ \A j \in Installers : Target(j)' = Target(j)
        /\ \A v \in ToolVersions : v # Target(i) => (BeingSwapped(v)' <=> BeingSwapped(v))
    BY <1>p, MovesFit DEF Steps
  <2>5. \A v \in ToolVersions : v = Target(i) => VersionHeld(v)'
    BY <2>1, PathsAre DEF VersionHeld, Free
  <2>7. \A v \in ToolVersions : v # Target(i) => (VersionHeld(v) => VersionHeld(v)')
    BY <2>1, <2>3 DEF VersionHeld, Free
  <2>4. \A v \in ToolVersions : VersionHeld(v) => VersionHeld(v)'
    BY <2>5, <2>7
  <2>6. \A v \in ToolVersions : Wanted(v)' => Wanted(v) \/ v = Target(i)
    BY <1>p DEF Wanted, Moves, Target, InstallOnly, PathsStay
  <2> QED
    BY <2>1, <2>2, <2>3, <2>4, <2>5, <2>6, <1>t DEF ToolInstallInv, InUseIsHeld
<1>1. ASSUME NEW s \in Sources, TakeDownload(i, s) PROVE ToolInstallInv'
  <2>1. /\ installer' \in [Installers -> InstallerRecords]
        /\ installer'[i].at = "download" /\ installer'[i].source = s
        /\ \A j \in Installers : j # i => installer'[j] = installer[j]
        /\ i \notin MidSwap /\ DirsStay /\ PathsStay
    <3>1. PICK r \in InstallerRecords : r.at = "download" /\ r.source = s
                                      /\ installer' = [installer EXCEPT ![i] = r]
      BY <1>1 DEF TakeDownload, InstallerRecords
    <3>2. installer[i].at = "idle"
      BY <1>1 DEF TakeDownload, NoInstall
    <3> QED
      BY <3>1, <3>2, <1>1, <1>i DEF TakeDownload, MidSwap
  <2>2. ToolTypes'
    BY <1>1, <2>1, <1>d, <1>m DEF TakeDownload, DirsStay, PathsStay, ToolTypes
  <2>3. ExecutionsFit' /\ \A v \in ToolVersions : BeingSwapped(v) => BeingSwapped(v)'
    BY <2>1, <1>t DEF ExecutionsFit, MidSwap, Target, BeingSwapped
  <2>4. \A v \in ToolVersions : Wanted(v)' => Wanted(v)
    BY <2>1 DEF Wanted, Target, PathsStay
  <2> QED
    BY <2>1, <2>2, <2>3, <2>4, <1>t, QuietKeeps DEF InUseIsHeld
<1>2. ASSUME NEW from \in {"download", "unpack"}, NEW to \in {"unpack", "install"},
             PrepareBuild(i, from, to)
      PROVE  ToolInstallInv'
  <2>1. PICK at \in {to, "fail"} : InstallerAt(i, at) /\ (Mishap \/ Smooth)
    BY <1>2 DEF PrepareBuild, MishapIf
  <2> QED
    BY <2>1, <1>2, <1>q, <1>t, StepMoves DEF PrepareBuild, Steps, MidSwap
<1>3. CASE InstallStaged(i)
  <2>1. CASE InstallerAt(i, "apply") /\ Smooth
             /\ Placed(WithBuild(i, installer[i].source), installer[i].source)
    BY <2>1, <1>3, <1>p, <1>s, <1>t, <1>i, StepMoves DEF InstallStaged, Target, Steps
  <2>2. ASSUME NEW at \in {"aside", "fail"}, InstallerAt(i, at), DirsStay, Mishap \/ Smooth
        PROVE  ToolInstallInv'
    BY <2>2, <1>3, <1>q, <1>t, StepMoves DEF InstallStaged, Steps, MidSwap
  <2> QED
    BY <2>1, <2>2, <1>3 DEF InstallStaged
<1>4. CASE MoveOldAside(i)
  <2>1. CASE /\ ~Free(Target(i)) /\ Smooth
             /\ installer' = [installer EXCEPT ![i].at = "place", ![i].backup = toolDir[Target(i)]]
             /\ toolDir' = WithBuild(i, "none") /\ UNCHANGED <<cut, displaced>>
    <3>1. /\ toolDir[Target(i)] \in Sources /\ VersionOf(toolDir[Target(i)]) = Target(i)
          /\ Target(i) \in ToolVersions
      BY <2>1, <1>4, <1>s, <1>d DEF MoveOldAside, Free, ToolInstallInv, DirsFit
    <3>2. Moves(i, "place", toolDir[Target(i)])
      BY <2>1, <3>1, <1>t, StepMoves DEF Steps
    <3>3. /\ ExecutionsFit' /\ \A j \in Installers : Target(j)' = Target(j)
          /\ \A v \in ToolVersions : v # Target(i) => (BeingSwapped(v)' <=> BeingSwapped(v))
          /\ BeingSwapped(Target(i))'
      BY <3>1, <3>2, <1>4, MovesFit DEF MoveOldAside, Steps
    <3>4. /\ toolDir' \in [ToolVersions -> Sources \cup {"none"}] /\ toolDir'[Target(i)] = "none"
          /\ \A v \in ToolVersions : v # Target(i) => toolDir'[v] = toolDir[v]
      BY <2>1, <3>1, <1>d DEF WithBuild
    <3>5. ToolTypes'
      BY <3>2, <3>4, <2>1, <1>4, <1>d, <1>m DEF MoveOldAside, InstallOnly, PathsStay, Moves, ToolTypes
    <3>6. DirsFit' /\ AbsentIsDisplaced'
      BY <3>4, <2>1, PathsAre DEF ToolInstallInv, DirsFit, AbsentIsDisplaced, There, Free
    <3>7. \A v \in ToolVersions : VersionHeld(v) => VersionHeld(v)'
      BY <3>3, <3>4, <2>1 DEF VersionHeld, Free
    <3>8. \A v \in ToolVersions : Wanted(v)' => Wanted(v)
      BY <3>2, <1>4 DEF MoveOldAside, Moves, Wanted, Target, InstallOnly, PathsStay
    <3> QED
      BY <3>3, <3>5, <3>6, <3>7, <3>8, <1>t DEF ToolInstallInv, InUseIsHeld
  <2>2. CASE InstallerAt(i, "fail") /\ DirsStay /\ MishapIf(~Free(Target(i)))
    BY <2>2, <1>4, <1>q, <1>t, StepMoves DEF MoveOldAside, Steps, MidSwap, MishapIf
  <2> QED
    BY <2>1, <2>2, <1>4 DEF MoveOldAside
<1>5. CASE MoveNewInPlace(i)
  <2>1. CASE SwapEnds(i, "apply") /\ Smooth
             /\ Placed(WithBuild(i, installer[i].source), installer[i].source)
    BY <2>1, <1>5, <1>p, <1>s, <1>t, StepMoves DEF MoveNewInPlace, Target, Steps
  <2>2. CASE InstallerAt(i, "put back") /\ DirsStay /\ MishapIf(Free(Target(i)))
    BY <2>2, <1>5, <1>q, <1>t, StepMoves DEF MoveNewInPlace, Steps, MidSwap, MishapIf
  <2> QED
    BY <2>1, <2>2, <1>5 DEF MoveNewInPlace
<1>6. CASE MoveOldBack(i)
  <2>0. /\ Moves(i, "fail", "none") /\ installer[i].at = "put back"
        /\ installer[i].backup \in Sources /\ VersionOf(installer[i].backup) = Target(i)
        /\ Target(i) \in ToolVersions /\ InstallOnly
    BY <1>6, <1>t, <1>s, StepMoves DEF MoveOldBack, Steps, ExecutionsFit, MidSwap
  <2>1. CASE Placed(PutBack(i), installer[i].backup) /\ Smooth
    BY <2>0, <2>1, <1>p DEF PutBack
  <2>2. ASSUME /\ UNCHANGED <<toolDir, displaced>> /\ (Mishap \/ Smooth)
               /\ cut' \in SUBSET ToolVersions /\ cut \subseteq cut'
               /\ ~Free(Target(i)) \/ Target(i) \in cut'
        PROVE  ToolInstallInv'
    <3>1. ToolTypes'
      BY <2>0, <2>2, <1>d, <1>m DEF InstallOnly, PathsStay, Moves, ToolTypes
    <3>2. /\ ExecutionsFit' /\ \A j \in Installers : Target(j)' = Target(j)
          /\ \A v \in ToolVersions : v # Target(i) => (BeingSwapped(v)' <=> BeingSwapped(v))
      BY <2>0, MovesFit DEF Steps
    <3>3. \A v \in ToolVersions : VersionHeld(v) => VersionHeld(v)'
      BY <2>2, <3>2 DEF VersionHeld, Free
    <3>4. DirsFit' /\ AbsentIsDisplaced'
      BY <2>2 DEF ToolInstallInv, DirsFit, AbsentIsDisplaced, There, Free
    <3>5. \A v \in ToolVersions : Wanted(v)' => Wanted(v)
      BY <2>0 DEF Moves, Wanted, Target, InstallOnly, PathsStay
    <3> QED
      BY <3>1, <3>2, <3>3, <3>4, <3>5, <1>t DEF ToolInstallInv, InUseIsHeld
  <2>3. CASE ~Free(Target(i)) /\ DirsStay /\ Smooth
    BY <2>2, <2>3, <1>d DEF DirsStay
  <2>4. CASE Free(Target(i)) /\ Mishap /\ cut' = cut \cup {Target(i)} /\ UNCHANGED <<toolDir, displaced>>
    BY <2>0, <2>2, <2>4, <1>d
  <2> QED
    BY <2>1, <2>3, <2>4, <1>6 DEF MoveOldBack
\* A step that leaves the directories alone and applies or stores a path.
<1>7. ASSUME NEW at \in {"store", "succeed", "fail"}, InstallerAt(i, at), DirsStay, Mishap \/ Smooth,
             UNCHANGED downloadTask, installer[i].at \in {"apply", "store"},
             runtimeTool' \in {runtimeTool, PathOf(installer[i].source)},
             storedTool' \in {storedTool, PathOf(installer[i].source)}
      PROVE  ToolInstallInv'
  <2>1. Moves(i, at, installer[i].backup)
    BY <1>7, <1>t, StepMoves DEF Steps
  <2>2. ToolTypes'
    BY <1>7, <2>1, <1>d, <1>m, <1>s DEF DirsStay, Moves, ToolTypes
  <2>3. ExecutionsFit' /\ \A v \in ToolVersions : BeingSwapped(v)' <=> BeingSwapped(v)
    BY <1>7, <2>1, MovesFit DEF Steps, MidSwap
  <2>4. VersionHeld(Target(i))
    BY <1>7, <1>s, <1>t DEF InUseIsHeld, Wanted
  <2>5. \A v \in ToolVersions : Wanted(v)' => Wanted(v) \/ v = Target(i)
    BY <1>7, <1>s, <2>1 DEF Wanted, Moves, Target
  <2> QED
    BY <1>7, <2>2, <2>3, <2>4, <2>5, <1>t, QuietKeeps DEF InUseIsHeld
<1>8. CASE ApplyTool(i)
  BY <1>7, <1>8 DEF ApplyTool
<1>9. CASE StoreTool(i)
  BY <1>7, <1>9 DEF StoreTool
<1>10. CASE EndDownload(i)
  <2>1. /\ installer' \in [Installers -> InstallerRecords] /\ installer'[i].at = "idle"
        /\ \A j \in Installers : j # i => installer'[j] = installer[j]
        /\ i \notin MidSwap /\ DirsStay /\ PathsStay
    BY <1>10, <1>i DEF EndDownload, NoInstall, InstallerRecords, MidSwap
  <2>2. downloadTask' \in [Sources -> {"none", "pending", "running", "succeeded", "failed", "canceled"}]
    BY <1>10, <1>s, <1>d DEF EndDownload
  <2>3. ToolTypes'
    BY <1>10, <2>1, <2>2, <1>d, <1>m DEF EndDownload, DirsStay, PathsStay, ToolTypes
  <2>4. ExecutionsFit' /\ \A v \in ToolVersions : BeingSwapped(v) => BeingSwapped(v)'
    BY <2>1, <1>t DEF ExecutionsFit, MidSwap, Target, BeingSwapped
  <2>5. \A v \in ToolVersions : Wanted(v)' => Wanted(v)
    BY <2>1 DEF Wanted, Target, PathsStay
  <2> QED
    BY <2>1, <2>3, <2>4, <2>5, <1>t, QuietKeeps DEF InUseIsHeld
<1> QED
  BY <1>1, <1>2, <1>3, <1>4, <1>5, <1>6, <1>8, <1>9, <1>10
     DEF InstallerStep, DownloadArchive, ExtractAndProbe

\* So does a crash: what it cuts is remembered.
LEMMA InstallerCrashKeeps ==
  ASSUME ToolInstallInv, InstallerCrash
  PROVE  ToolInstallInv'
<1>t. ToolTypes /\ InUseIsHeld
  BY DEF ToolInstallInv
<1>1. /\ \A i \in Installers : installer'[i] = NoInstall
      /\ installer' \in [Installers -> InstallerRecords]
  BY DEF InstallerCrash, NoInstall, InstallerRecords
<1>2. mishaps' \in 0 .. MaxMishaps
  BY <1>t, MishapsMove DEF ToolTypes, InstallerCrash
<1>3. ToolTypes'
  BY <1>1, <1>2, <1>t DEF InstallerCrash, ToolTypes, ResumedDownload
<1>4. ExecutionsFit' /\ DirsFit' /\ AbsentIsDisplaced'
  BY <1>1 DEF ToolInstallInv, InstallerCrash, NoInstall, ExecutionsFit, MidSwap, DirsFit,
         AbsentIsDisplaced, There, Free
<1>5. \A v \in ToolVersions : VersionHeld(v) => VersionHeld(v)'
  BY DEF InstallerCrash, VersionHeld, Free, BeingSwapped
<1>6. \A v \in ToolVersions : Wanted(v)' => Wanted(v)
  BY <1>1 DEF InstallerCrash, Wanted, NoInstall
<1> QED
  BY <1>3, <1>4, <1>5, <1>6, <1>t DEF ToolInstallInv, InUseIsHeld

\* So does every step.
LEMMA ToolInstallStep == ToolInstallInv /\ [ToolInstallNext]_toolVars => ToolInstallInv'
<1>1. ASSUME ToolInstallInv, UNCHANGED toolVars PROVE ToolInstallInv'
  <2>1. ToolTypes' /\ ExecutionsFit' /\ DirsFit'
    BY <1>1 DEF toolVars, ToolInstallInv, ToolTypes, ExecutionsFit, MidSwap, Target, DirsFit
  <2>2. InUseIsHeld' /\ AbsentIsDisplaced'
    BY <1>1 DEF toolVars, ToolInstallInv, InUseIsHeld, Wanted, AbsentIsDisplaced, There, VersionHeld, Free,
           BeingSwapped, MidSwap, Target
  <2> QED
    BY <2>1, <2>2 DEF ToolInstallInv
<1> QED
  BY <1>1, RequestKeeps, ExecutionKeeps, InstallerCrashKeeps DEF ToolInstallNext

\* The types are those of the module.
LEMMA ToolTypesAre == ToolTypes => ToolInstallTypeOK
  BY DEF ToolTypes, ToolInstallTypeOK

\* The invariant has what the runs check.
LEMMA ToolsAreSafe == ToolInstallInv => ToolsAreThere
<1> SUFFICES ASSUME ToolInstallInv PROVE ToolsAreThere
  OBVIOUS
<1>1. \A p \in {runtimeTool, storedTool} : p \in ToolPaths \cup {NoTool}
  BY DEF ToolInstallInv, ToolTypes
<1> QED
  BY <1>1, PathsAre DEF ToolInstallInv, InUseIsHeld, Wanted, VersionHeld, AbsentIsDisplaced,
         ToolsAreThere, There

\* The path that runs and the one stored for the next start are there, unless a swap
\* or a crash between its renames has the version in hand, or a build without the path
\* was placed in its stead (tools/installer.go).
THEOREM ToolsAreThereAlways == ToolInstallSpec => []ToolsAreThere
  BY ToolsAreSafe, ToolInstallInitInv, ToolInstallStep, PTL DEF ToolInstallSpec

-----------------------------------------------------------------------------
(***************************************************************************)
(* Updates of the server (update/apply.go, rollback.go). While one swap is *)
(* under way and at most one step has failed, the three files hold what    *)
(* the step of the swap says; a process that starts begins where a swap    *)
(* has ended.                                                              *)
(***************************************************************************)

\* What requests are, and what the files may be.
UpdaterRecords ==
  [at : {"idle", "download", "verify"} \cup Swapping, in : Processes \cup {0}, build : 0 .. Damaged]

\* A process of the server.
ServerRecords ==
  [at : {"off", "starting", "serving"}, runs : 0 .. MaxVersion, leaving : BOOLEAN,
   progress : {"idle", "downloading", "verifying", "done", "failed"}]

\* The types of the module, the records by name, and that one process serves.
UpdateTypes ==
  /\ published \subseteq Versions /\ newestFormal \in {0} \cup Formal
  /\ disk \in [{"exe", "old", "failed"} -> 0 .. Damaged]
  /\ server \in [Processes -> ServerRecords]
  /\ \A p, q \in Processes : server[p].at = "serving" /\ server[q].at = "serving" => p = q
  /\ updater \in [Updaters -> UpdaterRecords]
  /\ \A u \in Updaters : updater[u].in # 0 => server[updater[u].in].at = "serving"
  /\ disturbed \in BOOLEAN /\ mishaps \in 0 .. MaxMishaps

\* A request is of a process exactly while it is at work, and what has been checked
\* is a build.
RequestsFit ==
  \A u \in Updaters :
    /\ updater[u].at = "idle" <=> updater[u].in = 0
    /\ updater[u].at \in {"download", "backup", "land"} => updater[u].build \in Versions
    /\ updater[u].at = "verify" => updater[u].build # Missing

\* Two swaps at once are remembered.
AloneSwapping ==
  ~disturbed =>
    \A u, w \in Updaters : updater[u].at \in Swapping /\ updater[w].at \in Swapping => u = w

\* What is shown as under way is under way before the swap.
ProgressIsOfRequest ==
  \A p \in Processes : server[p].progress \in {"downloading", "verifying"} =>
    \E u \in Updaters : updater[u].in = p /\ updater[u].at \in {"download", "verify"}

\* Where the builds are at a step of a swap, and where none is under way.
Held(at, d, m) ==
  /\ d["old"] \in Versions \cup {Missing} /\ d["failed"] \in Versions \cup {Missing}
  /\ at \notin {"land", "restore", "bring back", "undo"} => d["exe"] \in Versions
  /\ at \in {"land", "restore", "set aside", "bring back"} => d["old"] \in Versions
  /\ at \in {"bring back", "undo"} => d["failed"] \in Versions
  /\ at \in {"restore", "undo"} => m = 1

\* With at most one failure and one swap at a time the builds are where its step says.
FilesFit ==
  ~disturbed /\ mishaps <= 1 =>
    /\ AtRest => Held("idle", disk, mishaps)
    /\ \A u \in Updaters : updater[u].at \in Swapping => Held(updater[u].at, disk, mishaps)

\* The inductive invariant of updates.
UpdateInv ==
  UpdateTypes /\ RequestsFit /\ AloneSwapping /\ ProgressIsOfRequest /\ FilesFit

\* It holds at first.
LEMMA UpdateInitInv == SelfUpdateInit /\ mishaps = 0 => UpdateInv
<1> SUFFICES ASSUME SelfUpdateInit, mishaps = 0 PROVE UpdateInv
  OBVIOUS
<1> USE SelfUpdateAssumption, FaultsAssumption DEF SelfUpdateInit, Versions, Missing, Damaged
<1>1. /\ updater = [u \in Updaters |-> NoUpdate]
      /\ NoUpdate = [at |-> "idle", in |-> 0, build |-> 0]
      /\ 0 \notin Processes
  BY DEF NoUpdate
<1>u. \A u \in Updaters : updater[u].at = "idle" /\ updater[u].in = 0
  BY <1>1
<1>2. \A p \in Processes : server[p] \in ServerRecords /\ server[p].progress = "idle"
  <2>2. 0 \in 0 .. MaxVersion /\ 1 \in 0 .. MaxVersion
    OBVIOUS
  <2>3. \A p \in Processes : server[p] \in {Off, Fresh("serving", 1)}
    OBVIOUS
  <2>4. Off \in ServerRecords /\ Fresh("serving", 1) \in ServerRecords
    BY <2>2 DEF ServerRecords, Off, Fresh
  <2> QED
    BY <2>3, <2>4 DEF Off, Fresh
<1>3. \A p, q \in Processes : server[p].at = "serving" /\ server[q].at = "serving" => p = q
  BY DEF Off, Fresh
<1>4. UpdateTypes
  <2>1. server \in [Processes -> ServerRecords]
    BY <1>2
  <2>2. updater \in [Updaters -> UpdaterRecords]
    BY <1>1 DEF UpdaterRecords
  <2>3. disk \in [{"exe", "old", "failed"} -> 0 .. Damaged]
    OBVIOUS
  <2>4. published \subseteq Versions /\ newestFormal \in Formal /\ disturbed \in BOOLEAN
    OBVIOUS
  <2>5. mishaps \in 0 .. MaxMishaps
    OBVIOUS
  <2>6. \A u \in Updaters : updater[u].in # 0 => server[updater[u].in].at = "serving"
    BY <1>u
  <2> QED
    BY <1>3, <2>1, <2>2, <2>3, <2>4, <2>5, <2>6 DEF UpdateTypes
<1>5. RequestsFit /\ AloneSwapping /\ ProgressIsOfRequest
  BY <1>u, <1>2 DEF RequestsFit, AloneSwapping, ProgressIsOfRequest, Swapping
<1>d. disk["exe"] = 1 /\ disk["old"] = 0 /\ disk["failed"] = 0
  OBVIOUS
<1>6. FilesFit
  BY <1>u, <1>d DEF FilesFit, Held, Swapping
<1> QED
  BY <1>4, <1>5, <1>6 DEF UpdateInv

\* What a step of a swap does to all but the files.
LEMMA SwapMoves ==
  ASSUME UpdateTypes, RequestsFit, AloneSwapping, ProgressIsOfRequest,
         NEW u \in Updaters, updater[u].at \in Swapping,
         NEW r \in UpdaterRecords, updater' = [updater EXCEPT ![u] = r],
         \/ r.at = "idle" /\ r.in = 0
         \/ r.at \in Swapping /\ r.in = updater[u].in /\ r.build = updater[u].build,
         r.at \in {"backup", "land"} => r.build \in Versions,
         UNCHANGED <<server, disturbed>>, UpdateOnly, Mishap \/ Smooth,
         disk' \in [{"exe", "old", "failed"} -> 0 .. Damaged]
  PROVE  /\ UpdateTypes' /\ RequestsFit' /\ AloneSwapping' /\ ProgressIsOfRequest'
         /\ updater'[u] = r /\ mishaps' \in {mishaps, mishaps + 1} /\ mishaps \in Nat
         /\ \A w \in Updaters \ {u} : updater'[w] = updater[w]
         /\ ~disturbed => \A w \in Updaters \ {u} : updater[w].at \notin Swapping
<1>1. updater'[u] = r /\ \A w \in Updaters \ {u} : updater'[w] = updater[w]
  BY DEF UpdateTypes
<1>2. mishaps' \in 0 .. MaxMishaps /\ mishaps' \in {mishaps, mishaps + 1} /\ mishaps \in Nat
  <2>1. mishaps \in 0 .. MaxMishaps
    BY DEF UpdateTypes
  <2> QED
    BY <2>1, MishapsMove
<1>3. UpdateTypes'
  <2>1. updater' \in [Updaters -> UpdaterRecords]
    BY DEF UpdateTypes
  <2>2. \A w \in Updaters : updater'[w].in # 0 => server[updater'[w].in].at = "serving"
    BY <1>1 DEF UpdateTypes
  <2> QED
    BY <1>2, <2>1, <2>2 DEF UpdateTypes, UpdateOnly
<1>s. "idle" \notin Swapping /\ "download" \notin Swapping /\ "verify" \notin Swapping
  BY DEF Swapping
<1>4. RequestsFit'
  <2>1. updater'[u].at = "idle" <=> updater'[u].in = 0
    BY <1>1, <1>s DEF RequestsFit
  <2>2. updater'[u].at \notin {"download", "verify"}
    BY <1>1, <1>s
  <2> QED
    BY <1>1, <2>1, <2>2 DEF RequestsFit
<1>5. AloneSwapping'
  BY <1>1 DEF AloneSwapping
<1>6. ProgressIsOfRequest'
  <2>1. \A w \in Updaters : updater[w].at \in {"download", "verify"} => updater'[w] = updater[w]
    BY <1>1, <1>s
  <2> QED
    BY <2>1 DEF ProgressIsOfRequest
<1> QED
  BY <1>1, <1>2, <1>3, <1>4, <1>5, <1>6 DEF AloneSwapping

\* A request that is where `to` says, or that has ended.
LEMMA Moved ==
  ASSUME UpdateTypes, NEW u \in Updaters, NEW to \in {"idle", "download", "verify"} \cup Swapping,
         updater' = [updater EXCEPT ![u].at = to]
  PROVE  \E r \in UpdaterRecords :
           /\ updater' = [updater EXCEPT ![u] = r] /\ r.at = to
           /\ r.in = updater[u].in /\ r.build = updater[u].build
<1>1. updater[u] \in UpdaterRecords /\ [updater[u] EXCEPT !.at = to] \in UpdaterRecords
  BY DEF UpdateTypes, UpdaterRecords
<1>2. updater' = [updater EXCEPT ![u] = [updater[u] EXCEPT !.at = to]]
  BY DEF UpdateTypes
<1>3. /\ [updater[u] EXCEPT !.at = to].at = to
      /\ [updater[u] EXCEPT !.at = to].in = updater[u].in
      /\ [updater[u] EXCEPT !.at = to].build = updater[u].build
  BY <1>1 DEF UpdaterRecords
<1> QED
  BY <1>1, <1>2, <1>3

\* A request that has ended is one.
LEMMA EndedIs ==
  NoUpdate \in UpdaterRecords /\ NoUpdate.at = "idle" /\ NoUpdate.in = 0 /\ NoUpdate.build = 0
<1>1. 0 \in 0 .. Damaged
  BY SelfUpdateAssumption DEF Damaged
<1> QED
  BY <1>1 DEF NoUpdate, UpdaterRecords, Missing

\* What the one swap under way leaves of the files is what there is.
LEMMA FilesOfSwap ==
  ASSUME NEW u \in Updaters, updater'[u].at \in {"idle"} \cup Swapping, disturbed' = disturbed,
         \A w \in Updaters \ {u} : updater'[w] = updater[w],
         ~disturbed => \A w \in Updaters \ {u} : updater[w].at \notin Swapping,
         ~disturbed /\ mishaps' <= 1 => Held(updater'[u].at, disk', mishaps')
  PROVE  FilesFit'
<1> SUFFICES ASSUME ~disturbed', mishaps' <= 1 PROVE FilesFit'
  BY DEF FilesFit
<1>1. \A w \in Updaters \ {u} : updater'[w].at \notin Swapping
  OBVIOUS
<1>2. Held(updater'[u].at, disk', mishaps')
  OBVIOUS
<1>3. AtRest' => Held("idle", disk', mishaps')
  <2> SUFFICES ASSUME AtRest' PROVE Held("idle", disk', mishaps')
    OBVIOUS
  <2>1. updater'[u].at = "idle"
    BY DEF AtRest
  <2> QED
    BY <1>2, <2>1
<1>4. \A w \in Updaters : updater'[w].at \in Swapping => Held(updater'[w].at, disk', mishaps')
  BY <1>1, <1>2
<1> QED
  BY <1>3, <1>4 DEF FilesFit

\* One swap with at most one failure: where going back is under way, the failure
\* has been.
LEMMA HeldBefore ==
  ASSUME FilesFit, ~disturbed, mishaps \in Nat, mishaps' \in {mishaps, mishaps + 1}, mishaps' <= 1,
         NEW u \in Updaters, updater[u].at \in Swapping
  PROVE  /\ Held(updater[u].at, disk, mishaps)
         /\ mishaps' = mishaps + 1 => mishaps' = 1
         /\ updater[u].at \in {"restore", "undo"} => mishaps' # mishaps + 1
<1>1. mishaps <= 1 /\ (mishaps' = mishaps + 1 => mishaps = 0 /\ mishaps' = 1)
  OBVIOUS
<1>2. Held(updater[u].at, disk, mishaps)
  BY <1>1 DEF FilesFit
<1>3. ASSUME updater[u].at \in {"restore", "undo"}, mishaps' = mishaps + 1 PROVE FALSE
  <2>1. mishaps = 1
    BY <1>2, <1>3 DEF Held
  <2>2. mishaps = 0
    BY <1>1, <1>3
  <2> QED
    BY <2>1, <2>2
<1> QED
  BY <1>1, <1>2, <1>3

\* A step of a swap, of an update (apply.go) or of a rollback (rollback.go).
LEMMA SwapStep ==
  ASSUME UpdateInv, NEW u \in Updaters,
         BackupExe(u) \/ Land(u) \/ RestoreExe(u) \/ SetAside(u) \/ BringBack(u) \/ UndoSetAside(u)
  PROVE  UpdateInv'
<1>t. /\ UpdateTypes /\ RequestsFit /\ AloneSwapping /\ ProgressIsOfRequest /\ FilesFit
      /\ disk \in [{"exe", "old", "failed"} -> 0 .. Damaged] /\ updater[u].build \in 0 .. Damaged
      /\ Missing \in 0 .. Damaged /\ Damaged \in 0 .. Damaged /\ Missing \notin Versions
      /\ updater[u].at \in {"backup", "land"} => updater[u].build \in Versions
      /\ disk = [f \in {"exe", "old", "failed"} |-> disk[f]]
  BY SelfUpdateAssumption DEF UpdateInv, UpdateTypes, UpdaterRecords, Missing, Damaged, Versions,
         RequestsFit
<1>e. /\ disk.exe = disk["exe"] /\ disk.old = disk["old"] /\ disk.failed = disk["failed"]
  OBVIOUS
<1>s. {"backup", "land", "restore", "start", "set aside", "bring back", "undo"} = Swapping
  BY DEF Swapping
<1>z. /\ "backup" \in Swapping /\ "land" \in Swapping /\ "restore" \in Swapping
      /\ "start" \in Swapping
      /\ "set aside" \in Swapping /\ "bring back" \in Swapping /\ "undo" \in Swapping
      /\ "idle" \notin Swapping
  BY DEF Swapping
<1>n. NoUpdate \in UpdaterRecords /\ NoUpdate.at = "idle" /\ NoUpdate.in = 0
  BY EndedIs
<1>1. CASE BackupExe(u)
  <2>1. /\ updater[u].at = "backup" /\ UNCHANGED <<server, disturbed>> /\ UpdateOnly
        /\ (Mishap \/ Smooth)
    BY <1>1 DEF BackupExe, MishapIf
  <2>2. PICK r \in UpdaterRecords :
          /\ updater' = [updater EXCEPT ![u] = r]
          /\ disk' \in [{"exe", "old", "failed"} -> 0 .. Damaged]
          /\ \/ /\ r.at = "land" /\ r.in = updater[u].in /\ r.build = updater[u].build
                /\ disk["exe"] # Missing
                /\ disk'["exe"] = Missing /\ disk'["old"] = disk["exe"]
                /\ disk'["failed"] = disk["failed"]
             \/ /\ r.at = "idle" /\ r.in = 0
                /\ disk'["exe"] = disk["exe"] /\ disk'["old"] = Missing
                /\ disk'["failed"] = disk["failed"]
    <3>1. CASE /\ updater' = [updater EXCEPT ![u].at = "land"]
               /\ disk' = [disk EXCEPT !.old = disk.exe, !.exe = Missing]
               /\ disk["exe"] # Missing
      <4>1. /\ disk' \in [{"exe", "old", "failed"} -> 0 .. Damaged]
            /\ disk'["exe"] = Missing /\ disk'["old"] = disk["exe"]
            /\ disk'["failed"] = disk["failed"]
        BY <1>t, <1>e, <2>1, <3>1 DEF Restored
      <4>2. PICK r \in UpdaterRecords :
              /\ updater' = [updater EXCEPT ![u] = r] /\ r.at = "land"
              /\ r.in = updater[u].in /\ r.build = updater[u].build
        BY <1>t, <1>z, <3>1, Moved
      <4> QED
        BY <3>1, <4>1, <4>2
    <3>2. CASE /\ updater' = [updater EXCEPT ![u] = NoUpdate]
               /\ disk' = [disk EXCEPT !.old = Missing]
      <4>1. /\ disk' \in [{"exe", "old", "failed"} -> 0 .. Damaged]
            /\ disk'["exe"] = disk["exe"] /\ disk'["old"] = Missing
            /\ disk'["failed"] = disk["failed"]
        BY <1>t, <1>e, <2>1, <3>2 DEF Restored
      <4> QED
        BY <1>n, <3>2, <4>1
    <3> QED
      BY <1>1, <1>t, <1>e, <3>1, <3>2 DEF BackupExe, UpdaterAt, EndUpdate, MishapIf, Mishap
  <2>3. /\ UpdateTypes' /\ RequestsFit' /\ AloneSwapping' /\ ProgressIsOfRequest'
        /\ updater'[u] = r /\ mishaps' \in {mishaps, mishaps + 1} /\ mishaps \in Nat
        /\ \A w \in Updaters \ {u} : updater'[w] = updater[w]
        /\ ~disturbed => \A w \in Updaters \ {u} : updater[w].at \notin Swapping
    BY <1>t, <1>s, <2>1, <2>2, SwapMoves
  <2>f. ASSUME ~disturbed, mishaps' <= 1 PROVE Held(updater'[u].at, disk', mishaps')
    <3>1. /\ Held(updater[u].at, disk, mishaps)
          /\ mishaps' = mishaps + 1 => mishaps' = 1
          /\ updater[u].at \in {"restore", "undo"} => mishaps' # mishaps + 1
      BY <1>t, <1>z, <2>1, <2>3, <2>f, HeldBefore
    <3> QED
      BY <1>t, <2>1, <2>2, <2>3, <3>1 DEF Held
  <2>4. FilesFit'
    BY <1>t, <1>z, <2>1, <2>2, <2>3, <2>f, FilesOfSwap
  <2> QED
    BY <2>3, <2>4 DEF UpdateInv
<1>2. CASE Land(u)
  <2>1. /\ updater[u].at = "land" /\ UNCHANGED <<server, disturbed>> /\ UpdateOnly
        /\ (Mishap \/ Smooth)
    BY <1>2 DEF Land, MishapIf
  <2>2. PICK r \in UpdaterRecords :
          /\ updater' = [updater EXCEPT ![u] = r]
          /\ disk' \in [{"exe", "old", "failed"} -> 0 .. Damaged]
          /\ \/ /\ r.at = "start" /\ r.in = updater[u].in /\ r.build = updater[u].build
                /\ disk'["exe"] = updater[u].build /\ disk'["old"] = disk["old"]
                /\ disk'["failed"] = disk["failed"]
             \/ /\ r.at = "restore" /\ r.in = updater[u].in /\ r.build = updater[u].build
                /\ mishaps' = mishaps + 1
                /\ disk'["exe"] = disk'["exe"] /\ disk'["old"] = disk["old"]
                /\ disk'["failed"] = disk["failed"]
    <3>1. CASE /\ updater' = [updater EXCEPT ![u].at = "start"]
               /\ disk' = [disk EXCEPT !.exe = updater[u].build]
      <4>1. /\ disk' \in [{"exe", "old", "failed"} -> 0 .. Damaged]
            /\ disk'["exe"] = updater[u].build /\ disk'["old"] = disk["old"]
            /\ disk'["failed"] = disk["failed"]
        BY <1>t, <1>e, <2>1, <3>1 DEF Restored
      <4>2. PICK r \in UpdaterRecords :
              /\ updater' = [updater EXCEPT ![u] = r] /\ r.at = "start"
              /\ r.in = updater[u].in /\ r.build = updater[u].build
        BY <1>t, <1>z, <3>1, Moved
      <4> QED
        BY <3>1, <4>1, <4>2
    <3>2. CASE /\ updater' = [updater EXCEPT ![u].at = "restore"]
               /\ \E left \in 0 .. Damaged : disk' = [disk EXCEPT !.exe = left]
               /\ mishaps' = mishaps + 1
      <4>1. /\ disk' \in [{"exe", "old", "failed"} -> 0 .. Damaged]
            /\ disk'["exe"] = disk'["exe"] /\ disk'["old"] = disk["old"]
            /\ disk'["failed"] = disk["failed"]
        BY <1>t, <1>e, <2>1, <3>2 DEF Restored
      <4>2. PICK r \in UpdaterRecords :
              /\ updater' = [updater EXCEPT ![u] = r] /\ r.at = "restore"
              /\ r.in = updater[u].in /\ r.build = updater[u].build
        BY <1>t, <1>z, <3>2, Moved
      <4> QED
        BY <3>2, <4>1, <4>2
    <3> QED
      BY <1>2, <1>t, <1>e, <3>1, <3>2 DEF Land, UpdaterAt, EndUpdate, MishapIf, Mishap
  <2>3. /\ UpdateTypes' /\ RequestsFit' /\ AloneSwapping' /\ ProgressIsOfRequest'
        /\ updater'[u] = r /\ mishaps' \in {mishaps, mishaps + 1} /\ mishaps \in Nat
        /\ \A w \in Updaters \ {u} : updater'[w] = updater[w]
        /\ ~disturbed => \A w \in Updaters \ {u} : updater[w].at \notin Swapping
    BY <1>t, <1>s, <2>1, <2>2, SwapMoves
  <2>f. ASSUME ~disturbed, mishaps' <= 1 PROVE Held(updater'[u].at, disk', mishaps')
    <3>1. /\ Held(updater[u].at, disk, mishaps)
          /\ mishaps' = mishaps + 1 => mishaps' = 1
          /\ updater[u].at \in {"restore", "undo"} => mishaps' # mishaps + 1
      BY <1>t, <1>z, <2>1, <2>3, <2>f, HeldBefore
    <3> QED
      BY <1>t, <2>1, <2>2, <2>3, <3>1 DEF Held
  <2>4. FilesFit'
    BY <1>t, <1>z, <2>1, <2>2, <2>3, <2>f, FilesOfSwap
  <2> QED
    BY <2>3, <2>4 DEF UpdateInv
<1>3. CASE RestoreExe(u)
  <2>1. /\ updater[u].at = "restore" /\ UNCHANGED <<server, disturbed>> /\ UpdateOnly
        /\ (Mishap \/ Smooth)
    BY <1>3 DEF RestoreExe, MishapIf
  <2>2. PICK r \in UpdaterRecords :
          /\ updater' = [updater EXCEPT ![u] = r]
          /\ disk' \in [{"exe", "old", "failed"} -> 0 .. Damaged]
          /\ \/ /\ r.at = "idle" /\ r.in = 0
                /\ disk["old"] # Missing
                /\ disk'["exe"] = disk["old"] /\ disk'["old"] = Missing
                /\ disk'["failed"] = disk["failed"]
             \/ /\ r.at = "idle" /\ r.in = 0
                /\ disk["old"] = Missing
                /\ disk'["exe"] = disk["exe"] /\ disk'["old"] = disk["old"]
                /\ disk'["failed"] = disk["failed"]
             \/ /\ r.at = "idle" /\ r.in = 0
                /\ mishaps' = mishaps + 1
                /\ disk'["exe"] = disk["exe"] /\ disk'["old"] = disk["old"]
                /\ disk'["failed"] = disk["failed"]
    <3>1. CASE /\ updater' = [updater EXCEPT ![u] = NoUpdate]
               /\ disk' = Restored(disk)
               /\ disk["old"] # Missing
      <4>1. /\ disk' \in [{"exe", "old", "failed"} -> 0 .. Damaged]
            /\ disk'["exe"] = disk["old"] /\ disk'["old"] = Missing
            /\ disk'["failed"] = disk["failed"]
        BY <1>t, <1>e, <2>1, <3>1 DEF Restored
      <4> QED
        BY <1>n, <3>1, <4>1
    <3>2. CASE /\ updater' = [updater EXCEPT ![u] = NoUpdate]
               /\ UNCHANGED disk
               /\ disk["old"] = Missing
      <4>1. /\ disk' \in [{"exe", "old", "failed"} -> 0 .. Damaged]
            /\ disk'["exe"] = disk["exe"] /\ disk'["old"] = disk["old"]
            /\ disk'["failed"] = disk["failed"]
        BY <1>t, <1>e, <2>1, <3>2 DEF Restored
      <4> QED
        BY <1>n, <3>2, <4>1
    <3>3. CASE /\ updater' = [updater EXCEPT ![u] = NoUpdate]
               /\ UNCHANGED disk
               /\ mishaps' = mishaps + 1
      <4>1. /\ disk' \in [{"exe", "old", "failed"} -> 0 .. Damaged]
            /\ disk'["exe"] = disk["exe"] /\ disk'["old"] = disk["old"]
            /\ disk'["failed"] = disk["failed"]
        BY <1>t, <1>e, <2>1, <3>3 DEF Restored
      <4> QED
        BY <1>n, <3>3, <4>1
    <3> QED
      BY <1>3, <1>t, <1>e, <3>1, <3>2, <3>3 DEF RestoreExe, UpdaterAt, EndUpdate, MishapIf, Mishap
  <2>3. /\ UpdateTypes' /\ RequestsFit' /\ AloneSwapping' /\ ProgressIsOfRequest'
        /\ updater'[u] = r /\ mishaps' \in {mishaps, mishaps + 1} /\ mishaps \in Nat
        /\ \A w \in Updaters \ {u} : updater'[w] = updater[w]
        /\ ~disturbed => \A w \in Updaters \ {u} : updater[w].at \notin Swapping
    BY <1>t, <1>s, <2>1, <2>2, SwapMoves
  <2>f. ASSUME ~disturbed, mishaps' <= 1 PROVE Held(updater'[u].at, disk', mishaps')
    <3>1. /\ Held(updater[u].at, disk, mishaps)
          /\ mishaps' = mishaps + 1 => mishaps' = 1
          /\ updater[u].at \in {"restore", "undo"} => mishaps' # mishaps + 1
      BY <1>t, <1>z, <2>1, <2>3, <2>f, HeldBefore
    <3> QED
      BY <1>t, <2>1, <2>2, <2>3, <3>1 DEF Held
  <2>4. FilesFit'
    BY <1>t, <1>z, <2>1, <2>2, <2>3, <2>f, FilesOfSwap
  <2> QED
    BY <2>3, <2>4 DEF UpdateInv
<1>4. CASE SetAside(u)
  <2>1. /\ updater[u].at = "set aside" /\ UNCHANGED <<server, disturbed>> /\ UpdateOnly
        /\ (Mishap \/ Smooth)
    BY <1>4 DEF SetAside, MishapIf
  <2>2. PICK r \in UpdaterRecords :
          /\ updater' = [updater EXCEPT ![u] = r]
          /\ disk' \in [{"exe", "old", "failed"} -> 0 .. Damaged]
          /\ \/ /\ r.at = "bring back" /\ r.in = updater[u].in /\ r.build = updater[u].build
                /\ disk["exe"] # Missing
                /\ disk'["exe"] = Missing /\ disk'["old"] = disk["old"]
                /\ disk'["failed"] = disk["exe"]
             \/ /\ r.at = "idle" /\ r.in = 0
                /\ disk'["exe"] = disk["exe"] /\ disk'["old"] = disk["old"]
                /\ disk'["failed"] = Missing
    <3>1. CASE /\ updater' = [updater EXCEPT ![u].at = "bring back"]
               /\ disk' = [disk EXCEPT !.failed = disk.exe, !.exe = Missing]
               /\ disk["exe"] # Missing
      <4>1. /\ disk' \in [{"exe", "old", "failed"} -> 0 .. Damaged]
            /\ disk'["exe"] = Missing /\ disk'["old"] = disk["old"] /\ disk'["failed"] = disk["exe"]
        BY <1>t, <1>e, <2>1, <3>1 DEF Restored
      <4>2. PICK r \in UpdaterRecords :
              /\ updater' = [updater EXCEPT ![u] = r] /\ r.at = "bring back"
              /\ r.in = updater[u].in /\ r.build = updater[u].build
        BY <1>t, <1>z, <3>1, Moved
      <4> QED
        BY <3>1, <4>1, <4>2
    <3>2. CASE /\ updater' = [updater EXCEPT ![u] = NoUpdate]
               /\ disk' = [disk EXCEPT !.failed = Missing]
      <4>1. /\ disk' \in [{"exe", "old", "failed"} -> 0 .. Damaged]
            /\ disk'["exe"] = disk["exe"] /\ disk'["old"] = disk["old"] /\ disk'["failed"] = Missing
        BY <1>t, <1>e, <2>1, <3>2 DEF Restored
      <4> QED
        BY <1>n, <3>2, <4>1
    <3> QED
      BY <1>4, <1>t, <1>e, <3>1, <3>2 DEF SetAside, UpdaterAt, EndUpdate, MishapIf, Mishap
  <2>3. /\ UpdateTypes' /\ RequestsFit' /\ AloneSwapping' /\ ProgressIsOfRequest'
        /\ updater'[u] = r /\ mishaps' \in {mishaps, mishaps + 1} /\ mishaps \in Nat
        /\ \A w \in Updaters \ {u} : updater'[w] = updater[w]
        /\ ~disturbed => \A w \in Updaters \ {u} : updater[w].at \notin Swapping
    BY <1>t, <1>s, <2>1, <2>2, SwapMoves
  <2>f. ASSUME ~disturbed, mishaps' <= 1 PROVE Held(updater'[u].at, disk', mishaps')
    <3>1. /\ Held(updater[u].at, disk, mishaps)
          /\ mishaps' = mishaps + 1 => mishaps' = 1
          /\ updater[u].at \in {"restore", "undo"} => mishaps' # mishaps + 1
      BY <1>t, <1>z, <2>1, <2>3, <2>f, HeldBefore
    <3> QED
      BY <1>t, <2>1, <2>2, <2>3, <3>1 DEF Held
  <2>4. FilesFit'
    BY <1>t, <1>z, <2>1, <2>2, <2>3, <2>f, FilesOfSwap
  <2> QED
    BY <2>3, <2>4 DEF UpdateInv
<1>5. CASE BringBack(u)
  <2>1. /\ updater[u].at = "bring back" /\ UNCHANGED <<server, disturbed>> /\ UpdateOnly
        /\ (Mishap \/ Smooth)
    BY <1>5 DEF BringBack, MishapIf
  <2>2. PICK r \in UpdaterRecords :
          /\ updater' = [updater EXCEPT ![u] = r]
          /\ disk' \in [{"exe", "old", "failed"} -> 0 .. Damaged]
          /\ \/ /\ r.at = "start" /\ r.in = updater[u].in /\ r.build = updater[u].build
                /\ disk["old"] # Missing
                /\ disk'["exe"] = disk["old"] /\ disk'["old"] = Missing
                /\ disk'["failed"] = disk["failed"]
             \/ /\ r.at = "undo" /\ r.in = updater[u].in /\ r.build = updater[u].build
                /\ disk["old"] = Missing \/ mishaps' = mishaps + 1
                /\ disk'["exe"] = disk["exe"] /\ disk'["old"] = disk["old"]
                /\ disk'["failed"] = disk["failed"]
    <3>1. CASE /\ updater' = [updater EXCEPT ![u].at = "start"]
               /\ disk' = Restored(disk)
               /\ disk["old"] # Missing
      <4>1. /\ disk' \in [{"exe", "old", "failed"} -> 0 .. Damaged]
            /\ disk'["exe"] = disk["old"] /\ disk'["old"] = Missing
            /\ disk'["failed"] = disk["failed"]
        BY <1>t, <1>e, <2>1, <3>1 DEF Restored
      <4>2. PICK r \in UpdaterRecords :
              /\ updater' = [updater EXCEPT ![u] = r] /\ r.at = "start"
              /\ r.in = updater[u].in /\ r.build = updater[u].build
        BY <1>t, <1>z, <3>1, Moved
      <4> QED
        BY <3>1, <4>1, <4>2
    <3>2. CASE /\ updater' = [updater EXCEPT ![u].at = "undo"]
               /\ UNCHANGED disk
               /\ disk["old"] = Missing \/ mishaps' = mishaps + 1
      <4>1. /\ disk' \in [{"exe", "old", "failed"} -> 0 .. Damaged]
            /\ disk'["exe"] = disk["exe"] /\ disk'["old"] = disk["old"]
            /\ disk'["failed"] = disk["failed"]
        BY <1>t, <1>e, <2>1, <3>2 DEF Restored
      <4>2. PICK r \in UpdaterRecords :
              /\ updater' = [updater EXCEPT ![u] = r] /\ r.at = "undo"
              /\ r.in = updater[u].in /\ r.build = updater[u].build
        BY <1>t, <1>z, <3>2, Moved
      <4> QED
        BY <3>2, <4>1, <4>2
    <3> QED
      BY <1>5, <1>t, <1>e, <3>1, <3>2 DEF BringBack, UpdaterAt, EndUpdate, MishapIf, Mishap
  <2>3. /\ UpdateTypes' /\ RequestsFit' /\ AloneSwapping' /\ ProgressIsOfRequest'
        /\ updater'[u] = r /\ mishaps' \in {mishaps, mishaps + 1} /\ mishaps \in Nat
        /\ \A w \in Updaters \ {u} : updater'[w] = updater[w]
        /\ ~disturbed => \A w \in Updaters \ {u} : updater[w].at \notin Swapping
    BY <1>t, <1>s, <2>1, <2>2, SwapMoves
  <2>f. ASSUME ~disturbed, mishaps' <= 1 PROVE Held(updater'[u].at, disk', mishaps')
    <3>1. /\ Held(updater[u].at, disk, mishaps)
          /\ mishaps' = mishaps + 1 => mishaps' = 1
          /\ updater[u].at \in {"restore", "undo"} => mishaps' # mishaps + 1
      BY <1>t, <1>z, <2>1, <2>3, <2>f, HeldBefore
    <3> QED
      BY <1>t, <2>1, <2>2, <2>3, <3>1 DEF Held
  <2>4. FilesFit'
    BY <1>t, <1>z, <2>1, <2>2, <2>3, <2>f, FilesOfSwap
  <2> QED
    BY <2>3, <2>4 DEF UpdateInv
<1>6. CASE UndoSetAside(u)
  <2>1. /\ updater[u].at = "undo" /\ UNCHANGED <<server, disturbed>> /\ UpdateOnly
        /\ (Mishap \/ Smooth)
    BY <1>6 DEF UndoSetAside, MishapIf
  <2>2. PICK r \in UpdaterRecords :
          /\ updater' = [updater EXCEPT ![u] = r]
          /\ disk' \in [{"exe", "old", "failed"} -> 0 .. Damaged]
          /\ \/ /\ r.at = "idle" /\ r.in = 0
                /\ disk["failed"] # Missing
                /\ disk'["exe"] = disk["failed"] /\ disk'["old"] = disk["old"]
                /\ disk'["failed"] = Missing
             \/ /\ r.at = "idle" /\ r.in = 0
                /\ disk["failed"] = Missing
                /\ disk'["exe"] = disk["exe"] /\ disk'["old"] = disk["old"]
                /\ disk'["failed"] = disk["failed"]
             \/ /\ r.at = "idle" /\ r.in = 0
                /\ mishaps' = mishaps + 1
                /\ disk'["exe"] = disk["exe"] /\ disk'["old"] = disk["old"]
                /\ disk'["failed"] = disk["failed"]
    <3>1. CASE /\ updater' = [updater EXCEPT ![u] = NoUpdate]
               /\ disk' = [disk EXCEPT !.exe = disk.failed, !.failed = Missing]
               /\ disk["failed"] # Missing
      <4>1. /\ disk' \in [{"exe", "old", "failed"} -> 0 .. Damaged]
            /\ disk'["exe"] = disk["failed"] /\ disk'["old"] = disk["old"]
            /\ disk'["failed"] = Missing
        BY <1>t, <1>e, <2>1, <3>1 DEF Restored
      <4> QED
        BY <1>n, <3>1, <4>1
    <3>2. CASE /\ updater' = [updater EXCEPT ![u] = NoUpdate]
               /\ UNCHANGED disk
               /\ disk["failed"] = Missing
      <4>1. /\ disk' \in [{"exe", "old", "failed"} -> 0 .. Damaged]
            /\ disk'["exe"] = disk["exe"] /\ disk'["old"] = disk["old"]
            /\ disk'["failed"] = disk["failed"]
        BY <1>t, <1>e, <2>1, <3>2 DEF Restored
      <4> QED
        BY <1>n, <3>2, <4>1
    <3>3. CASE /\ updater' = [updater EXCEPT ![u] = NoUpdate]
               /\ UNCHANGED disk
               /\ mishaps' = mishaps + 1
      <4>1. /\ disk' \in [{"exe", "old", "failed"} -> 0 .. Damaged]
            /\ disk'["exe"] = disk["exe"] /\ disk'["old"] = disk["old"]
            /\ disk'["failed"] = disk["failed"]
        BY <1>t, <1>e, <2>1, <3>3 DEF Restored
      <4> QED
        BY <1>n, <3>3, <4>1
    <3> QED
      BY <1>6, <1>t, <1>e, <3>1, <3>2, <3>3 DEF UndoSetAside, UpdaterAt, EndUpdate, MishapIf, Mishap
  <2>3. /\ UpdateTypes' /\ RequestsFit' /\ AloneSwapping' /\ ProgressIsOfRequest'
        /\ updater'[u] = r /\ mishaps' \in {mishaps, mishaps + 1} /\ mishaps \in Nat
        /\ \A w \in Updaters \ {u} : updater'[w] = updater[w]
        /\ ~disturbed => \A w \in Updaters \ {u} : updater[w].at \notin Swapping
    BY <1>t, <1>s, <2>1, <2>2, SwapMoves
  <2>f. ASSUME ~disturbed, mishaps' <= 1 PROVE Held(updater'[u].at, disk', mishaps')
    <3>1. /\ Held(updater[u].at, disk, mishaps)
          /\ mishaps' = mishaps + 1 => mishaps' = 1
          /\ updater[u].at \in {"restore", "undo"} => mishaps' # mishaps + 1
      BY <1>t, <1>z, <2>1, <2>3, <2>f, HeldBefore
    <3> QED
      BY <1>t, <2>1, <2>2, <2>3, <3>1 DEF Held
  <2>4. FilesFit'
    BY <1>t, <1>z, <2>1, <2>2, <2>3, <2>f, FilesOfSwap
  <2> QED
    BY <2>3, <2>4 DEF UpdateInv
<1> QED
  BY <1>1, <1>2, <1>3, <1>4, <1>5, <1>6

\* What a report of progress does to the processes.
LEMMA ProgressMoves ==
  ASSUME UpdateTypes, NEW p \in Processes,
         NEW x \in {"idle", "downloading", "verifying", "done", "failed"},
         server' = [server EXCEPT ![p].progress = x]
  PROVE  /\ server' \in [Processes -> ServerRecords]
         /\ \A q \in Processes : server'[q].at = server[q].at
         /\ server'[p].progress = x /\ \A q \in Processes \ {p} : server'[q] = server[q]
  BY DEF UpdateTypes, ServerRecords

\* The files where no swap begins or ends but by being remembered.
LEMMA FilesStay ==
  ASSUME UpdateTypes, FilesFit, disk' = disk, mishaps' \in {mishaps, mishaps + 1},
         disturbed => disturbed',
         ~disturbed' => \A w \in Updaters :
           \/ updater'[w].at = updater[w].at
           \/ updater[w].at \notin Swapping /\ updater'[w].at \notin Swapping
  PROVE  FilesFit'
<1> SUFFICES ASSUME ~disturbed', mishaps' <= 1 PROVE FilesFit'
  BY DEF FilesFit
<1>0. mishaps \in Nat
  BY DEF UpdateTypes
<1>1. ~disturbed /\ mishaps <= 1 /\ (mishaps = 1 => mishaps' = 1)
  BY <1>0
<1>2. AtRest' => AtRest
  BY DEF AtRest
<1>3. \A w \in Updaters : updater'[w].at \in Swapping => updater'[w].at = updater[w].at
  OBVIOUS
<1>4. ASSUME NEW at, Held(at, disk, mishaps) PROVE Held(at, disk', mishaps')
  BY <1>1, <1>4 DEF Held
<1>5. AtRest' => Held("idle", disk', mishaps')
  BY <1>1, <1>2, <1>4 DEF FilesFit
<1>6. \A w \in Updaters : updater'[w].at \in Swapping => Held(updater'[w].at, disk', mishaps')
  BY <1>1, <1>3, <1>4 DEF FilesFit
<1> QED
  BY <1>5, <1>6 DEF FilesFit

\* The same, as most steps need it.
LEMMA MishapsStay ==
  ASSUME UpdateTypes, Mishap \/ Smooth
  PROVE  mishaps' \in 0 .. MaxMishaps /\ mishaps' \in {mishaps, mishaps + 1} /\ mishaps \in Nat
<1>1. mishaps \in 0 .. MaxMishaps
  BY DEF UpdateTypes
<1> QED
  BY <1>1, MishapsMove

\* What an update does before its swap.
LEMMA RequestStep ==
  ASSUME UpdateInv, NEW u \in Updaters, Download(u) \/ VerifyChecksum(u)
  PROVE  UpdateInv'
<1>t. /\ UpdateTypes /\ RequestsFit /\ AloneSwapping /\ ProgressIsOfRequest /\ FilesFit
      /\ updater \in [Updaters -> UpdaterRecords] /\ updater[u] \in UpdaterRecords
      /\ updater[u].build \in 0 .. Damaged /\ Damaged \in 0 .. Damaged /\ Damaged # Missing
      /\ Versions = 0 .. Damaged \ {Missing, Damaged}
  BY SelfUpdateAssumption DEF UpdateInv, UpdateTypes, UpdaterRecords, Missing, Damaged, Versions
<1>z. /\ "idle" \notin Swapping /\ "download" \notin Swapping /\ "verify" \notin Swapping
      /\ "backup" \in Swapping
  BY DEF Swapping
<1>n. NoUpdate \in UpdaterRecords /\ NoUpdate.at = "idle" /\ NoUpdate.in = 0
  BY EndedIs
<1>p. updater[u].in \in Processes /\ server[updater[u].in].at = "serving"
  <2>1. updater[u].at \in {"download", "verify"}
    BY DEF Download, VerifyChecksum
  <2> QED
    BY <1>t, <2>1 DEF RequestsFit, UpdateTypes, UpdaterRecords
<1>m. /\ UNCHANGED disk /\ UpdateOnly /\ (Mishap \/ Smooth)
      /\ mishaps' \in 0 .. MaxMishaps /\ mishaps' \in {mishaps, mishaps + 1} /\ mishaps \in Nat
  <2>1. UNCHANGED disk /\ UpdateOnly /\ (Mishap \/ Smooth)
    BY DEF Download, VerifyChecksum, MishapIf
  <2> QED
    BY <1>t, <2>1, MishapsStay
<1>1. \E x \in {"idle", "downloading", "verifying", "done", "failed"}, r \in UpdaterRecords :
        /\ server' = [server EXCEPT ![updater[u].in].progress = x]
        /\ updater' = [updater EXCEPT ![u] = r]
        /\ \/ /\ r.at = "verify" /\ r.in = updater[u].in /\ r.build # Missing
              /\ x = "verifying" /\ disturbed' = disturbed
           \/ r.at = "idle" /\ r.in = 0 /\ x = "failed" /\ disturbed' = disturbed
           \/ /\ r.at = "backup" /\ r.in = updater[u].in /\ r.build \in Versions
              /\ x = "done" /\ Meets(u)
  <2>1. CASE Download(u)
    <3>1. CASE /\ updater' = [updater EXCEPT ![u].at = "verify"]
               /\ Progress(u, "verifying") /\ UNCHANGED disturbed
      <4>1. PICK r \in UpdaterRecords :
              /\ updater' = [updater EXCEPT ![u] = r] /\ r.at = "verify"
              /\ r.in = updater[u].in /\ r.build = updater[u].build
        BY <1>t, <3>1, Moved
      <4>2. r.build # Missing
        BY <1>t, <2>1, <4>1 DEF Download, RequestsFit
      <4> QED
        BY <3>1, <4>1, <4>2 DEF Progress
    <3>2. CASE /\ updater' = [updater EXCEPT ![u] = [at |-> "verify", in |-> updater[u].in,
                                                     build |-> Damaged]]
               /\ Progress(u, "verifying") /\ UNCHANGED disturbed
      <4> DEFINE r == [at |-> "verify", in |-> updater[u].in, build |-> Damaged]
      <4>1. r \in UpdaterRecords /\ r.at = "verify" /\ r.in = updater[u].in /\ r.build = Damaged
        BY <1>t DEF UpdaterRecords
      <4>2. updater' = [updater EXCEPT ![u] = r]
        BY <1>t, <3>2 DEF UpdaterRecords
      <4> HIDE DEF r
      <4> QED
        BY <1>t, <3>2, <4>1, <4>2 DEF Progress
    <3>3. CASE EndUpdate(u) /\ Progress(u, "failed") /\ UNCHANGED disturbed
      BY <1>n, <3>3 DEF EndUpdate, Progress
    <3> QED
      BY <2>1, <3>1, <3>2, <3>3 DEF Download, UpdaterAt
  <2>2. CASE VerifyChecksum(u)
    <3>1. CASE /\ ChecksumFits(updater[u].build) /\ updater' = [updater EXCEPT ![u].at = "backup"]
               /\ Progress(u, "done") /\ Meets(u)
      <4>1. PICK r \in UpdaterRecords :
              /\ updater' = [updater EXCEPT ![u] = r] /\ r.at = "backup"
              /\ r.in = updater[u].in /\ r.build = updater[u].build
        BY <1>t, <1>z, <3>1, Moved
      <4>2. r.build \in Versions
        BY <1>t, <2>2, <3>1, <4>1 DEF VerifyChecksum, RequestsFit, ChecksumFits
      <4> QED
        BY <3>1, <4>1, <4>2 DEF Progress
    <3>2. CASE EndUpdate(u) /\ Refused(u) /\ UNCHANGED disturbed
      BY <1>n, <3>2 DEF EndUpdate, Progress, Refused
    <3> QED
      BY <2>2, <3>1, <3>2 DEF VerifyChecksum, UpdaterAt
  <2> QED
    BY <2>1, <2>2
<1>2. PICK x \in {"idle", "downloading", "verifying", "done", "failed"}, r \in UpdaterRecords :
        /\ server' = [server EXCEPT ![updater[u].in].progress = x]
        /\ updater' = [updater EXCEPT ![u] = r]
        /\ \/ /\ r.at = "verify" /\ r.in = updater[u].in /\ r.build # Missing
              /\ x = "verifying" /\ disturbed' = disturbed
           \/ r.at = "idle" /\ r.in = 0 /\ x = "failed" /\ disturbed' = disturbed
           \/ /\ r.at = "backup" /\ r.in = updater[u].in /\ r.build \in Versions
              /\ x = "done" /\ Meets(u)
  BY <1>1
<1>3. /\ updater'[u] = r /\ updater' \in [Updaters -> UpdaterRecords]
      /\ \A w \in Updaters \ {u} : updater'[w] = updater[w]
  BY <1>t, <1>2
<1>4. /\ server' \in [Processes -> ServerRecords]
      /\ \A q \in Processes : server'[q].at = server[q].at
      /\ server'[updater[u].in].progress = x
      /\ \A q \in Processes \ {updater[u].in} : server'[q] = server[q]
  BY <1>t, <1>p, <1>2, ProgressMoves
<1>5. disturbed' \in BOOLEAN /\ (disturbed => disturbed')
  BY <1>t, <1>2 DEF Meets, UpdateTypes
<1>6. UpdateTypes'
  <2>1. \A w \in Updaters : updater'[w].in # 0 => server'[updater'[w].in].at = "serving"
    <3>1. \A w \in Updaters : updater[w].in # 0 => updater[w].in \in Processes
      BY <1>t DEF UpdaterRecords
    <3> QED
      BY <1>t, <1>2, <1>3, <1>4, <1>p, <3>1 DEF UpdateTypes
  <2> QED
    BY <1>t, <1>m, <1>3, <1>4, <1>5, <2>1 DEF UpdateTypes, UpdateOnly
<1>7. RequestsFit'
  <2>1. updater'[u].at = "idle" <=> updater'[u].in = 0
    BY <1>2, <1>3, <1>p, SelfUpdateAssumption
  <2> QED
    BY <1>t, <1>2, <1>3, <2>1 DEF RequestsFit
<1>8. ProgressIsOfRequest'
  BY <1>t, <1>2, <1>3, <1>4, <1>p DEF ProgressIsOfRequest
<1>9. AloneSwapping' /\ FilesFit'
  <2>1. CASE r.at # "backup"
    <3>1. disturbed' = disturbed /\ r.at \notin Swapping /\ updater[u].at \notin Swapping
      BY <1>2, <1>z, <2>1 DEF Download, VerifyChecksum
    <3>2. AloneSwapping'
      BY <1>t, <1>3, <3>1 DEF AloneSwapping
    <3>3. FilesFit'
      BY <1>t, <1>m, <1>3, <1>5, <3>1, FilesStay
    <3> QED
      BY <3>2, <3>3
  <2>2. CASE r.at = "backup"
    <3>1. /\ ~disturbed' => ~disturbed /\ \A w \in Updaters \ {u} : updater[w].at \notin Swapping
          /\ updater[u].at \notin Swapping
      BY <1>2, <1>z, <2>2 DEF Meets, Download, VerifyChecksum
    <3>2. AloneSwapping'
      BY <1>3, <3>1 DEF AloneSwapping
    <3>3. ASSUME ~disturbed', mishaps' <= 1 PROVE FilesFit'
      <4>1. mishaps <= 1 /\ ~disturbed /\ AtRest
        BY <1>m, <3>1, <3>3 DEF AtRest
      <4>2. Held("idle", disk, mishaps)
        BY <1>t, <4>1 DEF FilesFit
      <4>3. Held("backup", disk', mishaps')
        BY <1>m, <4>2 DEF Held
      <4>4. ~AtRest' /\ \A w \in Updaters : updater'[w].at \in Swapping => updater'[w].at = "backup"
        BY <1>3, <1>z, <2>2, <3>1, <3>3 DEF AtRest
      <4> QED
        BY <4>3, <4>4 DEF FilesFit
    <3> QED
      BY <3>2, <3>3 DEF FilesFit
  <2> QED
    BY <2>1, <2>2
<1> QED
  BY <1>6, <1>7, <1>8, <1>9 DEF UpdateInv

\* A request begins: an update, or a rollback with its swap.
LEMMA BeginStep ==
  ASSUME UpdateInv, NEW u \in Updaters, NEW p \in Processes,
         RollBackUpdate(u, p) \/ \E channel \in {"stable", "prerelease"} :
         ApplyUpdate(u, p, channel)
  PROVE  UpdateInv'
<1>t. /\ UpdateTypes /\ RequestsFit /\ AloneSwapping /\ ProgressIsOfRequest /\ FilesFit
      /\ updater \in [Updaters -> UpdaterRecords] /\ updater[u] \in UpdaterRecords
      /\ Versions \subseteq 0 .. Damaged /\ Missing \in 0 .. Damaged /\ p # 0
      /\ Missing \notin Versions
      /\ published \subseteq Versions /\ newestFormal \in {0} \cup Formal
      /\ Formal \subseteq Versions
  BY SelfUpdateAssumption DEF UpdateInv, UpdateTypes, UpdaterRecords, Missing, Damaged, Versions
<1>z. /\ "idle" \notin Swapping /\ "download" \notin Swapping /\ "set aside" \in Swapping
  BY DEF Swapping
<1>n. updater[u].at = "idle" /\ server[p].at = "serving"
  <2>1. updater[u] = NoUpdate /\ server[p].at = "serving"
    BY DEF RollBackUpdate, ApplyUpdate
  <2> QED
    BY <2>1, EndedIs
<1>m. /\ UNCHANGED disk /\ UpdateOnly
      /\ mishaps' \in 0 .. MaxMishaps /\ mishaps' \in {mishaps, mishaps + 1} /\ mishaps \in Nat
  <2>1. UNCHANGED disk /\ UpdateOnly /\ Smooth
    BY DEF RollBackUpdate, ApplyUpdate
  <2> QED
    BY <1>t, <2>1, MishapsStay
<1>0. ASSUME NEW r \in UpdaterRecords, updater' = [updater EXCEPT ![u] = r], r.in = p
      PROVE  /\ updater'[u] = r /\ updater' \in [Updaters -> UpdaterRecords]
             /\ \A w \in Updaters \ {u} : updater'[w] = updater[w]
  BY <1>t, <1>0
<1>1. ASSUME NEW channel \in {"stable", "prerelease"}, ApplyUpdate(u, p, channel) PROVE UpdateInv'
  <2>1. PICK v \in Selected(channel) :
          updater' = [updater EXCEPT ![u] = [at |-> "download", in |-> p, build |-> v]]
    BY <1>1 DEF ApplyUpdate
  <2>2. v \in Versions
    <3>1. Selected(channel) \subseteq Versions
      BY <1>t DEF Selected
    <3> QED
      BY <3>1
  <2> DEFINE r == [at |-> "download", in |-> p, build |-> v]
  <2>3. r \in UpdaterRecords /\ r.at = "download" /\ r.in = p /\ r.build = v
    BY <1>t, <2>2 DEF UpdaterRecords
  <2>4. updater' = [updater EXCEPT ![u] = r]
    BY <2>1
  <2> HIDE DEF r
  <2>5. /\ updater'[u] = r /\ updater' \in [Updaters -> UpdaterRecords]
        /\ \A w \in Updaters \ {u} : updater'[w] = updater[w]
    BY <1>t, <2>3, <2>4
  <2>6. server' = [server EXCEPT ![p].progress = "downloading"] /\ disturbed' = disturbed
    BY <1>1 DEF ApplyUpdate
  <2>7. /\ server' \in [Processes -> ServerRecords]
        /\ \A q \in Processes : server'[q].at = server[q].at
        /\ server'[p].progress = "downloading"
        /\ \A q \in Processes \ {p} : server'[q] = server[q]
    BY <1>t, <2>6, ProgressMoves
  <2>8. UpdateTypes'
    <3>1. \A w \in Updaters : updater'[w].in # 0 => server'[updater'[w].in].at = "serving"
      <4>1. \A w \in Updaters : updater[w].in # 0 => updater[w].in \in Processes
        BY <1>t DEF UpdaterRecords
      <4> QED
        BY <1>t, <1>n, <2>3, <2>5, <2>7, <4>1 DEF UpdateTypes
    <3> QED
      BY <1>t, <1>m, <2>5, <2>6, <2>7, <3>1 DEF UpdateTypes, UpdateOnly
  <2>9. RequestsFit'
    BY <1>t, <2>2, <2>3, <2>5 DEF RequestsFit
  <2>10. ProgressIsOfRequest'
    BY <1>t, <1>n, <2>3, <2>5, <2>7 DEF ProgressIsOfRequest
  <2>11. AloneSwapping'
    BY <1>t, <1>z, <2>3, <2>5, <2>6 DEF AloneSwapping
  <2>12. FilesFit'
    BY <1>t, <1>m, <1>n, <1>z, <2>3, <2>5, <2>6, FilesStay
  <2> QED
    BY <2>8, <2>9, <2>10, <2>11, <2>12 DEF UpdateInv
<1>2. CASE RollBackUpdate(u, p)
  <2> DEFINE r == [at |-> "set aside", in |-> p, build |-> Missing]
  <2>3. r \in UpdaterRecords /\ r.at = "set aside" /\ r.in = p
    BY <1>t, <1>z DEF UpdaterRecords
  <2>4. updater' = [updater EXCEPT ![u] = r]
    BY <1>2 DEF RollBackUpdate
  <2> HIDE DEF r
  <2>5. /\ updater'[u] = r /\ updater' \in [Updaters -> UpdaterRecords]
        /\ \A w \in Updaters \ {u} : updater'[w] = updater[w]
    BY <1>t, <2>3, <2>4
  <2>6. UNCHANGED server /\ Meets(u) /\ disk.old # Missing
    BY <1>2 DEF RollBackUpdate
  <2>7. /\ disturbed' \in BOOLEAN
        /\ ~disturbed' => ~disturbed /\ \A w \in Updaters \ {u} : updater[w].at \notin Swapping
    BY <1>t, <2>6 DEF Meets, UpdateTypes
  <2>8. UpdateTypes'
    <3>1. \A w \in Updaters : updater'[w].in # 0 => server'[updater'[w].in].at = "serving"
      BY <1>t, <1>n, <2>3, <2>5, <2>6 DEF UpdateTypes
    <3> QED
      BY <1>t, <1>m, <2>5, <2>6, <2>7, <3>1 DEF UpdateTypes, UpdateOnly
  <2>9. RequestsFit'
    BY <1>t, <2>3, <2>5 DEF RequestsFit
  <2>10. ProgressIsOfRequest'
    <3>1. \A w \in Updaters : updater[w].at \in {"download", "verify"} => updater'[w] = updater[w]
      BY <1>n, <2>5
    <3> QED
      BY <1>t, <2>6, <3>1 DEF ProgressIsOfRequest
  <2>11. AloneSwapping'
    BY <2>5, <2>7 DEF AloneSwapping
  <2>12. ASSUME ~disturbed', mishaps' <= 1 PROVE FilesFit'
    <3>0. ~disturbed /\ AtRest
      BY <1>n, <1>z, <2>7, <2>12 DEF AtRest
    <3>1. mishaps <= 1 /\ ~disturbed /\ AtRest
      BY <1>m, <2>12, <3>0
    <3>2. Held("idle", disk, mishaps)
      BY <1>t, <3>1 DEF FilesFit
    <3>3. Held("set aside", disk', mishaps')
      BY <1>m, <2>6, <3>2 DEF Held
    <3>4. ~AtRest' /\ \A w \in Updaters : updater'[w].at \in Swapping => updater'[w].at = "set aside"
      BY <1>z, <2>3, <2>5, <2>7, <2>12 DEF AtRest
    <3> QED
      BY <3>3, <3>4 DEF FilesFit
  <2> QED
    BY <2>8, <2>9, <2>10, <2>11, <2>12 DEF UpdateInv, FilesFit
<1> QED
  BY <1>1, <1>2

\* A process that ends takes its requests with it.
LEMMA EndStep ==
  ASSUME UpdateInv, NEW p \in Processes, Ended(p), UNCHANGED disk, UpdateOnly, Mishap \/ Smooth
  PROVE  UpdateInv'
<1>t. /\ UpdateTypes /\ RequestsFit /\ AloneSwapping /\ ProgressIsOfRequest /\ FilesFit
      /\ updater \in [Updaters -> UpdaterRecords]
  BY DEF UpdateInv, UpdateTypes
<1>z. "idle" \notin Swapping
  BY DEF Swapping
<1>n. NoUpdate \in UpdaterRecords /\ NoUpdate.at = "idle" /\ NoUpdate.in = 0 /\ p # 0
  BY EndedIs, SelfUpdateAssumption
<1>m. mishaps' \in 0 .. MaxMishaps /\ mishaps' \in {mishaps, mishaps + 1} /\ mishaps \in Nat
  BY <1>t, MishapsStay
<1>o. Off \in ServerRecords /\ Off.at = "off" /\ Off.progress = "idle"
  <2>1. 0 \in 0 .. MaxVersion
    BY SelfUpdateAssumption
  <2> QED
    BY <2>1 DEF Off, Fresh, Missing, ServerRecords
<1>1. /\ updater' \in [Updaters -> UpdaterRecords]
      /\ \A u \in Updaters : updater'[u] = IF updater[u].in = p THEN NoUpdate ELSE updater[u]
  BY <1>t, <1>n DEF Ended
<1>2. /\ server' \in [Processes -> ServerRecords] /\ server'[p] = Off
      /\ \A q \in Processes \ {p} : server'[q] = server[q]
  BY <1>t, <1>o DEF Ended, UpdateTypes
<1>3. /\ disturbed' \in BOOLEAN
      /\ ~disturbed' => ~disturbed /\ \A u \in Updaters : updater[u].in = p =>
             updater[u].at \notin Swapping
  BY <1>t DEF Ended, UpdateTypes
<1>4. UpdateTypes'
  <2>1. \A q, r \in Processes : server'[q].at = "serving" /\ server'[r].at = "serving" => q = r
    BY <1>t, <1>2, <1>o DEF UpdateTypes
  <2>2. \A u \in Updaters : updater'[u].in # 0 => server'[updater'[u].in].at = "serving"
    <3>1. \A w \in Updaters : updater[w].in # 0 => updater[w].in \in Processes
      BY <1>t DEF UpdaterRecords
    <3> QED
      BY <1>t, <1>n, <1>1, <1>2, <3>1 DEF UpdateTypes
  <2> QED
    BY <1>t, <1>m, <1>1, <1>2, <1>3, <2>1, <2>2 DEF UpdateTypes, UpdateOnly
<1>5. RequestsFit'
  BY <1>t, <1>n, <1>1 DEF RequestsFit
<1>6. ProgressIsOfRequest'
  BY <1>t, <1>n, <1>o, <1>1, <1>2 DEF ProgressIsOfRequest
<1>7. AloneSwapping'
  BY <1>t, <1>n, <1>z, <1>1, <1>3 DEF AloneSwapping
<1>8. FilesFit'
  <2>1. ~disturbed' => \A u \in Updaters :
           \/ updater'[u].at = updater[u].at
           \/ updater[u].at \notin Swapping /\ updater'[u].at \notin Swapping
    BY <1>n, <1>z, <1>1, <1>3
  <2> QED
    BY <1>t, <1>m, <1>3, <2>1, FilesStay
<1> QED
  BY <1>4, <1>5, <1>6, <1>7, <1>8 DEF UpdateInv

\* A process that leaves.
LEMMA LeavingIs ==
  ASSUME NEW r \in ServerRecords
  PROVE  /\ [r EXCEPT !.leaving = TRUE] \in ServerRecords
         /\ [r EXCEPT !.leaving = TRUE].at = r.at
         /\ [r EXCEPT !.leaving = TRUE].progress = r.progress
  BY DEF ServerRecords

\* A process begins, from the executable that a swap has left or that is there.
LEMMA SpawnStep ==
  ASSUME UpdateInv, NEW u \in Updaters, SpawnAndExit(u)
  PROVE  UpdateInv'
<1>t. /\ UpdateTypes /\ RequestsFit /\ AloneSwapping /\ ProgressIsOfRequest /\ FilesFit
      /\ updater \in [Updaters -> UpdaterRecords] /\ updater[u].at = "start"
  BY DEF UpdateInv, UpdateTypes, SpawnAndExit
<1>z. /\ "idle" \notin Swapping /\ "start" \in Swapping
      /\ "download" \notin Swapping /\ "verify" \notin Swapping
  BY DEF Swapping
<1>n. NoUpdate \in UpdaterRecords /\ NoUpdate.at = "idle" /\ NoUpdate.in = 0
  BY EndedIs
<1>m. /\ UNCHANGED <<disk, disturbed>> /\ UpdateOnly
      /\ mishaps' \in 0 .. MaxMishaps /\ mishaps' \in {mishaps, mishaps + 1} /\ mishaps \in Nat
  <2>1. UNCHANGED <<disk, disturbed>> /\ UpdateOnly /\ (Mishap \/ Smooth)
    BY DEF SpawnAndExit, MishapIf
  <2> QED
    BY <1>t, <2>1, MishapsStay
<1>p. updater[u].in \in Processes /\ server[updater[u].in].at = "serving"
  BY <1>t DEF RequestsFit, UpdateTypes, UpdaterRecords
<1>1. /\ updater' \in [Updaters -> UpdaterRecords] /\ updater'[u] = NoUpdate
      /\ \A w \in Updaters \ {u} : updater'[w] = updater[w]
  BY <1>t, <1>n DEF SpawnAndExit, EndUpdate
<1>2. /\ server' \in [Processes -> ServerRecords]
      /\ \A q \in Processes : server'[q].at = "serving" <=> server[q].at = "serving"
      /\ \A q \in Processes : server'[q].progress \in {"downloading", "verifying"} =>
           server'[q].progress = server[q].progress
  <2>1. CASE server' = server
    BY <1>t, <2>1 DEF UpdateTypes
  <2>2. ASSUME NEW q \in FreeProcess, disk.exe \in Versions,
               server' = [server EXCEPT ![updater[u].in].leaving = TRUE,
                                        ![q] = Fresh("starting", disk.exe)]
        PROVE  /\ server' \in [Processes -> ServerRecords]
               /\ \A r \in Processes : server'[r].at = "serving" <=> server[r].at = "serving"
               /\ \A r \in Processes : server'[r].progress \in {"downloading", "verifying"} =>
                    server'[r].progress = server[r].progress
    <3> DEFINE left == [server EXCEPT ![updater[u].in].leaving = TRUE]
    <3>1. /\ left \in [Processes -> ServerRecords]
          /\ \A r \in Processes : left[r].at = server[r].at /\ left[r].progress = server[r].progress
      <4>1. \A r \in Processes : left[r] =
             IF r = updater[u].in THEN [server[r] EXCEPT !.leaving = TRUE] ELSE server[r]
        BY <1>t, <1>p DEF UpdateTypes
      <4>2. \A r \in Processes : server[r] \in ServerRecords
        BY <1>t DEF UpdateTypes
      <4>3. left = [r \in Processes |-> left[r]]
        BY <1>t DEF UpdateTypes
      <4> HIDE DEF left
      <4> QED
        BY <4>1, <4>2, <4>3, LeavingIs
    <3>2. server' = [left EXCEPT ![q] = Fresh("starting", disk.exe)]
      BY <2>2
    <3>3. q \in Processes /\ server[q].at = "off"
      BY DEF FreeProcess, Off, Fresh
    <3>4. /\ Fresh("starting", disk.exe) \in ServerRecords
          /\ Fresh("starting", disk.exe).at = "starting"
          /\ Fresh("starting", disk.exe).progress = "idle"
      <4>1. disk.exe \in 0 .. MaxVersion
        BY <2>2, SelfUpdateAssumption DEF Versions
      <4> QED
        BY <4>1 DEF Fresh, ServerRecords
    <3> HIDE DEF left
    <3> QED
      BY <3>1, <3>2, <3>3, <3>4
  <2> QED
    BY <2>1, <2>2 DEF SpawnAndExit
<1>3. UpdateTypes'
  <2>1. \A q, r \in Processes : server'[q].at = "serving" /\ server'[r].at = "serving" => q = r
    BY <1>t, <1>2 DEF UpdateTypes
  <2>2. \A w \in Updaters : updater'[w].in # 0 => server'[updater'[w].in].at = "serving"
    <3>1. \A w \in Updaters : updater[w].in # 0 => updater[w].in \in Processes
      BY <1>t DEF UpdaterRecords
    <3> QED
      BY <1>t, <1>n, <1>1, <1>2, <3>1 DEF UpdateTypes
  <2> QED
    BY <1>t, <1>m, <1>1, <1>2, <2>1, <2>2 DEF UpdateTypes, UpdateOnly
<1>4. RequestsFit'
  BY <1>t, <1>n, <1>1 DEF RequestsFit
<1>5. ProgressIsOfRequest'
  <2>1. \A w \in Updaters : updater[w].at \in {"download", "verify"} => updater'[w] = updater[w]
    BY <1>t, <1>1
  <2> QED
    BY <1>t, <1>2, <2>1 DEF ProgressIsOfRequest
<1>6. AloneSwapping'
  BY <1>t, <1>m, <1>n, <1>z, <1>1 DEF AloneSwapping
<1>7. FilesFit'
  <2>1. ~disturbed => \A w \in Updaters \ {u} : updater[w].at \notin Swapping
    BY <1>t, <1>z DEF AloneSwapping
  <2>2. ASSUME ~disturbed, mishaps' <= 1 PROVE Held(updater'[u].at, disk', mishaps')
    <3>1. Held(updater[u].at, disk, mishaps)
      BY <1>t, <1>m, <1>z, <2>2, HeldBefore
    <3> QED
      BY <1>t, <1>m, <1>n, <1>1, <3>1 DEF Held
  <2> QED
    BY <1>m, <1>n, <1>1, <2>1, <2>2, FilesOfSwap
<1> QED
  BY <1>3, <1>4, <1>5, <1>6, <1>7 DEF UpdateInv

\* The steps that leave requests and files as they are.
LEMMA ServingStep ==
  ASSUME UpdateInv, NEW p \in Processes, ListenWithRetry(p) \/ StartServer(p)
  PROVE  UpdateInv'
<1>t. /\ UpdateTypes /\ RequestsFit /\ AloneSwapping /\ ProgressIsOfRequest /\ FilesFit
      /\ server \in [Processes -> ServerRecords]
  BY DEF UpdateInv, UpdateTypes
<1>m. /\ UNCHANGED <<disk, updater, disturbed>> /\ UpdateOnly
      /\ mishaps' \in 0 .. MaxMishaps /\ mishaps' \in {mishaps, mishaps + 1} /\ mishaps \in Nat
  <2>1. UNCHANGED <<disk, updater, disturbed>> /\ UpdateOnly /\ Smooth
    BY DEF ListenWithRetry, StartServer
  <2> QED
    BY <1>t, <2>1, MishapsStay
<1>1. /\ server' \in [Processes -> ServerRecords]
      /\ \A q, r \in Processes : server'[q].at = "serving" /\ server'[r].at = "serving" => q = r
      /\ \A q \in Processes : server[q].at = "serving" => server'[q].at = "serving"
      /\ \A q \in Processes : server'[q].progress \in {"downloading", "verifying"} =>
           server'[q].progress = server[q].progress
  <2>1. CASE ListenWithRetry(p)
    <3>1. /\ server' = [server EXCEPT ![p].at = "serving"]
          /\ \A q \in Processes : server[q].at # "serving"
      BY <2>1 DEF ListenWithRetry, Listening
    <3>2. /\ server' \in [Processes -> ServerRecords]
          /\ \A q \in Processes \ {p} : server'[q] = server[q]
          /\ server'[p].progress = server[p].progress
      BY <1>t, <3>1 DEF ServerRecords
    <3> QED
      BY <3>1, <3>2
  <2>2. CASE StartServer(p)
    <3>1. /\ server' = [server EXCEPT ![p] = Fresh("starting", disk.exe)] /\ disk.exe \in Versions
          /\ \A q \in Processes : server[q].at = "off"
      BY <2>2 DEF StartServer, Off, Fresh
    <3>2. /\ Fresh("starting", disk.exe) \in ServerRecords
          /\ Fresh("starting", disk.exe).at = "starting"
          /\ Fresh("starting", disk.exe).progress = "idle"
      <4>1. disk.exe \in 0 .. MaxVersion
        BY <3>1, SelfUpdateAssumption DEF Versions
      <4> QED
        BY <4>1 DEF Fresh, ServerRecords
    <3> QED
      BY <1>t, <3>1, <3>2
  <2> QED
    BY <2>1, <2>2
<1>2. UpdateTypes'
  <2>1. \A w \in Updaters : updater'[w].in # 0 => server'[updater'[w].in].at = "serving"
    <3>1. \A w \in Updaters : updater[w].in # 0 => updater[w].in \in Processes
      BY <1>t DEF UpdateTypes, UpdaterRecords
    <3> QED
      BY <1>t, <1>m, <1>1, <3>1 DEF UpdateTypes
  <2> QED
    BY <1>t, <1>m, <1>1, <2>1 DEF UpdateTypes, UpdateOnly
<1>3. RequestsFit' /\ AloneSwapping' /\ FilesFit'
  <2>1. FilesFit'
    BY <1>t, <1>m, FilesStay
  <2> QED
    BY <1>t, <1>m, <2>1 DEF RequestsFit, AloneSwapping
<1>4. ProgressIsOfRequest'
  BY <1>t, <1>m, <1>1 DEF ProgressIsOfRequest
<1> QED
  BY <1>2, <1>3, <1>4 DEF UpdateInv

\* Every step of the releases, of a request and of the processes keeps it.
LEMMA SelfUpdateStep == UpdateInv /\ [SelfUpdateNext]_updateVars => UpdateInv'
<1> SUFFICES ASSUME UpdateInv, [SelfUpdateNext]_updateVars PROVE UpdateInv'
  OBVIOUS
<1>1. ASSUME NEW v \in Versions, PublishRelease(v) PROVE UpdateInv'
  <2>1. /\ UNCHANGED <<disk, server, updater, disturbed, mishaps>>
        /\ published' \subseteq Versions /\ newestFormal' \in {0} \cup Formal
    BY <1>1 DEF PublishRelease, Smooth, UpdateInv, UpdateTypes
  <2> QED
    BY <2>1 DEF UpdateInv, UpdateTypes, RequestsFit, AloneSwapping, ProgressIsOfRequest, FilesFit,
           AtRest
<1>2. ASSUME NEW p \in Processes,
               OldExits(p) \/ GivesUpListening(p) \/ ServerDies(p) PROVE UpdateInv'
  <2>1. Ended(p) /\ UNCHANGED disk /\ UpdateOnly /\ (Mishap \/ Smooth)
    BY <1>2 DEF OldExits, GivesUpListening, ServerDies
  <2> QED
    BY <2>1, EndStep
<1>3. CASE UNCHANGED updateVars
  BY <1>3 DEF updateVars, UpdateInv, UpdateTypes, RequestsFit, AloneSwapping, ProgressIsOfRequest,
         FilesFit, AtRest
<1> QED
  BY <1>1, <1>2, <1>3, SwapStep, RequestStep, BeginStep, SpawnStep, ServingStep
     DEF SelfUpdateNext, ServerStep

\* What is safe of the files and of what is shown.
LEMMA UpdateIsSafe == UpdateInv => SelfUpdateTypeOK /\ SelfUpdateSafe
<1> SUFFICES ASSUME UpdateInv PROVE SelfUpdateTypeOK /\ SelfUpdateSafe
  OBVIOUS
<1>t. UpdateTypes /\ RequestsFit /\ ProgressIsOfRequest /\ FilesFit
  BY DEF UpdateInv
<1>1. SelfUpdateTypeOK
  BY <1>t DEF UpdateTypes, SelfUpdateTypeOK, UpdaterRecords, ServerRecords
<1>2. ProgressSettles
  BY <1>t DEF ProgressSettles, ProgressIsOfRequest
<1>e. /\ disk.exe = disk["exe"] /\ mishaps \in Nat
  BY <1>t DEF UpdateTypes
<1>3. ASSUME ~disturbed, ~(mishaps > 1)
      PROVE  /\ ~AtRest \/ disk.exe \in Versions
             /\ \E f \in {"exe", "old", "failed"} : disk[f] \in Versions
  <2>0. mishaps <= 1
    BY <1>e, <1>3
  <2>1. CASE AtRest
    BY <1>t, <1>e, <1>3, <2>0, <2>1 DEF FilesFit, Held
  <2>2. CASE ~AtRest
    <3>1. PICK u \in Updaters : updater[u].at \in Swapping
      BY <2>2 DEF AtRest
    <3>2. Held(updater[u].at, disk, mishaps)
      BY <1>t, <1>3, <2>0, <3>1 DEF FilesFit
    <3>3. \E f \in {"exe", "old", "failed"} : disk[f] \in Versions
      BY <3>2 DEF Held
    <3> QED
      BY <2>2, <3>3
  <2> QED
    BY <2>1, <2>2
<1> QED
  BY <1>1, <1>2, <1>3 DEF SelfUpdateSafe, ExeIsWhole, SomeBuildRemains

\* After at most one failure, and unless two swaps met, an executable that can be
\* started is there whenever no swap is under way, and one of the three files is such a
\* build within it; what the page shows as under way is (update/apply.go, rollback.go).
THEOREM UpdateIsSafeAlways == SelfUpdateSpec => []SelfUpdateSafe
<1> QED
  BY UpdateInitInv, SelfUpdateStep, UpdateIsSafe, PTL DEF SelfUpdateSpec

-----------------------------------------------------------------------------
(***************************************************************************)
(* The recycle bin (library/recycle_cleanup.go). At every step of a        *)
(* cleanup its memory, the three places of the file and the claim of the   *)
(* row fit each other; what another program, a scan or the removal of the  *)
(* library breaks is remembered.                                           *)
(***************************************************************************)

\* What row, cleanup and history may be.
BinRows == [in : BOOLEAN, deleted : 0 .. MaxDeletes, claim : BOOLEAN]

\* What a cleanup has in memory.
Stagings ==
  [claim : 0 .. MaxDeletes, stable : File \cup {NoFile}, target : File \cup {NoFile},
   recovery : File \cup {NoFile}, missing : BOOLEAN, removed : BOOLEAN,
   made : SUBSET {"target", "recovery", "manifest"}]

\* What has come between.
Histories ==
  [replaced : BOOLEAN, intruded : BOOLEAN, overrun : BOOLEAN, undermined : BOOLEAN,
   dropped : BOOLEAN]

\* The types of the module, the records by name.
RecycleTypes ==
  /\ binRow \in BinRows
  /\ binDeletes \in 0 .. MaxDeletes
  /\ {source, target, recovery} \subseteq File \cup {NoFile}
  /\ manifest \in 0 .. MaxDeletes
  /\ cleanupAt \in {"idle", "stage", "reference", "target", "recovery", "manifest",
             "remove", "unlink source", "final", "delete", "verify", "unlink", "release",
             "undo", "put back", "release put back", "unstage", "materialize", "reinsert"}
  /\ staging \in Stagings
  /\ restages \in BOOLEAN
  /\ binScanning \in BOOLEAN
  /\ mishaps \in 0 .. MaxMishaps
  /\ cleanupHistory \in Histories

\* The steps of a cleanup: with the claim, with a reference, with target and
\* recovery copy known by their inodes and a manifest, and with the row deleted.
Claimed == {"stage", "reference", "target", "recovery", "manifest", "remove", "unlink source",
            "final", "delete", "release", "put back", "release put back"}
Staged == {"remove", "unlink source", "final", "delete", "verify", "unlink", "put back",
           "release put back", "unstage", "materialize", "reinsert"}
RowGone == {"verify", "unlink", "materialize", "reinsert"}
SourceKept == {"target", "recovery", "manifest", "remove", "unlink source", "release", "undo"}

\* The files there are, at a path or in the memory of the cleanup.
Holding == {source, target, recovery, staging.stable, staging.target, staging.recovery}

\* Where no other program has put a file, all there are have the content of the row's.
OnlyOriginal ==
  /\ cleanupHistory.replaced => cleanupHistory.intruded
  /\ ~cleanupHistory.intruded => \A file \in Holding : file.content # "foreign"

\* What a cleanup has in memory is what it took, made and found to agree.
StagingFits ==
  /\ cleanupAt \in {"stage", "reference"} => staging.stable = NoFile
  /\ cleanupAt \in {"stage", "reference", "target"} => staging.target = NoFile /\ staging.made = {}
  /\ cleanupAt = "recovery" => "recovery" \notin staging.made
  /\ cleanupAt \in {"target", "recovery", "manifest"} \cup Staged => staging.stable # NoFile
  /\ cleanupAt \in {"recovery", "manifest"} \cup Staged => target # NoFile
  /\ cleanupAt = "recovery" /\ "target" \in staging.made => target.content = staging.stable.content
  /\ cleanupAt \in {"manifest"} \cup Staged => staging.target # NoFile /\ staging.recovery # NoFile
  /\ "target" \in staging.made /\ staging.target # NoFile =>
       staging.target.content = staging.stable.content
  /\ "recovery" \in staging.made => staging.recovery.content = staging.stable.content
  /\ staging.made # {} => staging.stable # NoFile
  /\ cleanupAt \in Staged => CopiesAgree /\ manifest = staging.claim
  /\ cleanupAt # "idle" => staging.claim # 0
  /\ cleanupAt = "remove" => staging.removed = staging.missing
  /\ cleanupAt = "unlink source" => ~staging.missing
  /\ cleanupAt \in {"manifest"} \cup Staged =>
       target = staging.target /\ recovery = staging.recovery

\* What the cleanup put or left at the source is there, or has been replaced.
InPlace(file) ==
  \/ source = file
  \/ cleanupHistory.replaced /\ source.content = "foreign" /\ file.content = "original"

\* Where the source stands at the steps that go on from it or that put it back.
SourceFits ==
  /\ cleanupAt \in SourceKept /\ ~staging.missing /\ staging.stable # NoFile =>
         InPlace(staging.stable)
  /\ cleanupAt \in {"release put back", "unstage"} => InPlace(staging.recovery)
  /\ cleanupAt = "undo" => ~staging.missing
  /\ cleanupAt = "unlink source" => source = staging.stable \/ cleanupHistory.overrun

\* A row in the table is claimed while its cleanup is under way, and its file may
\* be gone only while it is.
ClaimFits ==
  /\ cleanupAt \in Claimed /\ binRow.in => binRow.claim \/ cleanupHistory.undermined
  /\ cleanupAt \in RowGone => ~binRow.in
  /\ ~binRow.in /\ ~cleanupHistory.dropped => cleanupAt \in RowGone \cup {"idle"}
  /\ binRow.deleted = 0 => ~binRow.claim \/ ~binRow.in
  /\ binRow.in /\ ~binRow.claim /\ ~cleanupHistory.undermined => source # NoFile

\* The inductive invariant of the recycle bin.
RecycleInv ==
  /\ RecycleTypes /\ OnlyOriginal /\ StagingFits /\ SourceFits /\ ClaimFits
  /\ NoContentIsLost /\ DeletedIsStaged

\* The file at a path, or none.
LEMMA FilesAre ==
  /\ NoFile \notin File /\ NoFile.content = "none"
  /\ Foreign \in File /\ Foreign.content = "foreign"
  /\ \A file \in File : file.content \in {"original", "foreign"}
BY RecycleAssumption DEF NoFile, File, Foreign, Content

\* A file system has another inode for a snapshot: of the six that the paths and
\* the cleanup know, one is none or two are the same.
LEMMA SnapshotIs ==
  ASSUME NEW file \in File, NoFile \in Holding \/ target = staging.target
  PROVE  Snapshot(file) \in File /\ Snapshot(file).content = file.content
<1> DEFINE inode(n) == [content |-> file.content, n |-> n]
<1>1. file.content \in Content
  BY DEF File
<1>2. \A n \in 1 .. 6 : inode(n) \in File /\ inode(n).content = file.content
  BY <1>1, RecycleAssumption DEF File
<1>3. \A n, m \in 1 .. 6 : n # m => inode(n) # inode(m) /\ inode(n) # NoFile
  BY <1>1 DEF NoFile
<1>4. \E n \in 1 .. 6 : inode(n) \notin Holding
  <2> HIDE DEF inode
  <2>1. inode(1) # NoFile /\ inode(2) # NoFile /\ inode(3) # NoFile /\ inode(4) # NoFile
        /\ inode(5) # NoFile /\ inode(6) # NoFile
    BY <1>3
  <2>2. /\ inode(1) \notin {inode(2), inode(3), inode(4), inode(5), inode(6)}
        /\ inode(2) \notin {inode(3), inode(4), inode(5), inode(6)}
        /\ inode(3) \notin {inode(4), inode(5), inode(6)}
        /\ inode(4) \notin {inode(5), inode(6)} /\ inode(5) # inode(6)
    BY <1>3
  <2>3. ~({inode(1), inode(2), inode(3), inode(4), inode(5), inode(6)} \subseteq Holding)
    BY <2>1, <2>2 DEF Holding
  <2> QED
    BY <2>3
<1>5. \E f \in File : f.content = file.content /\ f \notin Holding
  BY <1>2, <1>4
<1>6. Holding = Paths \cup {staging.stable, staging.target, staging.recovery}
  BY DEF Holding, Paths
<1> QED
  BY <1>5, <1>6 DEF Snapshot

\* A row may never have been deleted.
LEMMA ZeroIs == 0 \in 0 .. MaxDeletes
BY RecycleAssumption

\* An idle cleanup has nothing in memory.
LEMMA NoWorkIs ==
  /\ NoWork \in Stagings /\ NoWork.stable = NoFile /\ NoWork.target = NoFile
  /\ NoWork.recovery = NoFile /\ NoWork.made = {} /\ ~NoWork.missing
BY ZeroIs DEF NoWork, Stagings

\* It holds at first.
LEMMA RecycleInitInv ==
  RecycleInit => RecycleInv
<1> SUFFICES ASSUME RecycleInit PROVE RecycleInv
  OBVIOUS
<1>1. source \in File /\ source.content = "original" /\ target = NoFile /\ recovery = NoFile
  BY RecycleAssumption DEF RecycleInit, File, Content
<1>2. staging = NoWork
  BY DEF RecycleInit
<1>3. binRow \in BinRows /\ binRow.in /\ binRow.deleted = 0 /\ ~binRow.claim
  BY RecycleAssumption DEF RecycleInit, BinRows
<1>4. cleanupHistory \in Histories /\ ~cleanupHistory.replaced /\ ~cleanupHistory.intruded
  BY DEF RecycleInit, Histories
<1>5. /\ binDeletes = 0 /\ manifest = 0 /\ cleanupAt = "idle" /\ restages \in BOOLEAN
      /\ binScanning = FALSE /\ mishaps = 0
  BY DEF RecycleInit
<1>z. 0 \in 0 .. MaxMishaps
  BY FaultsAssumption
<1>6. RecycleTypes
  BY <1>z, <1>1, <1>2, <1>3, <1>4, <1>5, ZeroIs, NoWorkIs DEF RecycleTypes
<1>7. OnlyOriginal
  BY <1>1, <1>2, <1>4, NoWorkIs, FilesAre DEF OnlyOriginal, Holding
<1>8. StagingFits /\ SourceFits /\ ClaimFits
  BY <1>1, <1>2, <1>3, <1>5, NoWorkIs, FilesAre
     DEF StagingFits, Staged, SourceFits, SourceKept, ClaimFits, Claimed, RowGone
<1>9. NoContentIsLost /\ DeletedIsStaged
  BY <1>1, <1>3, <1>4 DEF NoContentIsLost, Kept, Paths, DeletedIsStaged
<1> QED
  BY <1>6, <1>7, <1>8, <1>9 DEF RecycleInv

\* A person deletes the media: the row and its number change, files do not.
LEMMA SoftDeleteKeeps ==
  ASSUME RecycleInv, SoftDelete
  PROVE  RecycleInv'
<1>t. /\ RecycleTypes /\ OnlyOriginal /\ StagingFits /\ SourceFits /\ ClaimFits
      /\ NoContentIsLost /\ DeletedIsStaged
      /\ binRow \in BinRows /\ staging \in Stagings /\ cleanupHistory \in Histories
      /\ mishaps \in 0 .. MaxMishaps
  BY DEF RecycleInv, RecycleTypes
<1>d. binDeletes \in 0 .. MaxDeletes /\ binDeletes < MaxDeletes
  BY <1>t DEF SoftDelete, RecycleTypes
<1>s. binDeletes + 1 \in 0 .. MaxDeletes /\ binDeletes + 1 # 0
  BY <1>d, RecycleAssumption
<1>1. /\ cleanupAt' = cleanupAt /\ staging' = staging
      /\ binRow.deleted = 0 /\ binDeletes' \in 0 .. MaxDeletes /\ binDeletes' # 0
      /\ binRow' \in BinRows /\ binRow'.in = binRow.in /\ binRow'.deleted = binDeletes'
      /\ binRow'.claim = binRow.claim
      /\ source' = source /\ target' = target /\ recovery' = recovery /\ manifest' = manifest
      /\ cleanupHistory' = cleanupHistory /\ binScanning' = binScanning
      /\ restages' = restages
      /\ (Mishap \/ Smooth)
  BY <1>t, FilesAre, <1>s DEF SoftDelete, CleanupWaits, fileVars, binRowVars, RecycleTypes, BinRows,
         Smooth
<1>m. mishaps' \in 0 .. MaxMishaps
  BY <1>1, <1>t, MishapsMove
<1>T. RecycleTypes'
  BY <1>1, <1>t, <1>m DEF RecycleTypes
<1>O. OnlyOriginal'
  BY <1>1, <1>t DEF OnlyOriginal, Holding, RecycleTypes, Stagings
<1>S. StagingFits'
  BY <1>1, <1>t DEF StagingFits, Staged, CopiesAgree, RecycleTypes, Stagings
<1>F. SourceFits'
  BY <1>1, <1>t DEF SourceFits, SourceKept, InPlace
<1>C. ClaimFits'
  BY <1>1, <1>t DEF ClaimFits, Claimed, RowGone
<1>N. NoContentIsLost'
  BY <1>1, <1>t DEF NoContentIsLost, Kept, Paths
<1>D. DeletedIsStaged'
  BY <1>1, <1>t DEF DeletedIsStaged
<1> QED
  BY <1>T, <1>O, <1>S, <1>F, <1>C, <1>N, <1>D DEF RecycleInv

\* A restore takes the row back only while it is not claimed.
LEMMA RestoreKeeps ==
  ASSUME RecycleInv, Restore
  PROVE  RecycleInv'
<1>t. /\ RecycleTypes /\ OnlyOriginal /\ StagingFits /\ SourceFits /\ ClaimFits
      /\ NoContentIsLost /\ DeletedIsStaged
      /\ binRow \in BinRows /\ staging \in Stagings /\ cleanupHistory \in Histories
      /\ mishaps \in 0 .. MaxMishaps
  BY DEF RecycleInv, RecycleTypes
<1>1. /\ cleanupAt' = cleanupAt /\ staging' = staging
      /\ binRow.in /\ ~binRow.claim
      /\ binRow' \in BinRows /\ binRow'.in = binRow.in /\ binRow'.deleted = 0
      /\ binRow'.claim = binRow.claim
      /\ source' = source /\ target' = target /\ recovery' = recovery /\ manifest' = manifest
      /\ cleanupHistory' = cleanupHistory /\ binScanning' = binScanning /\ binDeletes' = binDeletes
      /\ restages' = restages
      /\ (Mishap \/ Smooth)
  BY <1>t, FilesAre, ZeroIs DEF Restore, CleanupWaits, fileVars, binRowVars, Restorable,
         RecycleTypes, BinRows, Smooth
<1>m. mishaps' \in 0 .. MaxMishaps
  BY <1>1, <1>t, MishapsMove
<1>T. RecycleTypes'
  BY <1>1, <1>t, <1>m DEF RecycleTypes
<1>O. OnlyOriginal'
  BY <1>1, <1>t DEF OnlyOriginal, Holding, RecycleTypes, Stagings
<1>S. StagingFits'
  BY <1>1, <1>t DEF StagingFits, Staged, CopiesAgree, RecycleTypes, Stagings
<1>F. SourceFits'
  BY <1>1, <1>t DEF SourceFits, SourceKept, InPlace
<1>C. ClaimFits'
  BY <1>1, <1>t DEF ClaimFits, Claimed, RowGone
<1>N. NoContentIsLost'
  BY <1>1, <1>t DEF NoContentIsLost, Kept, Paths
<1>D. DeletedIsStaged'
  BY <1>1, <1>t DEF DeletedIsStaged
<1> QED
  BY <1>T, <1>O, <1>S, <1>F, <1>C, <1>N, <1>D DEF RecycleInv

\* A scan lists the folder before it takes the transaction that writes.
LEMMA ScanLooksKeeps ==
  ASSUME RecycleInv, ScanLooks
  PROVE  RecycleInv'
<1>t. /\ RecycleTypes /\ OnlyOriginal /\ StagingFits /\ SourceFits /\ ClaimFits
      /\ NoContentIsLost /\ DeletedIsStaged
      /\ binRow \in BinRows /\ staging \in Stagings /\ cleanupHistory \in Histories
      /\ mishaps \in 0 .. MaxMishaps
  BY DEF RecycleInv, RecycleTypes
<1>1. /\ cleanupAt' = cleanupAt /\ staging' = staging
      /\ binRow' = binRow /\ binDeletes' = binDeletes
      /\ source' = source /\ target' = target /\ recovery' = recovery /\ manifest' = manifest
      /\ cleanupHistory' = cleanupHistory /\ binScanning' \in BOOLEAN
      /\ restages' = restages
      /\ (Mishap \/ Smooth)
  BY <1>t, FilesAre DEF ScanLooks, CleanupWaits, fileVars, binRowVars, Smooth
<1>m. mishaps' \in 0 .. MaxMishaps
  BY <1>1, <1>t, MishapsMove
<1>T. RecycleTypes'
  BY <1>1, <1>t, <1>m DEF RecycleTypes
<1>O. OnlyOriginal'
  BY <1>1, <1>t DEF OnlyOriginal, Holding, RecycleTypes, Stagings
<1>S. StagingFits'
  BY <1>1, <1>t DEF StagingFits, Staged, CopiesAgree, RecycleTypes, Stagings
<1>F. SourceFits'
  BY <1>1, <1>t DEF SourceFits, SourceKept, InPlace
<1>C. ClaimFits'
  BY <1>1, <1>t DEF ClaimFits, Claimed, RowGone
<1>N. NoContentIsLost'
  BY <1>1, <1>t DEF NoContentIsLost, Kept, Paths
<1>D. DeletedIsStaged'
  BY <1>1, <1>t DEF DeletedIsStaged
<1> QED
  BY <1>T, <1>O, <1>S, <1>F, <1>C, <1>N, <1>D DEF RecycleInv

\* What it writes overrides a claim: the claim is then remembered as undermined.
LEMMA ScanWritesKeeps ==
  ASSUME RecycleInv, ScanWrites
  PROVE  RecycleInv'
<1>t. /\ RecycleTypes /\ OnlyOriginal /\ StagingFits /\ SourceFits /\ ClaimFits
      /\ NoContentIsLost /\ DeletedIsStaged
      /\ binRow \in BinRows /\ staging \in Stagings /\ cleanupHistory \in Histories
      /\ mishaps \in 0 .. MaxMishaps
  BY DEF RecycleInv, RecycleTypes
<1>1. /\ cleanupAt' = cleanupAt /\ staging' = staging
      /\ binRow' \in BinRows /\ binRow'.in = binRow.in /\ binRow'.deleted = binRow.deleted
      /\ binRow'.claim = FALSE
      /\ cleanupHistory' \in Histories /\ cleanupHistory'.replaced = cleanupHistory.replaced
      /\ cleanupHistory'.intruded = cleanupHistory.intruded
      /\ cleanupHistory'.overrun = cleanupHistory.overrun
      /\ cleanupHistory'.undermined = (cleanupHistory.undermined \/ binRow.claim)
      /\ cleanupHistory'.dropped = cleanupHistory.dropped
      /\ source' = source /\ target' = target /\ recovery' = recovery /\ manifest' = manifest
      /\ binDeletes' = binDeletes /\ binScanning' \in BOOLEAN
      /\ restages' = restages
      /\ (Mishap \/ Smooth)
  BY <1>t, FilesAre DEF ScanWrites, CleanupWaits, fileVars, binRowVars, RecycleTypes, BinRows,
         Histories, Smooth
<1>m. mishaps' \in 0 .. MaxMishaps
  BY <1>1, <1>t, MishapsMove
<1>T. RecycleTypes'
  BY <1>1, <1>t, <1>m DEF RecycleTypes
<1>O. OnlyOriginal'
  BY <1>1, <1>t DEF OnlyOriginal, Holding, RecycleTypes, Stagings
<1>S. StagingFits'
  BY <1>1, <1>t DEF StagingFits, Staged, CopiesAgree, RecycleTypes, Stagings
<1>F. SourceFits'
  BY <1>1, <1>t DEF SourceFits, SourceKept, InPlace
<1>C. ClaimFits'
  BY <1>1, <1>t DEF ClaimFits, Claimed, RowGone
<1>N. NoContentIsLost'
  BY <1>1, <1>t DEF NoContentIsLost, Kept, Paths
<1>D. DeletedIsStaged'
  BY <1>1, <1>t DEF DeletedIsStaged
<1> QED
  BY <1>T, <1>O, <1>S, <1>F, <1>C, <1>N, <1>D DEF RecycleInv

\* A scan that has nothing to write.
LEMMA ScanFindsNoChangeKeeps ==
  ASSUME RecycleInv, ScanFindsNoChange
  PROVE  RecycleInv'
<1>t. /\ RecycleTypes /\ OnlyOriginal /\ StagingFits /\ SourceFits /\ ClaimFits
      /\ NoContentIsLost /\ DeletedIsStaged
      /\ binRow \in BinRows /\ staging \in Stagings /\ cleanupHistory \in Histories
      /\ mishaps \in 0 .. MaxMishaps
  BY DEF RecycleInv, RecycleTypes
<1>1. /\ cleanupAt' = cleanupAt /\ staging' = staging
      /\ binRow' = binRow /\ binDeletes' = binDeletes
      /\ source' = source /\ target' = target /\ recovery' = recovery /\ manifest' = manifest
      /\ cleanupHistory' = cleanupHistory /\ binScanning' \in BOOLEAN
      /\ restages' = restages
      /\ (Mishap \/ Smooth)
  BY <1>t, FilesAre DEF ScanFindsNoChange, CleanupWaits, fileVars, binRowVars, Smooth
<1>m. mishaps' \in 0 .. MaxMishaps
  BY <1>1, <1>t, MishapsMove
<1>T. RecycleTypes'
  BY <1>1, <1>t, <1>m DEF RecycleTypes
<1>O. OnlyOriginal'
  BY <1>1, <1>t DEF OnlyOriginal, Holding, RecycleTypes, Stagings
<1>S. StagingFits'
  BY <1>1, <1>t DEF StagingFits, Staged, CopiesAgree, RecycleTypes, Stagings
<1>F. SourceFits'
  BY <1>1, <1>t DEF SourceFits, SourceKept, InPlace
<1>C. ClaimFits'
  BY <1>1, <1>t DEF ClaimFits, Claimed, RowGone
<1>N. NoContentIsLost'
  BY <1>1, <1>t DEF NoContentIsLost, Kept, Paths
<1>D. DeletedIsStaged'
  BY <1>1, <1>t DEF DeletedIsStaged
<1> QED
  BY <1>T, <1>O, <1>S, <1>F, <1>C, <1>N, <1>D DEF RecycleInv

\* The library is removed with its rows: remembered as dropped.
LEMMA DeleteMediaRecordsKeeps ==
  ASSUME RecycleInv, DeleteMediaRecords
  PROVE  RecycleInv'
<1>t. /\ RecycleTypes /\ OnlyOriginal /\ StagingFits /\ SourceFits /\ ClaimFits
      /\ NoContentIsLost /\ DeletedIsStaged
      /\ binRow \in BinRows /\ staging \in Stagings /\ cleanupHistory \in Histories
      /\ mishaps \in 0 .. MaxMishaps
  BY DEF RecycleInv, RecycleTypes
<1>1. /\ cleanupAt' = cleanupAt /\ staging' = staging
      /\ binRow' \in BinRows /\ binRow'.in = FALSE /\ binRow'.deleted = binRow.deleted
      /\ binRow'.claim = binRow.claim
      /\ cleanupHistory' \in Histories /\ cleanupHistory'.replaced = cleanupHistory.replaced
      /\ cleanupHistory'.intruded = cleanupHistory.intruded
      /\ cleanupHistory'.overrun = cleanupHistory.overrun
      /\ cleanupHistory'.undermined = cleanupHistory.undermined /\ cleanupHistory'.dropped = TRUE
      /\ source' = source /\ target' = target /\ recovery' = recovery /\ manifest' = manifest
      /\ binDeletes' = binDeletes /\ binScanning' = binScanning
      /\ restages' = restages
      /\ (Mishap \/ Smooth)
  BY <1>t, FilesAre DEF DeleteMediaRecords, CleanupWaits, fileVars, binRowVars, RecycleTypes,
         BinRows, Histories
<1>m. mishaps' \in 0 .. MaxMishaps
  BY <1>1, <1>t, MishapsMove
<1>T. RecycleTypes'
  BY <1>1, <1>t, <1>m DEF RecycleTypes
<1>O. OnlyOriginal'
  BY <1>1, <1>t DEF OnlyOriginal, Holding, RecycleTypes, Stagings
<1>S. StagingFits'
  BY <1>1, <1>t DEF StagingFits, Staged, CopiesAgree, RecycleTypes, Stagings
<1>F. SourceFits'
  BY <1>1, <1>t DEF SourceFits, SourceKept, InPlace
<1>C. ClaimFits'
  BY <1>1, <1>t DEF ClaimFits, Claimed, RowGone
<1>N. NoContentIsLost'
  BY <1>1, <1>t DEF NoContentIsLost, Kept, Paths
<1>D. DeletedIsStaged'
  BY <1>1, <1>t DEF DeletedIsStaged
<1> QED
  BY <1>T, <1>O, <1>S, <1>F, <1>C, <1>N, <1>D DEF RecycleInv

\* Another program puts a file at one of the paths: remembered.
LEMMA ForeignFileKeeps ==
  ASSUME RecycleInv, ForeignFile
  PROVE  RecycleInv'
<1>t. /\ RecycleTypes /\ OnlyOriginal /\ StagingFits /\ SourceFits /\ ClaimFits
      /\ NoContentIsLost /\ DeletedIsStaged
      /\ binRow \in BinRows /\ staging \in Stagings /\ cleanupHistory \in Histories
      /\ mishaps \in 0 .. MaxMishaps
  BY DEF RecycleInv, RecycleTypes
<1>1. /\ cleanupAt' = cleanupAt /\ staging' = staging
      /\ ~cleanupHistory.intruded /\ source' = Foreign
      /\ target' = target /\ recovery' = recovery /\ manifest' = manifest /\ binRow' = binRow
      /\ binDeletes' = binDeletes /\ binScanning' = binScanning
      /\ cleanupHistory' \in Histories /\ cleanupHistory'.replaced = (source # NoFile)
      /\ cleanupHistory'.intruded = TRUE /\ cleanupHistory'.undermined = cleanupHistory.undermined
      /\ cleanupHistory'.overrun = (cleanupAt = "unlink source")
      /\ cleanupHistory'.dropped = cleanupHistory.dropped
      /\ restages' = restages
      /\ (Mishap \/ Smooth)
  BY <1>t, FilesAre DEF ForeignFile, CleanupWaits, fileVars, binRowVars, RecycleTypes, Histories
<1>m. mishaps' \in 0 .. MaxMishaps
  BY <1>1, <1>t, MishapsMove
<1>T. RecycleTypes'
  BY <1>1, <1>t, <1>m, FilesAre DEF RecycleTypes
<1>O. OnlyOriginal'
  BY <1>1, <1>t DEF OnlyOriginal, Holding, RecycleTypes, Stagings
<1>S. StagingFits'
  BY <1>1, <1>t DEF StagingFits, Staged, CopiesAgree, RecycleTypes, Stagings
<1>F. SourceFits'
  BY <1>1, <1>t, FilesAre DEF SourceFits, SourceKept, InPlace, OnlyOriginal, Holding,
         StagingFits, Staged, RecycleTypes, Stagings
<1>C. ClaimFits'
  BY <1>1, <1>t, FilesAre DEF ClaimFits, Claimed, RowGone
<1>N. NoContentIsLost'
  BY <1>1, <1>t, FilesAre DEF NoContentIsLost, Kept, Paths, OnlyOriginal, Holding
<1>D. DeletedIsStaged'
  BY <1>1, <1>t DEF DeletedIsStaged
<1> QED
  BY <1>T, <1>O, <1>S, <1>F, <1>C, <1>N, <1>D DEF RecycleInv

\* The cleanup claims a row that is deleted and not claimed.
LEMMA ClaimItemKeeps ==
  ASSUME RecycleInv, ClaimItem
  PROVE  RecycleInv'
<1>t. /\ RecycleTypes /\ OnlyOriginal /\ StagingFits /\ SourceFits /\ ClaimFits
      /\ NoContentIsLost /\ DeletedIsStaged
      /\ binRow \in BinRows /\ staging \in Stagings /\ cleanupHistory \in Histories
      /\ mishaps \in 0 .. MaxMishaps
  BY DEF RecycleInv, RecycleTypes
<1>1. /\ cleanupAt = "idle"
      /\ cleanupAt' = "stage"
      /\ binRow.in /\ binRow.deleted # 0
      /\ binRow' \in BinRows /\ binRow'.in = binRow.in /\ binRow'.deleted = binRow.deleted
      /\ binRow'.claim = TRUE
      /\ staging' \in Stagings /\ staging'.claim = binRow.deleted /\ staging'.stable = NoFile
      /\ staging'.target = NoFile /\ staging'.recovery = NoFile /\ staging'.missing = FALSE
      /\ staging'.removed = FALSE /\ staging'.made = {}
      /\ source' = source /\ target' = target /\ recovery' = recovery /\ manifest' = manifest
      /\ cleanupHistory' = cleanupHistory
      /\ binDeletes' = binDeletes /\ restages' = restages /\ binScanning' = binScanning
      /\ (Mishap \/ Smooth)
  BY <1>t, FilesAre DEF ClaimItem, Cleanup, CleanupOnly, CleanupTo, fileVars, NoWork, RecycleTypes,
         BinRows, Stagings
<1>m. mishaps' \in 0 .. MaxMishaps
  BY <1>1, <1>t, MishapsMove
<1>T. RecycleTypes'
  BY <1>1, <1>t, <1>m DEF RecycleTypes
<1>O. OnlyOriginal'
  BY <1>1, <1>t, FilesAre DEF OnlyOriginal, Holding, RecycleTypes, Stagings
<1>S. StagingFits'
  BY <1>1, <1>t DEF StagingFits, Staged, CopiesAgree, RecycleTypes, Stagings
<1>F. SourceFits'
  BY <1>1, <1>t DEF SourceFits, SourceKept, InPlace
<1>C. ClaimFits'
  BY <1>1, <1>t DEF ClaimFits, Claimed, RowGone
<1>N. NoContentIsLost'
  BY <1>1, <1>t DEF NoContentIsLost, Kept, Paths
<1>D. DeletedIsStaged'
  BY <1>1, <1>t DEF DeletedIsStaged
<1> QED
  BY <1>T, <1>O, <1>S, <1>F, <1>C, <1>N, <1>D DEF RecycleInv

\* It finds the source or, after a crash, what was staged.
LEMMA PrepareStageKeeps ==
  ASSUME RecycleInv, PrepareStage
  PROVE  RecycleInv'
<1>t. /\ RecycleTypes /\ OnlyOriginal /\ StagingFits /\ SourceFits /\ ClaimFits
      /\ NoContentIsLost /\ DeletedIsStaged
      /\ binRow \in BinRows /\ staging \in Stagings /\ cleanupHistory \in Histories
      /\ mishaps \in 0 .. MaxMishaps
  BY DEF RecycleInv, RecycleTypes
<1>1. /\ cleanupAt = "stage"
      /\ cleanupAt' \in {"reference", "release"}
      /\ binRow' = binRow /\ staging' = staging /\ cleanupHistory' = cleanupHistory
      /\ source' = source /\ target' = target /\ recovery' = recovery /\ manifest' = manifest
      /\ binDeletes' = binDeletes /\ restages' = restages /\ binScanning' = binScanning
      /\ (Mishap \/ Smooth)
  BY <1>t, FilesAre DEF PrepareStage, Cleanup, CleanupOnly, CleanupTo, fileVars
<1>m. mishaps' \in 0 .. MaxMishaps
  BY <1>1, <1>t, MishapsMove
<1>T. RecycleTypes'
  BY <1>1, <1>t, <1>m DEF RecycleTypes
<1>O. OnlyOriginal'
  BY <1>1, <1>t DEF OnlyOriginal, Holding, RecycleTypes, Stagings
<1>S. StagingFits'
  BY <1>1, <1>t DEF StagingFits, Staged, CopiesAgree, RecycleTypes, Stagings
<1>F. SourceFits'
  BY <1>1, <1>t DEF SourceFits, SourceKept, InPlace, StagingFits
<1>C. ClaimFits'
  BY <1>1, <1>t DEF ClaimFits, Claimed, RowGone
<1>N. NoContentIsLost'
  BY <1>1, <1>t DEF NoContentIsLost, Kept, Paths
<1>D. DeletedIsStaged'
  BY <1>1, <1>t DEF DeletedIsStaged
<1> QED
  BY <1>T, <1>O, <1>S, <1>F, <1>C, <1>N, <1>D DEF RecycleInv

\* It holds on to the file it found.
LEMMA OpenReferenceKeeps ==
  ASSUME RecycleInv, OpenReference
  PROVE  RecycleInv'
<1>t. /\ RecycleTypes /\ OnlyOriginal /\ StagingFits /\ SourceFits /\ ClaimFits
      /\ NoContentIsLost /\ DeletedIsStaged
      /\ binRow \in BinRows /\ staging \in Stagings /\ cleanupHistory \in Histories
      /\ mishaps \in 0 .. MaxMishaps
  BY DEF RecycleInv, RecycleTypes
<1>1. /\ cleanupAt = "reference"
      /\ \/ /\ cleanupAt' = "target" /\ FirstReference # NoFile /\ staging' \in Stagings
            /\ staging'.claim = staging.claim /\ staging'.stable = FirstReference
            /\ staging'.target = staging.target /\ staging'.recovery = staging.recovery
            /\ staging'.missing = (source = NoFile) /\ staging'.removed = staging.removed
            /\ staging'.made = staging.made
         \/ cleanupAt' = "release" /\ staging' = staging
      /\ binRow' = binRow /\ cleanupHistory' = cleanupHistory
      /\ source' = source /\ target' = target /\ recovery' = recovery /\ manifest' = manifest
      /\ binDeletes' = binDeletes /\ restages' = restages /\ binScanning' = binScanning
      /\ (Mishap \/ Smooth)
  BY <1>t, FilesAre DEF OpenReference, Cleanup, CleanupOnly, CleanupTo, fileVars, RecycleTypes,
         Stagings, FirstReference, MishapIf, Mishap, Smooth
<1>m. mishaps' \in 0 .. MaxMishaps
  BY <1>1, <1>t, MishapsMove
<1>T. RecycleTypes'
  BY <1>1, <1>t, <1>m DEF RecycleTypes
<1>O. OnlyOriginal'
  BY <1>1, <1>t DEF OnlyOriginal, Holding, RecycleTypes, Stagings,
         FirstReference
<1>S. StagingFits'
  BY <1>1, <1>t DEF StagingFits, Staged, CopiesAgree, RecycleTypes, Stagings,
         FirstReference
<1>F. SourceFits'
  BY <1>1, <1>t DEF SourceFits, SourceKept, InPlace, StagingFits, FirstReference
<1>C. ClaimFits'
  BY <1>1, <1>t DEF ClaimFits, Claimed, RowGone
<1>N. NoContentIsLost'
  BY <1>1, <1>t DEF NoContentIsLost, Kept, Paths
<1>D. DeletedIsStaged'
  BY <1>1, <1>t DEF DeletedIsStaged
<1> QED
  BY <1>T, <1>O, <1>S, <1>F, <1>C, <1>N, <1>D DEF RecycleInv

\* The copy in the recycle folder is made of that file, or is one that agrees.
LEMMA EnsureTargetKeeps ==
  ASSUME RecycleInv, EnsureTarget
  PROVE  RecycleInv'
<1>t. /\ RecycleTypes /\ OnlyOriginal /\ StagingFits /\ SourceFits /\ ClaimFits
      /\ NoContentIsLost /\ DeletedIsStaged
      /\ binRow \in BinRows /\ staging \in Stagings /\ cleanupHistory \in Histories
      /\ mishaps \in 0 .. MaxMishaps
  BY DEF RecycleInv, RecycleTypes
<1>s. target = NoFile =>
        Snapshot(staging.stable) \in File /\ Snapshot(staging.stable).content = staging.stable.content
  BY <1>t, SnapshotIs DEF EnsureTarget, Holding, Stagings, StagingFits
<1>1. /\ cleanupAt = "target"
      /\ \/ /\ target = NoFile /\ cleanupAt' = "recovery" /\ target' \in File
            /\ target'.content = staging.stable.content
            /\ staging' \in Stagings /\ staging'.claim = staging.claim
            /\ staging'.stable = staging.stable /\ staging'.target = staging.target
            /\ staging'.recovery = staging.recovery /\ staging'.missing = staging.missing
            /\ staging'.removed = staging.removed /\ staging'.made = (staging.made \cup {"target"})
         \/ target # NoFile /\ cleanupAt' = "recovery" /\ target' = target /\ staging' = staging
         \/ cleanupAt' = "release" /\ target' = target /\ staging' = staging
      /\ binRow' = binRow /\ cleanupHistory' = cleanupHistory /\ source' = source
      /\ recovery' = recovery /\ manifest' = manifest
      /\ binDeletes' = binDeletes /\ restages' = restages /\ binScanning' = binScanning
      /\ (Mishap \/ Smooth)
  BY <1>t, FilesAre, <1>s DEF EnsureTarget, Cleanup, CleanupOnly, CleanupTo, fileVars, RecycleTypes,
         Stagings
<1>m. mishaps' \in 0 .. MaxMishaps
  BY <1>1, <1>t, MishapsMove
<1>T. RecycleTypes'
  BY <1>1, <1>t, <1>m DEF RecycleTypes
<1>O. OnlyOriginal'
  BY <1>1, <1>t DEF OnlyOriginal, Holding, RecycleTypes, Stagings
<1>S. StagingFits'
  BY <1>1, <1>t, FilesAre DEF StagingFits, Staged, CopiesAgree, RecycleTypes, Stagings
<1>F. SourceFits'
  BY <1>1, <1>t DEF SourceFits, SourceKept, InPlace
<1>C. ClaimFits'
  BY <1>1, <1>t DEF ClaimFits, Claimed, RowGone
<1>N. NoContentIsLost'
  BY <1>1, <1>t, FilesAre DEF NoContentIsLost, Kept, Paths
<1>D. DeletedIsStaged'
  BY <1>1, <1>t DEF DeletedIsStaged
<1> QED
  BY <1>T, <1>O, <1>S, <1>F, <1>C, <1>N, <1>D DEF RecycleInv

\* And so is the recovery copy.
LEMMA EnsureRecoveryKeeps ==
  ASSUME RecycleInv, EnsureRecovery
  PROVE  RecycleInv'
<1>t. /\ RecycleTypes /\ OnlyOriginal /\ StagingFits /\ SourceFits /\ ClaimFits
      /\ NoContentIsLost /\ DeletedIsStaged
      /\ binRow \in BinRows /\ staging \in Stagings /\ cleanupHistory \in Histories
      /\ mishaps \in 0 .. MaxMishaps
  BY DEF RecycleInv, RecycleTypes
<1>s. recovery = NoFile =>
        Snapshot(staging.stable) \in File /\ Snapshot(staging.stable).content = staging.stable.content
  BY <1>t, SnapshotIs DEF EnsureRecovery, Holding, Stagings, StagingFits
<1>1. /\ cleanupAt = "recovery"
      /\ \/ /\ cleanupAt' = "manifest" /\ recovery' \in File /\ staging' \in Stagings
            /\ \/ /\ recovery = NoFile /\ recovery'.content = staging.stable.content
                  /\ staging'.made = staging.made \cup {"recovery"}
               \/ recovery # NoFile /\ recovery' = recovery /\ staging'.made = staging.made
            /\ staging'.target = target /\ staging'.recovery = recovery'
            /\ staging'.claim = staging.claim
            /\ staging'.stable = staging.stable /\ staging'.missing = staging.missing
            /\ staging'.removed = staging.removed
         \/ cleanupAt' = "release" /\ recovery' = recovery /\ staging' = staging
      /\ binRow' = binRow /\ cleanupHistory' = cleanupHistory /\ source' = source
      /\ target' = target /\ manifest' = manifest
      /\ binDeletes' = binDeletes /\ restages' = restages /\ binScanning' = binScanning
      /\ (Mishap \/ Smooth)
  <2>1. CASE cleanupAt' = "manifest"
    <3>1. CASE recovery = NoFile
      <4>1. staging' = [staging EXCEPT !.target = target, !.recovery = recovery',
                                       !.made = @ \cup {"recovery"}]
        BY <2>1, <3>1 DEF EnsureRecovery, CleanupTo
      <4>2. recovery' \in File /\ recovery'.content = staging.stable.content
        BY <2>1, <3>1, <1>s DEF EnsureRecovery, CleanupTo
      <4> QED
        BY <2>1, <3>1, <4>1, <4>2, <1>t
           DEF EnsureRecovery, Cleanup, CleanupOnly, RecycleTypes, Stagings
    <3>2. CASE recovery # NoFile
      <4>1. /\ recovery' = recovery
            /\ staging' = [staging EXCEPT !.target = target, !.recovery = recovery', !.made = @]
        BY <2>1, <3>2 DEF EnsureRecovery, CleanupTo
      <4> QED
        BY <2>1, <3>2, <4>1, <1>t
           DEF EnsureRecovery, Cleanup, CleanupOnly, RecycleTypes, Stagings
    <3> QED
      BY <3>1, <3>2
  <2>2. CASE cleanupAt' # "manifest"
    BY <2>2 DEF EnsureRecovery, Cleanup, CleanupOnly, CleanupTo
  <2> QED
    BY <2>1, <2>2
<1>m. mishaps' \in 0 .. MaxMishaps
  BY <1>1, <1>t, MishapsMove
<1>T. RecycleTypes'
  BY <1>1, <1>t, <1>m DEF RecycleTypes
<1>O. OnlyOriginal'
  BY <1>1, <1>t DEF OnlyOriginal, Holding, RecycleTypes, Stagings
<1>S. StagingFits'
  BY <1>1, <1>t, FilesAre DEF StagingFits, Staged, CopiesAgree, RecycleTypes, Stagings
<1>F. SourceFits'
  BY <1>1, <1>t DEF SourceFits, SourceKept, InPlace
<1>C. ClaimFits'
  BY <1>1, <1>t DEF ClaimFits, Claimed, RowGone
<1>N. NoContentIsLost'
  BY <1>1, <1>t, FilesAre DEF NoContentIsLost, Kept, Paths
<1>D. DeletedIsStaged'
  BY <1>1, <1>t DEF DeletedIsStaged
<1> QED
  BY <1>T, <1>O, <1>S, <1>F, <1>C, <1>N, <1>D DEF RecycleInv

\* The manifest names the claim once the copies agree.
LEMMA PrepareManifestKeeps ==
  ASSUME RecycleInv, PrepareManifest
  PROVE  RecycleInv'
<1>t. /\ RecycleTypes /\ OnlyOriginal /\ StagingFits /\ SourceFits /\ ClaimFits
      /\ NoContentIsLost /\ DeletedIsStaged
      /\ binRow \in BinRows /\ staging \in Stagings /\ cleanupHistory \in Histories
      /\ mishaps \in 0 .. MaxMishaps
  BY DEF RecycleInv, RecycleTypes
<1>1. /\ cleanupAt = "manifest"
      /\ \/ /\ CopiesAgree /\ manifest' = staging.claim /\ cleanupAt' = "remove"
            /\ staging' \in Stagings /\ staging'.claim = staging.claim
            /\ staging'.stable = staging.stable /\ staging'.target = staging.target
            /\ staging'.recovery = staging.recovery /\ staging'.missing = staging.missing
            /\ staging'.removed = staging.missing
            /\ (staging'.made = staging.made \/ staging'.made = staging.made \cup {"manifest"})
         \/ cleanupAt' = "release" /\ manifest' = manifest /\ staging' = staging
      /\ binRow' = binRow /\ cleanupHistory' = cleanupHistory /\ source' = source
      /\ target' = target /\ recovery' = recovery
      /\ binDeletes' = binDeletes /\ restages' = restages /\ binScanning' = binScanning
      /\ (Mishap \/ Smooth)
  <2>1. CASE cleanupAt' = "remove"
    <3>1. PICK b \in BOOLEAN, made \in SUBSET {"target", "recovery", "manifest"} :
            /\ b = staging.missing /\ made \in {staging.made, staging.made \cup {"manifest"}}
            /\ staging' = [staging EXCEPT !.removed = b, !.made = made]
      BY <2>1, <1>t DEF PrepareManifest, CleanupTo, Stagings
    <3> QED
      BY <2>1, <3>1, <1>t
         DEF PrepareManifest, Cleanup, CleanupOnly, CleanupTo, RecycleTypes, Stagings
  <2>2. CASE cleanupAt' # "remove"
    BY <2>2 DEF PrepareManifest, Cleanup, CleanupOnly, CleanupTo, MishapIf, Mishap, Smooth
  <2> QED
    BY <2>1, <2>2
<1>m. mishaps' \in 0 .. MaxMishaps
  BY <1>1, <1>t, MishapsMove
<1>T. RecycleTypes'
  BY <1>1, <1>t, <1>m DEF RecycleTypes, Stagings
<1>O. OnlyOriginal'
  BY <1>1, <1>t DEF OnlyOriginal, Holding, RecycleTypes, Stagings
<1>S. StagingFits'
  BY <1>1, <1>t DEF StagingFits, Staged, CopiesAgree, RecycleTypes, Stagings
<1>F. SourceFits'
  BY <1>1, <1>t DEF SourceFits, SourceKept, InPlace
<1>C. ClaimFits'
  BY <1>1, <1>t DEF ClaimFits, Claimed, RowGone
<1>N. NoContentIsLost'
  BY <1>1, <1>t DEF NoContentIsLost, Kept, Paths
<1>D. DeletedIsStaged'
  BY <1>1, <1>t DEF DeletedIsStaged, StagingFits
<1> QED
  BY <1>T, <1>O, <1>S, <1>F, <1>C, <1>N, <1>D DEF RecycleInv

\* The source is compared while both copies hold its content.
LEMMA CheckSourceKeeps ==
  ASSUME RecycleInv, CheckSource
  PROVE  RecycleInv'
<1>t. /\ RecycleTypes /\ OnlyOriginal /\ StagingFits /\ SourceFits /\ ClaimFits
      /\ NoContentIsLost /\ DeletedIsStaged
      /\ binRow \in BinRows /\ staging \in Stagings /\ cleanupHistory \in Histories
      /\ mishaps \in 0 .. MaxMishaps
  BY DEF RecycleInv, RecycleTypes
<1>1. /\ cleanupAt = "remove" /\ source' = source
      /\ \/ /\ cleanupAt' = "final" /\ (staging.removed \/ source = NoFile)
            /\ staging' \in Stagings /\ staging'.claim = staging.claim
            /\ staging'.stable = staging.stable /\ staging'.target = staging.target
            /\ staging'.recovery = staging.recovery /\ staging'.missing = staging.missing
            /\ staging'.removed = TRUE /\ staging'.made = staging.made
         \/ /\ cleanupAt' = "unlink source" /\ source = staging.stable /\ staging' = staging
            /\ ~staging.removed
         \/ cleanupAt' = "release" /\ staging' = staging /\ ~staging.removed
      /\ binRow' = binRow /\ cleanupHistory' = cleanupHistory /\ target' = target
      /\ recovery' = recovery /\ manifest' = manifest
      /\ binDeletes' = binDeletes /\ restages' = restages /\ binScanning' = binScanning
      /\ (Mishap \/ Smooth)
  BY <1>t, FilesAre DEF CheckSource, Cleanup, CleanupOnly, CleanupTo, fileVars, StagedLinksHold,
         SourceIsStaged, RecycleTypes, Stagings, MishapIf, Mishap, Smooth
<1>m. mishaps' \in 0 .. MaxMishaps
  BY <1>1, <1>t, MishapsMove
<1>T. RecycleTypes'
  BY <1>1, <1>t, <1>m DEF RecycleTypes
<1>O. OnlyOriginal'
  BY <1>1, <1>t, FilesAre DEF OnlyOriginal, Holding, RecycleTypes, Stagings
<1>S. StagingFits'
  BY <1>1, <1>t DEF StagingFits, Staged, CopiesAgree, RecycleTypes, Stagings
<1>F. SourceFits'
  BY <1>1, <1>t DEF SourceFits, SourceKept, InPlace
<1>C. ClaimFits'
  BY <1>1, <1>t DEF ClaimFits, Claimed, RowGone
<1>N. NoContentIsLost'
  BY <1>1, <1>t DEF NoContentIsLost, Kept, Paths, StagingFits, Staged,
         CopiesAgree
<1>D. DeletedIsStaged'
  BY <1>1, <1>t DEF DeletedIsStaged
<1> QED
  BY <1>T, <1>O, <1>S, <1>F, <1>C, <1>N, <1>D DEF RecycleInv

\* The source goes while both copies hold its content, or what another program has put
\* in its place since.
LEMMA RemoveSourceKeeps ==
  ASSUME RecycleInv, RemoveSource
  PROVE  RecycleInv'
<1>t. /\ RecycleTypes /\ OnlyOriginal /\ StagingFits /\ SourceFits /\ ClaimFits
      /\ NoContentIsLost /\ DeletedIsStaged
      /\ binRow \in BinRows /\ staging \in Stagings /\ cleanupHistory \in Histories
      /\ mishaps \in 0 .. MaxMishaps
  BY DEF RecycleInv, RecycleTypes
<1>1. /\ cleanupAt = "unlink source"
      /\ \/ /\ cleanupAt' = "final" /\ source' = NoFile
            /\ staging' \in Stagings /\ staging'.claim = staging.claim
            /\ staging'.stable = staging.stable /\ staging'.target = staging.target
            /\ staging'.recovery = staging.recovery /\ staging'.missing = staging.missing
            /\ staging'.removed = TRUE /\ staging'.made = staging.made
         \/ cleanupAt' = "release" /\ source' = source /\ staging' = staging
      /\ binRow' = binRow /\ cleanupHistory' = cleanupHistory /\ target' = target
      /\ recovery' = recovery /\ manifest' = manifest
      /\ binDeletes' = binDeletes /\ restages' = restages /\ binScanning' = binScanning
      /\ (Mishap \/ Smooth)
  BY <1>t, FilesAre DEF RemoveSource, Cleanup, CleanupOnly, CleanupTo, RecycleTypes, Stagings
<1>m. mishaps' \in 0 .. MaxMishaps
  BY <1>1, <1>t, MishapsMove
<1>T. RecycleTypes'
  BY <1>1, <1>t, <1>m DEF RecycleTypes
<1>O. OnlyOriginal'
  BY <1>1, <1>t, FilesAre DEF OnlyOriginal, Holding, RecycleTypes, Stagings
<1>S. StagingFits'
  BY <1>1, <1>t DEF StagingFits, Staged, CopiesAgree, RecycleTypes, Stagings
<1>F. SourceFits'
  BY <1>1, <1>t DEF SourceFits, SourceKept, InPlace
<1>C. ClaimFits'
  BY <1>1, <1>t DEF ClaimFits, Claimed, RowGone
<1>N. NoContentIsLost'
  BY <1>1, <1>t, FilesAre DEF NoContentIsLost, Kept, Paths, StagingFits, Staged,
         CopiesAgree, SourceFits, SourceKept, InPlace
<1>D. DeletedIsStaged'
  BY <1>1, <1>t DEF DeletedIsStaged
<1> QED
  BY <1>T, <1>O, <1>S, <1>F, <1>C, <1>N, <1>D DEF RecycleInv

\* The target is staged again from the recovery copy.
LEMMA RestageFinalTargetKeeps ==
  ASSUME RecycleInv, RestageFinalTarget
  PROVE  RecycleInv'
<1>t. /\ RecycleTypes /\ OnlyOriginal /\ StagingFits /\ SourceFits /\ ClaimFits
      /\ NoContentIsLost /\ DeletedIsStaged
      /\ binRow \in BinRows /\ staging \in Stagings /\ cleanupHistory \in Histories
      /\ mishaps \in 0 .. MaxMishaps
  BY DEF RecycleInv, RecycleTypes
<1>s. /\ Snapshot(staging.recovery) \in File
      /\ Snapshot(staging.recovery).content = staging.recovery.content
  BY <1>t, SnapshotIs DEF RestageFinalTarget, Holding, Stagings, StagingFits, Staged
<1>1. /\ cleanupAt = "final"
      /\ target' \in File /\ target'.content = staging.recovery.content
      /\ staging' \in Stagings /\ staging'.claim = staging.claim /\ staging'.stable = staging.stable
      /\ staging'.target = target' /\ staging'.recovery = staging.recovery
      /\ staging'.missing = staging.missing /\ staging'.removed = staging.removed
      /\ staging'.made = staging.made
      /\ cleanupAt' \in {"delete", "put back"}
      /\ binRow' = binRow /\ cleanupHistory' = cleanupHistory /\ source' = source
      /\ recovery' = recovery /\ manifest' = manifest
      /\ binDeletes' = binDeletes /\ restages' = restages /\ binScanning' = binScanning
      /\ (Mishap \/ Smooth)
  BY <1>t, FilesAre, <1>s DEF RestageFinalTarget, Cleanup, CleanupOnly, CleanupTo, fileVars,
         RecycleTypes, Stagings, Smooth
<1>m. mishaps' \in 0 .. MaxMishaps
  BY <1>1, <1>t, MishapsMove
<1>T. RecycleTypes'
  BY <1>1, <1>t, <1>m DEF RecycleTypes
<1>O. OnlyOriginal'
  BY <1>1, <1>t DEF OnlyOriginal, Holding, RecycleTypes, Stagings
<1>S. StagingFits'
  BY <1>1, <1>t, FilesAre DEF StagingFits, Staged, CopiesAgree, RecycleTypes, Stagings
<1>F. SourceFits'
  BY <1>1, <1>t DEF SourceFits, SourceKept, InPlace
<1>C. ClaimFits'
  BY <1>1, <1>t DEF ClaimFits, Claimed, RowGone
<1>N. NoContentIsLost'
  BY <1>1, <1>t DEF NoContentIsLost, Kept, Paths, StagingFits, Staged,
         CopiesAgree
<1>D. DeletedIsStaged'
  BY <1>1, <1>t, FilesAre DEF DeletedIsStaged
<1> QED
  BY <1>T, <1>O, <1>S, <1>F, <1>C, <1>N, <1>D DEF RecycleInv

\* All is looked at again before the row goes.
LEMMA LockAndValidateFinalKeeps ==
  ASSUME RecycleInv, LockAndValidateFinal
  PROVE  RecycleInv'
<1>t. /\ RecycleTypes /\ OnlyOriginal /\ StagingFits /\ SourceFits /\ ClaimFits
      /\ NoContentIsLost /\ DeletedIsStaged
      /\ binRow \in BinRows /\ staging \in Stagings /\ cleanupHistory \in Histories
      /\ mishaps \in 0 .. MaxMishaps
  BY DEF RecycleInv, RecycleTypes
<1>1. /\ cleanupAt = "final"
      /\ cleanupAt' \in {"delete", "put back"}
      /\ binRow' = binRow /\ cleanupHistory' = cleanupHistory /\ staging' = staging
      /\ source' = source /\ target' = target /\ recovery' = recovery /\ manifest' = manifest
      /\ binDeletes' = binDeletes /\ restages' = restages /\ binScanning' = binScanning
      /\ (Mishap \/ Smooth)
  BY <1>t, FilesAre DEF LockAndValidateFinal, Cleanup, CleanupOnly, CleanupTo, fileVars
<1>m. mishaps' \in 0 .. MaxMishaps
  BY <1>1, <1>t, MishapsMove
<1>T. RecycleTypes'
  BY <1>1, <1>t, <1>m DEF RecycleTypes
<1>O. OnlyOriginal'
  BY <1>1, <1>t DEF OnlyOriginal, Holding, RecycleTypes, Stagings
<1>S. StagingFits'
  BY <1>1, <1>t DEF StagingFits, Staged, CopiesAgree, RecycleTypes, Stagings
<1>F. SourceFits'
  BY <1>1, <1>t DEF SourceFits, SourceKept, InPlace
<1>C. ClaimFits'
  BY <1>1, <1>t DEF ClaimFits, Claimed, RowGone
<1>N. NoContentIsLost'
  BY <1>1, <1>t DEF NoContentIsLost, Kept, Paths
<1>D. DeletedIsStaged'
  BY <1>1, <1>t DEF DeletedIsStaged
<1> QED
  BY <1>T, <1>O, <1>S, <1>F, <1>C, <1>N, <1>D DEF RecycleInv

\* The row goes while its claim stands, with the file in the recycle folder.
LEMMA DeleteClaimKeeps ==
  ASSUME RecycleInv, DeleteClaim
  PROVE  RecycleInv'
<1>t. /\ RecycleTypes /\ OnlyOriginal /\ StagingFits /\ SourceFits /\ ClaimFits
      /\ NoContentIsLost /\ DeletedIsStaged
      /\ binRow \in BinRows /\ staging \in Stagings /\ cleanupHistory \in Histories
      /\ mishaps \in 0 .. MaxMishaps
  BY DEF RecycleInv, RecycleTypes
<1>1. /\ cleanupAt = "delete"
      /\ \/ /\ cleanupAt' = "verify" /\ binRow' \in BinRows /\ binRow'.in = FALSE
            /\ binRow'.deleted = binRow.deleted /\ binRow'.claim = binRow.claim
         \/ cleanupAt' = "put back" /\ binRow' = binRow
      /\ cleanupHistory' = cleanupHistory /\ staging' = staging
      /\ source' = source /\ target' = target /\ recovery' = recovery /\ manifest' = manifest
      /\ binDeletes' = binDeletes /\ restages' = restages /\ binScanning' = binScanning
      /\ (Mishap \/ Smooth)
  BY <1>t, FilesAre DEF DeleteClaim, Cleanup, CleanupOnly, CleanupTo, fileVars, RecycleTypes,
         BinRows, MishapIf, Mishap, Smooth
<1>m. mishaps' \in 0 .. MaxMishaps
  BY <1>1, <1>t, MishapsMove
<1>T. RecycleTypes'
  BY <1>1, <1>t, <1>m DEF RecycleTypes
<1>O. OnlyOriginal'
  BY <1>1, <1>t DEF OnlyOriginal, Holding, RecycleTypes, Stagings
<1>S. StagingFits'
  BY <1>1, <1>t DEF StagingFits, Staged, CopiesAgree, RecycleTypes, Stagings
<1>F. SourceFits'
  BY <1>1, <1>t DEF SourceFits, SourceKept, InPlace
<1>C. ClaimFits'
  BY <1>1, <1>t DEF ClaimFits, Claimed, RowGone
<1>N. NoContentIsLost'
  BY <1>1, <1>t DEF NoContentIsLost, Kept, Paths
<1>D. DeletedIsStaged'
  BY <1>1, <1>t DEF DeletedIsStaged, StagingFits, Staged
<1> QED
  BY <1>T, <1>O, <1>S, <1>F, <1>C, <1>N, <1>D DEF RecycleInv

\* The target is looked at once more.
LEMMA ValidateAfterDeleteKeeps ==
  ASSUME RecycleInv, ValidateAfterDelete
  PROVE  RecycleInv'
<1>t. /\ RecycleTypes /\ OnlyOriginal /\ StagingFits /\ SourceFits /\ ClaimFits
      /\ NoContentIsLost /\ DeletedIsStaged
      /\ binRow \in BinRows /\ staging \in Stagings /\ cleanupHistory \in Histories
      /\ mishaps \in 0 .. MaxMishaps
  BY DEF RecycleInv, RecycleTypes
<1>1. /\ cleanupAt = "verify"
      /\ \/ cleanupAt' = "unlink" /\ target = staging.target
         \/ cleanupAt' = "materialize"
      /\ binRow' = binRow /\ cleanupHistory' = cleanupHistory /\ staging' = staging
      /\ source' = source /\ target' = target /\ recovery' = recovery /\ manifest' = manifest
      /\ binDeletes' = binDeletes /\ restages' = restages /\ binScanning' = binScanning
      /\ (Mishap \/ Smooth)
  BY <1>t, FilesAre DEF ValidateAfterDelete, Cleanup, CleanupOnly, CleanupTo, fileVars, FinalHolds,
         StagedLinksHold, MishapIf, Mishap, Smooth
<1>m. mishaps' \in 0 .. MaxMishaps
  BY <1>1, <1>t, MishapsMove
<1>T. RecycleTypes'
  BY <1>1, <1>t, <1>m DEF RecycleTypes
<1>O. OnlyOriginal'
  BY <1>1, <1>t DEF OnlyOriginal, Holding, RecycleTypes, Stagings
<1>S. StagingFits'
  BY <1>1, <1>t DEF StagingFits, Staged, CopiesAgree, RecycleTypes, Stagings
<1>F. SourceFits'
  BY <1>1, <1>t DEF SourceFits, SourceKept, InPlace
<1>C. ClaimFits'
  BY <1>1, <1>t DEF ClaimFits, Claimed, RowGone
<1>N. NoContentIsLost'
  BY <1>1, <1>t DEF NoContentIsLost, Kept, Paths
<1>D. DeletedIsStaged'
  BY <1>1, <1>t DEF DeletedIsStaged
<1> QED
  BY <1>T, <1>O, <1>S, <1>F, <1>C, <1>N, <1>D DEF RecycleInv

\* The recovery copy goes only where the target is still the staged one.
LEMMA RemoveRecoveryLinkKeeps ==
  ASSUME RecycleInv, RemoveRecoveryLink
  PROVE  RecycleInv'
<1>t. /\ RecycleTypes /\ OnlyOriginal /\ StagingFits /\ SourceFits /\ ClaimFits
      /\ NoContentIsLost /\ DeletedIsStaged
      /\ binRow \in BinRows /\ staging \in Stagings /\ cleanupHistory \in Histories
      /\ mishaps \in 0 .. MaxMishaps
  BY DEF RecycleInv, RecycleTypes
<1>1. /\ cleanupAt = "unlink"
      /\ cleanupAt' = "idle" /\ staging' = NoWork
      /\ recovery' = recovery \/ (recovery' = NoFile /\ recovery = staging.recovery)
      /\ binRow' = binRow /\ cleanupHistory' = cleanupHistory /\ source' = source
      /\ target' = target /\ manifest' = manifest
      /\ binDeletes' = binDeletes /\ restages' = restages /\ binScanning' = binScanning
      /\ (Mishap \/ Smooth)
  BY <1>t, FilesAre DEF RemoveRecoveryLink, Cleanup, CleanupOnly, CleanupTo, fileVars, CleanupEnds,
         Without
<1>m. mishaps' \in 0 .. MaxMishaps
  BY <1>1, <1>t, MishapsMove
<1>T. RecycleTypes'
  BY <1>1, <1>t, <1>m, NoWorkIs DEF RecycleTypes
<1>O. OnlyOriginal'
  BY <1>1, <1>t, NoWorkIs, FilesAre DEF OnlyOriginal, Holding, RecycleTypes, Stagings
<1>S. StagingFits'
  BY <1>1, <1>t, NoWorkIs DEF StagingFits, Staged, CopiesAgree, RecycleTypes, Stagings
<1>F. SourceFits'
  BY <1>1, <1>t DEF SourceFits, SourceKept, InPlace
<1>C. ClaimFits'
  BY <1>1, <1>t DEF ClaimFits, Claimed, RowGone
<1>N. NoContentIsLost'
  BY <1>1, <1>t DEF NoContentIsLost, Kept, Paths, StagingFits, Staged,
         CopiesAgree
<1>D. DeletedIsStaged'
  BY <1>1, <1>t DEF DeletedIsStaged
<1> QED
  BY <1>T, <1>O, <1>S, <1>F, <1>C, <1>N, <1>D DEF RecycleInv

\* A failure before the source has gone releases the claim.
LEMMA FailBeforeSourceRemovalKeeps ==
  ASSUME RecycleInv, FailBeforeSourceRemoval
  PROVE  RecycleInv'
<1>t. /\ RecycleTypes /\ OnlyOriginal /\ StagingFits /\ SourceFits /\ ClaimFits
      /\ NoContentIsLost /\ DeletedIsStaged
      /\ binRow \in BinRows /\ staging \in Stagings /\ cleanupHistory \in Histories
      /\ mishaps \in 0 .. MaxMishaps
  BY DEF RecycleInv, RecycleTypes
<1>1. /\ cleanupAt = "release"
      /\ \/ /\ binRow' \in BinRows /\ binRow'.in = binRow.in /\ binRow'.deleted = binRow.deleted
            /\ binRow'.claim = FALSE
            /\ cleanupHistory' \in Histories /\ cleanupHistory'.replaced = cleanupHistory.replaced
            /\ cleanupHistory'.intruded = cleanupHistory.intruded
            /\ cleanupHistory'.overrun = cleanupHistory.overrun
            /\ cleanupHistory'.undermined = (cleanupHistory.undermined \/ source = NoFile)
            /\ cleanupHistory'.dropped = cleanupHistory.dropped
            /\ \/ staging.missing /\ cleanupAt' = "idle" /\ staging' = NoWork
               \/ ~staging.missing /\ cleanupAt' = "undo" /\ staging' = staging
         \/ /\ cleanupAt' = "idle" /\ staging' = NoWork /\ binRow' = binRow
            /\ cleanupHistory' = cleanupHistory
      /\ source' = source /\ target' = target /\ recovery' = recovery /\ manifest' = manifest
      /\ binDeletes' = binDeletes /\ restages' = restages /\ binScanning' = binScanning
      /\ (Mishap \/ Smooth)
  BY <1>t, FilesAre DEF FailBeforeSourceRemoval, Cleanup, CleanupOnly, CleanupTo, fileVars,
         ReleaseClaim, Undermined, ClaimHolds, CleanupEnds, RecycleTypes, BinRows, Histories,
         MishapIf, Mishap, Smooth
<1>m. mishaps' \in 0 .. MaxMishaps
  BY <1>1, <1>t, MishapsMove
<1>T. RecycleTypes'
  BY <1>1, <1>t, <1>m, NoWorkIs DEF RecycleTypes
<1>O. OnlyOriginal'
  BY <1>1, <1>t, NoWorkIs, FilesAre DEF OnlyOriginal, Holding, RecycleTypes, Stagings
<1>S. StagingFits'
  BY <1>1, <1>t, NoWorkIs DEF StagingFits, Staged, CopiesAgree, RecycleTypes, Stagings
<1>F. SourceFits'
  BY <1>1, <1>t DEF SourceFits, SourceKept, InPlace
<1>C. ClaimFits'
  BY <1>1, <1>t DEF ClaimFits, Claimed, RowGone
<1>N. NoContentIsLost'
  BY <1>1, <1>t DEF NoContentIsLost, Kept, Paths
<1>D. DeletedIsStaged'
  BY <1>1, <1>t DEF DeletedIsStaged
<1> QED
  BY <1>T, <1>O, <1>S, <1>F, <1>C, <1>N, <1>D DEF RecycleInv

\* What the cleanup made is removed; the source is where it was.
LEMMA RemoveCreatedArtifactsKeeps ==
  ASSUME RecycleInv, RemoveCreatedArtifacts
  PROVE  RecycleInv'
<1>t. /\ RecycleTypes /\ OnlyOriginal /\ StagingFits /\ SourceFits /\ ClaimFits
      /\ NoContentIsLost /\ DeletedIsStaged
      /\ binRow \in BinRows /\ staging \in Stagings /\ cleanupHistory \in Histories
      /\ mishaps \in 0 .. MaxMishaps
  BY DEF RecycleInv, RecycleTypes
<1>1. /\ cleanupAt = "undo"
      /\ cleanupAt' = "idle" /\ staging' = NoWork
      /\ manifest' \in {0, manifest}
      /\ recovery' = recovery \/ (recovery' = NoFile /\ recovery = staging.recovery
                                  /\ "recovery" \in staging.made)
      /\ target' = target \/ (target' = NoFile /\ target = staging.target
                                /\ "target" \in staging.made)
      /\ binRow' = binRow /\ cleanupHistory' = cleanupHistory /\ source' = source
      /\ binDeletes' = binDeletes /\ restages' = restages /\ binScanning' = binScanning
      /\ (Mishap \/ Smooth)
  BY <1>t, FilesAre DEF RemoveCreatedArtifacts, Cleanup, CleanupOnly, CleanupTo, fileVars,
         CleanupEnds, Without
<1>m. mishaps' \in 0 .. MaxMishaps
  BY <1>1, <1>t, MishapsMove
<1>T. RecycleTypes'
  BY <1>1, <1>t, NoWorkIs, <1>m, ZeroIs, FilesAre DEF RecycleTypes
<1>O. OnlyOriginal'
  BY <1>1, <1>t, NoWorkIs, FilesAre DEF OnlyOriginal, Holding, RecycleTypes, Stagings
<1>S. StagingFits'
  BY <1>1, <1>t, NoWorkIs DEF StagingFits, Staged, CopiesAgree, RecycleTypes, Stagings
<1>F. SourceFits'
  BY <1>1, <1>t DEF SourceFits, SourceKept, InPlace
<1>C. ClaimFits'
  BY <1>1, <1>t DEF ClaimFits, Claimed, RowGone
<1>N. NoContentIsLost'
  BY <1>1, <1>t DEF NoContentIsLost, Kept, Paths, StagingFits, SourceFits,
         InPlace, SourceKept, OnlyOriginal
<1>D. DeletedIsStaged'
  BY <1>1, <1>t DEF DeletedIsStaged, ClaimFits, RowGone
<1> QED
  BY <1>T, <1>O, <1>S, <1>F, <1>C, <1>N, <1>D DEF RecycleInv

\* A failure later puts the source back from the recovery copy.
LEMMA RestoreSourceKeeps ==
  ASSUME RecycleInv, RestoreSource
  PROVE  RecycleInv'
<1>t. /\ RecycleTypes /\ OnlyOriginal /\ StagingFits /\ SourceFits /\ ClaimFits
      /\ NoContentIsLost /\ DeletedIsStaged
      /\ binRow \in BinRows /\ staging \in Stagings /\ cleanupHistory \in Histories
      /\ mishaps \in 0 .. MaxMishaps
  BY DEF RecycleInv, RecycleTypes
<1>1. /\ cleanupAt = "put back"
      /\ \/ /\ source = NoFile /\ source' = staging.recovery /\ cleanupAt' = "release put back"
            /\ staging' = staging
         \/ cleanupAt' = "idle" /\ staging' = NoWork /\ source' = source
      /\ binRow' = binRow /\ cleanupHistory' = cleanupHistory /\ target' = target
      /\ recovery' = recovery /\ manifest' = manifest
      /\ binDeletes' = binDeletes /\ restages' = restages /\ binScanning' = binScanning
      /\ (Mishap \/ Smooth)
  BY <1>t, FilesAre DEF RestoreSource, Cleanup, CleanupOnly, CleanupTo, fileVars, SourceIsFree,
         CleanupEnds, MishapIf, Mishap, Smooth
<1>m. mishaps' \in 0 .. MaxMishaps
  BY <1>1, <1>t, MishapsMove
<1>T. RecycleTypes'
  BY <1>1, <1>t, <1>m, NoWorkIs DEF RecycleTypes, Stagings
<1>O. OnlyOriginal'
  BY <1>1, <1>t, NoWorkIs, FilesAre DEF OnlyOriginal, Holding, RecycleTypes, Stagings
<1>S. StagingFits'
  BY <1>1, <1>t, NoWorkIs DEF StagingFits, Staged, CopiesAgree, RecycleTypes, Stagings
<1>F. SourceFits'
  BY <1>1, <1>t DEF SourceFits, SourceKept, InPlace
<1>C. ClaimFits'
  BY <1>1, <1>t DEF ClaimFits, Claimed, RowGone
<1>N. NoContentIsLost'
  BY <1>1, <1>t, FilesAre DEF NoContentIsLost, Kept, Paths
<1>D. DeletedIsStaged'
  BY <1>1, <1>t DEF DeletedIsStaged
<1> QED
  BY <1>T, <1>O, <1>S, <1>F, <1>C, <1>N, <1>D DEF RecycleInv

\* Then the claim is released.
LEMMA ReleaseAfterRestoreKeeps ==
  ASSUME RecycleInv, ReleaseAfterRestore
  PROVE  RecycleInv'
<1>t. /\ RecycleTypes /\ OnlyOriginal /\ StagingFits /\ SourceFits /\ ClaimFits
      /\ NoContentIsLost /\ DeletedIsStaged
      /\ binRow \in BinRows /\ staging \in Stagings /\ cleanupHistory \in Histories
      /\ mishaps \in 0 .. MaxMishaps
  BY DEF RecycleInv, RecycleTypes
<1>1. /\ cleanupAt = "release put back"
      /\ \/ /\ binRow' \in BinRows /\ binRow'.in = binRow.in /\ binRow'.deleted = binRow.deleted
            /\ binRow'.claim = FALSE
            /\ cleanupHistory' \in Histories /\ cleanupHistory'.replaced = cleanupHistory.replaced
            /\ cleanupHistory'.intruded = cleanupHistory.intruded
            /\ cleanupHistory'.overrun = cleanupHistory.overrun
            /\ cleanupHistory'.undermined = (cleanupHistory.undermined \/ source = NoFile)
            /\ cleanupHistory'.dropped = cleanupHistory.dropped
            /\ cleanupAt' = "unstage" /\ staging' = staging
         \/ /\ cleanupAt' = "idle" /\ staging' = NoWork /\ binRow' = binRow
            /\ cleanupHistory' = cleanupHistory
      /\ source' = source /\ target' = target /\ recovery' = recovery /\ manifest' = manifest
      /\ binDeletes' = binDeletes /\ restages' = restages /\ binScanning' = binScanning
      /\ (Mishap \/ Smooth)
  BY <1>t, FilesAre DEF ReleaseAfterRestore, Cleanup, CleanupOnly, CleanupTo, fileVars,
         ReleaseClaim, Undermined, ClaimHolds, CleanupEnds, RecycleTypes, BinRows, Histories,
         MishapIf, Mishap, Smooth
<1>m. mishaps' \in 0 .. MaxMishaps
  BY <1>1, <1>t, MishapsMove
<1>T. RecycleTypes'
  BY <1>1, <1>t, <1>m, NoWorkIs DEF RecycleTypes
<1>O. OnlyOriginal'
  BY <1>1, <1>t, NoWorkIs, FilesAre DEF OnlyOriginal, Holding, RecycleTypes, Stagings
<1>S. StagingFits'
  BY <1>1, <1>t, NoWorkIs DEF StagingFits, Staged, CopiesAgree, RecycleTypes, Stagings
<1>F. SourceFits'
  BY <1>1, <1>t DEF SourceFits, SourceKept, InPlace
<1>C. ClaimFits'
  BY <1>1, <1>t DEF ClaimFits, Claimed, RowGone
<1>N. NoContentIsLost'
  BY <1>1, <1>t DEF NoContentIsLost, Kept, Paths
<1>D. DeletedIsStaged'
  BY <1>1, <1>t DEF DeletedIsStaged
<1> QED
  BY <1>T, <1>O, <1>S, <1>F, <1>C, <1>N, <1>D DEF RecycleInv

\* Then the copies go.
LEMMA RemoveStagedArtifactsKeeps ==
  ASSUME RecycleInv, RemoveStagedArtifacts
  PROVE  RecycleInv'
<1>t. /\ RecycleTypes /\ OnlyOriginal /\ StagingFits /\ SourceFits /\ ClaimFits
      /\ NoContentIsLost /\ DeletedIsStaged
      /\ binRow \in BinRows /\ staging \in Stagings /\ cleanupHistory \in Histories
      /\ mishaps \in 0 .. MaxMishaps
  BY DEF RecycleInv, RecycleTypes
<1>1. /\ cleanupAt = "unstage"
      /\ cleanupAt' = "idle" /\ staging' = NoWork
      /\ manifest' = 0
      /\ recovery' = recovery \/ (recovery' = NoFile /\ recovery = staging.recovery)
      /\ target' = target \/ (target' = NoFile /\ target = staging.target)
      /\ binRow' = binRow /\ cleanupHistory' = cleanupHistory /\ source' = source
      /\ binDeletes' = binDeletes /\ restages' = restages /\ binScanning' = binScanning
      /\ (Mishap \/ Smooth)
  BY <1>t, FilesAre DEF RemoveStagedArtifacts, Cleanup, CleanupOnly, CleanupTo, fileVars,
         CleanupEnds, Without
<1>m. mishaps' \in 0 .. MaxMishaps
  BY <1>1, <1>t, MishapsMove
<1>T. RecycleTypes'
  BY <1>1, <1>t, NoWorkIs, <1>m, ZeroIs, FilesAre DEF RecycleTypes
<1>O. OnlyOriginal'
  BY <1>1, <1>t, NoWorkIs, FilesAre DEF OnlyOriginal, Holding, RecycleTypes, Stagings
<1>S. StagingFits'
  BY <1>1, <1>t, NoWorkIs DEF StagingFits, Staged, CopiesAgree, RecycleTypes, Stagings
<1>F. SourceFits'
  BY <1>1, <1>t DEF SourceFits, SourceKept, InPlace
<1>C. ClaimFits'
  BY <1>1, <1>t DEF ClaimFits, Claimed, RowGone
<1>N. NoContentIsLost'
  BY <1>1, <1>t DEF NoContentIsLost, Kept, Paths, StagingFits, Staged,
         CopiesAgree, SourceFits, InPlace, SourceKept, OnlyOriginal
<1>D. DeletedIsStaged'
  BY <1>1, <1>t DEF DeletedIsStaged, ClaimFits, RowGone
<1> QED
  BY <1>T, <1>O, <1>S, <1>F, <1>C, <1>N, <1>D DEF RecycleInv

\* Where the row has gone, the source comes back before the row.
LEMMA MaterializeSourceKeeps ==
  ASSUME RecycleInv, MaterializeSource
  PROVE  RecycleInv'
<1>t. /\ RecycleTypes /\ OnlyOriginal /\ StagingFits /\ SourceFits /\ ClaimFits
      /\ NoContentIsLost /\ DeletedIsStaged
      /\ binRow \in BinRows /\ staging \in Stagings /\ cleanupHistory \in Histories
      /\ mishaps \in 0 .. MaxMishaps
  BY DEF RecycleInv, RecycleTypes
<1>s. source = NoFile =>
        /\ Snapshot(staging.recovery) \in File
        /\ Snapshot(staging.recovery).content = staging.recovery.content
  BY <1>t, SnapshotIs DEF MaterializeSource, Holding, Stagings, StagingFits, Staged
<1>1. /\ cleanupAt = "materialize"
      /\ cleanupAt' = "reinsert"
      /\ \/ source = NoFile /\ source' \in File /\ source'.content = staging.recovery.content
         \/ source' = source
      /\ binRow' = binRow /\ staging' = staging /\ cleanupHistory' = cleanupHistory
      /\ target' = target /\ recovery' = recovery /\ manifest' = manifest
      /\ binDeletes' = binDeletes /\ restages' = restages /\ binScanning' = binScanning
      /\ (Mishap \/ Smooth)
  BY <1>t, FilesAre, <1>s DEF MaterializeSource, Cleanup, CleanupOnly, CleanupTo, fileVars,
         SourceIsFree, RecycleTypes, Stagings, MishapIf, Mishap, Smooth
<1>m. mishaps' \in 0 .. MaxMishaps
  BY <1>1, <1>t, MishapsMove
<1>T. RecycleTypes'
  BY <1>1, <1>t, <1>m DEF RecycleTypes
<1>O. OnlyOriginal'
  BY <1>1, <1>t DEF OnlyOriginal, Holding, RecycleTypes, Stagings
<1>S. StagingFits'
  BY <1>1, <1>t DEF StagingFits, Staged, CopiesAgree, RecycleTypes, Stagings
<1>F. SourceFits'
  BY <1>1, <1>t DEF SourceFits, SourceKept, InPlace
<1>C. ClaimFits'
  BY <1>1, <1>t DEF ClaimFits, Claimed, RowGone
<1>N. NoContentIsLost'
  BY <1>1, <1>t, FilesAre DEF NoContentIsLost, Kept, Paths
<1>D. DeletedIsStaged'
  BY <1>1, <1>t DEF DeletedIsStaged
<1> QED
  BY <1>T, <1>O, <1>S, <1>F, <1>C, <1>N, <1>D DEF RecycleInv

\* And the row comes back with it.
LEMMA RestoreDeleteSnapshotKeeps ==
  ASSUME RecycleInv, RestoreDeleteSnapshot
  PROVE  RecycleInv'
<1>t. /\ RecycleTypes /\ OnlyOriginal /\ StagingFits /\ SourceFits /\ ClaimFits
      /\ NoContentIsLost /\ DeletedIsStaged
      /\ binRow \in BinRows /\ staging \in Stagings /\ cleanupHistory \in Histories
      /\ mishaps \in 0 .. MaxMishaps
  BY DEF RecycleInv, RecycleTypes
<1>1. /\ cleanupAt = "reinsert"
      /\ cleanupAt' = "idle" /\ staging' = NoWork
      /\ \/ /\ binRow' \in BinRows /\ binRow'.in = TRUE /\ binRow'.deleted = staging.claim
            /\ binRow'.claim = FALSE
            /\ cleanupHistory' \in Histories /\ cleanupHistory'.replaced = cleanupHistory.replaced
            /\ cleanupHistory'.intruded = cleanupHistory.intruded
            /\ cleanupHistory'.overrun = cleanupHistory.overrun
            /\ cleanupHistory'.undermined = (cleanupHistory.undermined \/ source = NoFile)
            /\ cleanupHistory'.dropped = cleanupHistory.dropped
         \/ binRow' = binRow /\ cleanupHistory' = cleanupHistory
      /\ source' = source /\ target' = target /\ recovery' = recovery /\ manifest' = manifest
      /\ binDeletes' = binDeletes /\ restages' = restages /\ binScanning' = binScanning
      /\ (Mishap \/ Smooth)
  <2>1. [in |-> TRUE, deleted |-> staging.claim, claim |-> FALSE] \in BinRows
    BY <1>t DEF BinRows, Stagings
  <2>2. CASE UNCHANGED <<binRow, cleanupHistory>> /\ Mishap
    BY <2>2 DEF RestoreDeleteSnapshot, CleanupOnly, CleanupEnds, fileVars
  <2>3. CASE /\ binRow' = [in |-> TRUE, deleted |-> staging.claim, claim |-> FALSE]
             /\ Undermined(source = NoFile) /\ Smooth
    BY <2>1, <2>3, <1>t
       DEF RestoreDeleteSnapshot, CleanupOnly, CleanupEnds, fileVars, Undermined, Histories
  <2> QED
    BY <2>2, <2>3 DEF RestoreDeleteSnapshot
<1>m. mishaps' \in 0 .. MaxMishaps
  BY <1>1, <1>t, MishapsMove
<1>T. RecycleTypes'
  BY <1>1, <1>t, <1>m, NoWorkIs DEF RecycleTypes
<1>O. OnlyOriginal'
  BY <1>1, <1>t, NoWorkIs, FilesAre DEF OnlyOriginal, Holding, RecycleTypes, Stagings
<1>S. StagingFits'
  BY <1>1, <1>t, NoWorkIs DEF StagingFits, Staged, CopiesAgree, RecycleTypes, Stagings
<1>F. SourceFits'
  BY <1>1, <1>t DEF SourceFits, SourceKept, InPlace
<1>C. ClaimFits'
  BY <1>1, <1>t DEF ClaimFits, Claimed, RowGone
<1>N. NoContentIsLost'
  BY <1>1, <1>t DEF NoContentIsLost, Kept, Paths
<1>D. DeletedIsStaged'
  BY <1>1, <1>t DEF DeletedIsStaged
<1> QED
  BY <1>T, <1>O, <1>S, <1>F, <1>C, <1>N, <1>D DEF RecycleInv

\* A crash forgets what the cleanup had in memory, not what is on disk.
LEMMA CleanupCrashKeeps ==
  ASSUME RecycleInv, CleanupCrash
  PROVE  RecycleInv'
<1>t. /\ RecycleTypes /\ OnlyOriginal /\ StagingFits /\ SourceFits /\ ClaimFits
      /\ NoContentIsLost /\ DeletedIsStaged
      /\ binRow \in BinRows /\ staging \in Stagings /\ cleanupHistory \in Histories
      /\ mishaps \in 0 .. MaxMishaps
  BY DEF RecycleInv, RecycleTypes
<1>1. /\ cleanupAt' = "idle" /\ staging' = NoWork
      /\ binRow' = binRow /\ binDeletes' = binDeletes /\ restages' = restages
      /\ cleanupHistory' = cleanupHistory
      /\ source' = source /\ target' = target /\ recovery' = recovery /\ manifest' = manifest
      /\ binScanning' \in BOOLEAN
      /\ (Mishap \/ Smooth)
  BY <1>t, FilesAre DEF CleanupCrash, CleanupEnds, binRowVars, fileVars
<1>m. mishaps' \in 0 .. MaxMishaps
  BY <1>1, <1>t, MishapsMove
<1>T. RecycleTypes'
  BY <1>1, <1>t, <1>m, NoWorkIs DEF RecycleTypes
<1>O. OnlyOriginal'
  BY <1>1, <1>t, NoWorkIs, FilesAre DEF OnlyOriginal, Holding, RecycleTypes, Stagings
<1>S. StagingFits'
  BY <1>1, <1>t, NoWorkIs DEF StagingFits, Staged, CopiesAgree, RecycleTypes, Stagings
<1>F. SourceFits'
  BY <1>1, <1>t DEF SourceFits, SourceKept, InPlace
<1>C. ClaimFits'
  BY <1>1, <1>t DEF ClaimFits, Claimed, RowGone
<1>N. NoContentIsLost'
  BY <1>1, <1>t DEF NoContentIsLost, Kept, Paths
<1>D. DeletedIsStaged'
  BY <1>1, <1>t DEF DeletedIsStaged
<1> QED
  BY <1>T, <1>O, <1>S, <1>F, <1>C, <1>N, <1>D DEF RecycleInv

\* Every step of the bin, of scans and of the cleanup keeps it.
LEMMA RecycleStep ==
  RecycleInv /\ [RecycleNext]_recycleVars => RecycleInv'
<1> SUFFICES ASSUME RecycleInv, [RecycleNext]_recycleVars PROVE RecycleInv'
  OBVIOUS
<1>1. CASE UNCHANGED recycleVars
  <2>1. /\ UNCHANGED <<binRow, binDeletes, source, target, recovery, manifest, cleanupAt, staging>>
        /\ UNCHANGED <<restages, binScanning, mishaps, cleanupHistory>>
    BY <1>1 DEF recycleVars, binRowVars, fileVars
  <2>2. RecycleTypes' /\ OnlyOriginal' /\ DeletedIsStaged'
    BY <2>1 DEF RecycleInv, RecycleTypes, OnlyOriginal, Holding, DeletedIsStaged
  <2>3. StagingFits'
    BY <2>1 DEF RecycleInv, StagingFits, CopiesAgree
  <2>4. SourceFits' /\ ClaimFits' /\ NoContentIsLost'
    BY <2>1 DEF RecycleInv, SourceFits, InPlace, ClaimFits, NoContentIsLost, Kept, Paths
  <2> QED
    BY <2>2, <2>3, <2>4 DEF RecycleInv
<1>2. CASE SoftDelete \/ Restore \/ ScanLooks \/ ScanWrites \/ ScanFindsNoChange \/ DeleteMediaRecords
           \/ ForeignFile \/ CleanupCrash
  BY <1>2, SoftDeleteKeeps, RestoreKeeps, ScanLooksKeeps, ScanWritesKeeps, ScanFindsNoChangeKeeps,
     DeleteMediaRecordsKeeps, ForeignFileKeeps, CleanupCrashKeeps
<1>3. CASE CleanupStep
  BY <1>3, ClaimItemKeeps, PrepareStageKeeps, OpenReferenceKeeps, EnsureTargetKeeps,
     EnsureRecoveryKeeps, PrepareManifestKeeps, CheckSourceKeeps, RemoveSourceKeeps,
     RestageFinalTargetKeeps,
     LockAndValidateFinalKeeps, DeleteClaimKeeps, ValidateAfterDeleteKeeps, RemoveRecoveryLinkKeeps,
     FailBeforeSourceRemovalKeeps, RemoveCreatedArtifactsKeeps, RestoreSourceKeeps,
     ReleaseAfterRestoreKeeps, RemoveStagedArtifactsKeeps, MaterializeSourceKeeps,
     RestoreDeleteSnapshotKeeps
     DEF CleanupStep
<1> QED
  BY <1>1, <1>2, <1>3 DEF RecycleNext

\* It has the types of the module and what the runs check.
LEMMA RecycleIsSafe ==
  RecycleInv => RecycleTypeOK /\ NoContentIsLost /\ DeletedIsStaged /\ ActiveHasFile
<1> SUFFICES ASSUME RecycleInv PROVE RecycleTypeOK /\ ActiveHasFile
  BY DEF RecycleInv
<1>1. RecycleTypeOK
  BY DEF RecycleInv, RecycleTypes, RecycleTypeOK, BinRows, Stagings, Histories
<1>2. ActiveHasFile
  BY DEF RecycleInv, RecycleTypes, BinRows, ClaimFits, ActiveHasFile
<1> QED
  BY <1>1, <1>2

\* No content is lost, whatever fails wherever: what was at the source is at the source,
\* in the recycle folder or in the recovery copy unless another program replaced it; a
\* row the cleanup deleted left its file and manifest in the folder; an active row has its
\* file in the library unless its claim was undermined (library/recycle_cleanup.go).
THEOREM NothingIsLostAlways ==
  RecycleSpec => [](RecycleTypeOK /\ NoContentIsLost /\ DeletedIsStaged /\ ActiveHasFile)
  BY RecycleInitInv, RecycleStep, RecycleIsSafe, PTL DEF RecycleSpec

-----------------------------------------------------------------------------
(***************************************************************************)
(* Migrations (migration/runner.go, default_migrations.go). A run takes    *)
(* its backup before it changes anything. What it has passed is valid, but *)
(* for three late migrations that an earlier one can make invalid once     *)
(* more, hence the second start.                                           *)
(***************************************************************************)

\* Once a run has its backup, what the older version left is kept; and it is as soon
\* as a migration has left a status.
KeptByRuns ==
  runner \in {"tables", "next", "apply", "failed"} \/ (\E m \in Ids : applied[m] # "none") =>
    original \in backups

\* The inductive invariant of backups and originals.
MigrationInv ==
  /\ MigrationTypeOK /\ OriginalIsKept /\ KeptByRuns /\ mishaps \in 0 .. MaxMishaps
  /\ runner = "apply" \/ runner = "failed" => pending # {}

\* Some entries of the registry, by number (default_migrations.go).
LEMMA RegistryIs ==
  /\ Ids = 1 .. 31 /\ Registry[1] = AlbumCompat /\ Registry[2] = Baseline
  /\ Registry[3] = DefaultSpace
  /\ Registry[6] = AuditEvents /\ Registry[7] = TasksCenter /\ Registry[8] = LibraryKinds
  /\ Registry[17] = SettingsPreflight /\ Registry[18] = HLSPreviewTasks
  /\ Registry[23] = WatchStates /\ Registry[26] = SpaceMembers
BY DEF Registry, Ids

\* Migrations make, drop and refuse what a database can have.
LEMMA ItemsAre ==
  /\ \A m \in Ids : /\ Registry[m].makes \subseteq Items /\ Registry[m].drops \subseteq Items
                    /\ Registry[m].refuses \subseteq Items
  /\ "audit events" \in Items /\ "old preview tasks" \in Items
  /\ Defects \subseteq Items /\ V020 \subseteq Items
<1>1. \A m \in Ids : /\ Registry[m].makes \subseteq Items /\ Registry[m].drops \subseteq Items
                     /\ Registry[m].refuses \subseteq Items
  BY DEF Items
<1>2. {"albums without space"} \subseteq Items
  <2>1. AlbumCompat.drops \subseteq Items
    BY <1>1, RegistryIs
  <2>2. {"albums without space"} \subseteq AlbumCompat.drops
    BY DEF AlbumCompat, Entry
  <2> QED
    BY <2>1, <2>2
<1>3. {"libraries", "settings", "scans", "shares", "library indexes", "albums"} \subseteq Items
  <2>1. Baseline.makes \subseteq Items
    BY <1>1, RegistryIs
  <2>2. {"libraries", "settings", "scans", "shares", "library indexes", "albums"} \subseteq Baseline.makes
    BY DEF Baseline, Entry, BaselineTables, CoreSchema
  <2> QED
    BY <2>1, <2>2
<1>4. {"media without space"} \subseteq Items
  <2>1. DefaultSpace.drops \subseteq Items
    BY <1>1, RegistryIs
  <2>2. {"media without space"} \subseteq DefaultSpace.drops
    BY DEF DefaultSpace, Entry
  <2> QED
    BY <2>1, <2>2
<1>5. {"audit events"} \subseteq Items
  <2>1. AuditEvents.makes \subseteq Items
    BY <1>1, RegistryIs
  <2>2. {"audit events"} \subseteq AuditEvents.makes
    BY DEF AuditEvents, Entry, Table
  <2> QED
    BY <2>1, <2>2
<1>6. {"legacy transcodes"} \subseteq Items
  <2>1. TasksCenter.drops \subseteq Items
    BY <1>1, RegistryIs
  <2>2. {"legacy transcodes"} \subseteq TasksCenter.drops
    BY DEF TasksCenter, Entry
  <2> QED
    BY <2>1, <2>2
<1>7. {"old task status"} \subseteq Items
  <2>1. TasksCenter.refuses \subseteq Items
    BY <1>1, RegistryIs
  <2>2. {"old task status"} \subseteq TasksCenter.refuses
    BY DEF TasksCenter, Entry
  <2> QED
    BY <2>1, <2>2
<1>8. {"odd library kind"} \subseteq Items
  <2>1. LibraryKinds.drops \subseteq Items
    BY <1>1, RegistryIs
  <2>2. {"odd library kind"} \subseteq LibraryKinds.drops
    BY DEF LibraryKinds, Entry
  <2> QED
    BY <2>1, <2>2
<1>9. {"refused setting"} \subseteq Items
  <2>1. SettingsPreflight.refuses \subseteq Items
    BY <1>1, RegistryIs
  <2>2. {"refused setting"} \subseteq SettingsPreflight.refuses
    BY DEF SettingsPreflight, Entry
  <2> QED
    BY <2>1, <2>2
<1>10. {"old preview tasks"} \subseteq Items
  <2>1. HLSPreviewTasks.drops \subseteq Items
    BY <1>1, RegistryIs
  <2>2. {"old preview tasks"} \subseteq HLSPreviewTasks.drops
    BY DEF HLSPreviewTasks, Entry
  <2> QED
    BY <2>1, <2>2
<1>11. {"legacy positions", "projection differs", "orphan watch state"} \subseteq Items
  <2>1. WatchStates.refuses \subseteq Items
    BY <1>1, RegistryIs
  <2>2. {"legacy positions", "projection differs", "orphan watch state"} \subseteq WatchStates.refuses
    BY DEF WatchStates, Entry
  <2> QED
    BY <2>1, <2>2
<1>12. {"missing owner row", "demoted owner"} \subseteq Items
  <2>1. SpaceMembers.refuses \subseteq Items
    BY <1>1, RegistryIs
  <2>2. {"missing owner row", "demoted owner"} \subseteq SpaceMembers.refuses
    BY DEF SpaceMembers, Entry
  <2> QED
    BY <2>1, <2>2
<1> QED
  BY <1>1, <1>2, <1>3, <1>4, <1>5, <1>6, <1>7, <1>8, <1>9, <1>10, <1>11, <1>12 DEF V020, Defects

\* And leave a database with nothing else.
LEMMA UpIs ==
  ASSUME NEW m \in Ids, NEW d \in SUBSET Items
  PROVE  Up(m, d) \subseteq Items
<1>1. Registry[m].makes \subseteq Items /\ Becomes(d, Registry[m]) \subseteq Items
  BY ItemsAre DEF Becomes
<1> QED
  BY <1>1 DEF Up

\* The next migration of a run is the first that is pending.
LEMMA NextPendingIs ==
  ASSUME pending \subseteq Ids, pending # {}
  PROVE  NextPending \in pending /\ \A n \in pending : NextPending <= n
<1>1. pending \in SUBSET Nat
  BY RegistryIs
<1>2. \E m \in pending : \A n \in pending : m <= n
  BY <1>1, LeastNatural
<1> QED
  BY <1>2 DEF NextPending

\* It holds at first.
LEMMA MigrationInitInv ==
  MigrationInit /\ mishaps = 0 => MigrationInv
<1> SUFFICES ASSUME MigrationInit, mishaps = 0 PROVE MigrationInv
  OBVIOUS
<1>1. db \subseteq Items
  BY ItemsAre DEF MigrationInit
<1>3. mishaps \in 0 .. MaxMishaps /\ 0 \in 0 .. MaxSettled
  BY FaultsAssumption DEF MaxSettled
<1>4. /\ db = original /\ pending = {} /\ backups = {} /\ settled = 0
      /\ drifted = FALSE /\ runner = "off"
  BY DEF MigrationInit
<1>2. applied \in [Ids -> Statuses] /\ \A m \in Ids : applied[m] = "none"
  BY DEF MigrationInit, Statuses
<1> QED
  BY <1>1, <1>2, <1>3, <1>4
     DEF MigrationInit, MigrationInv, MigrationTypeOK, OriginalIsKept, KeptByRuns, MaxSettled

\* Every step of a start, of a migration and of a crash keeps it.
LEMMA MigrationStepInv ==
  MigrationInv /\ [MigrationNext]_migrationVars => MigrationInv'
<1> SUFFICES ASSUME MigrationInv, [MigrationNext]_migrationVars PROVE MigrationInv'
  OBVIOUS
<1>t. /\ MigrationTypeOK /\ OriginalIsKept /\ KeptByRuns /\ mishaps \in 0 .. MaxMishaps
      /\ db \subseteq Items /\ applied \in [Ids -> Statuses] /\ pending \subseteq Ids
      /\ settled \in 0 .. MaxSettled
  BY DEF MigrationInv, MigrationTypeOK
<1>m. Mishap \/ Smooth => mishaps' \in 0 .. MaxMishaps
  BY <1>t, FaultsAssumption DEF Mishap, Smooth
<1>s. settled < MaxSettled => settled + 1 \in 0 .. MaxSettled
  BY <1>t DEF MaxSettled
<1>1. CASE UNCHANGED migrationVars
  BY <1>1, <1>t DEF migrationVars, MigrationInv, MigrationTypeOK, OriginalIsKept, KeptByRuns
<1>2. CASE Start
  <2>1. Pending \subseteq Ids
    BY DEF Pending
  <2> QED
    BY <1>2, <1>t, <1>m, <1>s, <2>1
       DEF Start, RunnerTo, DatabaseIsLeft, HistoryIsLeft, MigrationInv, MigrationTypeOK,
           OriginalIsKept, KeptByRuns
<1>3. CASE CreateBackup
  BY <1>3, <1>t, <1>m
     DEF CreateBackup, WithBackup, RunnerTo, DatabaseIsLeft, HistoryIsLeft, MigrationInv,
         MigrationTypeOK, OriginalIsKept, KeptByRuns
<1>4. CASE EnsureMetadataTables
  BY <1>4, <1>t, <1>m, ItemsAre
     DEF EnsureMetadataTables, RunnerTo, HistoryIsLeft, MigrationInv, MigrationTypeOK,
         OriginalIsKept, KeptByRuns
<1>5. CASE MarkRunning
  BY <1>5, <1>t, <1>m
     DEF MarkRunning, RunnerTo, HistoryIsLeft, MigrationInv, MigrationTypeOK, OriginalIsKept,
         KeptByRuns, Statuses
<1>6. CASE Apply
  <2>1. NextPending \in Ids
    BY <1>6, <1>t, NextPendingIs DEF Apply, MigrationInv
  <2>2. Up(NextPending, db) \subseteq Items
    BY <2>1, <1>t, UpIs
  <2> QED
    BY <1>6, <1>t, <1>m, <2>2
       DEF Apply, RunnerTo, HistoryIsLeft, MigrationInv, MigrationTypeOK, OriginalIsKept,
           KeptByRuns, Statuses
<1>7. CASE MarkFailed
  BY <1>7, <1>t, <1>m
     DEF MarkFailed, RunnerTo, HistoryIsLeft, MigrationInv, MigrationTypeOK, OriginalIsKept,
         KeptByRuns, Statuses
<1>8. CASE FinishRun
  BY <1>8, <1>t, <1>m, <1>s
     DEF FinishRun, RunnerTo, DatabaseIsLeft, HistoryIsLeft, MigrationInv, MigrationTypeOK,
         OriginalIsKept, KeptByRuns
<1>9. CASE StopServing \/ MigrationCrash
  BY <1>9, <1>t, <1>m
     DEF StopServing, MigrationCrash, RunnerTo, DatabaseIsLeft, HistoryIsLeft, MigrationInv,
         MigrationTypeOK, OriginalIsKept, KeptByRuns
<1>10. CASE Drift
  <2>1. original \in backups
    BY <1>10, <1>t, RegistryIs DEF Drift, KeptByRuns
  <2>2. db' \subseteq Items
    BY <1>10, <1>t, ItemsAre DEF Drift
  <2> QED
    BY <1>10, <1>t, <1>m, <2>1, <2>2
       DEF Drift, MigrationInv, MigrationTypeOK, OriginalIsKept, KeptByRuns, MaxSettled
<1> QED
  BY <1>1, <1>2, <1>3, <1>4, <1>5, <1>6, <1>7, <1>8, <1>9, <1>10 DEF MigrationNext, MigrationStep

\* Migrations that an earlier one can make invalid: it makes what they refuse, or the
\* table of a column they ask for.
Late == {16, 18, 28}

\* What some migration drops, and what some refuses.
Passing ==
  {"albums without space", "media without space", "ownerless space", "legacy transcodes",
   "odd library kind", "collections without space", "broad deleted index", "broad space index",
   "old preview tasks", "doubled subtitles", "legacy positions", "projection differs",
   "missing owner row"}
Broad == {"broad deleted index", "broad space index"}
Refusable ==
  {"albums without space", "media without space", "ownerless space", "old task status",
   "odd library kind", "collections without space", "refused setting", "broken preview task",
   "legacy positions", "projection differs", "orphan watch state", "missing owner row",
   "demoted owner"}

\* How the n-th migration bears on the others.
Sound(n, e) ==
  /\ e.wants \cap Passing = {} /\ e.drops \subseteq Passing
  /\ e.refuses \subseteq Refusable \cup Broad \cup {"old preview tasks"}
  /\ e.makes \cap (Refusable \cup {"old preview tasks"}) = {}
  /\ e.makes \cap Broad # {} => n \in {2, 5}
  /\ e.refuses \cap Broad # {} => n = 16
  /\ "legacy transcodes" \in e.drops => n = 7
  /\ "old preview tasks" \in e.refuses => n = 18
  /\ "members" \in e.makes => n = 26
  /\ "member rating" \in e.wants => n = 28
  /\ "shares" \in e.makes => "allow download" \in e.makes

\* The registry read entry by entry: each bears on the others only so.
LEMMA RegistryIsSound ==
  \A n \in Ids : Sound(n, Registry[n])
<1>1. Sound(1, AlbumCompat)
  BY DEF Sound, Passing, Refusable, Broad, AlbumCompat, Entry
<1>2. Sound(2, Baseline)
  BY DEF Sound, Passing, Refusable, Broad, Baseline, Entry, BaselineTables, CoreSchema
<1>3. Sound(3, DefaultSpace)
  BY DEF Sound, Passing, Refusable, Broad, DefaultSpace, Entry
<1>4. Sound(4, KeyIndexes)
  BY DEF Sound, Passing, Refusable, Broad, KeyIndexes, Entry
<1>5. Sound(5, SpaceOwnerIndexes)
  BY DEF Sound, Passing, Refusable, Broad, SpaceOwnerIndexes, Entry
<1>6. Sound(6, AuditEvents)
  BY DEF Sound, Passing, Refusable, Broad, AuditEvents, Entry, Table
<1>7. Sound(7, TasksCenter)
  BY DEF Sound, Passing, Refusable, Broad, TasksCenter, Entry
<1>8. Sound(8, LibraryKinds)
  BY DEF Sound, Passing, Refusable, Broad, LibraryKinds, Entry
<1>9. Sound(9, MediaTypeRules)
  BY DEF Sound, Passing, Refusable, Broad, MediaTypeRules, Entry, Table
<1>10. Sound(10, MediaFileState)
  BY DEF Sound, Passing, Refusable, Broad, MediaFileState, Entry, Table
<1>11. Sound(11, FileHashDedup)
  BY DEF Sound, Passing, Refusable, Broad, FileHashDedup, Entry
<1>12. Sound(12, MediaInferences)
  BY DEF Sound, Passing, Refusable, Broad, MediaInferences, Entry, Table
<1>13. Sound(13, CacheAssets)
  BY DEF Sound, Passing, Refusable, Broad, CacheAssets, Entry, Table
<1>14. Sound(14, SpaceOwnedCollections)
  BY DEF Sound, Passing, Refusable, Broad, SpaceOwnedCollections, Entry
<1>15. Sound(15, ActiveQueryIndexes)
  BY DEF Sound, Passing, Refusable, Broad, ActiveQueryIndexes, Entry, Table
<1>16. Sound(16, DeletedQueryIndexes)
  BY DEF Sound, Passing, Refusable, Broad, DeletedQueryIndexes, Entry
<1>17. Sound(17, SettingsPreflight)
  BY DEF Sound, Passing, Refusable, Broad, SettingsPreflight, Entry
<1>18. Sound(18, HLSPreviewTasks)
  BY DEF Sound, Passing, Refusable, Broad, HLSPreviewTasks, Entry
<1>19. Sound(19, MediaMetadata)
  BY DEF Sound, Passing, Refusable, Broad, MediaMetadata, Entry, Table
<1>20. Sound(20, SmartCovers)
  BY DEF Sound, Passing, Refusable, Broad, SmartCovers, Entry, Table
<1>21. Sound(21, TimelinePreviews)
  BY DEF Sound, Passing, Refusable, Broad, TimelinePreviews, Entry, Table
<1>22. Sound(22, SubtitleTracks)
  BY DEF Sound, Passing, Refusable, Broad, SubtitleTracks, Entry
<1>23. Sound(23, WatchStates)
  BY DEF Sound, Passing, Refusable, Broad, WatchStates, Entry
<1>24. Sound(24, ChaptersBookmarks)
  BY DEF Sound, Passing, Refusable, Broad, ChaptersBookmarks, Entry, Table
<1>25. Sound(25, MediaDeleteCascade)
  BY DEF Sound, Passing, Refusable, Broad, MediaDeleteCascade, Entry
<1>26. Sound(26, SpaceMembers)
  BY DEF Sound, Passing, Refusable, Broad, SpaceMembers, Entry
<1>27. Sound(27, ShareAllowDownload)
  BY DEF Sound, Passing, Refusable, Broad, ShareAllowDownload, Entry, Table
<1>28. Sound(28, ContentRating)
  BY DEF Sound, Passing, Refusable, Broad, ContentRating, Entry, Table
<1>29. Sound(29, AuthSessions)
  BY DEF Sound, Passing, Refusable, Broad, AuthSessions, Entry, Table
<1>30. Sound(30, AIPipeline)
  BY DEF Sound, Passing, Refusable, Broad, AIPipeline, Entry, Table
<1>31. Sound(31, AIEmbeddings)
  BY DEF Sound, Passing, Refusable, Broad, AIEmbeddings, Entry, Table
<1>32. Ids = 1 .. 31
  BY DEF Ids, Registry
<1>33. /\ Registry[1] = AlbumCompat /\ Registry[2] = Baseline /\ Registry[3] = DefaultSpace
       /\ Registry[4] = KeyIndexes /\ Registry[5] = SpaceOwnerIndexes /\ Registry[6] = AuditEvents
       /\ Registry[7] = TasksCenter /\ Registry[8] = LibraryKinds /\ Registry[9] = MediaTypeRules
       /\ Registry[10] = MediaFileState /\ Registry[11] = FileHashDedup
       /\ Registry[12] = MediaInferences
       /\ Registry[13] = CacheAssets /\ Registry[14] = SpaceOwnedCollections
       /\ Registry[15] = ActiveQueryIndexes
       /\ Registry[16] = DeletedQueryIndexes /\ Registry[17] = SettingsPreflight
       /\ Registry[18] = HLSPreviewTasks
       /\ Registry[19] = MediaMetadata /\ Registry[20] = SmartCovers
       /\ Registry[21] = TimelinePreviews
       /\ Registry[22] = SubtitleTracks /\ Registry[23] = WatchStates
       /\ Registry[24] = ChaptersBookmarks
       /\ Registry[25] = MediaDeleteCascade /\ Registry[26] = SpaceMembers
       /\ Registry[27] = ShareAllowDownload
       /\ Registry[28] = ContentRating /\ Registry[29] = AuthSessions /\ Registry[30] = AIPipeline
       /\ Registry[31] = AIEmbeddings
  BY DEF Registry
<1> QED
  BY <1>1, <1>2, <1>3, <1>4, <1>5, <1>6, <1>7, <1>8, <1>9, <1>10, <1>11,
     <1>12, <1>13, <1>14, <1>15, <1>16, <1>17, <1>18, <1>19, <1>20, <1>21, <1>22,
     <1>23, <1>24, <1>25, <1>26, <1>27, <1>28, <1>29, <1>30, <1>31, <1>32, <1>33

\* What a check excuses: columns of tables that are not there.
LEMMA ExcusedIs ==
  \A d, i : i \in Excused(d) <=>
              (i = "member rating" /\ "members" \notin d) \/ (i = "allow download" /\ "shares" \notin d)
<1>1. DOMAIN ColumnOf = {"member rating", "allow download"}
  BY DEF ColumnOf
<1>2. ColumnOf["member rating"] = "members" /\ ColumnOf["allow download"] = "shares"
  BY DEF ColumnOf
<1>3. \A d : Excused(d) = {i \in {"member rating", "allow download"} : ColumnOf[i] \notin d}
  BY <1>1 DEF Excused
<1> QED
  BY <1>2, <1>3

\* What a migration leaves in the database.
LEMMA UpHas ==
  ASSUME NEW n \in Ids, NEW d, NEW i
  PROVE  i \in Up(n, d) <=>
           /\ \/ i \in d /\ i \notin Registry[n].drops
              \/ i \in Registry[n].makes
              \/ /\ i = "old preview tasks"
                 /\ "legacy transcodes" \in d /\ "legacy transcodes" \in Registry[n].drops
           /\ i \notin Excused(d \cup Registry[n].makes)
BY DEF Up, Becomes

\* A migration leaves the others valid, unless it is one of few that come before a
\* late one.
LEMMA UpKeeps ==
  ASSUME NEW n \in Ids, NEW m \in Ids, n # m, NEW d, Valid(m, d),
         m < n \/ m \notin Late \/ n \in Late
  PROVE  Valid(m, Up(n, d))
<1>1. Sound(n, Registry[n]) /\ Sound(m, Registry[m])
  BY RegistryIsSound
<1>2. n \in Nat /\ m \in Nat
  BY RegistryIs
<1>3. ASSUME NEW i \in Registry[m].refuses, i \in Up(n, d) PROVE FALSE
  <2>1. i \notin d
    BY <1>3 DEF Valid
  <2>2. CASE i \in Registry[n].makes
    <3>1. n \in {2, 5} /\ m = 16
      BY <1>1, <1>3, <2>2 DEF Sound
    <3> QED
      BY <3>1 DEF Late
  <2>3. CASE /\ i = "old preview tasks"
             /\ "legacy transcodes" \in Registry[n].drops
    <3>1. n = 7 /\ m = 18
      BY <1>1, <1>3, <2>3 DEF Sound
    <3> QED
      BY <3>1 DEF Late
  <2> QED
    BY <1>3, <2>1, <2>2, <2>3, UpHas
<1>4. /\ "members" \in Up(n, d) => "members" \in d \cup Registry[n].makes
      /\ "shares" \in Up(n, d) => "shares" \in d \cup Registry[n].makes
      /\ "allow download" \in Registry[n].makes /\ "shares" \in Registry[n].makes =>
           "allow download" \in Up(n, d)
  <2>1. \A t \in {"members", "shares"} : t \in Up(n, d) => t \in d \cup Registry[n].makes
    BY DEF Up, Becomes
  <2>2. "shares" \in Registry[n].makes =>
          "allow download" \notin Excused(d \cup Registry[n].makes)
    BY ExcusedIs
  <2> QED
    BY <2>1, <2>2, UpHas
<1>5. ASSUME NEW i \in Registry[m].wants, i \notin Up(n, d) PROVE i \in Excused(Up(n, d))
  <2>1. i \notin Registry[n].drops
    BY <1>1, <1>5 DEF Sound
  <2>2. CASE i \in d
    <3>1. i \in Excused(d \cup Registry[n].makes)
      BY <1>5, <2>1, <2>2, UpHas
    <3> QED
      BY <3>1, <1>4, ExcusedIs
  <2>3. CASE i \notin d
    <3>1. i \in Excused(d)
      BY <1>5, <2>3 DEF Valid
    <3>2. CASE i = "member rating"
      <4>1. m = 28
        BY <1>1, <1>5, <3>2 DEF Sound
      <4>2. ASSUME "members" \in Registry[n].makes PROVE FALSE
        <5>1. n = 26
          BY <1>1, <4>2 DEF Sound
        <5> QED
          BY <4>1, <5>1 DEF Late
      <4>3. i \in Excused(Up(n, d))
        <5>1. "members" \notin d
          BY <3>1, <3>2, ExcusedIs
        <5>2. "members" \notin Up(n, d)
          BY <4>2, <5>1, <1>4
        <5> QED
          BY <3>2, <5>2, ExcusedIs
      <4> QED
        BY <4>3
    <3>3. CASE i = "allow download"
      <4>1. "shares" \notin d
        BY <3>1, <3>3, ExcusedIs
      <4>2. "shares" \in Registry[n].makes => "allow download" \in Registry[n].makes
        BY <1>1 DEF Sound
      <4>3. "shares" \notin Registry[n].makes
        BY <1>5, <3>3, <4>2, <1>4
      <4> QED
        BY <3>3, <4>1, <4>3, <1>4, ExcusedIs
    <3> QED
      BY <3>1, <3>2, <3>3, ExcusedIs
  <2> QED
    BY <2>2, <2>3
<1> QED
  BY <1>3, <1>5 DEF Valid

\* The table of audit events makes no migration invalid.
LEMMA AuditKeeps ==
  ASSUME NEW m \in Ids, NEW d, Valid(m, d)
  PROVE  Valid(m, d \cup {"audit events"})
<1>1. "audit events" \notin Registry[m].refuses
  BY RegistryIsSound DEF Sound, Refusable, Broad
<1>2. \A i : i \in Excused(d \cup {"audit events"}) <=> i \in Excused(d)
  <2>1. \A i \in {"members", "shares"} : i \in d \cup {"audit events"} <=> i \in d
    OBVIOUS
  <2> QED
    BY <2>1, ExcusedIs
<1> QED
  BY <1>1, <1>2 DEF Valid

\* A run is under way.
InRun == {"backup", "tables", "next", "apply", "failed"}

\* What is not pending in a run has succeeded and is valid, but for the late ones in a
\* first run; after a first run since the last drift only late ones can be invalid, and
\* a second run makes them valid without making another invalid.
RunsMend ==
  /\ runner \in InRun =>
       /\ \A m \in Ids \ pending : applied[m] = "succeeded"
       /\ \A m \in Ids \ (pending \cup Late) : Valid(m, db)
  /\ settled # 0 => \A m \in Ids \ Late : applied[m] = "succeeded" /\ Valid(m, db)
  /\ runner \in InRun /\ settled # 0 => pending \subseteq Late /\
         \A m \in Ids \ pending : Valid(m, db)
  /\ Serving /\ settled = MaxSettled => \A m \in Ids : Valid(m, db)

\* Without a drift what has succeeded is valid, and is all before the rest.
RunsInOrder ==
  ~drifted =>
    /\ \A m \in Ids : applied[m] = "succeeded" => Valid(m, db)
    /\ \A m, n \in Ids : applied[m] = "succeeded" /\ n < m => applied[n] = "succeeded"
    /\ runner \in InRun => \A m \in pending : applied[m] # "succeeded"

\* The inductive invariant of the rows of migrations.
RowsInv == MigrationInv /\ RunsMend /\ RunsInOrder

\* A step that leaves the database, what has succeeded and what is pending.
LEMMA RunsStay ==
  ASSUME RowsInv, db' = db, pending' \subseteq pending, settled' = settled, drifted' = drifted,
         \/ runner' \notin InRun /\ ~Serving'
         \/ runner \in InRun /\ runner' \in InRun /\ pending' = pending,
         \A m \in Ids : applied'[m] = "succeeded" <=> applied[m] = "succeeded"
  PROVE  RunsMend' /\ RunsInOrder'
<1>1. \A m \in Ids : Valid(m, db') <=> Valid(m, db)
  OBVIOUS
<1>2. RunsMend'
  BY <1>1 DEF RowsInv, RunsMend, InRun, Serving
<1>3. ASSUME ~drifted'
      PROVE  /\ \A m \in Ids : applied'[m] = "succeeded" => Valid(m, db')
             /\ \A m, n \in Ids : applied'[m] = "succeeded" /\ n < m => applied'[n] = "succeeded"
             /\ runner' \in InRun => \A m \in pending' : applied'[m] # "succeeded"
  <2>1. /\ \A m \in Ids : applied[m] = "succeeded" => Valid(m, db)
        /\ \A m, n \in Ids : applied[m] = "succeeded" /\ n < m => applied[n] = "succeeded"
        /\ runner \in InRun => \A m \in pending : applied[m] # "succeeded"
        /\ pending \subseteq Ids
    BY <1>3 DEF RowsInv, RunsInOrder, MigrationInv, MigrationTypeOK
  <2>2. \A m \in Ids : applied'[m] = "succeeded" => Valid(m, db')
    BY <1>1, <2>1
  <2>3. \A m, n \in Ids : applied'[m] = "succeeded" /\ n < m => applied'[n] = "succeeded"
    BY <2>1
  <2>4. runner' \in InRun => \A m \in pending' : applied'[m] # "succeeded"
    BY <2>1
  <2> QED
    BY <2>2, <2>3, <2>4
<1>4. RunsInOrder'
  BY <1>3 DEF RunsInOrder
<1> QED
  BY <1>2, <1>4

\* Every step of a run, of a drift and of a crash keeps both.
LEMMA RunsStep ==
  RowsInv /\ [MigrationNext]_migrationVars => RunsMend' /\ RunsInOrder'
<1> SUFFICES ASSUME RowsInv, [MigrationNext]_migrationVars PROVE RunsMend' /\ RunsInOrder'
  OBVIOUS
<1>t. /\ MigrationInv /\ RunsMend /\ RunsInOrder
      /\ applied \in [Ids -> Statuses] /\ pending \subseteq Ids /\ settled \in 0 .. MaxSettled
  BY DEF RowsInv, MigrationInv, MigrationTypeOK
<1>i. Ids \subseteq Nat
  BY RegistryIs
<1>1. CASE UNCHANGED migrationVars
  <2>1. /\ db' = db /\ applied' = applied /\ runner' = runner /\ pending' = pending
        /\ settled' = settled /\ drifted' = drifted
    BY <1>1 DEF migrationVars
  <2> QED
    BY <2>1, <1>t DEF RunsMend, RunsInOrder, Serving
<1>2. CASE Start
  <2>1. /\ db' = db /\ applied' = applied /\ drifted' = drifted /\ pending' = Pending
        /\ IF Pending = {} THEN runner' = "serving" ELSE runner' = "backup" /\ settled' = settled
    BY <1>2 DEF Start, RunnerTo, DatabaseIsLeft, HistoryIsLeft
  <2>2. \A m \in Ids \ Pending : applied[m] = "succeeded" /\ Valid(m, db)
    BY DEF Pending, IsPending, Retried
  <2>3. settled # 0 => Pending \subseteq Late
    BY <1>t DEF RunsMend, Pending, IsPending, Retried
  <2>4. ~drifted => \A m \in Pending : applied[m] # "succeeded"
    BY <1>t DEF RunsInOrder, Pending, IsPending, Retried
  <2>5. RunsMend'
    <3>1. CASE Pending = {}
      BY <2>1, <2>2, <3>1 DEF RunsMend, InRun
    <3>2. CASE Pending # {}
      BY <2>1, <2>2, <2>3, <3>2, <1>t DEF RunsMend, InRun, Serving
    <3> QED
      BY <3>1, <3>2
  <2>6. RunsInOrder'
    BY <2>1, <2>4, <1>t DEF RunsInOrder
  <2> QED
    BY <2>5, <2>6
<1>3. CASE CreateBackup
  <2>1. /\ db' = db /\ applied' = applied /\ drifted' = drifted /\ settled' = settled
        /\ runner = "backup"
        /\ \/ runner' = "tables" /\ pending' = pending
           \/ runner' = "off" /\ pending' = {}
    BY <1>3 DEF CreateBackup, RunnerTo, DatabaseIsLeft, HistoryIsLeft
  <2> QED
    BY <2>1, RunsStay DEF InRun, Serving
<1>4. CASE EnsureMetadataTables
  <2>1. /\ db' = db \cup {"audit events"} /\ applied' = applied /\ drifted' = drifted
        /\ settled' = settled /\ pending' = pending /\ runner = "tables" /\ runner' = "next"
    BY <1>4 DEF EnsureMetadataTables, RunnerTo, HistoryIsLeft
  <2>2. \A m \in Ids : Valid(m, db) => Valid(m, db')
    BY <2>1, AuditKeeps
  <2>3. RunsMend'
    BY <2>1, <2>2, <1>t DEF RunsMend, InRun, Serving
  <2>4. RunsInOrder'
    BY <2>1, <2>2, <1>t DEF RunsInOrder, InRun
  <2> QED
    BY <2>3, <2>4
<1>5. CASE MarkRunning
  <2>1. /\ db' = db /\ applied' = [applied EXCEPT ![NextPending] = "running"] /\ drifted' = drifted
        /\ settled' = settled /\ pending' = pending /\ runner = "next" /\ runner' = "apply"
        /\ pending # {}
    BY <1>5 DEF MarkRunning, RunnerTo, HistoryIsLeft
  <2>2. NextPending \in pending
    BY <2>1, <1>t, NextPendingIs
  <2>3. /\ \A m \in Ids \ {NextPending} : applied'[m] = applied[m]
        /\ applied'[NextPending] = "running"
    BY <2>1, <2>2, <1>t
  <2>4. RunsMend'
    BY <2>1, <2>2, <2>3, <1>t DEF RunsMend, InRun, Serving
  <2>5. RunsInOrder'
    BY <2>1, <2>2, <2>3, <1>t DEF RunsInOrder, InRun
  <2> QED
    BY <2>4, <2>5
<1>6. CASE Apply
  <2>n. NextPending \in pending /\ NextPending \in Ids /\ \A n \in pending : NextPending <= n
    BY <1>6, <1>t, NextPendingIs DEF Apply, MigrationInv
  <2>1. CASE /\ db' = db /\ applied' = applied /\ pending' = pending /\ runner' = "failed"
    BY <1>6, <2>1, RunsStay DEF Apply, HistoryIsLeft, InRun
  <2>2. CASE /\ Valid(NextPending, Up(NextPending, db))
             /\ db' = Up(NextPending, db)
             /\ applied' = [applied EXCEPT ![NextPending] = "succeeded"]
             /\ pending' = pending \ {NextPending} /\ runner' = "next"
    <3> DEFINE n == NextPending
    <3>1. drifted' = drifted /\ settled' = settled /\ runner = "apply"
      BY <1>6 DEF Apply, HistoryIsLeft
    <3>2. /\ \A m \in Ids \ {n} : applied'[m] = applied[m]
          /\ applied'[n] = "succeeded"
      BY <2>2, <2>n, <1>t
    <3>3. Valid(n, db')
      BY <2>2
    <3>4. \A m \in Ids \ {n} : Valid(m, db) /\ (m < n \/ m \notin Late \/ n \in Late) => Valid(m, db')
      BY <2>2, <2>n, UpKeeps
    <3> HIDE DEF n
    <3>n. n \in pending /\ n \in Ids /\ pending' = pending \ {n} /\ \A k \in pending : n <= k
      BY <2>2, <2>n DEF n
    <3>5. RunsMend'
      <4>1. \A m \in Ids \ pending' : applied'[m] = "succeeded"
        BY <3>1, <3>2, <3>n, <1>t DEF RunsMend, InRun
      <4>2. \A m \in Ids \ (pending' \cup Late) : Valid(m, db')
        BY <3>1, <3>3, <3>4, <3>n, <1>t DEF RunsMend, InRun
      <4>3. settled' # 0 => \A m \in Ids \ Late : applied'[m] = "succeeded" /\ Valid(m, db')
        BY <3>1, <3>2, <3>3, <3>4, <3>n, <1>t DEF RunsMend, InRun
      <4>4. settled' # 0 => pending' \subseteq Late /\ \A m \in Ids \ pending' : Valid(m, db')
        BY <3>1, <3>3, <3>4, <3>n, <1>t DEF RunsMend, InRun
      <4> QED
        BY <2>2, <4>1, <4>2, <4>3, <4>4 DEF RunsMend, Serving
    <3>6. ASSUME ~drifted PROVE /\ \A m \in Ids : applied'[m] = "succeeded" => Valid(m, db')
                                /\ \A m, k \in Ids : applied'[m] = "succeeded" /\ k < m =>
                                     applied'[k] = "succeeded"
                                /\ \A m \in pending' : applied'[m] # "succeeded"
      <4>1. \A m \in Ids : applied[m] = "succeeded" <=> m \notin pending
        BY <3>1, <3>6, <1>t DEF RunsMend, RunsInOrder, InRun
      <4>2. \A m \in Ids : m \notin pending => m < n
        <5> SUFFICES ASSUME NEW m \in Ids, m \notin pending, ~(m < n) PROVE FALSE
          OBVIOUS
        <5>1. n < m
          BY <1>i, <3>n
        <5>2. applied[n] = "succeeded"
          BY <4>1, <5>1, <3>6, <3>n, <1>t DEF RunsInOrder
        <5> QED
          BY <4>1, <5>2, <3>n
      <4>3. \A m \in Ids : applied'[m] = "succeeded" <=> m \notin pending'
        BY <4>1, <3>2, <3>n
      <4>4. \A m \in Ids : applied'[m] = "succeeded" => Valid(m, db')
        <5>1. \A m \in Ids : applied[m] = "succeeded" => Valid(m, db)
          BY <3>6, <1>t DEF RunsInOrder
        <5> QED
          BY <5>1, <4>1, <4>2, <3>2, <3>3, <3>4
      <4>5. ASSUME NEW m \in Ids, NEW k \in Ids, applied'[m] = "succeeded", k < m
            PROVE  applied'[k] = "succeeded"
        <5>1. m <= n
          BY <4>2, <4>3, <4>5, <3>n, <1>i
        <5>2. k < n /\ k # n
          BY <5>1, <4>5, <3>n, <1>i
        <5>3. k \notin pending
          BY <5>2, <3>n, <1>i
        <5> QED
          BY <5>2, <5>3, <4>3, <3>n
      <4>6. \A m \in pending' : applied'[m] # "succeeded"
        BY <4>3, <3>n, <1>t
      <4> QED
        BY <4>4, <4>5, <4>6
    <3>7. RunsInOrder'
      BY <3>1, <3>6 DEF RunsInOrder
    <3> QED
      BY <3>5, <3>7
  <2> QED
    BY <1>6, <2>1, <2>2 DEF Apply, RunnerTo
<1>7. CASE MarkFailed
  <2>1. /\ db' = db /\ drifted' = drifted /\ settled' = settled /\ pending' = {}
        /\ runner = "failed" /\ runner' = "off"
        /\ \/ applied' = applied
           \/ applied' = [applied EXCEPT ![NextPending] = "failed"]
    BY <1>7 DEF MarkFailed, RunnerTo, HistoryIsLeft
  <2>2. NextPending \in pending
    BY <2>1, <1>t, NextPendingIs DEF MigrationInv
  <2>3. /\ \A m \in Ids \ {NextPending} : applied'[m] = applied[m]
        /\ applied'[NextPending] \in {applied[NextPending], "failed"}
    BY <2>1, <2>2, <1>t
  <2>4. RunsMend'
    BY <2>1, <2>2, <2>3, <1>t DEF RunsMend, InRun, Serving
  <2>5. ASSUME ~drifted PROVE \A m, n \in Ids : applied'[m] = "succeeded" /\ n < m =>
                 applied'[n] = "succeeded"
    <3>1. applied[NextPending] # "succeeded"
      BY <2>1, <2>2, <2>5, <1>t DEF RunsInOrder, InRun
    <3>2. \A m \in Ids : applied'[m] = "succeeded" <=> applied[m] = "succeeded"
      BY <2>3, <3>1
    <3> QED
      BY <2>5, <3>2, <1>t DEF RunsInOrder
  <2>6. RunsInOrder'
    BY <2>1, <2>3, <2>5, <1>t DEF RunsInOrder, InRun
  <2> QED
    BY <2>4, <2>6
<1>8. CASE FinishRun
  <2>1. /\ db' = db /\ applied' = applied /\ drifted' = drifted /\ pending' = pending
        /\ pending = {}
        /\ runner = "next" /\ runner' = "serving"
        /\ settled' = IF settled < MaxSettled THEN settled + 1 ELSE settled
    BY <1>8 DEF FinishRun, RunnerTo, DatabaseIsLeft, HistoryIsLeft
  <2>2. settled' = MaxSettled => settled # 0
    BY <2>1, <1>t DEF MaxSettled
  <2>3. RunsMend'
    BY <2>1, <2>2, <1>t DEF RunsMend, InRun, Serving
  <2>4. RunsInOrder'
    BY <2>1, <1>t DEF RunsInOrder, InRun
  <2> QED
    BY <2>3, <2>4
<1>9. CASE StopServing
  <2>1. /\ db' = db /\ applied' = applied /\ drifted' = drifted /\ settled' = settled
        /\ pending' = pending /\ runner' = "off"
    BY <1>9 DEF StopServing, RunnerTo, DatabaseIsLeft, HistoryIsLeft
  <2> QED
    BY <2>1, RunsStay DEF InRun, Serving
<1>10. CASE MigrationCrash
  <2>1. /\ db' = db /\ applied' = applied /\ drifted' = drifted /\ settled' = settled
        /\ pending' = {} /\ runner' = "off"
    BY <1>10 DEF MigrationCrash, RunnerTo, DatabaseIsLeft, HistoryIsLeft
  <2> QED
    BY <2>1, RunsStay DEF InRun, Serving
<1>11. CASE Drift
  <2>1. drifted' = TRUE /\ settled' = 0 /\ runner' = runner /\ runner \in {"off", "serving"}
    BY <1>11 DEF Drift
  <2>2. RunsMend'
    BY <2>1 DEF RunsMend, InRun, Serving, MaxSettled
  <2>3. RunsInOrder'
    BY <2>1 DEF RunsInOrder
  <2> QED
    BY <2>2, <2>3
<1> QED
  BY <1>1, <1>2, <1>3, <1>4, <1>5, <1>6, <1>7, <1>8, <1>9, <1>10, <1>11
     DEF MigrationNext, MigrationStep

\* It holds at first.
LEMMA RowsInitInv ==
  MigrationInit /\ mishaps = 0 => RowsInv
<1> SUFFICES ASSUME MigrationInit, mishaps = 0 PROVE RowsInv
  OBVIOUS
<1>1. \A m \in Ids : applied[m] = "none"
  BY DEF MigrationInit
<1>2. settled = 0 /\ runner = "off"
  BY DEF MigrationInit
<1>3. RunsMend /\ RunsInOrder
  BY <1>1, <1>2 DEF RunsMend, RunsInOrder, InRun, Serving
<1> QED
  BY <1>3, MigrationInitInv DEF RowsInv

\* And every step keeps it.
LEMMA RowsStep ==
  RowsInv /\ [MigrationNext]_migrationVars => RowsInv'
  BY MigrationStepInv, RunsStep DEF RowsInv

\* It has the types of the module and what the runs check.
LEMMA MigrationsHold ==
  RowsInv => MigrationTypeOK /\ OriginalIsKept /\ SucceededHolds
  BY DEF RowsInv, MigrationInv, RunsMend, RunsInOrder, SucceededHolds

\* A database that has changed has the backup of what it was; what succeeded stays valid
\* while later migrations run; and after a drift two starts make every migration valid
\* again (migration/runner.go, default_migrations.go).
THEOREM MigrationsHoldAlways ==
  MigrationSpec => [](MigrationTypeOK /\ OriginalIsKept /\ SucceededHolds)
  BY RowsInitInv, RowsStep, MigrationsHold, PTL DEF MigrationSpec

-----------------------------------------------------------------------------
(***************************************************************************)
(* Thumbnails (thumbnail/service.go). The pictures of a task are those it  *)
(* has left and those that are made and registered; its checkpoint is      *)
(* behind what is made.                                                    *)
(***************************************************************************)

\* A task, and the worker of the cache registry.
Runs ==
  [status : {"none", "pending", "running", "succeeded", "failed", "canceled"},
   attempts : 0 .. ThumbAttempts - 1, at : {"idle"} \cup PictureInHand,
   todo : SUBSET Pictures, upto : ThumbMedia \cup {0}]
Keepers == [at : {"idle", "clean", "forget"}, todo : SUBSET Pictures, rows : SUBSET Pictures]

\* The types of the module, the records by name.
ThumbTypes ==
  /\ thumbFile \subseteq Pictures /\ thumbRow \subseteq Pictures
  /\ thumbRun \in [ThumbKeys -> Runs]
  /\ thumbKeeper \in Keepers
  /\ swept \subseteq ThumbKeys /\ mishaps \in 0 .. MaxMishaps

\* What a handler has left to do is of its task, and there while it has a picture in
\* hand.
RunFits(k, run) ==
  /\ run.at \in PictureInHand => run.status \in {"running", "canceled"}
  /\ run.at \in {"look", "join", "wait", "make", "register"} => run.todo # {}
  /\ run.todo \subseteq PicturesOf(k)

\* What it has passed is made and registered: all that is not left while it is at
\* work, and the media up to the checkpoint of a backfill in any case.
Delivered(k, run, ready) ==
  /\ run.at \in PictureInHand \ {"fail"} => PicturesOf(k) \subseteq run.todo \cup ready
  /\ \A p \in PicturesOf(k) : p[1] <= run.upto => p \in ready
  /\ run.at = "report" /\ run.todo # {} => Foremost(run.todo) \in ready
  /\ run.status = "succeeded" => PicturesOf(k) \subseteq ready

\* Of every task, that it fits ...
RunsFit == \A k \in ThumbKeys : RunFits(k, thumbRun[k])

\* ... and has delivered, unless a clean has swept since it was asked for.
RunsDeliver ==
  \A k \in ThumbKeys \ swept : Delivered(k, thumbRun[k], thumbFile \cap thumbRow)

\* One handler at a time makes a picture (singleflight).
OneMakes ==
  \A j, k \in ThumbKeys :
    thumbRun[j].at = "make" /\ thumbRun[k].at = "make" /\ Current(j) = Current(k) => j = k

\* The inductive invariant of thumbnails.
ThumbInv == ThumbTypes /\ RunsFit /\ RunsDeliver /\ OneMakes

\* Media, sizes, tasks and their pictures.
LEMMA ThumbsAre ==
  /\ ThumbMedia \subseteq Nat \ {0} /\ Sizes \subseteq Nat \ {0} /\ BackfillKey \in ThumbKeys
  /\ BackfillKey \notin AskedOf /\ ThumbAttempts \in Nat \ {0} /\ 0 \in 0 .. ThumbAttempts - 1
  /\ \A k \in ThumbKeys : PicturesOf(k) \subseteq Pictures
  /\ \A p \in Pictures : p[1] \in ThumbMedia /\ p[2] \in Sizes /\ p = <<p[1], p[2]>>
<1>1. ThumbMedia \subseteq Nat \ {0} /\ Sizes \subseteq Nat \ {0} /\ BackfillKey \in ThumbKeys
  BY ThumbnailsAssumption DEF ThumbKeys
<1>2. BackfillKey \notin AskedOf
  BY <1>1, ThumbnailsAssumption DEF BackfillKey
<1>3. ThumbAttempts \in Nat \ {0} /\ 0 \in 0 .. ThumbAttempts - 1
  BY ThumbnailsAssumption
<1>4. \A k \in ThumbKeys : PicturesOf(k) \subseteq Pictures
  BY <1>2, ThumbnailsAssumption DEF PicturesOf, Pictures, ThumbKeys
<1>5. \A p \in Pictures : p[1] \in ThumbMedia /\ p[2] \in Sizes /\ p = <<p[1], p[2]>>
  BY DEF Pictures
<1> QED
  BY <1>1, <1>2, <1>3, <1>4, <1>5

\* The foremost of some pictures is one of them, of the least media.
LEMMA ForemostIs ==
  ASSUME NEW P \in SUBSET Pictures, P # {}
  PROVE  Foremost(P) \in P /\ \A q \in P : Foremost(P)[1] <= q[1]
<1> DEFINE media == {p[1] : p \in P}
<1>1. media \in SUBSET Nat /\ media # {}
  BY ThumbsAre
<1>2. PICK m \in media : \A n \in media : m <= n
  BY <1>1, LeastNatural
<1> DEFINE sizes == {p[2] : p \in {q \in P : q[1] = m}}
<1>3. sizes \in SUBSET Nat /\ sizes # {}
  BY <1>2, ThumbsAre
<1>4. PICK w \in sizes : \A n \in sizes : w <= n
  BY <1>3, LeastNatural
<1>5. PICK p \in P : p[1] = m /\ p[2] = w
  BY <1>4
<1>6. \A q \in P : p[1] < q[1] \/ (p[1] = q[1] /\ p[2] <= q[2])
  BY <1>1, <1>2, <1>3, <1>4, <1>5
<1>7. \E o \in P : \A q \in P : o[1] < q[1] \/ (o[1] = q[1] /\ o[2] <= q[2])
  BY <1>6
<1>8. /\ Foremost(P) \in P
      /\ \A q \in P : \/ Foremost(P)[1] < q[1]
                      \/ Foremost(P)[1] = q[1] /\ Foremost(P)[2] <= q[2]
  BY <1>7 DEF Foremost
<1>9. \A q \in P : q[1] \in Nat /\ Foremost(P)[1] \in Nat
  BY <1>8, ThumbsAre
<1> QED
  BY <1>8, <1>9

\* A task that nobody has asked for.
LEMMA NoRunIs ==
  ASSUME NEW k \in ThumbKeys
  PROVE  /\ NoThumbRun \in Runs /\ NoThumbRun.at = "idle" /\ NoThumbRun.todo = {}
         /\ NoThumbRun.upto = 0 /\ NoThumbRun.status = "none"
         /\ RunFits(k, NoThumbRun) /\ \A ready : Delivered(k, NoThumbRun, ready)
<1>1. NoThumbRun \in Runs
  BY ThumbsAre DEF NoThumbRun, Runs
<1>2. "idle" \notin PictureInHand
  BY DEF PictureInHand
<1>3. RunFits(k, NoThumbRun)
  BY <1>2 DEF NoThumbRun, RunFits
<1>4. \A p \in PicturesOf(k) : ~(p[1] <= 0)
  BY ThumbsAre
<1>5. \A ready : Delivered(k, NoThumbRun, ready)
  BY <1>2, <1>4 DEF NoThumbRun, Delivered
<1> QED
  BY <1>1, <1>3, <1>5 DEF NoThumbRun

\* A step that changes one run and takes no picture away.
LEMMA OneRunMoves ==
  ASSUME ThumbInv, NEW k \in ThumbKeys, NEW run \in Runs,
         thumbRun' = [thumbRun EXCEPT ![k] = run],
         thumbFile \subseteq thumbFile', thumbRow \subseteq thumbRow',
         thumbFile' \subseteq Pictures, thumbRow' \subseteq Pictures,
         thumbKeeper' \in Keepers, swept' \subseteq ThumbKeys, swept \subseteq swept' \cup {k},
         mishaps' \in 0 .. MaxMishaps,
         RunFits(k, run), k \notin swept' => Delivered(k, run, thumbFile' \cap thumbRow'),
         run.at = "make" =>
           \A j \in ThumbKeys \ {k} :
             thumbRun[j].at = "make" => Foremost(thumbRun[j].todo) # Foremost(run.todo)
  PROVE  ThumbInv'
<1>1. thumbRun \in [ThumbKeys -> Runs] /\ RunsFit /\ RunsDeliver /\ OneMakes
  BY DEF ThumbInv, ThumbTypes
<1>2. thumbRun'[k] = run /\ \A j \in ThumbKeys \ {k} : thumbRun'[j] = thumbRun[j]
  BY <1>1
<1>3. ThumbTypes'
  BY <1>1 DEF ThumbTypes
<1>4. RunsFit'
  BY <1>1, <1>2 DEF RunsFit
<1>5. RunsDeliver'
  <2> SUFFICES ASSUME NEW j \in ThumbKeys \ swept'
               PROVE  Delivered(j, thumbRun'[j], thumbFile' \cap thumbRow')
    BY DEF RunsDeliver
  <2>1. CASE j = k
    BY <2>1, <1>2
  <2>2. CASE j # k
    <3>1. Delivered(j, thumbRun[j], thumbFile \cap thumbRow)
      BY <2>2, <1>1 DEF RunsDeliver
    <3> QED
      BY <2>2, <3>1, <1>2 DEF Delivered
  <2> QED
    BY <2>1, <2>2
<1>6. OneMakes'
  BY <1>1, <1>2 DEF OneMakes, Current
<1> QED
  BY <1>3, <1>4, <1>5, <1>6 DEF ThumbInv

\* What all steps know.
LEMMA ThumbKnows ==
  ASSUME ThumbInv, NEW k \in ThumbKeys
  PROVE  /\ thumbFile \subseteq Pictures /\ thumbRow \subseteq Pictures
         /\ thumbRun \in [ThumbKeys -> Runs] /\ thumbRun[k] \in Runs
         /\ thumbKeeper \in Keepers /\ swept \subseteq ThumbKeys /\ mishaps \in 0 .. MaxMishaps
         /\ RunFits(k, thumbRun[k])
         /\ k \notin swept => Delivered(k, thumbRun[k], thumbFile \cap thumbRow)
         /\ thumbRun[k].todo \subseteq Pictures
         /\ Mishap \/ Smooth => mishaps' \in 0 .. MaxMishaps
<1>1. ThumbTypes /\ RunsFit /\ RunsDeliver
  BY DEF ThumbInv
<1>2. Mishap \/ Smooth => mishaps' \in 0 .. MaxMishaps
  BY <1>1, FaultsAssumption DEF ThumbTypes, Mishap, Smooth
<1> QED
  BY <1>1, <1>2 DEF ThumbTypes, RunsFit, RunsDeliver, Runs

\* A task that is asked for has nothing in hand.
LEMMA EnqueueKeeps ==
  ASSUME ThumbInv, NEW k \in ThumbKeys, EnqueueThumb(k), thumbFile' = thumbFile,
         thumbRow \subseteq thumbRow',
         thumbRow' \subseteq Pictures, thumbKeeper' = thumbKeeper, Smooth
  PROVE  ThumbInv'
<1> DEFINE run == [NoThumbRun EXCEPT !.status = "pending"]
<1>1. /\ run \in Runs /\ run.at = "idle" /\ run.todo = {} /\ run.upto = 0 /\ run.status = "pending"
  BY NoRunIs DEF Runs
<1>2. thumbRun' = [thumbRun EXCEPT ![k] = run] /\ swept' = swept \ {k}
  BY DEF EnqueueThumb
<1> HIDE DEF run
<1>3. RunFits(k, run)
  BY <1>1 DEF RunFits, PictureInHand
<1>4. \A p \in PicturesOf(k) : ~(p[1] <= 0)
  BY ThumbsAre
<1>5. Delivered(k, run, thumbFile' \cap thumbRow')
  BY <1>1, <1>4 DEF Delivered, PictureInHand
<1>6. /\ thumbFile' \subseteq Pictures /\ thumbKeeper' \in Keepers /\ swept' \subseteq ThumbKeys
      /\ swept \subseteq swept' \cup {k} /\ mishaps' \in 0 .. MaxMishaps
  BY <1>2, ThumbKnows
<1> QED
  BY <1>1, <1>2, <1>3, <1>5, <1>6, OneRunMoves

\* A step that leaves all runs, and the pictures too unless all is swept.
LEMMA FilesKeep ==
  ASSUME ThumbInv, thumbRun' = thumbRun, thumbFile' \subseteq Pictures,
         thumbRow' \subseteq Pictures,
         thumbKeeper' \in Keepers, mishaps' \in 0 .. MaxMishaps,
         \/ swept' = ThumbKeys
         \/ swept' = swept /\ thumbFile \subseteq thumbFile' /\ thumbRow \subseteq thumbRow'
  PROVE  ThumbInv'
<1>1. thumbRun \in [ThumbKeys -> Runs] /\ RunsFit /\ RunsDeliver /\ OneMakes /\ swept \subseteq ThumbKeys
  BY DEF ThumbInv, ThumbTypes
<1>2. ThumbTypes' /\ RunsFit' /\ OneMakes'
  BY <1>1 DEF ThumbTypes, RunsFit, OneMakes, Current
<1>3. ASSUME NEW j \in ThumbKeys \ swept'
      PROVE  Delivered(j, thumbRun'[j], thumbFile' \cap thumbRow')
  <2>1. Delivered(j, thumbRun[j], thumbFile \cap thumbRow)
    BY <1>1, <1>3 DEF RunsDeliver
  <2>2. thumbFile \cap thumbRow \subseteq thumbFile' \cap thumbRow'
    BY <1>3
  <2> QED
    BY <2>1, <2>2 DEF Delivered
<1> QED
  BY <1>2, <1>3 DEF ThumbInv, RunsDeliver

\* Pictures are asked for by a page or by the backfill.
LEMMA AskedKeeps ==
  ASSUME ThumbInv, (\E k \in AskedOf : Ensure(k)) \/ Backfill
  PROVE  ThumbInv'
<1>t. /\ thumbFile \subseteq Pictures /\ thumbRow \subseteq Pictures /\ thumbKeeper \in Keepers
      /\ Smooth => mishaps' \in 0 .. MaxMishaps
  BY ThumbKnows, ThumbsAre
<1>1. CASE Backfill
  BY <1>1, <1>t, EnqueueKeeps, ThumbsAre DEF Backfill
<1>2. ASSUME NEW k \in AskedOf, Ensure(k) PROVE ThumbInv'
  <2> DEFINE missing == {p \in PicturesOf(k) : p \notin thumbFile}
             other == <<k[1], {p[2] : p \in missing}>>
  <2>1. PicturesOf(k) \subseteq Pictures
    BY ThumbsAre DEF ThumbKeys
  <2>2. /\ thumbRow' = thumbRow \cup (PicturesOf(k) \ missing)
        /\ thumbFile' = thumbFile /\ thumbKeeper' = thumbKeeper /\ Smooth
        /\ \/ thumbRun' = thumbRun /\ swept' = swept
           \/ other \in AskedOf /\ EnqueueThumb(other)
    BY <1>2 DEF Ensure
  <2> HIDE DEF missing, other
  <2>3. thumbRow \subseteq thumbRow' /\ thumbRow' \subseteq Pictures
    BY <1>t, <2>1, <2>2
  <2>4. CASE thumbRun' = thumbRun /\ swept' = swept
    BY <1>t, <2>2, <2>3, <2>4, FilesKeep
  <2>5. CASE other \in AskedOf /\ EnqueueThumb(other)
    BY <2>2, <2>3, <2>5, EnqueueKeeps DEF ThumbKeys
  <2> QED
    BY <2>2, <2>4, <2>5
<1> QED
  BY <1>1, <1>2

\* The cache registry cleans, forgets rows and takes inventory.
LEMMA RegistryKeeps ==
  ASSUME ThumbInv, StartThumbnailClean \/ DeleteThumb \/ ForgetThumbs \/ InventoryThumbnails
  PROVE  ThumbInv'
<1>t. /\ thumbFile \subseteq Pictures /\ thumbRow \subseteq Pictures /\ thumbKeeper \in Keepers
      /\ Mishap \/ Smooth => mishaps' \in 0 .. MaxMishaps
  BY ThumbKnows, ThumbsAre
<1>n. NoThumbKeeper \in Keepers
  BY DEF NoThumbKeeper, Keepers
<1>1. CASE StartThumbnailClean
  BY <1>1, <1>t, FilesKeep DEF StartThumbnailClean, Keepers
<1>2. CASE DeleteThumb
  <2> DEFINE p == Foremost(thumbKeeper.todo)
             left == thumbKeeper.todo \ {p}
             at == IF left = {} THEN "forget" ELSE thumbKeeper.at
             on == [thumbKeeper EXCEPT !.todo = left, !.at = at]
  <2>1. thumbKeeper.todo \in SUBSET Pictures /\ thumbKeeper.rows \in SUBSET Pictures
        /\ thumbKeeper.at \in {"idle", "clean", "forget"}
    BY <1>t DEF Keepers
  <2>2. left \in SUBSET Pictures /\ at \in {"idle", "clean", "forget"}
    BY <2>1
  <2>3. /\ thumbRun' = thumbRun /\ thumbRow' = thumbRow /\ swept' = ThumbKeys /\ (Mishap \/ Smooth)
        /\ thumbFile' \subseteq thumbFile
        /\ \/ thumbKeeper' = on
           \/ thumbKeeper' = [on EXCEPT !.rows = @ \ {p}]
    BY <1>2 DEF DeleteThumb
  <2> HIDE DEF left, at, p
  <2>4. on \in Keepers
    BY <1>t, <2>2 DEF Keepers
  <2> HIDE DEF on
  <2>5. thumbKeeper' \in Keepers
    BY <2>3, <2>4 DEF Keepers
  <2> QED
    BY <1>t, <2>3, <2>5, FilesKeep
<1>3. CASE ForgetThumbs
  BY <1>3, <1>t, <1>n, FilesKeep DEF ForgetThumbs
<1>4. CASE InventoryThumbnails
  BY <1>4, <1>t, FilesKeep DEF InventoryThumbnails
<1> QED
  BY <1>1, <1>2, <1>3, <1>4

\* A handler's step that leaves the pictures and the registry.
LEMMA TaskMoves ==
  ASSUME ThumbInv, NEW k \in ThumbKeys, NEW run \in Runs,
         thumbRun' = [thumbRun EXCEPT ![k] = run], TaskOnly, Smooth,
         RunFits(k, run), k \notin swept => Delivered(k, run, thumbFile \cap thumbRow),
         run.at = "make" =>
           \A j \in ThumbKeys \ {k} :
             thumbRun[j].at = "make" => Foremost(thumbRun[j].todo) # Foremost(run.todo)
  PROVE  ThumbInv'
<1>1. /\ thumbFile' = thumbFile /\ thumbRow' = thumbRow /\ thumbKeeper' = thumbKeeper
      /\ swept' = swept
  BY DEF TaskOnly
<1>2. /\ thumbFile \subseteq Pictures /\ thumbRow \subseteq Pictures /\ thumbKeeper \in Keepers
      /\ swept \subseteq ThumbKeys /\ mishaps' \in 0 .. MaxMishaps
  BY ThumbKnows
<1> QED
  BY <1>1, <1>2, OneRunMoves

\* The next step in hand of one picture: what is left stays.
LEMMA AtMoves ==
  ASSUME ThumbInv, NEW k \in ThumbKeys, NEW at \in PictureInHand,
         thumbRun' = [thumbRun EXCEPT ![k].at = at], TaskOnly, Smooth,
         thumbRun[k].at \in PictureInHand \ {"fail"}, at # "report",
         at # "fail" => thumbRun[k].todo # {},
         at = "make" => Generating(Current(k)) = {}
  PROVE  ThumbInv'
<1>t. /\ thumbRun \in [ThumbKeys -> Runs] /\ thumbRun[k] \in Runs /\ RunFits(k, thumbRun[k])
      /\ k \notin swept => Delivered(k, thumbRun[k], thumbFile \cap thumbRow)
  BY ThumbKnows
<1> DEFINE run == [thumbRun[k] EXCEPT !.at = at]
<1>1. /\ run \in Runs /\ run.at = at /\ run.todo = thumbRun[k].todo /\ run.upto = thumbRun[k].upto
      /\ run.status = thumbRun[k].status
  BY <1>t DEF Runs
<1>2. thumbRun' = [thumbRun EXCEPT ![k] = run]
  BY <1>t
<1> HIDE DEF run
<1>3. RunFits(k, run)
  BY <1>1, <1>t DEF RunFits
<1>4. k \notin swept => Delivered(k, run, thumbFile \cap thumbRow)
  BY <1>1, <1>t DEF Delivered
<1>5. at = "make" =>
        \A j \in ThumbKeys \ {k} :
          thumbRun[j].at = "make" => Foremost(thumbRun[j].todo) # Foremost(run.todo)
  BY <1>1 DEF Generating, Current
<1> QED
  BY <1>1, <1>2, <1>3, <1>4, <1>5, TaskMoves

\* A person cancels.
LEMMA CancelKeeps ==
  ASSUME ThumbInv, NEW k \in ThumbKeys, CancelThumb(k)
  PROVE  ThumbInv'
<1>t. /\ thumbRun \in [ThumbKeys -> Runs] /\ thumbRun[k] \in Runs /\ RunFits(k, thumbRun[k])
      /\ k \notin swept => Delivered(k, thumbRun[k], thumbFile \cap thumbRow)
      /\ OneMakes
  BY ThumbKnows DEF ThumbInv
<1> DEFINE run == [thumbRun[k] EXCEPT !.status = "canceled"]
<1>1. /\ run \in Runs /\ run.at = thumbRun[k].at /\ run.todo = thumbRun[k].todo
      /\ run.upto = thumbRun[k].upto /\ run.status = "canceled"
  BY <1>t DEF Runs
<1>2. thumbRun' = [thumbRun EXCEPT ![k] = run] /\ TaskOnly /\ Smooth
  BY <1>t DEF CancelThumb, TaskOnly
<1> HIDE DEF run
<1>3. RunFits(k, run)
  BY <1>1, <1>t DEF RunFits
<1>4. k \notin swept => Delivered(k, run, thumbFile \cap thumbRow)
  BY <1>1, <1>t DEF Delivered
<1>5. run.at = "make" =>
        \A j \in ThumbKeys \ {k} :
          thumbRun[j].at = "make" => Foremost(thumbRun[j].todo) # Foremost(run.todo)
  BY <1>1, <1>t DEF OneMakes, Current
<1> QED
  BY <1>1, <1>2, <1>3, <1>4, <1>5, TaskMoves

\* A worker takes the task, with what its checkpoint leaves.
LEMMA TakeKeeps ==
  ASSUME ThumbInv, NEW k \in ThumbKeys, TakeThumb(k)
  PROVE  ThumbInv'
<1>t. /\ thumbRun \in [ThumbKeys -> Runs] /\ thumbRun[k] \in Runs
      /\ k \notin swept => Delivered(k, thumbRun[k], thumbFile \cap thumbRow)
  BY ThumbKnows
<1> DEFINE left == {p \in PicturesOf(k) : p[1] > thumbRun[k].upto}
           at == IF left = {} THEN "report" ELSE "look"
           run == [thumbRun[k] EXCEPT !.status = "running", !.todo = left, !.at = at]
<1>1. /\ left \subseteq PicturesOf(k) /\ left \subseteq Pictures
      /\ at \in {"report", "look"} /\ (at = "look" => left # {}) /\ (at = "report" => left = {})
  BY ThumbsAre
<1>2. thumbRun' = [thumbRun EXCEPT ![k] = run] /\ TaskOnly /\ Smooth
  BY <1>t DEF TakeThumb
<1>3. \A p \in PicturesOf(k) : p[1] <= thumbRun[k].upto \/ p \in left
  BY <1>t, ThumbsAre DEF Runs
<1> HIDE DEF left, at
<1>4. /\ run \in Runs /\ run.at = at /\ run.todo = left
      /\ run.upto = thumbRun[k].upto /\ run.status = "running"
  BY <1>t, <1>1 DEF Runs, PictureInHand
<1> HIDE DEF run
<1>5. RunFits(k, run)
  BY <1>1, <1>4 DEF RunFits
<1>6. k \notin swept => Delivered(k, run, thumbFile \cap thumbRow)
  BY <1>1, <1>3, <1>4, <1>t DEF Delivered
<1> QED
  BY <1>1, <1>2, <1>4, <1>5, <1>6, TaskMoves

\* The handler looks for the file, then joins whoever makes it.
LEMMA LookKeeps ==
  ASSUME ThumbInv, NEW k \in ThumbKeys, LookForFile(k) \/ JoinFlight(k)
  PROVE  ThumbInv'
<1>t. thumbRun[k] \in Runs /\ RunFits(k, thumbRun[k])
  BY ThumbKnows
<1>1. CASE LookForFile(k)
  <2>1. thumbRun[k].todo # {} /\ thumbRun[k].at \in PictureInHand \ {"fail"}
    BY <1>1, <1>t DEF LookForFile, RunFits, PictureInHand
  <2>2. PICK at \in {"register", "join"} : ThumbAt(k, at)
    BY <1>1 DEF LookForFile
  <2> QED
    BY <1>1, <2>1, <2>2, AtMoves DEF LookForFile, ThumbAt, PictureInHand
<1>2. CASE JoinFlight(k)
  <2>1. thumbRun[k].todo # {} /\ thumbRun[k].at \in PictureInHand \ {"fail"}
    BY <1>2, <1>t DEF JoinFlight, RunFits, PictureInHand
  <2>2. PICK at \in {"make", "wait"} :
          ThumbAt(k, at) /\ (at = "make" => Generating(Current(k)) = {})
    BY <1>2 DEF JoinFlight
  <2> QED
    BY <1>2, <2>1, <2>2, AtMoves DEF JoinFlight, ThumbAt, PictureInHand
<1> QED
  BY <1>1, <1>2

\* The picture is made, or the making fails.
LEMMA GenerateKeeps ==
  ASSUME ThumbInv, NEW k \in ThumbKeys, GenerateThumbnail(k)
  PROVE  ThumbInv'
<1>t. /\ thumbFile \subseteq Pictures /\ thumbRow \subseteq Pictures
      /\ thumbRun \in [ThumbKeys -> Runs] /\ thumbRun[k] \in Runs /\ RunFits(k, thumbRun[k])
      /\ thumbRun[k].todo \in SUBSET Pictures
      /\ thumbKeeper \in Keepers /\ swept \subseteq ThumbKeys
      /\ Mishap \/ Smooth => mishaps' \in 0 .. MaxMishaps
      /\ RunsFit /\ RunsDeliver /\ OneMakes
  BY ThumbKnows DEF ThumbInv
<1>1. PICK at \in {"register", "fail"} :
        /\ thumbRun' = [j \in ThumbKeys |->
             IF j \in Released(k) THEN [thumbRun[j] EXCEPT !.at = at] ELSE thumbRun[j]]
        /\ IF at = "register" THEN thumbFile' = thumbFile \cup {Current(k)} /\ Smooth
           ELSE UNCHANGED thumbFile /\ Mishap
  BY DEF GenerateThumbnail
<1>2. thumbRow' = thumbRow /\ thumbKeeper' = thumbKeeper /\ swept' = swept
  BY DEF GenerateThumbnail
<1>3. Current(k) \in Pictures
  BY <1>t, ForemostIs DEF GenerateThumbnail, RunFits, Current
<1>4. thumbFile \subseteq thumbFile' /\ thumbFile' \subseteq Pictures /\ mishaps' \in 0 .. MaxMishaps
  BY <1>1, <1>3, <1>t
<1>5. \A j \in Released(k) : j \in ThumbKeys /\ thumbRun[j].at \in {"make", "wait"}
  BY DEF Released, WaitingForFlight, GenerateThumbnail
<1>6. \A j \in ThumbKeys :
        \/ thumbRun'[j] = thumbRun[j]
        \/ /\ j \in Released(k) /\ thumbRun'[j] \in Runs /\ thumbRun'[j].at = at
           /\ thumbRun'[j].todo = thumbRun[j].todo /\ thumbRun'[j].upto = thumbRun[j].upto
           /\ thumbRun'[j].status = thumbRun[j].status
  <2> SUFFICES ASSUME NEW j \in ThumbKeys, j \in Released(k)
               PROVE  /\ thumbRun'[j] \in Runs /\ thumbRun'[j].at = at
                      /\ thumbRun'[j].todo = thumbRun[j].todo
                      /\ thumbRun'[j].upto = thumbRun[j].upto
                      /\ thumbRun'[j].status = thumbRun[j].status
    BY <1>1
  <2>1. thumbRun'[j] = [thumbRun[j] EXCEPT !.at = at] /\ thumbRun[j] \in Runs
    BY <1>1, <1>t
  <2> QED
    BY <2>1 DEF Runs, PictureInHand
<1>7. ThumbTypes'
  <2>1. thumbRun' \in [ThumbKeys -> Runs]
    BY <1>1, <1>6, <1>t
  <2> QED
    BY <1>2, <1>4, <1>t, <2>1 DEF ThumbTypes
<1>8. RunsFit'
  <2> SUFFICES ASSUME NEW j \in ThumbKeys PROVE RunFits(j, thumbRun'[j])
    BY DEF RunsFit
  <2>1. RunFits(j, thumbRun[j])
    BY <1>t DEF RunsFit
  <2> QED
    BY <1>5, <1>6, <2>1 DEF RunFits, PictureInHand
<1>9. RunsDeliver'
  <2> SUFFICES ASSUME NEW j \in ThumbKeys \ swept
               PROVE  Delivered(j, thumbRun'[j], thumbFile' \cap thumbRow')
    BY <1>2 DEF RunsDeliver
  <2>1. Delivered(j, thumbRun[j], thumbFile \cap thumbRow)
    BY <1>t DEF RunsDeliver
  <2>2. thumbFile \cap thumbRow \subseteq thumbFile' \cap thumbRow'
    BY <1>2, <1>4
  <2> QED
    BY <1>5, <1>6, <2>1, <2>2 DEF Delivered, PictureInHand
<1>10. OneMakes'
  BY <1>6, <1>t DEF OneMakes, Current
<1> QED
  BY <1>7, <1>8, <1>9, <1>10 DEF ThumbInv

\* Its row is written, or that fails.
LEMMA RegisterKeeps ==
  ASSUME ThumbInv, NEW k \in ThumbKeys, RegisterThumb(k)
  PROVE  ThumbInv'
<1>t. /\ thumbFile \subseteq Pictures /\ thumbRow \subseteq Pictures
      /\ thumbRun \in [ThumbKeys -> Runs] /\ thumbRun[k] \in Runs /\ RunFits(k, thumbRun[k])
      /\ k \notin swept => Delivered(k, thumbRun[k], thumbFile \cap thumbRow)
      /\ thumbRun[k].todo \in SUBSET Pictures
      /\ thumbKeeper \in Keepers /\ swept \subseteq ThumbKeys
      /\ Smooth => mishaps' \in 0 .. MaxMishaps
  BY ThumbKnows
<1>1. thumbRun[k].at = "register" /\ thumbRun[k].todo # {}
  BY <1>t DEF RegisterThumb, RunFits
<1>2. CASE Current(k) \notin thumbFile
  <2>1. ThumbAt(k, "fail") /\ TaskOnly /\ Smooth
    BY <1>2 DEF RegisterThumb, TaskOnly
  <2> QED
    BY <1>1, <2>1, AtMoves DEF ThumbAt, PictureInHand
<1>3. CASE Current(k) \in thumbFile
  <2> DEFINE run == [thumbRun[k] EXCEPT !.at = "report"]
  <2>1. /\ run \in Runs /\ run.at = "report" /\ run.todo = thumbRun[k].todo
        /\ run.upto = thumbRun[k].upto /\ run.status = thumbRun[k].status
    BY <1>t DEF Runs, PictureInHand
  <2>2. /\ thumbRun' = [thumbRun EXCEPT ![k] = run] /\ thumbRow' = thumbRow \cup {Current(k)}
        /\ thumbFile' = thumbFile /\ thumbKeeper' = thumbKeeper /\ swept' = swept /\ Smooth
    BY <1>3, <1>t DEF RegisterThumb, ThumbAt
  <2> HIDE DEF run
  <2>3. RunFits(k, run)
    BY <1>1, <2>1, <1>t DEF RunFits, PictureInHand
  <2>4. k \notin swept' => Delivered(k, run, thumbFile' \cap thumbRow')
    BY <1>1, <1>3, <2>1, <2>2, <1>t DEF Delivered, PictureInHand, Current
  <2>5. thumbRow \subseteq thumbRow' /\ thumbRow' \subseteq Pictures
    BY <1>3, <2>2, <1>t
  <2> QED
    BY <2>1, <2>2, <2>3, <2>4, <2>5, <1>t, OneRunMoves
<1> QED
  BY <1>2, <1>3

\* A task that ends has delivered if it succeeded.
LEMMA EndMoves ==
  ASSUME ThumbInv, NEW k \in ThumbKeys, NEW end \in {"succeeded", "failed", "canceled"},
         ThumbEnds(k, end), TaskOnly, Smooth,
         end = "succeeded" /\ k \notin swept => PicturesOf(k) \subseteq thumbFile \cap thumbRow
  PROVE  ThumbInv'
<1> DEFINE run == [NoThumbRun EXCEPT !.status = end]
<1>1. /\ run \in Runs /\ run.at = "idle" /\ run.todo = {} /\ run.upto = 0 /\ run.status = end
  BY NoRunIs DEF Runs
<1>2. thumbRun' = [thumbRun EXCEPT ![k] = run]
  BY DEF ThumbEnds
<1> HIDE DEF run
<1>3. RunFits(k, run)
  BY <1>1 DEF RunFits, PictureInHand
<1>4. \A p \in PicturesOf(k) : ~(p[1] <= 0)
  BY ThumbsAre
<1>5. k \notin swept => Delivered(k, run, thumbFile \cap thumbRow)
  BY <1>1, <1>4 DEF Delivered, PictureInHand
<1> QED
  BY <1>1, <1>2, <1>3, <1>5, TaskMoves

\* The handler reports: the picture is passed, the checkpoint moves.
LEMMA ReportKeeps ==
  ASSUME ThumbInv, NEW k \in ThumbKeys, Report(k)
  PROVE  ThumbInv'
<1>t. /\ thumbRun \in [ThumbKeys -> Runs] /\ thumbRun[k] \in Runs /\ RunFits(k, thumbRun[k])
      /\ k \notin swept => Delivered(k, thumbRun[k], thumbFile \cap thumbRow)
      /\ thumbRun[k].todo \in SUBSET Pictures
      /\ TaskOnly /\ Smooth /\ thumbRun[k].at = "report" /\ "report" \in PictureInHand \ {"fail"}
  BY ThumbKnows DEF Report, PictureInHand
<1> DEFINE left == IF thumbRun[k].todo = {} THEN {} ELSE thumbRun[k].todo \ {Current(k)}
<1>1. CASE ThumbAt(k, "fail")
  BY <1>1, <1>t, AtMoves DEF ThumbAt, PictureInHand
<1>2. CASE left = {} /\ ThumbEnds(k, "succeeded")
  <2>1. k \notin swept => PicturesOf(k) \subseteq thumbFile \cap thumbRow
    BY <1>2, <1>t DEF Delivered, Current
  <2> QED
    BY <1>2, <2>1, <1>t, EndMoves
<1>3. CASE /\ left # {}
           /\ thumbRun' = [thumbRun EXCEPT ![k] =
                [@ EXCEPT !.upto = Passed(k), !.todo = left, !.at = "look"]]
  <2>1. /\ thumbRun[k].todo # {} /\ left = thumbRun[k].todo \ {Current(k)}
        /\ left \in SUBSET Pictures
    BY <1>3, <1>t
  <2>2. /\ Current(k) \in thumbRun[k].todo
        /\ \A q \in thumbRun[k].todo : Current(k)[1] <= q[1]
    BY <2>1, <1>t, ForemostIs DEF Current
  <2>3. /\ Current(k)[1] \in ThumbMedia /\ Passed(k) \in ThumbMedia \cup {0}
        /\ Passed(k) \in {thumbRun[k].upto, Current(k)[1]}
        /\ Passed(k) # thumbRun[k].upto => ~ \E p \in left : p[1] = Current(k)[1]
    BY <2>1, <2>2, <1>t, ThumbsAre DEF Passed, WithinMedia, Runs
  <2> DEFINE run == [thumbRun[k] EXCEPT !.upto = Passed(k), !.todo = left, !.at = "look"]
  <2>4. thumbRun' = [thumbRun EXCEPT ![k] = run]
    BY <1>3, <1>t
  <2> HIDE DEF left
  <2>5. /\ run \in Runs /\ run.at = "look" /\ run.todo = left /\ run.upto = Passed(k)
        /\ run.status = thumbRun[k].status
    BY <2>1, <2>3, <1>t DEF Runs, PictureInHand
  <2> HIDE DEF run
  <2>6. RunFits(k, run)
    BY <1>3, <2>1, <2>5, <1>t DEF RunFits
  <2>7. ASSUME k \notin swept PROVE Delivered(k, run, thumbFile \cap thumbRow)
    <3>1. PicturesOf(k) \subseteq left \cup (thumbFile \cap thumbRow)
      BY <2>1, <2>7, <1>t DEF Delivered, Current
    <3>2. ASSUME NEW p \in PicturesOf(k), p[1] <= Passed(k) PROVE p \in thumbFile \cap thumbRow
      <4>1. CASE Passed(k) = thumbRun[k].upto
        BY <2>7, <3>2, <4>1, <1>t DEF Delivered
      <4>2. CASE Passed(k) # thumbRun[k].upto
        <5>1. ASSUME p \in left PROVE FALSE
          <6>1. p[1] # Current(k)[1] /\ Current(k)[1] <= p[1] /\ p[1] <= Current(k)[1]
            BY <2>1, <2>2, <2>3, <3>2, <4>2, <5>1
          <6>2. p[1] \in Nat /\ Current(k)[1] \in Nat
            BY <2>1, <2>3, <5>1, ThumbsAre
          <6> QED
            BY <6>1, <6>2
        <5> QED
          BY <3>1, <5>1
      <4> QED
        BY <4>1, <4>2
    <3>3. run.status # "succeeded"
      BY <2>5, <1>t DEF RunFits
    <3> QED
      BY <2>5, <3>1, <3>2, <3>3 DEF Delivered
  <2> QED
    BY <2>4, <2>5, <2>6, <2>7, <1>t, TaskMoves
<1> QED
  BY <1>1, <1>2, <1>3 DEF Report

\* A failure leaves the task pending while it has attempts left.
LEMMA FailKeeps ==
  ASSUME ThumbInv, NEW k \in ThumbKeys, FailThumb(k)
  PROVE  ThumbInv'
<1>t. /\ thumbRun \in [ThumbKeys -> Runs] /\ thumbRun[k] \in Runs
      /\ k \notin swept => Delivered(k, thumbRun[k], thumbFile \cap thumbRow)
      /\ TaskOnly /\ Smooth
  BY ThumbKnows DEF FailThumb
<1>1. CASE ThumbEnds(k, "canceled") \/ ThumbEnds(k, "failed")
  BY <1>1, <1>t, EndMoves
<1>2. CASE /\ ~AttemptsSpent(k)
           /\ thumbRun' = [thumbRun EXCEPT ![k] =
                [@ EXCEPT !.at = "idle", !.todo = {}, !.attempts = thumbRun[k].attempts + 1,
                          !.status = "pending"]]
  <2> DEFINE tries == thumbRun[k].attempts + 1
             run == [thumbRun[k] EXCEPT !.at = "idle", !.todo = {}, !.attempts = tries,
                                        !.status = "pending"]
  <2>1. thumbRun' = [thumbRun EXCEPT ![k] = run]
    BY <1>2, <1>t
  <2>2. tries \in 0 .. ThumbAttempts - 1
    <3>1. thumbRun[k].attempts \in 0 .. ThumbAttempts - 1
      BY <1>t DEF Runs
    <3> QED
      BY <1>2, <3>1, ThumbsAre DEF AttemptsSpent
  <2> HIDE DEF tries
  <2>3. /\ run \in Runs /\ run.at = "idle" /\ run.todo = {} /\ run.upto = thumbRun[k].upto
        /\ run.status = "pending"
    BY <2>2, <1>t DEF Runs
  <2> HIDE DEF run
  <2>4. RunFits(k, run)
    BY <2>3 DEF RunFits, PictureInHand
  <2>5. k \notin swept => Delivered(k, run, thumbFile \cap thumbRow)
    BY <2>3, <1>t DEF Delivered, PictureInHand
  <2> QED
    BY <2>1, <2>3, <2>4, <2>5, <1>t, TaskMoves
<1> QED
  BY <1>1, <1>2 DEF FailThumb

\* A crash leaves pending what was running, from its checkpoint.
LEMMA ThumbCrashKeeps ==
  ASSUME ThumbInv, ThumbCrash
  PROVE  ThumbInv'
<1>t. /\ ThumbTypes /\ RunsFit /\ RunsDeliver
      /\ thumbRun \in [ThumbKeys -> Runs]
      /\ Mishap => mishaps' \in 0 .. MaxMishaps
  BY FaultsAssumption DEF ThumbInv, ThumbTypes, Mishap
<1>1. \A j \in ThumbKeys :
        /\ thumbRun'[j] \in Runs /\ thumbRun'[j].at = "idle" /\ thumbRun'[j].todo = {}
        /\ thumbRun'[j].upto = thumbRun[j].upto
        /\ thumbRun'[j].status \in {thumbRun[j].status, "pending"}
  <2> SUFFICES ASSUME NEW j \in ThumbKeys
               PROVE  /\ thumbRun'[j] \in Runs /\ thumbRun'[j].at = "idle" /\ thumbRun'[j].todo = {}
                      /\ thumbRun'[j].upto = thumbRun[j].upto
                      /\ thumbRun'[j].status \in {thumbRun[j].status, "pending"}
    OBVIOUS
  <2>1. PICK end \in {thumbRun[j].status, "pending"} :
          thumbRun'[j] = [thumbRun[j] EXCEPT !.at = "idle", !.todo = {}, !.status = end]
    BY DEF ThumbCrash
  <2>2. thumbRun[j] \in Runs
    BY <1>t
  <2> QED
    BY <2>1, <2>2 DEF Runs
<1>2. ThumbTypes'
  <2>1. thumbRun' \in [ThumbKeys -> Runs]
    BY <1>1 DEF ThumbCrash
  <2>2. NoThumbKeeper \in Keepers
    BY DEF NoThumbKeeper, Keepers
  <2> QED
    BY <1>t, <2>1, <2>2 DEF ThumbTypes, ThumbCrash
<1>3. RunsFit'
  BY <1>1 DEF RunsFit, RunFits, PictureInHand
<1>4. RunsDeliver'
  <2> SUFFICES ASSUME NEW j \in ThumbKeys \ swept
               PROVE  Delivered(j, thumbRun'[j], thumbFile \cap thumbRow)
    BY DEF RunsDeliver, ThumbCrash
  <2>1. Delivered(j, thumbRun[j], thumbFile \cap thumbRow)
    BY <1>t DEF RunsDeliver
  <2> QED
    BY <1>1, <2>1 DEF Delivered, PictureInHand
<1>5. OneMakes'
  BY <1>1 DEF OneMakes
<1> QED
  BY <1>2, <1>3, <1>4, <1>5 DEF ThumbInv

\* It holds at first.
LEMMA ThumbInitInv ==
  ThumbnailsInit /\ mishaps = 0 => ThumbInv
<1> SUFFICES ASSUME ThumbnailsInit, mishaps = 0 PROVE ThumbInv
  OBVIOUS
<1>1. NoThumbKeeper \in Keepers
  BY DEF NoThumbKeeper, Keepers
<1>2. \A k \in ThumbKeys : thumbRun[k] = NoThumbRun
  BY DEF ThumbnailsInit
<1>3. ThumbTypes
  BY <1>1, NoRunIs, FaultsAssumption DEF ThumbnailsInit, ThumbTypes
<1>4. RunsFit /\ RunsDeliver /\ OneMakes
  BY <1>2, NoRunIs DEF RunsFit, RunsDeliver, OneMakes
<1> QED
  BY <1>3, <1>4 DEF ThumbInv

\* Every step of the requests, of the handlers and of the registry keeps it.
LEMMA ThumbStepInv ==
  ThumbInv /\ [ThumbnailsNext]_thumbVars => ThumbInv'
<1> SUFFICES ASSUME ThumbInv, [ThumbnailsNext]_thumbVars PROVE ThumbInv'
  OBVIOUS
<1>1. CASE UNCHANGED thumbVars
  BY <1>1, FilesKeep, ThumbsAre, ThumbKnows DEF thumbVars, Smooth
<1>2. CASE (\E k \in AskedOf : Ensure(k)) \/ Backfill
  BY <1>2, AskedKeeps
<1>3. ASSUME NEW k \in ThumbKeys, CancelThumb(k) \/ ThumbStep(k) PROVE ThumbInv'
  BY <1>3, CancelKeeps, TakeKeeps, LookKeeps, GenerateKeeps, RegisterKeeps, ReportKeeps, FailKeeps
     DEF ThumbStep
<1>4. CASE StartThumbnailClean \/ DeleteThumb \/ ForgetThumbs \/ InventoryThumbnails
  BY <1>4, RegistryKeeps
<1>5. CASE ThumbCrash
  BY <1>5, ThumbCrashKeeps
<1> QED
  BY <1>1, <1>2, <1>3, <1>4, <1>5 DEF ThumbnailsNext

\* It has the types of the module and what the runs check.
LEMMA ThumbnailsAreSafe ==
  ThumbInv => ThumbnailsTypeOK /\ ThumbnailsSafe
<1> SUFFICES ASSUME ThumbInv PROVE ThumbnailsTypeOK /\ ThumbnailsSafe
  OBVIOUS
<1>t. ThumbTypes /\ RunsFit /\ RunsDeliver /\ OneMakes
  BY DEF ThumbInv
<1>1. ThumbnailsTypeOK
  BY <1>t DEF ThumbTypes, RunsFit, RunFits, Runs, Keepers, ThumbnailsTypeOK
<1>2. OneGenerator
  <2> SUFFICES ASSUME NEW p \in Pictures PROVE Cardinality(Generating(p)) <= 1
    BY DEF OneGenerator
  <2>1. CASE Generating(p) = {}
    BY <2>1, FS_EmptySet
  <2>2. CASE Generating(p) # {}
    <3>1. PICK k \in Generating(p) : TRUE
      BY <2>2
    <3>2. Generating(p) = {k}
      BY <3>1, <1>t DEF Generating, OneMakes
    <3>3. Cardinality({k}) = 1
      BY FS_Singleton
    <3> QED
      BY <3>2, <3>3
  <2> QED
    BY <2>1, <2>2
<1>3. SucceededDelivers
  BY <1>t DEF RunsDeliver, Delivered, SucceededDelivers
<1> QED
  BY <1>1, <1>2, <1>3 DEF ThumbnailsSafe

\* One handler at a time makes a picture, and a task that succeeded has made and
\* registered all of its pictures, unless a clean has swept since (thumbnail/service.go).
THEOREM ThumbnailsAreSafeAlways ==
  ThumbnailsSpec => [](ThumbnailsTypeOK /\ ThumbnailsSafe)
  BY ThumbInitInv, ThumbStepInv, ThumbnailsAreSafe, PTL DEF ThumbnailsSpec

-----------------------------------------------------------------------------
(***************************************************************************)
(* Together.  A behaviour of MCUpkeep runs the component it has in focus,  *)
(* so the invariant asks of a component only what it does in focus.        *)
(***************************************************************************)

\* What a pass has yet to start are goroutines, what has yet to be signalled are rows
\* (tasks/worker.go).
PoolsInv == launch \subseteq Worker /\ owed \subseteq Task

\* Every pass, signal and restart keeps it.
LEMMA PoolsStep == PoolsInv /\ [PoolNext]_allVars => PoolsInv'
<1> SUFFICES ASSUME PoolsInv, [PoolNext]_allVars PROVE PoolsInv'
  OBVIOUS
<1> USE DEF PoolsInv
<1>0. \A p \in {WakeLoop} \cup Pass : Members(p) \subseteq Worker
  BY DEF Members
<1>1. CASE Common /\ UNCHANGED poolVars
  BY <1>1 DEF poolVars
<1>2. ASSUME NEW t \in Task, Create(t) \/ Wake(t) PROVE PoolsInv'
  BY <1>0, <1>2 DEF Create, Wake
<1>3. CASE WakeRound
  BY <1>0, <1>3 DEF WakeRound
<1>4. ASSUME NEW p \in Pass, StartPass(p) \/ EndPass(p) PROVE PoolsInv'
  BY <1>0, <1>4 DEF StartPass, EndPass
<1>5. ASSUME NEW w \in Worker, Launch(w) \/ Leave(w) PROVE PoolsInv'
  BY <1>5 DEF Launch, Leave, poolVars
<1>6. ASSUME NEW w \in Worker, NEW t \in Task, ClaimOwnType(w, t) PROVE PoolsInv'
  BY <1>6 DEF ClaimOwnType, poolVars
<1>7. CASE PoolRestart
  BY <1>7 DEF PoolRestart
<1>8. CASE UNCHANGED allVars
  BY <1>8 DEF allVars, poolVars
<1> QED
  BY <1>1, <1>2, <1>3, <1>4, <1>5, <1>6, <1>7, <1>8 DEF PoolNext

\* The invariant of the component in focus.
UpkeepInv ==
  /\ focus \in Components
  /\ focus = "recycle" => RecycleInv
  /\ focus = "migrations" => RowsInv
  /\ focus = "update" => UpdateInv
  /\ focus = "tools" => ToolInstallInv
  /\ focus = "thumbnails" => ThumbInv
  /\ focus = "pools" => PoolsInv

\* It holds at first, whichever component that is.
LEMMA UpkeepInitInv == UpkeepInit => UpkeepInv
<1> SUFFICES ASSUME UpkeepInit PROVE UpkeepInv
  OBVIOUS
<1>1. /\ focus \in Components /\ mishaps = 0
      /\ RecycleInit /\ MigrationInit /\ SelfUpdateInit /\ ToolInstallInit /\ ThumbnailsInit
      /\ launch = {} /\ owed = {}
  BY DEF UpkeepInit, PoolInit
<1>2. RecycleInv /\ RowsInv /\ UpdateInv /\ ToolInstallInv /\ ThumbInv
  BY <1>1, RecycleInitInv, RowsInitInv, UpdateInitInv, ToolInstallInitInv, ThumbInitInv
<1> QED
  BY <1>1, <1>2 DEF UpkeepInv, PoolsInv

\* Every step keeps the invariant: it is one of the component in focus, or none.
LEMMA UpkeepStep == UpkeepInv /\ [UpkeepNext]_upkeepVars => UpkeepInv'
<1> SUFFICES ASSUME UpkeepInv, [UpkeepNext]_upkeepVars PROVE UpkeepInv'
  OBVIOUS
<1>f. focus \in Components
  BY DEF UpkeepInv
<1>1. CASE focus = "recycle" /\ [RecycleNext]_recycleVars /\ focus' = focus
  BY <1>1, <1>f, RecycleStep DEF UpkeepInv
<1>2. CASE focus = "migrations" /\ [MigrationNext]_migrationVars /\ focus' = focus
  BY <1>2, <1>f, RowsStep DEF UpkeepInv
<1>3. CASE focus = "update" /\ [SelfUpdateNext]_updateVars /\ focus' = focus
  BY <1>3, <1>f, SelfUpdateStep DEF UpkeepInv
<1>4. CASE focus = "tools" /\ [ToolInstallNext]_toolVars /\ focus' = focus
  BY <1>4, <1>f, ToolInstallStep DEF UpkeepInv
<1>5. CASE focus = "thumbnails" /\ [ThumbnailsNext]_thumbVars /\ focus' = focus
  BY <1>5, <1>f, ThumbStepInv DEF UpkeepInv
<1>6. CASE focus = "pools" /\ [PoolNext]_allVars /\ focus' = focus
  BY <1>6, <1>f, PoolsStep DEF UpkeepInv
<1>7. CASE UNCHANGED upkeepVars
  <2>1. /\ focus' = focus /\ UNCHANGED recycleVars /\ UNCHANGED migrationVars
        /\ UNCHANGED updateVars /\ UNCHANGED toolVars /\ UNCHANGED thumbVars /\ UNCHANGED allVars
    BY <1>7 DEF upkeepVars, recycleState, migrationState, updateState, toolState, thumbState,
                recycleVars, migrationVars, updateVars, toolVars, thumbVars
  <2> QED
    BY <1>1, <1>2, <1>3, <1>4, <1>5, <1>6, <1>f, <2>1 DEF Components
<1>8. ASSUME NEW c \in Components, Others(c) PROVE focus' = focus
  BY <1>8 DEF Others
<1>9. {"recycle", "migrations", "update", "tools", "thumbnails", "pools"} \subseteq Components
  BY DEF Components
<1> QED
  BY <1>1, <1>2, <1>3, <1>4, <1>5, <1>6, <1>7, <1>8, <1>9 DEF UpkeepNext

\* The invariant of the component in focus always holds.
THEOREM UpkeepInvAlways == UpkeepSpec => []UpkeepInv
<1> QED
  BY UpkeepInitInv, UpkeepStep, PTL DEF UpkeepSpec

\* The state of the component in focus has the types its module states.
THEOREM UpkeepIsTyped == UpkeepSpec => []UpkeepTypes
<1>1. UpkeepInv => UpkeepTypes
  <2> SUFFICES ASSUME UpkeepInv PROVE UpkeepTypes
    OBVIOUS
  <2>1. focus \in Components
    BY DEF UpkeepInv
  <2>2. CASE focus = "recycle"
    BY <2>2, RecycleIsSafe DEF UpkeepInv, UpkeepTypes
  <2>3. CASE focus = "migrations"
    BY <2>3, MigrationsHold DEF UpkeepInv, UpkeepTypes
  <2>4. CASE focus = "update"
    BY <2>4, UpdateIsSafe DEF UpkeepInv, UpkeepTypes
  <2>5. CASE focus = "tools"
    BY <2>5, ToolTypesAre DEF UpkeepInv, UpkeepTypes, ToolInstallInv
  <2>6. CASE focus = "thumbnails"
    BY <2>6, ThumbnailsAreSafe DEF UpkeepInv, UpkeepTypes
  <2>7. CASE focus = "pools"
    BY <2>7 DEF UpkeepInv, UpkeepTypes, PoolsInv
  <2> QED
    BY <2>1, <2>2, <2>3, <2>4, <2>5, <2>6, <2>7 DEF Components
<1> QED
  BY <1>1, UpkeepInvAlways, PTL

\* Whatever fails or stops half way: the content of a file in the library is at one of
\* its three places (recycle_cleanup.go), a changed database has the backup of what it
\* was (migration/runner.go), a build that starts is on disk (update/apply.go) and so is
\* the tool in use (tools/installer.go); each unless what its module names has come
\* between.
THEOREM NothingIsLostEver == UpkeepSpec => []NothingIsLost
<1>1. UpkeepInv => NothingIsLost
  <2> SUFFICES ASSUME UpkeepInv PROVE NothingIsLost
    OBVIOUS
  <2>1. CASE focus = "recycle"
    BY <2>1, RecycleIsSafe DEF UpkeepInv, NothingIsLost
  <2>2. CASE focus = "migrations"
    BY <2>2, MigrationsHold DEF UpkeepInv, NothingIsLost
  <2>3. CASE focus = "update"
    BY <2>3, UpdateIsSafe DEF UpkeepInv, NothingIsLost
  <2>4. CASE focus = "tools"
    BY <2>4, ToolsAreSafe DEF UpkeepInv, NothingIsLost
  <2>5. CASE focus \notin {"recycle", "migrations", "update", "tools"}
    BY <2>5 DEF NothingIsLost
  <2> QED
    BY <2>1, <2>2, <2>3, <2>4, <2>5
<1> QED
  BY <1>1, UpkeepInvAlways, PTL

\* Rows say what is true on disk: a deleted row's file is staged and an active row's is
\* in its place (recycle_cleanup.go), a migration that has succeeded is valid or is one
\* that a second start mends (migration/runner.go), a picture whose task succeeded is
\* there (thumbnail/service.go); each unless what its module names has come between.
THEOREM RowsHoldAlways == UpkeepSpec => []RowsHold
<1>1. UpkeepInv => RowsHold
  <2> SUFFICES ASSUME UpkeepInv PROVE RowsHold
    OBVIOUS
  <2>1. CASE focus = "recycle"
    BY <2>1, RecycleIsSafe DEF UpkeepInv, RowsHold
  <2>2. CASE focus = "migrations"
    BY <2>2, MigrationsHold DEF UpkeepInv, RowsHold
  <2>3. CASE focus = "thumbnails"
    BY <2>3, ThumbnailsAreSafe DEF UpkeepInv, RowsHold
  <2>4. CASE focus \notin {"recycle", "migrations", "thumbnails"}
    BY <2>4 DEF RowsHold
  <2> QED
    BY <2>1, <2>2, <2>3, <2>4
<1> QED
  BY <1>1, UpkeepInvAlways, PTL
===============================================================================
