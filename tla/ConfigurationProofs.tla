------------------------- MODULE ConfigurationProofs -------------------------
(***************************************************************************)
(* Proofs about the configuration loader, self update, the two together,   *)
(* and all that is done with a build.cpp: for every set of projects,       *)
(* versions, headers and releases.                                         *)
(***************************************************************************)
EXTENDS MCConfiguration, LockWalkProofs, FiniteSetTheorems

------------------------------------------------------------------------------
(* Self update *)

LEMMA UpdateInitially == UpdateInit => UpdateInv
  BY UpdateAssumption DEF UpdateInit, UpdateInv, UpdateTypeOK, Files

\* Each step keeps the invariant.
LEMMA UpdateStep == UpdateInv /\ [UpdateNext]_updateVars => UpdateInv'
<1> SUFFICES ASSUME UpdateInv, [UpdateNext]_updateVars PROVE UpdateInv'
  OBVIOUS
<1> USE UpdateAssumption DEF UpdateInv, UpdateTypeOK, Files, install, Leave
<1>1. CASE StartUpdate
  BY <1>1 DEF StartUpdate
<1>2. CASE Download
  BY <1>2 DEF Download
<1>3. CASE DownloadFails
  BY <1>3 DEF DownloadFails
<1>4. CASE Verify
  BY <1>4 DEF Verify
<1>5. CASE VerifyFails
  BY <1>5 DEF VerifyFails
<1>6. CASE DropStaleBackup
  BY <1>6 DEF DropStaleBackup
<1>7. CASE MoveAside
  BY <1>7 DEF MoveAside
<1>8. CASE MakeExecutable
  BY <1>8 DEF MakeExecutable
<1>9. CASE Swap
  BY <1>9 DEF Swap
<1>10. CASE BeginCopy
  BY <1>10 DEF BeginCopy
<1>11. CASE EndCopy
  BY <1>11 DEF EndCopy
<1>12. CASE InstallFails
  BY <1>12 DEF InstallFails
<1>13. CASE KillUpdate
  BY <1>13 DEF KillUpdate
<1>14. CASE UNCHANGED updateVars
  BY <1>14 DEF updateVars
<1>15. QED
  BY <1>1, <1>2, <1>3, <1>4, <1>5, <1>6, <1>7, <1>8, <1>9, <1>10, <1>11, <1>12, <1>13, <1>14
     DEF UpdateNext

\* The invariant holds in every state, for every set of releases.
THEOREM UpdateInvariance == UpdateSpec => []UpdateInv
  BY UpdateInitially, UpdateStep, PTL DEF UpdateSpec

\* What an update has installed is the release that was verified, and only a copy
\* cut short leaves anything else than a release as cppup or cppup.prev.
THEOREM Installed == UpdateSpec => []InstalledIsVerified
<1>1. UpdateInv => InstalledIsVerified
  BY DEF UpdateInv, UpdateTypeOK, InstalledIsVerified, Files
<1>2. QED
  BY <1>1, UpdateInvariance, PTL

LEMMA BinaryKeptStep ==
  UpdateInv /\ [UpdateNext]_updateVars =>
    [~cut' /\ (Runs(target) \/ Runs(backup)) => Runs(target') \/ Runs(backup')]_updateVars
<1> SUFFICES ASSUME UpdateInv, [UpdateNext]_updateVars, ~cut',
                    Runs(target) \/ Runs(backup)
             PROVE  Runs(target') \/ Runs(backup')
  OBVIOUS
<1> USE UpdateAssumption DEF UpdateInv, UpdateTypeOK, Files, install, Leave, Runs
<1>1. CASE target' = target /\ backup' = backup
  BY <1>1
<1>2. CASE DropStaleBackup
  BY <1>2 DEF DropStaleBackup
<1>3. CASE MoveAside
  BY <1>3 DEF MoveAside
<1>4. CASE Swap
  BY <1>4 DEF Swap
<1>5. CASE BeginCopy
  BY <1>5 DEF BeginCopy
<1>6. CASE EndCopy
  BY <1>6 DEF EndCopy
<1>7. QED
  BY <1>1, <1>2, <1>3, <1>4, <1>5, <1>6
     DEF UpdateNext, updateVars, StartUpdate, Download, DownloadFails, Verify,
         VerifyFails, MakeExecutable, InstallFails, KillUpdate

\* Failures and kills of any number of updates leave a binary that runs.
THEOREM BinaryKept == UpdateSpec => LastBinaryKept
  BY BinaryKeptStep, UpdateInvariance, PTL DEF UpdateSpec, LastBinaryKept

------------------------------------------------------------------------------
(* Versions *)

Version == Seq(Nat)

LEMMA ComponentType == \A v \in Version, i \in Nat : Component(v, i) \in Nat
  BY DEF Version, Component

\* No release is newer than itself.
LEMMA NotNewerThanItself == \A v \in Version : ~is_newer_version(v, v)
  BY ComponentType DEF Version, is_newer_version

\* Of two releases at most one is newer than the other, however many components
\* their numbers have: the notice of a new release never points both ways.
THEOREM NewerOneWay ==
  \A v, w \in Version : is_newer_version(v, w) => ~is_newer_version(w, v)
<1> SUFFICES ASSUME NEW v \in Version, NEW w \in Version,
                    is_newer_version(v, w), is_newer_version(w, v)
             PROVE  FALSE
  OBVIOUS
<1>1. PICK i \in DOMAIN v \cup DOMAIN w :
        /\ Component(v, i) > Component(w, i)
        /\ \A j \in 1..(i - 1) : Component(v, j) = Component(w, j)
  BY DEF is_newer_version
<1>2. PICK k \in DOMAIN w \cup DOMAIN v :
        /\ Component(w, k) > Component(v, k)
        /\ \A j \in 1..(k - 1) : Component(w, j) = Component(v, j)
  BY DEF is_newer_version
<1>3. i \in Nat \ {0} /\ k \in Nat \ {0}
  BY DEF Version
<1>4. /\ Component(v, i) \in Nat /\ Component(w, i) \in Nat
      /\ Component(v, k) \in Nat /\ Component(w, k) \in Nat
  BY <1>3, ComponentType
<1>5. CASE i < k
  <2>1. i \in 1..(k - 1)
    BY <1>3, <1>5
  <2>2. QED
    BY <2>1, <1>1, <1>2, <1>4
<1>6. CASE k < i
  <2>1. k \in 1..(i - 1)
    BY <1>3, <1>6
  <2>2. QED
    BY <2>1, <1>1, <1>2, <1>4
<1>7. CASE i = k
  BY <1>7, <1>1, <1>2, <1>4
<1>8. QED
  BY <1>3, <1>5, <1>6, <1>7

------------------------------------------------------------------------------
(* The loader: types, ages and headers *)

Pendings == [declared : Declarations, parent : Paths]
Parts    == [path : Paths, from : Libraries]
Handed   == [path : Paths, system : BuildSystem \ {"cppup"}]

\* The types of what a command has so far, and of what outlives it.
LoadingOK ==
  /\ current \in Paths
  /\ worklist \in Seq(Pendings)
  /\ merged \in Seq(Parts)
  /\ external \in Seq(Handed)

LastingOK ==
  /\ project \in Projects
  /\ source \in [DOMAIN project.dirs -> Versions]
  /\ header \in Headers \cup {Nothing, Torn}
  /\ program \in Headers
  /\ \A n \in DOMAIN library : library[n] = Torn \/ library[n] \in Libraries
  /\ newer \subseteq (DOMAIN project.dirs) \X (DOMAIN library)
  /\ command \in Commands \cup {"none"}
  /\ step \in {"none", "header", "write", "wipe", "compile", "compiler", "load", "next"}
  /\ (step = "none") = Idle
  /\ loaded \in {"none", "ok", "error", "killed"}
  /\ unswept \in BOOLEAN /\ unwritten \in BOOLEAN /\ unseen \subseteq DOMAIN library
  /\ step = "compiler" => reading \in Versions \ Broken

LEMMA LoadingType ==
  /\ LoadTypeOK <=> LastingOK /\ LoadingOK
  /\ LoadTypeOK' <=> LastingOK' /\ LoadingOK'
  BY DEF LoadTypeOK, LastingOK, LoadingOK, Pendings, Parts, Handed

LEMMA PartsKept == project' = project => Parts' = Parts
  BY DEF Parts, Libraries

LEMMA SameLoading ==
  ASSUME LoadingOK, UNCHANGED <<project, current, worklist, merged, external>>
  PROVE  LoadingOK'
  BY DEF LoadingOK, Parts, Libraries

LEMMA LoadInitially == LoadInit => LoadInv
<1> SUFFICES ASSUME LoadInit PROVE LoadInv
  OBVIOUS
<1> USE DEF LoadInit
<1>1. source \in [DOMAIN project.dirs -> Versions]
  <2>1. \E v \in Versions \ (Broken \cup Throwing) : TRUE
    BY LoaderAssumption DEF LoaderAssumption
  <2> QED BY <2>1
<1>2. DOMAIN library = {}
  OBVIOUS
<1>3. LoadingOK
  BY EmptySeq DEF LoadingOK, Paths
<1>4. LoadTypeOK
  BY <1>1, <1>2, <1>3, LoadingType DEF LastingOK, Idle
<1> QED BY <1>2, <1>4 DEF LoadInv, AgesInv, HeaderInv, ReadyInv

\* What every step leaves of the types when it keeps the files.
LEMMA SameDisk ==
  ASSUME LoadInv, UNCHANGED disk
  PROVE  /\ project' = project /\ source' = source /\ header' = header
         /\ library' = library /\ newer' = newer /\ unseen' = unseen /\ Libraries' = Libraries
         /\ AgesInv'
         /\ unswept' = unswept =>
              (header' \in Headers /\ ~unswept' =>
                 \A n \in DOMAIN library' :
                   library'[n] # Torn => library'[n].header \in {header', project'.own})
  BY DEF LoadInv, disk, Libraries, AgesInv, HeaderInv

LEMMA EditKept == ASSUME LoadInv, NEW d \in DOMAIN project.dirs, Edit(d) PROVE LoadInv'
<1>1. LoadTypeOK /\ AgesInv /\ HeaderInv /\ ReadyInv
  BY DEF LoadInv
<1>2. /\ step # "load" /\ \E v \in Versions \ {source[d]} : source' = [source EXCEPT ![d] = v]
      /\ UNCHANGED <<project, header, library, program, command, step, loading, loaded, flaws>>
      /\ \/ /\ newer' = newer \cup {<<d, n>> : n \in DOMAIN library}
            /\ unseen' = unseen \ LibrariesOf(d)
         \/ /\ newer' = {e \in newer : e[1] # d}
            /\ unseen' = unseen \cup LibrariesOf(d)
  BY DEF Edit
<1>3. PICK v \in Versions \ {source[d]} : source' = [source EXCEPT ![d] = v]
  BY <1>2
<1>4. source' \in [DOMAIN project.dirs -> Versions]
  BY <1>1, <1>3 DEF LoadTypeOK
<1>5. newer' \subseteq (DOMAIN project.dirs) \X (DOMAIN library) /\ unseen' \subseteq DOMAIN library
  BY <1>1, <1>2 DEF LoadTypeOK, LibrariesOf
<1>6. Libraries' = Libraries /\ reading' = reading
  BY <1>2 DEF Libraries, loading
<1>7. LoadTypeOK'
  <2>1. LastingOK /\ LoadingOK
    BY <1>1, LoadingType
  <2>2. LastingOK'
    BY <1>2, <1>4, <1>5, <1>6, <2>1 DEF LastingOK, Idle, flaws
  <2>3. LoadingOK'
    BY <1>2, <2>1, SameLoading DEF loading
  <2> QED BY <2>2, <2>3, LoadingType
<1>8. AgesInv'
  <2> SUFFICES ASSUME NEW n \in DOMAIN library \ unseen', library[n] # Torn,
                      <<library[n].dir, n>> \notin newer'
               PROVE  library[n].source = source'[library[n].dir]
    BY <1>2 DEF AgesInv
  <2>1. library[n].dir # d /\ n \notin unseen /\ <<library[n].dir, n>> \notin newer
    <3>1. CASE newer' = newer \cup {<<d, m>> : m \in DOMAIN library} /\ unseen' = unseen \ LibrariesOf(d)
      BY <3>1 DEF LibrariesOf
    <3>2. CASE newer' = {e \in newer : e[1] # d} /\ unseen' = unseen \cup LibrariesOf(d)
      <4>1. library[n].dir # d
        BY <3>2 DEF LibrariesOf
      <4> QED BY <3>2, <4>1
    <3> QED BY <1>2, <3>1, <3>2
  <2>2. library[n].dir \in DOMAIN project.dirs
    BY <1>1 DEF LoadTypeOK, Libraries
  <2>3. source'[library[n].dir] = source[library[n].dir]
    BY <1>1, <1>3, <2>1, <2>2 DEF LoadTypeOK
  <2> QED BY <1>1, <2>1, <2>3 DEF AgesInv
<1>9. HeaderInv'
  BY <1>1, <1>2 DEF HeaderInv, flaws
<1>10. ReadyInv'
  BY <1>1, <1>2 DEF ReadyInv, loading, HasBuildFile, IsDirectory, Markers, HeaderFound
<1> QED BY <1>7, <1>8, <1>9, <1>10 DEF LoadInv

LEMMA UpgradeKept == ASSUME LoadInv, NEW p \in Headers, Upgrade(p) PROVE LoadInv'
<1> USE DEF Upgrade
<1>1. LoadTypeOK /\ AgesInv /\ HeaderInv
  BY DEF LoadInv
<1>2. AgesInv' /\ Libraries' = Libraries
  BY SameDisk
<1>3. LoadTypeOK'
  BY <1>1, <1>2, LoadingType, SameLoading DEF LastingOK, Idle, disk, flaws, loading
<1>4. HeaderInv' /\ ReadyInv'
  BY <1>1 DEF HeaderInv, ReadyInv, Idle, LoadTypeOK, disk, flaws
<1> QED BY <1>2, <1>3, <1>4 DEF LoadInv

\* What is left when libraries are removed.
LEMMA Removed ==
  ASSUME LoadInv, NEW S, RemoveLibraries(S), UNCHANGED <<project, source>>
  PROVE  /\ DOMAIN library' = DOMAIN library \ S
         /\ \A n \in DOMAIN library' : library'[n] = library[n]
         /\ \A n \in DOMAIN library' : library'[n] = Torn \/ library'[n] \in Libraries'
         /\ newer' \subseteq (DOMAIN project.dirs) \X (DOMAIN library') /\ unseen' \subseteq DOMAIN library'
         /\ AgesInv'
<1>1. LoadTypeOK /\ AgesInv
  BY DEF LoadInv
<1>2. /\ DOMAIN library' = DOMAIN library \ S
      /\ \A n \in DOMAIN library' : library'[n] = library[n]
  BY DEF RemoveLibraries, Without, Restrict
<1>3. newer' = {e \in newer : e[2] \notin S} /\ unseen' = unseen \ S
  BY DEF RemoveLibraries
<1>4. Libraries' = Libraries
  BY DEF Libraries
<1>5. newer' \subseteq (DOMAIN project.dirs) \X (DOMAIN library') /\ unseen' \subseteq DOMAIN library'
  BY <1>1, <1>2, <1>3 DEF LoadTypeOK
<1>6. \A n \in DOMAIN library' : library'[n] = Torn \/ library'[n] \in Libraries'
  BY <1>1, <1>2, <1>4 DEF LoadTypeOK
<1>7. AgesInv'
  BY <1>1, <1>2, <1>3 DEF AgesInv
<1> QED BY <1>2, <1>5, <1>6, <1>7

LEMMA CleanKept == ASSUME LoadInv, CleanLibraries PROVE LoadInv'
<1> USE DEF CleanLibraries
<1>1. LoadTypeOK /\ HeaderInv
  BY DEF LoadInv
<1>2. PICK left \in {{}, DOMAIN library} :
        RemoveLibraries(DOMAIN library \ left) /\ unswept' = (unswept /\ left # {})
  OBVIOUS
<1>3. /\ DOMAIN library' = DOMAIN library \ (DOMAIN library \ left)
      /\ \A n \in DOMAIN library' : library'[n] = library[n]
      /\ \A n \in DOMAIN library' : library'[n] = Torn \/ library'[n] \in Libraries'
      /\ newer' \subseteq (DOMAIN project.dirs) \X (DOMAIN library') /\ unseen' \subseteq DOMAIN library'
      /\ AgesInv'
  BY <1>2, Removed
<1>4. LoadTypeOK'
  BY <1>1, <1>2, <1>3, LoadingType, SameLoading DEF LastingOK, Idle, loading
<1>5. HeaderInv' /\ ReadyInv'
  BY <1>1, <1>2, <1>3 DEF HeaderInv, ReadyInv, Idle, LoadTypeOK
<1> QED BY <1>3, <1>4, <1>5 DEF LoadInv

LEMMA StartKept == ASSUME LoadInv, NEW c \in Commands, Start(c) PROVE LoadInv'
<1> USE DEF Start
<1>1. LoadTypeOK /\ HeaderInv
  BY DEF LoadInv
<1>2. AgesInv' /\ Libraries' = Libraries
  BY SameDisk
<1>3. LoadingOK'
  BY EmptySeq DEF LoadingOK, Paths
<1>4. LoadTypeOK'
  BY <1>1, <1>2, <1>3, LoadingType DEF LastingOK, Idle, disk, flaws, loading, Commands
<1>5. HeaderInv' /\ ReadyInv'
  BY <1>1 DEF HeaderInv, ReadyInv, disk, flaws, Commands
<1> QED BY <1>2, <1>4, <1>5 DEF LoadInv

LEMMA HeaderIsCurrentKept == ASSUME LoadInv, HeaderIsCurrent PROVE LoadInv'
<1> USE DEF HeaderIsCurrent
<1>1. LoadTypeOK /\ HeaderInv
  BY DEF LoadInv
<1>2. AgesInv' /\ Libraries' = Libraries
  BY SameDisk
<1>3. LoadTypeOK'
  BY <1>1, <1>2, LoadingType, SameLoading DEF LastingOK, Idle, disk, flaws, loading
<1>4. HeaderInv' /\ ReadyInv'
  BY <1>1 DEF HeaderInv, ReadyInv, disk, flaws
<1> QED BY <1>2, <1>3, <1>4 DEF LoadInv

\* What every write of the header leaves of the types, and of ages.
LEMMA HeaderWritten ==
  ASSUME LoadInv, header' \in {header, program, Torn}, step' \in {"write", "wipe", "compile"}, ~Idle,
         UNCHANGED <<project, source, library, newer, unseen, program, command, loading, loaded>>,
         unswept' \in BOOLEAN, unwritten' \in BOOLEAN
  PROVE  LoadTypeOK' /\ AgesInv' /\ ReadyInv'
<1>1. LoadTypeOK /\ AgesInv /\ Libraries' = Libraries
  BY DEF LoadInv, Libraries
<1>2. LastingOK'
  BY <1>1, LoadingType DEF LastingOK, Idle
<1>3. LoadingOK'
  BY <1>1, LoadingType, SameLoading DEF loading
<1>4. AgesInv'
  BY <1>1 DEF AgesInv
<1> QED BY <1>2, <1>3, <1>4, LoadingType DEF ReadyInv

LEMMA TruncateHeaderKept == ASSUME LoadInv, TruncateHeader PROVE LoadInv'
<1>1. /\ step = "header"
      /\ \/ header' = Torn /\ step' = "write" /\ unwritten' = unwritten
         \/ header' = header /\ step' = AfterTheHeader /\ unwritten' = TRUE
      /\ UNCHANGED <<project, source, library, newer, unseen, program, command, loading, loaded, unswept>>
  BY DEF TruncateHeader
<1>2. LoadTypeOK /\ HeaderInv
  BY DEF LoadInv
<1>3. LoadTypeOK' /\ AgesInv' /\ ReadyInv'
  BY <1>1, <1>2, HeaderWritten DEF LoadTypeOK, AfterTheHeader
<1>4. HeaderInv'
  BY <1>1, <1>2, LoaderAssumption DEF LoaderAssumption, HeaderInv
<1> QED BY <1>3, <1>4 DEF LoadInv

LEMMA WriteHeaderKept == ASSUME LoadInv, WriteHeader PROVE LoadInv'
<1>1. /\ step = "write" /\ step' = AfterTheHeader
      /\ \/ /\ header' = program
            /\ unswept' = (unswept \/ library # <<>>) /\ unwritten' = unwritten
         \/ header' = Torn /\ unswept' = unswept /\ unwritten' = TRUE
      /\ UNCHANGED <<project, source, library, newer, unseen, program, command, loading, loaded>>
  BY DEF WriteHeader
<1>2. LoadTypeOK /\ HeaderInv
  BY DEF LoadInv
<1>3. LoadTypeOK' /\ AgesInv' /\ ReadyInv'
  BY <1>1, <1>2, HeaderWritten DEF LoadTypeOK, AfterTheHeader
<1>4. HeaderInv'
  <2>1. CASE header' = program /\ unswept' = (unswept \/ library # <<>>)
    <3>1. CASE library = <<>>
      BY <1>1, <2>1, <3>1 DEF HeaderInv
    <3>2. CASE library # <<>>
      BY <1>1, <2>1, <3>2 DEF HeaderInv
    <3> QED BY <3>1, <3>2
  <2>2. CASE header' = Torn /\ unwritten' = TRUE
    BY <2>2, LoaderAssumption DEF LoaderAssumption, HeaderInv
  <2> QED BY <1>1, <2>1, <2>2
<1> QED BY <1>3, <1>4 DEF LoadInv

LEMMA WipeKept == ASSUME LoadInv, WipeLibraries PROVE LoadInv'
<1> USE DEF WipeLibraries
<1>1. LoadTypeOK /\ HeaderInv
  BY DEF LoadInv
<1>2. PICK left \in {{}, DOMAIN library} :
        RemoveLibraries(DOMAIN library \ left) /\ unswept' = (unswept /\ left # {})
  OBVIOUS
<1>3. /\ DOMAIN library' = DOMAIN library \ (DOMAIN library \ left)
      /\ \A n \in DOMAIN library' : library'[n] = library[n]
      /\ \A n \in DOMAIN library' : library'[n] = Torn \/ library'[n] \in Libraries'
      /\ newer' \subseteq (DOMAIN project.dirs) \X (DOMAIN library') /\ unseen' \subseteq DOMAIN library'
      /\ AgesInv'
  BY <1>2, Removed
<1>4. LoadTypeOK'
  BY <1>1, <1>2, <1>3, LoadingType, SameLoading DEF LastingOK, Idle, loading
<1>5. HeaderInv' /\ ReadyInv'
  BY <1>1, <1>2, <1>3 DEF HeaderInv, ReadyInv, Idle, LoadTypeOK
<1> QED BY <1>3, <1>4, <1>5 DEF LoadInv

LEMMA ReuseKept == ASSUME LoadInv, Reuse PROVE LoadInv'
<1> USE DEF Reuse
<1>1. LoadTypeOK /\ HeaderInv
  BY DEF LoadInv
<1>2. AgesInv' /\ Libraries' = Libraries
  BY SameDisk
<1>3. LoadTypeOK'
  BY <1>1, <1>2, LoadingType, SameLoading DEF LastingOK, Idle, disk, flaws, loading
<1>4. HeaderInv'
  BY <1>1 DEF HeaderInv, disk, flaws
<1>5. ReadyInv'
  BY DEF ReadyInv, disk, loading, HasBuildFile, IsDirectory, Markers, needs_recompilation
<1> QED BY <1>2, <1>3, <1>4, <1>5 DEF LoadInv

\* What is left when a library is written: it is newer than every build.cpp.
LEMMA Written ==
  ASSUME LoadInv, NEW at_, at_ \in Paths, NEW what, WriteLibrary(at_, what),
         what = Torn \/ what \in Libraries,
         UNCHANGED <<project, source>>
  PROVE  /\ DOMAIN library' = DOMAIN library \cup {get_shared_library_path(at_)}
         /\ library'[get_shared_library_path(at_)] = what
         /\ \A n \in DOMAIN library : n # get_shared_library_path(at_) => library'[n] = library[n]
         /\ \A d : <<d, get_shared_library_path(at_)>> \notin newer'
         /\ \A n \in DOMAIN library' : library'[n] = Torn \/ library'[n] \in Libraries'
         /\ newer' \subseteq (DOMAIN project.dirs) \X (DOMAIN library') /\ unseen' \subseteq DOMAIN library'
         /\ AgesInv'
<1> DEFINE m == get_shared_library_path(at_)
<1>1. LoadTypeOK /\ AgesInv
  BY DEF LoadInv
<1>2. /\ library' = [n \in DOMAIN library \cup {m} |-> IF n = m THEN what ELSE library[n]]
      /\ newer' = {e \in newer : e[2] # m}
      /\ unseen' = (unseen \ {m}) \cup (IF what = Torn \/ what.source = source[what.dir] THEN {} ELSE {m})
  BY DEF WriteLibrary
<1> HIDE DEF m
<1>3. /\ DOMAIN library' = DOMAIN library \cup {m} /\ library'[m] = what
      /\ \A n \in DOMAIN library : n # m => library'[n] = library[n]
      /\ \A d : <<d, m>> \notin newer'
  BY <1>2
<1>4. Libraries' = Libraries
  BY DEF Libraries
<1>5. newer' \subseteq (DOMAIN project.dirs) \X (DOMAIN library') /\ unseen' \subseteq DOMAIN library'
  BY <1>1, <1>2, <1>3 DEF LoadTypeOK
<1>6. \A n \in DOMAIN library' : library'[n] = Torn \/ library'[n] \in Libraries'
  BY <1>1, <1>3, <1>4 DEF LoadTypeOK
<1>7. AgesInv'
  <2> SUFFICES ASSUME NEW n \in DOMAIN library' \ unseen', library'[n] # Torn,
                      <<library'[n].dir, n>> \notin newer'
               PROVE  library'[n].source = source[library'[n].dir]
    BY DEF AgesInv
  <2>1. CASE n = m
    BY <1>2, <1>3, <2>1
  <2>2. CASE n # m
    <3>1. n \in DOMAIN library \ unseen /\ library'[n] = library[n]
      BY <1>2, <1>3, <2>2
    <3>2. <<library[n].dir, n>> \notin newer
      BY <1>2, <2>2, <3>1
    <3> QED BY <1>1, <3>1, <3>2 DEF AgesInv
  <2> QED BY <2>1, <2>2
<1> QED BY <1>3, <1>5, <1>6, <1>7 DEF m

LEMMA StartCompilerKept == ASSUME LoadInv, StartCompiler PROVE LoadInv'
<1>1. /\ step = "compile" /\ HasBuildFile(current) /\ Compiles(current)
      /\ reading' = source[DirOf(current)] /\ step' = "compiler"
      /\ UNCHANGED <<disk, program, command, current, worklist, merged, external, loaded, flaws>>
  BY DEF StartCompiler
<1>2. LoadTypeOK /\ HeaderInv
  BY DEF LoadInv
<1>3. AgesInv' /\ Libraries' = Libraries
  BY <1>1, SameDisk DEF disk
<1>4. reading' \in Versions \ Broken
  BY <1>1, <1>2 DEF LoadTypeOK, HasBuildFile, IsDirectory, Compiles
<1>5. LastingOK'
  BY <1>1, <1>2, <1>3, <1>4, LoadingType DEF LastingOK, Idle, disk, flaws
<1>6. LoadingOK'
  BY <1>1, <1>2, LoadingType, SameLoading DEF disk
<1>7. HeaderInv'
  BY <1>1, <1>2 DEF HeaderInv, disk, flaws
<1>8. ReadyInv'
  BY <1>1 DEF ReadyInv, Compiles, HasBuildFile, IsDirectory, Markers, HeaderFound, disk
<1> QED BY <1>3, <1>5, <1>6, <1>7, <1>8, LoadingType DEF LoadInv

\* The library that is being made.
Made == [dir |-> DirOf(current), source |-> reading, header |-> HeaderFound]

LEMMA CompiledFacts ==
  ASSUME LoadInv, step = "compiler"
  PROVE  /\ Made \in Libraries /\ HasBuildFile(current)
         /\ header \in Headers => Made.header \in {header, project.own}
         /\ current \in Paths
<1>1. /\ DirOf(current) \in DOMAIN project.dirs /\ HeaderFound \in Headers
      /\ reading \in Versions \ Broken /\ current \in Paths /\ HasBuildFile(current)
  BY DEF LoadInv, ReadyInv, HasBuildFile, IsDirectory, LoadTypeOK
<1> QED BY <1>1 DEF Made, Libraries, HeaderFound

LEMMA CompileKept == ASSUME LoadInv, Compile PROVE LoadInv'
<1> DEFINE m == get_shared_library_path(current)
<1>0. /\ step = "compiler" /\ step' = "load" /\ WriteLibrary(current, Made)
      /\ UNCHANGED <<project, source, header, program, command, current, worklist, merged, external,
                     loaded, flaws>>
  BY DEF Compile, Made
<1>1. LoadTypeOK /\ HeaderInv
  BY DEF LoadInv
<1>2. /\ Made \in Libraries /\ HasBuildFile(current)
      /\ header \in Headers => Made.header \in {header, project.own}
      /\ current \in Paths
  BY <1>0, CompiledFacts
<1>4. /\ DOMAIN library' = DOMAIN library \cup {m}
      /\ library'[m] = Made
      /\ \A n \in DOMAIN library : n # m => library'[n] = library[n]
      /\ \A d : <<d, m>> \notin newer'
      /\ \A n \in DOMAIN library' : library'[n] = Torn \/ library'[n] \in Libraries'
      /\ newer' \subseteq (DOMAIN project.dirs) \X (DOMAIN library') /\ unseen' \subseteq DOMAIN library'
      /\ AgesInv'
  BY <1>0, <1>2, Written
<1> HIDE DEF m
<1>5. LoadTypeOK'
  <2>1. LastingOK'
    BY <1>0, <1>1, <1>4, LoadingType DEF LastingOK, Idle, flaws
  <2>2. LoadingOK'
    BY <1>0, <1>1, LoadingType, SameLoading
  <2> QED BY <2>1, <2>2, LoadingType
<1>6. HeaderInv'
  <2>1. ASSUME header \in Headers, ~unswept, NEW n \in DOMAIN library', library'[n] # Torn
        PROVE  library'[n].header \in {header, project.own}
    <3>1. CASE n = m
      BY <1>2, <1>4, <2>1, <3>1
    <3>2. CASE n # m
      BY <1>1, <1>4, <2>1, <3>2 DEF HeaderInv
    <3> QED BY <3>1, <3>2
  <2> QED BY <1>0, <1>1, <2>1 DEF HeaderInv, flaws
<1>7. ReadyInv'
  BY <1>0, <1>2, <1>4 DEF ReadyInv, HasBuildFile, IsDirectory, Markers, needs_recompilation, m
<1> QED BY <1>4, <1>5, <1>6, <1>7 DEF LoadInv

\* A command that ends leaves a part of what it had, or nothing.
LEMMA EndKept ==
  ASSUME LoadInv, NEW result \in {"ok", "error", "killed"}, End(result),
         UNCHANGED <<project, source, header, program>>, unswept' \in BOOLEAN,
         \A n \in DOMAIN library' : library'[n] = Torn \/ library'[n] \in Libraries',
         newer' \subseteq (DOMAIN project.dirs) \X (DOMAIN library'), unseen' \subseteq DOMAIN library',
         result = "ok" => merged' \in Seq(Parts)
  PROVE  LoadTypeOK' /\ ReadyInv'
<1>1. LoadTypeOK
  BY DEF LoadInv
<1>2. LoadingOK'
  <2>1. current' \in Paths /\ worklist' \in Seq(Pendings)
    BY EmptySeq DEF End, Paths
  <2>2. Parts' = Parts
    BY DEF Parts, Libraries
  <2>3. CASE result = "ok"
    BY <1>1, <2>1, <2>2, <2>3, LoadingType DEF End, LoadingOK
  <2>4. CASE result # "ok"
    BY <2>1, <2>2, <2>4, EmptySeq DEF End, LoadingOK
  <2> QED BY <2>3, <2>4
<1>3. LoadTypeOK'
  BY <1>1, <1>2, LoadingType DEF LastingOK, End, Idle
<1> QED BY <1>3 DEF End, ReadyInv

\* One that keeps the files, too, keeps the invariant.
LEMMA EndsKept ==
  ASSUME LoadInv, NEW result \in {"ok", "error", "killed"}, End(result),
         UNCHANGED <<disk, program, unswept>>,
         result = "ok" => merged' \in Seq(Parts)
  PROVE  LoadInv'
<1>1. /\ UNCHANGED <<project, source, header, program, library, newer, unseen>>
      /\ Libraries' = Libraries /\ AgesInv'
  BY SameDisk DEF disk
<1>2. LoadTypeOK' /\ ReadyInv'
  BY <1>1, EndKept DEF LoadInv, LoadTypeOK
<1>3. HeaderInv'
  BY <1>1 DEF LoadInv, HeaderInv, End
<1> QED BY <1>1, <1>2, <1>3 DEF LoadInv

LEMMA LibraryFacts ==
  ASSUME LoadInv, step = "load", Loads
  PROVE  /\ get_shared_library_path(current) \in DOMAIN library
         /\ Library \in Libraries
         /\ [path |-> current, from |-> Library] \in Parts
         /\ merged \in Seq(Parts)
         /\ Append(merged, [path |-> current, from |-> Library])
              \in Seq(Parts)
<1>1. get_shared_library_path(current) \in DOMAIN library
  BY DEF LoadInv, ReadyInv, needs_recompilation
<1>2. Library \in Libraries
  BY <1>1 DEF LoadInv, LoadTypeOK, Loads, Library
<1>3. current \in Paths /\ merged \in Seq(Parts)
  BY LoadingType DEF LoadInv, LoadingOK
<1>4. [path |-> current, from |-> Library] \in Parts
  BY <1>2, <1>3 DEF Parts
<1> QED BY <1>1, <1>2, <1>3, <1>4, AppendProperties

\* What the subprojects of a directory add to the worklist.
LEMMA PendingFacts ==
  ASSUME LoadInv, HasBuildFile(current)
  PROVE  /\ Pending(current) \in Seq(Pendings)
         /\ Len(Pending(current)) = Len(project.dirs[DirOf(current)].declares)
         /\ \A i \in 1..Len(Pending(current)) :
              /\ i \in DOMAIN project.dirs[DirOf(current)].declares
              /\ Pending(current)[i].declared = project.dirs[DirOf(current)].declares[i]
              /\ Pending(current)[i].parent = current
<1> DEFINE declared == project.dirs[DirOf(current)].declares
<1>1. DirOf(current) \in DOMAIN project.dirs /\ project \in Projects /\ current \in Paths
  BY DEF HasBuildFile, IsDirectory, LoadInv, LoadTypeOK
<1>2. declared \in Seq(Declarations)
  BY <1>1, ProjectsAssumption DEF ProjectsAssumption
<1>3. Pending(current) = [i \in DOMAIN declared |-> [declared |-> declared[i], parent |-> current]]
  BY DEF Pending
<1> HIDE DEF declared
<1>4. DOMAIN declared = 1..Len(declared) /\ Len(declared) \in Nat
      /\ \A i \in 1..Len(declared) : declared[i] \in Declarations
  BY <1>2
<1>5. \A i \in 1..Len(declared) :
        [declared |-> declared[i], parent |-> current] \in Pendings
  BY <1>1, <1>4 DEF Pendings
<1>6. /\ Pending(current) \in Seq(Pendings)
      /\ Len(Pending(current)) = Len(declared)
  <2>1. Pending(current) \in [1..Len(declared) -> Pendings]
    BY <1>3, <1>4, <1>5
  <2> QED BY <1>4, <2>1
<1> QED BY <1>3, <1>4, <1>6 DEF declared

LEMMA LoadKept == ASSUME LoadInv, Load PROVE LoadInv'
<1>1. /\ step = "load" /\ Loads
      /\ merged' = Append(merged, [path |-> current, from |-> Library])
      /\ UNCHANGED <<disk, program, unswept>>
  BY DEF Load
<1>2. /\ Append(merged, [path |-> current, from |-> Library])
           \in Seq(Parts)
      /\ HasBuildFile(current)
  BY <1>1, LibraryFacts DEF LoadInv, ReadyInv
<1>3. CASE command = "compile_commands"
  <2>1. End("ok")
    BY <1>3 DEF Load
  <2> QED BY <1>1, <1>2, <2>1, EndsKept
<1>4. CASE command # "compile_commands"
  <2>1. /\ worklist' = worklist \o Pending(current) /\ step' = "next"
        /\ UNCHANGED <<command, current, reading, external, loaded, unwritten>>
    BY <1>4 DEF Load
  <2>2. LoadTypeOK /\ HeaderInv /\ Libraries' = Libraries /\ AgesInv'
    BY <1>1, SameDisk DEF LoadInv
  <2>3. worklist' \in Seq(Pendings)
    <3>1. /\ worklist \in Seq(Pendings)
          /\ Pending(current) \in Seq(Pendings)
      BY <1>2, <2>2, PendingFacts, LoadingType DEF LoadingOK
    <3> QED BY <2>1, <3>1, ConcatProperties
  <2>4. LoadingOK'
    <3>1. external \in Seq(Handed) /\ current \in Paths
      BY <2>2, LoadingType DEF LoadingOK
    <3>2. Parts' = Parts
      BY <1>1, PartsKept DEF disk
    <3>3. merged' \in Seq(Parts)
      BY <1>1, <1>2
    <3> QED BY <2>1, <2>3, <3>1, <3>2, <3>3 DEF LoadingOK
  <2>5. LoadTypeOK'
    BY <1>1, <2>1, <2>2, <2>4, LoadingType DEF LastingOK, Idle, disk
  <2>6. HeaderInv' /\ ReadyInv'
    BY <1>1, <2>1, <2>2 DEF HeaderInv, ReadyInv, disk
  <2> QED BY <2>2, <2>5, <2>6 DEF LoadInv
<1> QED BY <1>3, <1>4

LEMMA WorklistFacts ==
  ASSUME LoadInv, worklist # <<>>
  PROVE  /\ Front(worklist) \in Seq(Pendings)
         /\ Len(worklist) \in Nat \ {0}
         /\ Len(Front(worklist)) = Len(worklist) - 1
         /\ \A i \in 1..Len(Front(worklist)) : Front(worklist)[i] = worklist[i]
         /\ Popped = worklist[Len(worklist)]
         /\ Popped \in Pendings
         /\ System \in BuildSystem \cup {"error"}
         /\ PoppedPath \in Paths
<1>1. worklist \in Seq(Pendings)
  BY LoadingType DEF LoadInv, LoadingOK
<1>2. /\ Front(worklist) \in Seq(Pendings)
      /\ Len(worklist) \in Nat \ {0}
      /\ Len(Front(worklist)) = Len(worklist) - 1
      /\ \A i \in 1..Len(Front(worklist)) : Front(worklist)[i] = worklist[i]
      /\ Popped = worklist[Len(worklist)] /\ Popped \in Pendings
  <2>1. Len(worklist) \in Nat \ {0}
    BY <1>1
  <2>2. Front(worklist) \in Seq(Pendings) /\ Len(Front(worklist)) = Len(worklist) - 1
    BY <1>1, PopFacts
  <2>3. \A i \in 1..Len(Front(worklist)) : Front(worklist)[i] = worklist[i]
    BY <1>1, <2>1, <2>2 DEF Front
  <2>4. Popped = worklist[Len(worklist)] /\ Popped \in Pendings
    BY <1>1, <2>1 DEF Last, Popped
  <2> QED BY <2>1, <2>2, <2>3, <2>4
<1>4. Popped.declared.path \in Paths /\ Popped.parent \in Paths
  BY <1>2 DEF Pendings, Declarations
<1>5. PoppedPath \in Paths
  BY <1>4, ConcatProperties DEF PoppedPath, Paths
<1>6. System \in BuildSystem \cup {"error"}
  <2>1. Popped.declared.system \in BuildSystem \cup {Nothing}
    BY <1>2 DEF Pendings, Declarations
  <2>2. infer_build_system(PoppedPath) \in BuildSystem \cup {"error"}
    BY DEF infer_build_system, BuildSystem
  <2>4. (System = Popped.declared.system /\ Popped.declared.system # Nothing)
          \/ System = infer_build_system(PoppedPath)
    BY DEF System, resolve_build_system
  <2> QED BY <2>1, <2>2, <2>4
<1> QED BY <1>2, <1>5, <1>6

LEMMA EnterKept == ASSUME LoadInv, Enter PROVE LoadInv'
<1> USE DEF Enter
<1>1. LoadTypeOK /\ HeaderInv /\ Libraries' = Libraries /\ AgesInv'
  BY SameDisk DEF LoadInv
<1>2. /\ Front(worklist) \in Seq(Pendings)
      /\ PoppedPath \in Paths
  <2>1. worklist # <<>>
    OBVIOUS
  <2> QED BY <2>1, WorklistFacts
<1>3. LoadTypeOK'
  <2>1. LoadingOK'
    BY <1>1, <1>2, PartsKept, LoadingType DEF LoadingOK, disk
  <2> QED BY <1>1, <2>1, LoadingType DEF LastingOK, Idle, disk, flaws
<1>4. HeaderInv' /\ ReadyInv'
  BY <1>1 DEF HeaderInv, ReadyInv, disk, flaws
<1> QED BY <1>1, <1>3, <1>4 DEF LoadInv

LEMMA DelegateKept == ASSUME LoadInv, Delegate PROVE LoadInv'
<1> USE DEF Delegate
<1>1. LoadTypeOK /\ HeaderInv /\ Libraries' = Libraries /\ AgesInv'
  BY SameDisk DEF LoadInv
<1>0. /\ Front(worklist) \in Seq(Pendings)
      /\ PoppedPath \in Paths /\ System \in BuildSystem \cup {"error"}
  <2>1. worklist # <<>>
    OBVIOUS
  <2> QED BY <2>1, WorklistFacts
<1>2. external' \in Seq(Handed)
  <2>1. [path |-> PoppedPath, system |-> System] \in Handed
    BY <1>0 DEF Handed
  <2>2. external \in Seq(Handed)
    BY <1>1, LoadingType DEF LoadingOK
  <2> QED BY <2>1, <2>2, AppendProperties
<1>3. LoadingOK'
  BY <1>0, <1>1, <1>2, PartsKept, LoadingType DEF LoadingOK, disk
<1>4. LoadTypeOK'
  BY <1>1, <1>3, LoadingType DEF LastingOK, Idle, disk, flaws
<1>5. HeaderInv' /\ ReadyInv'
  BY <1>1 DEF HeaderInv, ReadyInv, disk, flaws
<1> QED BY <1>1, <1>4, <1>5 DEF LoadInv

LEMMA KillKept == ASSUME LoadInv, Kill PROVE LoadInv'
<1>1. LoadTypeOK /\ AgesInv /\ HeaderInv
  BY DEF LoadInv
<1>2. /\ ~Idle /\ End("killed")
      /\ UNCHANGED <<project, source, header, program, unswept>>
  BY DEF Kill
<1>3. \/ UNCHANGED <<library, newer, unseen>>
      \/ WriteLibrary(current, Torn)
      \/ RemoveLibraries({get_shared_library_path(current)})
  BY DEF Kill
<1>4. Libraries' = Libraries /\ current \in Paths
  BY <1>1, <1>2 DEF Libraries, LoadTypeOK
<1>5. /\ \A n \in DOMAIN library' : library'[n] = Torn \/ library'[n] \in Libraries'
      /\ newer' \subseteq (DOMAIN project.dirs) \X (DOMAIN library') /\ unseen' \subseteq DOMAIN library'
      /\ AgesInv'
      /\ \A n \in DOMAIN library' : library'[n] # Torn =>
           n \in DOMAIN library /\ library'[n] = library[n]
  <2>1. CASE UNCHANGED <<library, newer, unseen>>
    BY <1>1, <1>2, <1>4, <2>1 DEF LoadTypeOK, AgesInv
  <2>2. CASE WriteLibrary(current, Torn)
    <3> DEFINE m == get_shared_library_path(current)
    <3>1. /\ DOMAIN library' = DOMAIN library \cup {m} /\ library'[m] = Torn
          /\ \A n \in DOMAIN library : n # m => library'[n] = library[n]
          /\ \A n \in DOMAIN library' : library'[n] = Torn \/ library'[n] \in Libraries'
          /\ newer' \subseteq (DOMAIN project.dirs) \X (DOMAIN library') /\ unseen' \subseteq DOMAIN library'
          /\ AgesInv'
      BY <1>2, <1>4, <2>2, Written
    <3> HIDE DEF m
    <3> QED BY <1>2, <3>1
  <2>3. CASE RemoveLibraries({get_shared_library_path(current)})
    <3>1. /\ DOMAIN library' = DOMAIN library \ {get_shared_library_path(current)}
          /\ \A n \in DOMAIN library' : library'[n] = library[n]
          /\ \A n \in DOMAIN library' : library'[n] = Torn \/ library'[n] \in Libraries'
          /\ newer' \subseteq (DOMAIN project.dirs) \X (DOMAIN library') /\ unseen' \subseteq DOMAIN library'
          /\ AgesInv'
      BY <1>2, <2>3, Removed
    <3> QED BY <1>2, <3>1
  <2> QED BY <1>3, <2>1, <2>2, <2>3
<1>6. LoadTypeOK' /\ ReadyInv'
  BY <1>1, <1>2, <1>5, EndKept DEF LoadTypeOK
<1>7. HeaderInv'
  BY <1>1, <1>2, <1>5 DEF HeaderInv, End
<1> QED BY <1>5, <1>6, <1>7 DEF LoadInv

\* Each step keeps the invariant.
LEMMA LoadStepKept == LoadInv /\ [LoadNext]_loadVars => LoadInv'
<1> SUFFICES ASSUME LoadInv, [LoadNext]_loadVars PROVE LoadInv'
  OBVIOUS
<1>1. CASE LoadUser
  BY <1>1, EditKept, UpgradeKept, StartKept, CleanKept, KillKept DEF LoadUser
<1>2. CASE HeaderIsCurrent \/ TruncateHeader \/ WriteHeader \/ WipeLibraries
  BY <1>2, HeaderIsCurrentKept, TruncateHeaderKept, WriteHeaderKept, WipeKept
<1>3. CASE Reuse \/ StartCompiler \/ Compile \/ Load \/ Enter \/ Delegate
  BY <1>3, ReuseKept, StartCompilerKept, CompileKept, LoadKept, EnterKept, DelegateKept
<1>4. CASE HeaderFails \/ CompileFails \/ LoadFails \/ Unresolved
  <2>1. End("error") /\ UNCHANGED <<disk, program, unswept>>
    BY <1>4 DEF HeaderFails, CompileFails, LoadFails, Unresolved
  <2> QED BY <2>1, EndsKept
<1>5. CASE ReturnConfiguration
  <2>1. End("ok") /\ UNCHANGED <<disk, program, merged, unswept>>
    BY <1>5 DEF ReturnConfiguration
  <2>2. merged' \in Seq(Parts)
    BY <2>1, LoadingType DEF LoadInv, LoadingOK
  <2> QED BY <2>1, <2>2, EndsKept
<1>6. CASE UNCHANGED loadVars
  <2>1. LoadTypeOK /\ HeaderInv /\ ReadyInv /\ Libraries' = Libraries /\ AgesInv'
    BY <1>6, SameDisk DEF LoadInv, loadVars
  <2>2. LoadTypeOK'
    BY <1>6, <2>1, LoadingType, SameLoading DEF LastingOK, Idle, loadVars, disk, flaws, loading
  <2>3. HeaderInv' /\ ReadyInv'
    BY <1>6, <2>1 DEF HeaderInv, ReadyInv, loadVars, disk, loading, flaws,
                      HeaderFound, HasBuildFile, IsDirectory, Markers, needs_recompilation
  <2> QED BY <2>1, <2>2, <2>3 DEF LoadInv
<1> QED BY <1>1, <1>2, <1>3, <1>4, <1>5, <1>6 DEF LoadNext, LoadStep

\* Of a library that is loaded its age tells the version of its build.cpp, if it has
\* not missed a save, and, once the header is in place, that of this program or of
\* the project is the one it was made with.
THEOREM LoadInvariance == LoadSpec => []LoadInv
  BY LoadInitially, LoadStepKept, PTL DEF LoadSpec

------------------------------------------------------------------------------
(* What is loaded is current *)

\* A set of paths that the declarations of a project do not lead out of, and on
\* which the name of a library tells the directory.
Apart(p, W) ==
  /\ W \subseteq Paths /\ <<>> \in W
  /\ \A w \in W : DirOf(w) \in DOMAIN p.dirs =>
       \A i \in DOMAIN p.dirs[DirOf(w)].declares : w \o p.dirs[DirOf(w)].declares[i].path \in W
  /\ \A v, w \in W : get_shared_library_path(v) = get_shared_library_path(w) => DirOf(v) = DirOf(w)

\* Separators, colons and backslashes become underscores, so a/b_c and a_b/c would share
\* a library: no project has two directories that do.
NamesApart == \A p \in Projects : \E W : Apart(p, W)

Ways(p) == CHOOSE W : Apart(p, W)

\* The library of a name is of the directory all paths of that name lead to.
NamesInv ==
  /\ current \in Ways(project)
  /\ \A i \in DOMAIN worklist :
       worklist[i].parent \o worklist[i].declared.path \in Ways(project)
  /\ \A w \in Ways(project) :
       get_shared_library_path(w) \in DOMAIN library
         /\ library[get_shared_library_path(w)] # Torn
       => library[get_shared_library_path(w)].dir = DirOf(w)

LEMMA WaysFacts ==
  ASSUME NamesApart, project \in Projects
  PROVE  Apart(project, Ways(project))
<1>1. \E W : Apart(project, W)
  BY DEF NamesApart
<1> HIDE DEF Apart
<1> QED BY <1>1 DEF Ways

LEMMA SameProject == [LoadNext]_loadVars => project' = project
  BY DEF LoadNext, LoadStep, LoadUser, loadVars, disk, Edit, Upgrade, Start, CleanLibraries, Kill,
         HeaderIsCurrent, TruncateHeader, WriteHeader, WipeLibraries, HeaderFails, Reuse, StartCompiler,
         Compile, CompileFails, Load, LoadFails, Enter, Delegate, Unresolved, ReturnConfiguration

\* Only a compilation that succeeds adds a library, or changes one.
LEMMA OldLibraries ==
  ASSUME LoadInv, [LoadNext]_loadVars, ~Compile
  PROVE  \A n \in DOMAIN library' : library'[n] # Torn => n \in DOMAIN library /\ library'[n] = library[n]
<1>0. project' = project
  BY SameProject
<1>1. CASE UNCHANGED library
  BY <1>1
<1>2. CASE CleanLibraries \/ WipeLibraries
  <2>1. PICK S : RemoveLibraries(S)
    BY <1>2 DEF CleanLibraries, WipeLibraries
  <2> QED BY <2>1 DEF RemoveLibraries, Without, Restrict
<1>3. CASE Kill
  <2>1. CASE WriteLibrary(current, Torn)
    BY <2>1 DEF WriteLibrary
  <2>2. CASE RemoveLibraries({get_shared_library_path(current)})
    BY <2>2 DEF RemoveLibraries, Without, Restrict
  <2> QED BY <1>1, <1>3, <2>1, <2>2 DEF Kill
<1> QED
  BY <1>1, <1>2, <1>3
     DEF LoadNext, LoadStep, LoadUser, loadVars, disk, Edit, Upgrade, Start,
         HeaderIsCurrent, TruncateHeader, WriteHeader, HeaderFails, Reuse, StartCompiler, CompileFails,
         Load, LoadFails, Enter, Delegate, Unresolved, ReturnConfiguration

\* Where the next path comes from.
LEMMA NextPath ==
  ASSUME LoadInv, [LoadNext]_loadVars
  PROVE  \/ UNCHANGED <<current, worklist>>
         \/ current' = <<>> /\ worklist' = <<>>
         \/ Load /\ current' = current /\ worklist' = worklist \o Pending(current)
         \/ Enter
         \/ Delegate
<1>1. CASE LoadUser
  BY <1>1 DEF LoadUser, Edit, Upgrade, Start, CleanLibraries, Kill, End, loading
<1>2. CASE Load
  BY <1>2 DEF Load, End
<1>3. CASE LoadStep /\ ~Load
  BY <1>3 DEF LoadStep, loading, HeaderIsCurrent, TruncateHeader, WriteHeader, WipeLibraries,
              HeaderFails, Reuse, StartCompiler, Compile, CompileFails, LoadFails, Unresolved, ReturnConfiguration, End
<1>4. CASE UNCHANGED loadVars
  BY <1>4 DEF loadVars, loading
<1> QED BY <1>1, <1>2, <1>3, <1>4 DEF LoadNext

LEMMA NamesInitially == NamesApart /\ LoadInit => NamesInv
<1> SUFFICES ASSUME NamesApart, LoadInit PROVE NamesInv
  OBVIOUS
<1>1. <<>> \in Ways(project)
  BY WaysFacts DEF LoadInit, Apart
<1> QED BY <1>1 DEF LoadInit, NamesInv

LEMMA NamesStep ==
  ASSUME NamesApart, LoadInv, NamesInv, [LoadNext]_loadVars
  PROVE  NamesInv'
<1> DEFINE W == Ways(project)
<1>0. project \in Projects /\ project' = project
  BY SameProject DEF LoadInv, LoadTypeOK
<1>1. Apart(project, W)
  BY <1>0, WaysFacts
<1>2. /\ current \in W
      /\ \A i \in DOMAIN worklist : worklist[i].parent \o worklist[i].declared.path \in W
  BY DEF NamesInv
<1>3. W' = W
  BY <1>0
<1>4. \A w \in W :
       get_shared_library_path(w) \in DOMAIN library
         /\ library[get_shared_library_path(w)] # Torn
       => library[get_shared_library_path(w)].dir = DirOf(w)
  BY DEF NamesInv
<1>5. W' = Ways(project')
  OBVIOUS
<1> HIDE DEF W
<1>6. \A w \in W :
       get_shared_library_path(w) \in DOMAIN library'
         /\ library'[get_shared_library_path(w)] # Torn
       => library'[get_shared_library_path(w)].dir = DirOf(w)
  <2>1. CASE ~Compile
    BY <1>4, <2>1, OldLibraries
  <2>2. CASE Compile
    <3> DEFINE m == get_shared_library_path(current)
    <3>1. /\ library' = [n \in DOMAIN library \cup {m} |-> IF n = m THEN Made ELSE library[n]]
          /\ Made.dir = DirOf(current)
      BY <2>2 DEF Compile, WriteLibrary, Made
    <3>2. \A w \in W : get_shared_library_path(w) = m => DirOf(w) = DirOf(current)
      BY <1>1, <1>2 DEF Apart
    <3> HIDE DEF m
    <3> QED BY <1>4, <3>1, <3>2
  <2> QED BY <2>1, <2>2
<1>7. /\ current' \in W
      /\ \A i \in DOMAIN worklist' : worklist'[i].parent \o worklist'[i].declared.path \in W
  <2>0. worklist \in Seq(Pendings)
    BY LoadingType DEF LoadInv, LoadingOK
  <2>1. CASE UNCHANGED <<current, worklist>>
    BY <1>2, <2>1
  <2>2. CASE current' = <<>> /\ worklist' = <<>>
    BY <1>1, <2>2 DEF Apart
  <2>3. CASE Load /\ current' = current /\ worklist' = worklist \o Pending(current)
    <3> DEFINE more == Pending(current)
    <3>1. HasBuildFile(current)
      BY <2>3 DEF Load, LoadInv, ReadyInv
    <3>2. /\ more \in Seq(Pendings)
          /\ \A i \in 1..Len(more) :
               /\ i \in DOMAIN project.dirs[DirOf(current)].declares
               /\ more[i].declared = project.dirs[DirOf(current)].declares[i]
               /\ more[i].parent = current
      BY <3>1, PendingFacts
    <3>3. DirOf(current) \in DOMAIN project.dirs
      BY <3>1 DEF HasBuildFile, IsDirectory
    <3>4. \A i \in 1..Len(more) : more[i].parent \o more[i].declared.path \in W
      BY <1>1, <1>2, <3>2, <3>3 DEF Apart
    <3> HIDE DEF more
    <3>5. /\ worklist' \in Seq(Pendings) /\ Len(worklist') = Len(worklist) + Len(more)
          /\ \A i \in 1..Len(worklist') :
               worklist'[i] = IF i <= Len(worklist) THEN worklist[i] ELSE more[i - Len(worklist)]
      BY <2>0, <2>3, <3>2, ConcatProperties DEF more
    <3>6. ASSUME NEW i \in DOMAIN worklist'
          PROVE  worklist'[i].parent \o worklist'[i].declared.path \in W
      <4>0. i \in 1..(Len(worklist) + Len(more)) /\ Len(worklist) \in Nat /\ Len(more) \in Nat
        BY <2>0, <3>2, <3>5
      <4>1. CASE i <= Len(worklist)
        <5>1. i \in DOMAIN worklist /\ worklist'[i] = worklist[i]
          BY <2>0, <3>5, <4>0, <4>1
        <5> QED BY <1>2, <5>1
      <4>2. CASE ~(i <= Len(worklist))
        <5>1. i - Len(worklist) \in 1..Len(more) /\ worklist'[i] = more[i - Len(worklist)]
          BY <3>5, <4>0, <4>2
        <5> QED BY <3>4, <5>1
      <4> QED BY <4>1, <4>2
    <3> QED BY <1>2, <2>3, <3>6
  <2>4. CASE Enter \/ Delegate
    <3>1. worklist # <<>> /\ worklist' = Front(worklist)
      BY <2>4 DEF Enter, Delegate
    <3>2. /\ Len(worklist) \in 1..Len(worklist) /\ Last(worklist) = worklist[Len(worklist)]
          /\ worklist' \in Seq(Pendings) /\ Len(worklist') = Len(worklist) - 1
          /\ \A i \in 1..(Len(worklist) - 1) : worklist'[i] = worklist[i]
      BY <2>0, <3>1, PopFacts
    <3>3. current' = current \/ current' = PoppedPath
      BY <2>4 DEF Enter, Delegate
    <3>4. PoppedPath \in W
      BY <1>2, <2>0, <3>2 DEF PoppedPath, Popped
    <3>5. \A i \in DOMAIN worklist' : i \in DOMAIN worklist /\ worklist'[i] = worklist[i]
      BY <2>0, <3>2
    <3> QED BY <1>2, <3>3, <3>4, <3>5
  <2> QED BY <2>1, <2>2, <2>3, <2>4, NextPath
<1> QED BY <1>3, <1>5, <1>6, <1>7 DEF NamesInv

LEMMA NextMerged ==
  ASSUME [LoadNext]_loadVars
  PROVE  merged' = merged \/ merged' = <<>> \/ Load
<1>1. CASE LoadUser
  BY <1>1 DEF LoadUser, Edit, Upgrade, Start, CleanLibraries, Kill, End, loading
<1>2. CASE LoadStep /\ ~Load
  BY <1>2 DEF LoadStep, loading, HeaderIsCurrent, TruncateHeader, WriteHeader, WipeLibraries,
              HeaderFails, Reuse, StartCompiler, Compile, CompileFails, LoadFails, Enter, Delegate, Unresolved,
              ReturnConfiguration, End
<1>3. CASE UNCHANGED loadVars
  BY <1>3 DEF loadVars, loading
<1> QED BY <1>1, <1>2, <1>3 DEF LoadNext

LEMMA NewsFacts ==
  ASSUME LoadInv, [LoadNext]_loadVars, NEW part \in News
  PROVE  Load /\ part = [path |-> current, from |-> Library]
<1>1. merged \in Seq(Parts)
  BY LoadingType DEF LoadInv, LoadingOK
<1>2. PICK i \in DOMAIN merged' : i > Len(merged) /\ part = merged'[i]
  BY DEF News
<1>3. Load
  <2>1. merged' # merged
    BY <1>1, <1>2
  <2>2. merged' # <<>>
    BY <1>2
  <2> QED BY <2>1, <2>2, NextMerged
<1>4. merged' = Append(merged, [path |-> current, from |-> Library])
  BY <1>3 DEF Load
<1>5. i = Len(merged) + 1 /\ Len(merged) \in Nat
  <2>1. [path |-> current, from |-> Library] \in Parts
    BY <1>3, LibraryFacts DEF Load
  <2>2. DOMAIN merged' = 1..(Len(merged) + 1)
    BY <1>1, <1>4, <2>1, AppendProperties
  <2> QED BY <1>1, <1>2, <2>2
<1> QED BY <1>1, <1>2, <1>3, <1>4, <1>5

LEMMA LoadedIsCurrent ==
  ASSUME NamesApart, LoadInv, NamesInv, [LoadNext]_loadVars, NEW part \in News
  PROVE  /\ part.from.dir = DirOf(part.path)
         /\ \/ part.from.source = source[DirOf(part.path)]
            \/ get_shared_library_path(part.path) \in unseen
         /\ command # "compile_commands" =>
              /\ header = program \/ unwritten
              /\ \/ part.from.header \in {program, project.own}
                 \/ unswept \/ unwritten
<1>1. Load /\ part = [path |-> current, from |-> Library]
  BY NewsFacts
<1>2. step = "load" /\ Loads
  BY <1>1 DEF Load
<1>3. part.path = current /\ part.from = Library
  BY <1>1
<1> DEFINE n == get_shared_library_path(current)
<1>4. n \in DOMAIN library /\ Library = library[n] /\ library[n] # Torn
  BY <1>2, LibraryFacts DEF Loads, Library
<1>5. Library.dir = DirOf(current)
  BY <1>4 DEF NamesInv
<1>6. <<DirOf(current), n>> \notin newer
  BY <1>2 DEF LoadInv, ReadyInv, needs_recompilation
<1> HIDE DEF n
<1>7. Library.source = source[DirOf(current)] \/ n \in unseen
  BY <1>4, <1>5, <1>6 DEF LoadInv, AgesInv
<1>8. ASSUME command # "compile_commands"
      PROVE  /\ header = program \/ unwritten
             /\ Library.header \in {program, project.own} \/ unswept \/ unwritten
  <2>1. command \in {"build", "lock"}
    BY <1>2, <1>8 DEF LoadInv, LoadTypeOK, Idle, Commands
  <2>2. header = program \/ unwritten
    BY <1>2, <2>1 DEF LoadInv, HeaderInv
  <2>3. header = program => header \in Headers
    BY DEF LoadInv, LoadTypeOK
  <2>4. header \in Headers /\ ~unswept => library[n].header \in {header, project.own}
    BY <1>4 DEF LoadInv, HeaderInv
  <2> QED BY <1>4, <2>2, <2>3, <2>4
<1> QED BY <1>3, <1>5, <1>7, <1>8 DEF n

\* Whatever is edited, upgraded, cleaned or killed, what is loaded of a directory is
\* what its build.cpp says now, unless that was saved while it was compiled or with an
\* older time, and build and lock have it in structures of this program or of the
\* project's own header, unless the header could not be written or libraries were left
\* when it changed.
THEOREM CurrentLoads == NamesApart /\ LoadInit /\ [][LoadNext]_loadVars => LoadsCurrent
<1>1. NamesApart /\ LoadInit => LoadInv /\ NamesInv
  BY LoadInitially, NamesInitially
<1>2. NamesApart /\ LoadInv /\ NamesInv /\ [LoadNext]_loadVars => LoadInv' /\ NamesInv'
  BY LoadStepKept, NamesStep
<1>3. NamesApart /\ LoadInv /\ NamesInv /\ [LoadNext]_loadVars =>
        [\A part \in News :
           /\ part.from.dir = DirOf(part.path)
           /\ \/ part.from.source = source[DirOf(part.path)]
              \/ get_shared_library_path(part.path) \in unseen
           /\ command # "compile_commands" =>
                /\ header = program \/ unwritten
                /\ \/ part.from.header \in {program, project.own}
                   \/ unswept \/ unwritten]_loadVars
  BY LoadedIsCurrent
<1>4. NamesApart => []NamesApart
  <2>1. NamesApart /\ [TRUE]_loadVars => NamesApart'
    BY DEF NamesApart
  <2> QED BY <2>1, PTL
<1> QED BY <1>1, <1>2, <1>3, <1>4, PTL DEF LoadsCurrent

(* Where the names of directories are single words names are apart *)

\* A component that is one word: it has no "_", ":" or "\".
Singles == {<<x>> : x \in {w \in Words : w.join = ""}}

OneWord(p) ==
  \A d \in DOMAIN p.dirs : \A i \in DOMAIN p.dirs[d].declares :
    p.dirs[d].declares[i].path \in Seq(Singles)

LEMMA Singleton ==
  ASSUME NEW S, NEW x \in S
  PROVE  <<x>> \in Seq(S) /\ Len(<<x>>) = 1 /\ <<x>>[1] = x
  OBVIOUS

LEMMA WordFacts ==
  ASSUME NEW c \in Singles
  PROVE  c \in Seq(Words) /\ Len(c) = 1 /\ c[1] \in Words /\ c = <<c[1]>>
<1>1. PICK x \in Words : c = <<x>> /\ x.join = ""
  BY DEF Singles
<1>2. <<x>> \in Seq(Words) /\ Len(<<x>>) = 1 /\ <<x>>[1] = x
  BY Singleton
<1> QED BY <1>1, <1>2

\* A single word is told by its text.
LEMMA SingleWord ==
  ASSUME NEW x, <<x>> \in Singles
  PROVE  x = [join |-> "", text |-> x.text]
<1>1. PICK y \in Words : <<x>> = <<y>> /\ y.join = ""
  BY DEF Singles
<1>2. x = y
  BY <1>1
<1>3. x \in [join : STRING, text : STRING] /\ x.join = ""
  BY <1>1, <1>2 DEF Words
<1> QED BY <1>3

\* The name of a path of such components is the sequence of their words.
LEMMA FlatWords ==
  ASSUME NEW v \in Seq(Singles), v # <<>>
  PROVE  /\ FlattenSeq(v) \in Seq(Words) /\ Len(FlattenSeq(v)) = Len(v)
         /\ \A k \in 1..Len(v) : v[k] = <<FlattenSeq(v)[k]>>
<1> DEFINE n == Len(v)
           h == [i \in 1..n |-> [k \in 1..i |-> v[k][1]]]
           Is(g) == g = [i \in 1..n |-> IF i = 1 THEN v[i] ELSE g[i - 1] \o v[i]]
           f == CHOOSE g : Is(g)
<1>1. n \in Nat \ {0} /\ \A k \in 1..n : v[k] \in Singles
  OBVIOUS
<1>2. FlattenSeq(v) = f[n]
  <2>1. Len(v) # 0
    BY <1>1
  <2> QED BY <2>1 DEF FlattenSeq
<1> HIDE DEF n
<1>3. ASSUME NEW i \in 1..n
      PROVE  /\ h[i] \in Seq(Words) /\ Len(h[i]) = i
             /\ \A k \in 1..i : h[i][k] = v[k][1]
  <2>1. \A k \in 1..i : v[k][1] \in Words
    BY <1>1, WordFacts
  <2>2. h[i] \in [1..i -> Words] /\ i \in Nat
    BY <1>1, <2>1
  <2> QED BY <2>2
<1>4. h[1] = v[1]
  <2>1. 1 \in 1..n /\ v[1] \in Seq(Words) /\ Len(v[1]) = 1
    BY <1>1, WordFacts
  <2>2. h[1] \in Seq(Words) /\ Len(h[1]) = 1 /\ \A k \in 1..1 : h[1][k] = v[k][1]
    BY <1>3, <2>1
  <2> HIDE DEF h
  <2> QED BY <2>1, <2>2, SeqEqual
<1>5. ASSUME NEW i \in 1..n, i # 1 PROVE h[i] = h[i - 1] \o v[i]
  <2>1. i - 1 \in 1..n /\ v[i] \in Seq(Words) /\ Len(v[i]) = 1 /\ i \in Nat
    BY <1>1, <1>5, WordFacts
  <2>2. /\ h[i] \in Seq(Words) /\ Len(h[i]) = i /\ \A k \in 1..i : h[i][k] = v[k][1]
        /\ h[i - 1] \in Seq(Words) /\ Len(h[i - 1]) = i - 1
        /\ \A k \in 1..(i - 1) : h[i - 1][k] = v[k][1]
    BY <1>3, <2>1
  <2> HIDE DEF h
  <2> DEFINE c == h[i - 1] \o v[i]
  <2>3. /\ c \in Seq(Words) /\ Len(c) = i
        /\ \A k \in 1..i : c[k] = IF k <= i - 1 THEN h[i - 1][k] ELSE v[i][k - (i - 1)]
    <3>1. /\ c \in Seq(Words) /\ Len(c) = Len(h[i - 1]) + Len(v[i])
          /\ \A k \in 1..(Len(h[i - 1]) + Len(v[i])) :
               c[k] = IF k <= Len(h[i - 1]) THEN h[i - 1][k] ELSE v[i][k - Len(h[i - 1])]
      BY <2>1, <2>2, ConcatProperties
    <3>2. Len(h[i - 1]) + Len(v[i]) = i /\ Len(h[i - 1]) = i - 1
      BY <2>1, <2>2
    <3> HIDE DEF c
    <3> QED BY <3>1, <3>2
  <2>4. \A k \in 1..i : c[k] = h[i][k]
    <3> SUFFICES ASSUME NEW k \in 1..i PROVE c[k] = h[i][k]
      OBVIOUS
    <3>1. CASE k <= i - 1
      <4>1. k \in 1..(i - 1)
        BY <2>1, <3>1
      <4> QED BY <2>2, <2>3, <3>1, <4>1
    <3>2. CASE ~(k <= i - 1)
      <4>1. k = i /\ k - (i - 1) = 1
        BY <2>1, <3>2
      <4> QED BY <2>2, <2>3, <3>2, <4>1
    <3> QED BY <3>1, <3>2
  <2> HIDE DEF c
  <2>5. c = h[i]
    BY <2>2, <2>3, <2>4, SeqEqual
  <2> QED BY <2>5 DEF c
<1>6. Is(h)
  <2>1. \A i \in 1..n : h[i] = IF i = 1 THEN v[i] ELSE h[i - 1] \o v[i]
    <3> HIDE DEF h
    <3> QED BY <1>4, <1>5
  <2>2. h = [i \in 1..n |-> h[i]]
    OBVIOUS
  <2> HIDE DEF h
  <2> QED BY <2>1, <2>2
<1>7. Is(f)
  <2> HIDE DEF h, Is
  <2> QED BY <1>6
<1>8. \A i \in 1..n : f[i] = IF i = 1 THEN v[i] ELSE f[i - 1] \o v[i]
  <2> HIDE DEF f
  <2> QED BY <1>7
<1> DEFINE T == {k \in Nat : k \in 1..n => f[k] = h[k]}
<1> HIDE DEF f, h
<1>9. 0 \in T
  OBVIOUS
<1>10. ASSUME NEW k \in Nat, k \in T PROVE k + 1 \in T
  <2> SUFFICES ASSUME k + 1 \in 1..n PROVE f[k + 1] = h[k + 1]
    OBVIOUS
  <2>1. CASE k = 0
    BY <1>4, <1>8, <2>1
  <2>2. CASE k # 0
    <3>1. k \in 1..n /\ (k + 1) - 1 = k /\ k + 1 # 1
      BY <1>1, <2>2
    <3>2. f[k] = h[k]
      BY <1>10, <3>1
    <3>3. f[k + 1] = f[k] \o v[k + 1]
      BY <1>8, <3>1
    <3>4. h[k + 1] = h[k] \o v[k + 1]
      BY <1>5, <3>1
    <3> QED BY <3>2, <3>3, <3>4
  <2> QED BY <2>1, <2>2
<1> HIDE DEF T
<1>11. \A k \in Nat : k \in T
  BY <1>9, <1>10, EveryNumber
<1>12. n \in 1..n /\ n \in Nat
  BY <1>1
<1>13. f[n] = h[n]
  BY <1>11, <1>12 DEF T
<1>14. \A k \in 1..n : v[k] = <<v[k][1]>>
  BY <1>1, WordFacts
<1> QED BY <1>2, <1>3, <1>12, <1>13, <1>14 DEF n

LEMMA OneWordApart == ASSUME NEW p, OneWord(p) PROVE Apart(p, Seq(Singles))
<1> DEFINE W == Seq(Singles)
<1>1. W \subseteq Paths
  <2>1. Singles \subseteq Seq(Words)
    BY WordFacts
  <2> QED BY <2>1 DEF Paths
<1>2. <<>> \in W
  OBVIOUS
<1>3. ASSUME NEW w \in W, DirOf(w) \in DOMAIN p.dirs,
             NEW i \in DOMAIN p.dirs[DirOf(w)].declares
      PROVE  w \o p.dirs[DirOf(w)].declares[i].path \in W
  BY <1>3, ConcatProperties DEF OneWord
<1>4. ASSUME NEW v \in W, NEW w \in W, get_shared_library_path(v) = get_shared_library_path(w)
      PROVE  v = w
  <2>1. /\ DOMAIN FlattenSeq(v) = DOMAIN FlattenSeq(w)
        /\ \A k \in DOMAIN FlattenSeq(v) : FlattenSeq(v)[k].text = FlattenSeq(w)[k].text
    BY <1>4 DEF get_shared_library_path
  <2>2. ASSUME NEW s \in W, s = <<>> PROVE DOMAIN FlattenSeq(s) = {}
    <3>1. Len(s) = 0
      BY <2>2
    <3> QED BY <3>1 DEF FlattenSeq
  <2>3. ASSUME NEW s \in W, s # <<>>
        PROVE  /\ DOMAIN FlattenSeq(s) = 1..Len(s) /\ Len(s) \in Nat \ {0}
               /\ \A k \in 1..Len(s) : s[k] = <<FlattenSeq(s)[k]>>
                                        /\ FlattenSeq(s)[k] = [join |-> "", text |-> FlattenSeq(s)[k].text]
    <3>1. /\ FlattenSeq(s) \in Seq(Words) /\ Len(FlattenSeq(s)) = Len(s)
          /\ \A k \in 1..Len(s) : s[k] = <<FlattenSeq(s)[k]>>
      BY <2>3, FlatWords
    <3>2. Len(s) \in Nat \ {0} /\ \A k \in 1..Len(s) : s[k] \in Singles
      BY <2>3
    <3> HIDE DEF W
    <3>3. ASSUME NEW k \in 1..Len(s)
          PROVE  FlattenSeq(s)[k] = [join |-> "", text |-> FlattenSeq(s)[k].text]
      <4>1. <<FlattenSeq(s)[k]>> \in Singles
        BY <3>1, <3>2
      <4> QED BY <4>1, SingleWord
    <3>4. FlattenSeq(s) \in Seq(Words) => DOMAIN FlattenSeq(s) = 1..Len(FlattenSeq(s))
      OBVIOUS
    <3> QED BY <3>1, <3>2, <3>3, <3>4
  <2> DEFINE F == FlattenSeq(v)
             G == FlattenSeq(w)
  <2>4. CASE v = <<>> \/ w = <<>>
    <3>1. \A s \in W : s # <<>> => 1 \in DOMAIN FlattenSeq(s)
      <4> SUFFICES ASSUME NEW s \in W, s # <<>> PROVE 1 \in DOMAIN FlattenSeq(s)
        OBVIOUS
      <4>1. DOMAIN FlattenSeq(s) = 1..Len(s) /\ Len(s) \in Nat \ {0}
        BY <2>3
      <4> QED BY <4>1
    <3> HIDE DEF W
    <3>2. v = <<>> => DOMAIN F = {}
      BY <2>2
    <3>3. w = <<>> => DOMAIN G = {}
      BY <2>2
    <3> QED BY <2>1, <2>4, <3>1, <3>2, <3>3
  <2>5. CASE v # <<>> /\ w # <<>>
    <3>1. /\ DOMAIN F = 1..Len(v) /\ Len(v) \in Nat \ {0}
          /\ \A k \in 1..Len(v) : v[k] = <<F[k]>> /\ F[k] = [join |-> "", text |-> F[k].text]
      BY <2>3, <2>5
    <3>2. /\ DOMAIN G = 1..Len(w) /\ Len(w) \in Nat \ {0}
          /\ \A k \in 1..Len(w) : w[k] = <<G[k]>> /\ G[k] = [join |-> "", text |-> G[k].text]
      BY <2>3, <2>5
    <3>3. DOMAIN F = DOMAIN G /\ \A k \in DOMAIN F : F[k].text = G[k].text
      BY <2>1
    <3> HIDE DEF F, G, W
    <3>4. 1..Len(v) = 1..Len(w)
      BY <3>1, <3>2, <3>3
    <3> DEFINE m == Len(v)
               n == Len(w)
    <3>5. m \in Nat \ {0} /\ n \in Nat \ {0} /\ 1..m = 1..n
      BY <3>1, <3>2, <3>4
    <3> HIDE DEF m, n
    <3>6. m = n
      BY <3>5
    <3>7. ASSUME NEW k \in 1..m PROVE v[k] = w[k]
      <4>1. F[k] = G[k]
        BY <3>1, <3>2, <3>3, <3>6, <3>7 DEF m, n
      <4> QED BY <3>1, <3>2, <3>6, <3>7, <4>1 DEF m, n
    <3>8. v \in Seq(Singles) /\ w \in Seq(Singles)
      BY DEF W
    <3> QED BY <3>6, <3>7, <3>8, SeqEqual DEF m, n
  <2> QED BY <2>4, <2>5
<1>5. \A v, w \in W : get_shared_library_path(v) = get_shared_library_path(w) => DirOf(v) = DirOf(w)
  <2> HIDE DEF W
  <2> QED BY <1>4
<1> HIDE DEF W
<1>6. Apart(p, W)
  BY <1>1, <1>2, <1>3, <1>5 DEF Apart
<1> QED BY <1>6 DEF W

\* Where no directory of a subproject has an underscore, a colon or a backslash in its
\* name, what is loaded is current, with the exceptions of LoadsCurrent.
THEOREM CurrentWithPlainNames ==
  (\A p \in Projects : OneWord(p)) /\ LoadSpec => LoadsCurrent
<1>1. (\A p \in Projects : OneWord(p)) => NamesApart
  BY OneWordApart DEF NamesApart
<1> QED BY <1>1, CurrentLoads, PTL DEF LoadSpec

------------------------------------------------------------------------------
(* The tree of subprojects *)

Chain == Seq(Nat)

\* A chain and its last declaration.
LEMMA ChainFacts ==
  ASSUME NEW c \in Chain
  PROVE  /\ Len(c) \in Nat /\ (c = <<>> <=> Len(c) = 0)
         /\ c # <<>> => /\ Front(c) \in Chain /\ Last(c) \in Nat /\ Len(Front(c)) = Len(c) - 1
                        /\ Last(c) = c[Len(c)] /\ Front(c) = SubSeq(c, 1, Len(c) - 1)
<1>1. Len(c) \in Nat /\ (c = <<>> <=> Len(c) = 0)
  BY DEF Chain
<1>2. ASSUME c # <<>>
      PROVE  /\ Front(c) \in Chain /\ Last(c) \in Nat /\ Len(Front(c)) = Len(c) - 1
             /\ Last(c) = c[Len(c)]
  BY <1>2, PopFacts DEF Chain
<1> QED BY <1>1, <1>2 DEF Front

\* A chain with one more declaration.
LEMMA Longer ==
  ASSUME NEW c \in Chain, NEW i \in Nat
  PROVE  /\ Append(c, i) \in Chain /\ Append(c, i) # <<>> /\ Len(Append(c, i)) = Len(c) + 1
         /\ Front(Append(c, i)) = c /\ Last(Append(c, i)) = i
         /\ \A k \in 1..Len(c) : Append(c, i)[k] = c[k]
         /\ Append(c, i)[Len(c) + 1] = i
<1> DEFINE more == Append(c, i)
<1>1. /\ more \in Chain /\ Len(more) = Len(c) + 1 /\ Len(c) \in Nat
      /\ \A k \in 1..Len(c) : more[k] = c[k] /\ more[Len(c) + 1] = i
  BY AppendProperties DEF Chain
<1>2. more[Len(c) + 1] = i
  BY AppendProperties DEF Chain
<1> HIDE DEF more
<1>3. Len(more) # 0 /\ more # <<>>
  BY <1>1
<1>4. /\ Front(more) \in Seq(Nat) /\ Len(Front(more)) = Len(c) /\ Last(more) = i
      /\ \A k \in 1..Len(c) : Front(more)[k] = more[k]
  <2>1. /\ Front(more) \in Seq(Nat) /\ Len(Front(more)) = Len(more) - 1 /\ Last(more) = more[Len(more)]
        /\ \A k \in 1..(Len(more) - 1) : Front(more)[k] = more[k]
    BY <1>1, <1>3, PopFacts DEF Chain
  <2>2. Len(more) - 1 = Len(c)
    BY <1>1
  <2> QED BY <1>1, <1>2, <2>1, <2>2
<1>5. c \in Seq(Nat) /\ Len(c) = Len(Front(more)) /\ \A k \in 1..Len(c) : c[k] = Front(more)[k]
  BY <1>1, <1>4 DEF Chain
<1>6. c = Front(more)
  BY <1>4, <1>5, SeqEqual
<1> QED BY <1>1, <1>2, <1>3, <1>4, <1>6 DEF more

\* A chain is its front and its last declaration.
LEMMA FrontAndLast ==
  ASSUME NEW c \in Chain, c # <<>>
  PROVE  c = Append(Front(c), Last(c))
<1>1. Front(c) \in Chain /\ Last(c) \in Nat /\ Len(Front(c)) = Len(c) - 1 /\ Last(c) = c[Len(c)]
      /\ Len(c) \in Nat \ {0}
  BY ChainFacts
<1>2. \A k \in 1..(Len(c) - 1) : Front(c)[k] = c[k]
  BY PopFacts DEF Chain
<1> DEFINE more == Append(Front(c), Last(c))
<1>3. /\ more \in Chain /\ Len(more) = Len(c)
      /\ \A k \in 1..(Len(c) - 1) : more[k] = c[k]
      /\ more[Len(c)] = c[Len(c)]
  <2>1. /\ more \in Chain /\ Len(more) = Len(Front(c)) + 1
        /\ \A k \in 1..Len(Front(c)) : more[k] = Front(c)[k]
        /\ more[Len(Front(c)) + 1] = Last(c)
    BY <1>1, Longer
  <2>2. Len(Front(c)) + 1 = Len(c)
    BY <1>1
  <2> HIDE DEF more
  <2> QED BY <1>1, <1>2, <2>1, <2>2
<1> HIDE DEF more
<1>4. \A k \in 1..Len(c) : more[k] = c[k]
  BY <1>1, <1>3
<1>5. more = c
  BY <1>3, <1>4, SeqEqual DEF Chain
<1> QED BY <1>5 DEF more

LEMMA DeclaresFacts ==
  ASSUME NEW p \in Projects, NEW w \in Paths
  PROVE  /\ Declares(p, w) \in Seq(Declarations)
         /\ DOMAIN Declares(p, w) \subseteq Nat
         /\ \A i : Below(p, w, i) \in Paths
<1>1. Declares(p, w) \in Seq(Declarations)
  BY ProjectsAssumption, EmptySeq DEF ProjectsAssumption, Declares
<1>2. DOMAIN Declares(p, w) \subseteq Nat
  BY <1>1
<1>3. ASSUME NEW i \in DOMAIN Declares(p, w) PROVE w \o Declares(p, w)[i].path \in Paths
  <2>1. Declares(p, w)[i] \in Declarations
    BY <1>1
  <2>2. Declares(p, w)[i].path \in Paths
    BY <2>1 DEF Declarations
  <2> QED BY <2>2, ConcatProperties DEF Paths
<1> QED BY <1>1, <1>2, <1>3 DEF Below

\* The recursion of PathsOf has a solution.
LEMMA PathsDefined ==
  ASSUME NEW p \in Projects
  PROVE  /\ PathsOf(p) \in [Chain -> Paths]
         /\ PathsOf(p)[<<>>] = <<>>
         /\ \A c \in Chain : c # <<>> =>
              PathsOf(p)[c] = Below(p, PathsOf(p)[Front(c)], Last(c))
<1> DEFINE D == [Chain -> Paths]
           Down(f, c) == IF c = <<>> THEN <<>> ELSE Below(p, f[Front(c)], Last(c))
           d == [c \in Chain |-> <<>>]
           G == [x \in Nat \X D |-> [c \in Chain |-> Down(x[2], c)]]
           Is(f) == f = [c \in Chain |-> Down(f, c)]
<1>1. <<>> \in Paths /\ <<>> \in Chain
  BY EmptySeq DEF Paths, Chain
<1>2. ASSUME NEW f \in D, NEW c \in Chain PROVE Down(f, c) \in Paths
  <2>1. CASE c = <<>>
    BY <1>1, <2>1
  <2>2. CASE c # <<>>
    <3>1. f[Front(c)] \in Paths
      BY <2>2, ChainFacts
    <3> QED BY <2>2, <3>1, DeclaresFacts
  <2> QED BY <2>1, <2>2
<1>3. d \in D
  BY <1>1
<1>4. G \in [Nat \X D -> D]
  <2> HIDE DEF Down
  <2>1. \A x \in Nat \X D : [c \in Chain |-> Down(x[2], c)] \in D
    BY <1>2
  <2> HIDE DEF D
  <2> QED BY <2>1
<1>5. PICK g : Iterates(g, D, d, G)
  <2> HIDE DEF D, d, G
  <2> QED BY <1>3, <1>4, IterationExists
<1> DEFINE F == [c \in Chain |-> g[Len(c)][c]]
<1>6. ASSUME NEW n \in Nat
      PROVE  g[n] \in D /\ g[n + 1] = [c \in Chain |-> Down(g[n], c)]
  <2> HIDE DEF Down, D
  <2>1. g[n] \in D /\ g[n + 1] = G[<<n + 1, g[n]>>] /\ n + 1 \in Nat
    <3> HIDE DEF G
    <3> QED BY <1>5 DEF Iterates
  <2> QED BY <2>1
<1>7. F \in D
  <2>1. ASSUME NEW c \in Chain PROVE g[Len(c)][c] \in Paths
    BY <1>6, ChainFacts
  <2> QED BY <2>1
<1>8. \A c \in Chain : F[c] = Down(F, c)
  <2> SUFFICES ASSUME NEW c \in Chain PROVE F[c] = Down(F, c)
    OBVIOUS
  <2>1. CASE c = <<>>
    <3>1. g[0] = d
      BY <1>5 DEF Iterates
    <3> QED BY <1>1, <2>1, <3>1
  <2>2. CASE c # <<>>
    <3>1. /\ Front(c) \in Chain /\ Len(Front(c)) = Len(c) - 1 /\ Len(c) - 1 \in Nat
          /\ (Len(c) - 1) + 1 = Len(c)
      BY <2>2, ChainFacts
    <3>2. g[Len(c)] = [x \in Chain |-> Down(g[Len(c) - 1], x)]
      BY <1>6, <3>1
    <3>3. F[Front(c)] = g[Len(c) - 1][Front(c)]
      BY <3>1
    <3>4. F[c] = Down(g[Len(c) - 1], c)
      BY <3>2
    <3> HIDE DEF F
    <3> QED BY <2>2, <3>3, <3>4
  <2> QED BY <2>1, <2>2
<1>9. Is(F)
  <2>1. F = [c \in Chain |-> F[c]]
    BY <1>7
  <2> HIDE DEF F, Down
  <2> QED BY <1>8, <2>1
<1>10. Is(PathsOf(p))
  <2>1. PathsOf(p) = CHOOSE f : Is(f)
    BY DEF PathsOf, Chain
  <2> HIDE DEF Is, F
  <2> QED BY <1>9, <2>1
<1> DEFINE way == PathsOf(p)
<1> HIDE DEF way
<1>11. \A c \in Chain : way[c] = Down(way, c)
  <2> HIDE DEF Down
  <2> QED BY <1>10 DEF way
<1>12. \A n \in Nat : \A c \in Chain : Len(c) = n => way[c] = F[c]
  <2> DEFINE T == {n \in Nat : \A c \in Chain : Len(c) = n => way[c] = F[c]}
  <2> HIDE DEF F
  <2>1. 0 \in T
    BY <1>8, <1>11, ChainFacts
  <2>2. ASSUME NEW n \in Nat, n \in T PROVE n + 1 \in T
    <3> SUFFICES ASSUME NEW c \in Chain, Len(c) = n + 1 PROVE way[c] = F[c]
      OBVIOUS
    <3>1. c # <<>> /\ Front(c) \in Chain /\ Len(Front(c)) = n
      BY ChainFacts
    <3>2. way[Front(c)] = F[Front(c)]
      BY <2>2, <3>1
    <3> QED BY <1>8, <1>11, <3>1, <3>2
  <2> HIDE DEF T
  <2>3. \A n \in Nat : n \in T
    BY <2>1, <2>2, EveryNumber
  <2> QED BY <2>3 DEF T
<1>13. \A c \in Chain : way[c] = F[c]
  <2> HIDE DEF F
  <2> QED BY <1>12, ChainFacts
<1>14. way \in D
  <2>1. way = [c \in Chain |-> Down(way, c)]
    BY <1>10 DEF way
  <2>2. way = [c \in Chain |-> way[c]]
    <3> HIDE DEF Down
    <3> QED BY <1>11, <2>1
  <2>3. \A c \in Chain : way[c] \in Paths
    <3> HIDE DEF F
    <3> QED BY <1>7, <1>13
  <2> QED BY <2>2, <2>3
<1> QED BY <1>1, <1>11, <1>14 DEF way

\* Where a chain leads to, and what is declared there.
LEMMA PathFacts ==
  ASSUME LoadInv
  PROVE  /\ \A c \in Chain : PathOf(c) \in Paths
         /\ <<>> \in Chain /\ PathOf(<<>>) = <<>> /\ SystemOf(<<>>) = "cppup"
         /\ \A c \in Chain : c # <<>> =>
              /\ PathOf(c) = Below(project, PathOf(Front(c)), Last(c))
              /\ SystemOf(c) = resolve_build_system(DeclaredAt(c), PathOf(c))
<1>1. project \in Projects
  BY DEF LoadInv, LoadTypeOK
<1>2. <<>> \in Chain
  BY EmptySeq DEF Chain
<1> QED BY <1>1, <1>2, PathsDefined DEF PathOf, SystemOf

LEMMA SameTree ==
  ASSUME project' = project, NEW c
  PROVE  /\ PathOf(c)' = PathOf(c) /\ DeclaredAt(c)' = DeclaredAt(c)
         /\ SystemOf(c)' = SystemOf(c) /\ IsChain(c)' = IsChain(c)
<1>1. \A x : PathOf(x)' = PathOf(x) /\ DeclaredAt(x)' = DeclaredAt(x)
  BY DEF PathOf, DeclaredAt
<1>2. \A x : SystemOf(x)' = SystemOf(x)
  BY <1>1 DEF SystemOf, resolve_build_system, infer_build_system, IsDirectory, Markers
<1> QED BY <1>1, <1>2 DEF IsChain

\* What a chain that is one has for its last declaration.
LEMMA ChainEnds ==
  ASSUME NEW c \in Chain, c # <<>>, IsChain(c)
  PROVE  /\ SystemOf(Front(c)) = "cppup"
         /\ Last(c) \in DOMAIN Declares(project, PathOf(Front(c)))
<1>1. Len(c) \in DOMAIN c /\ Last(c) = c[Len(c)] /\ Front(c) = SubSeq(c, 1, Len(c) - 1)
  BY ChainFacts DEF Chain
<1> QED BY <1>1 DEF IsChain

\* A declaration of a directory of cppup makes its chain longer.
LEMMA LongerChain ==
  ASSUME LoadInv, NEW c \in Chain, IsChain(c), SystemOf(c) = "cppup",
         NEW i \in DOMAIN Declares(project, PathOf(c))
  PROVE  /\ i \in Nat /\ Append(c, i) \in Chain /\ IsChain(Append(c, i))
<1>1. i \in Nat
  BY PathFacts, DeclaresFacts DEF LoadInv, LoadTypeOK
<1> DEFINE more == Append(c, i)
<1>2. /\ more \in Chain /\ more # <<>> /\ Len(more) = Len(c) + 1 /\ Front(more) = c
      /\ \A k \in 1..Len(c) : more[k] = c[k] /\ more[Len(c) + 1] = i
      /\ more[Len(c) + 1] = i /\ Len(c) \in Nat
  BY <1>1, Longer, ChainFacts
<1> HIDE DEF more
<1>3. c = SubSeq(more, 1, Len(c))
  <2>1. Front(more) = SubSeq(more, 1, Len(more) - 1) /\ Len(more) - 1 = Len(c)
    BY <1>2, ChainFacts
  <2> QED BY <1>2, <2>1
<1>4. DOMAIN more = 1..(Len(c) + 1) /\ DOMAIN c = 1..Len(c)
  BY <1>2 DEF Chain
<1>5. ASSUME NEW k \in 1..Len(c) PROVE SubSeq(more, 1, k - 1) = SubSeq(c, 1, k - 1)
  <2>1. /\ \A j \in 1..(k - 1) : more[j] \in Nat /\ c[j] \in Nat /\ more[j] = c[j]
        /\ 1 \in Int /\ k - 1 \in Int /\ k - 1 \in Nat
    BY <1>2 DEF Chain
  <2>2. /\ SubSeq(more, 1, k - 1) \in Seq(Nat) /\ SubSeq(c, 1, k - 1) \in Seq(Nat)
        /\ Len(SubSeq(more, 1, k - 1)) = k - 1 /\ Len(SubSeq(c, 1, k - 1)) = k - 1
        /\ \A j \in 1..(k - 1) : SubSeq(more, 1, k - 1)[j] = more[j] /\ SubSeq(c, 1, k - 1)[j] = c[j]
    BY <2>1
  <2> QED BY <2>1, <2>2, SeqEqual
<1>6. ASSUME NEW k \in DOMAIN more
      PROVE  /\ SystemOf(SubSeq(more, 1, k - 1)) = "cppup"
             /\ more[k] \in DOMAIN Declares(project, PathOf(SubSeq(more, 1, k - 1)))
  <2>1. CASE k \in 1..Len(c)
    BY <1>2, <1>4, <1>5, <2>1 DEF IsChain
  <2>2. CASE k = Len(c) + 1
    <3>1. k - 1 = Len(c)
      BY <1>2, <2>2
    <3> QED BY <1>2, <1>3, <2>2, <3>1
  <2> QED BY <1>2, <1>4, <2>1, <2>2
<1>7. IsChain(more)
  BY <1>6 DEF IsChain
<1> QED BY <1>1, <1>2, <1>7 DEF more

\* The beginnings of a chain that is one.
LEMMA Beginnings ==
  ASSUME NEW c \in Chain, IsChain(c), NEW k \in 0..(Len(c) - 1)
  PROVE  /\ SubSeq(c, 1, k) \in Chain /\ SystemOf(SubSeq(c, 1, k)) = "cppup"
         /\ c[k + 1] \in DOMAIN Declares(project, PathOf(SubSeq(c, 1, k)))
         /\ SubSeq(c, 1, k + 1) = Append(SubSeq(c, 1, k), c[k + 1])
<1>1. Len(c) \in Nat /\ k \in Nat /\ k + 1 \in DOMAIN c /\ (k + 1) - 1 = k
  BY DEF Chain
<1>2. /\ SystemOf(SubSeq(c, 1, k)) = "cppup"
      /\ c[k + 1] \in DOMAIN Declares(project, PathOf(SubSeq(c, 1, k)))
  BY <1>1 DEF IsChain
<1>3. \A j \in 1..(k + 1) : c[j] \in Nat
  BY <1>1 DEF Chain
<1> DEFINE s == SubSeq(c, 1, k)
           t == SubSeq(c, 1, k + 1)
<1>4. s \in Seq(Nat) /\ Len(s) = k /\ \A j \in 1..k : s[j] = c[j]
  BY <1>1, <1>3
<1>5. t \in Seq(Nat) /\ Len(t) = k + 1 /\ \A j \in 1..(k + 1) : t[j] = c[j]
  BY <1>1, <1>3
<1> HIDE DEF s, t
<1>6. /\ Append(s, c[k + 1]) \in Seq(Nat) /\ Len(Append(s, c[k + 1])) = k + 1
      /\ \A j \in 1..k : Append(s, c[k + 1])[j] = s[j]
      /\ Append(s, c[k + 1])[k + 1] = c[k + 1]
  <2>1. c[k + 1] \in Nat
    BY <1>1, <1>3
  <2> QED BY <1>4, <2>1, AppendProperties
<1>7. \A j \in 1..(k + 1) : t[j] = Append(s, c[k + 1])[j]
  <2> SUFFICES ASSUME NEW j \in 1..(k + 1) PROVE t[j] = Append(s, c[k + 1])[j]
    OBVIOUS
  <2>1. CASE j \in 1..k
    BY <1>4, <1>5, <1>6, <2>1
  <2>2. CASE j = k + 1
    BY <1>5, <1>6, <2>2
  <2>3. j \in 1..k \/ j = k + 1
    BY <1>1
  <2> QED BY <2>1, <2>2, <2>3
<1>8. t = Append(s, c[k + 1])
  BY <1>5, <1>6, <1>7, SeqEqual
<1> QED BY <1>2, <1>4, <1>8 DEF s, t, Chain

(* What a load has done and has yet to do is the tree: each merged part, each *)
(* directory handed on, each that waits, and the one being compiled, has a    *)
(* chain of its own, and the chains below those merged are all there.         *)
Places(s, kind) == {<<kind, i>> : i \in DOMAIN s}
Here            == <<"current", 0>>
Compiling       == step \in {"header", "write", "wipe", "compile", "compiler", "load"}
Slots ==
  Places(merged, "merged") \cup Places(external, "external") \cup Places(worklist, "worklist")
    \cup (IF Compiling THEN {Here} ELSE {})

\* Chains of their own.
Own(f, S) == f \in [S -> Chain] /\ \A s, t \in S : f[s] = f[t] => s = t

Among(c, f, S) == \E s \in S : f[s] = c

Labelled(f) ==
  /\ \A i \in DOMAIN merged :
       merged[i].path = PathOf(f[<<"merged", i>>]) /\ SystemOf(f[<<"merged", i>>]) = "cppup"
  /\ \A i \in DOMAIN external :
       external[i].path = PathOf(f[<<"external", i>>])
         /\ external[i].system = SystemOf(f[<<"external", i>>])
  /\ \A i \in DOMAIN worklist :
       /\ f[<<"worklist", i>>] # <<>>
       /\ worklist[i].parent = PathOf(Front(f[<<"worklist", i>>]))
       /\ worklist[i].declared = DeclaredAt(f[<<"worklist", i>>])
  /\ Compiling => current = PathOf(f[Here]) /\ SystemOf(f[Here]) = "cppup"

Rooted(f) ==
  \A s \in Slots :
    /\ IsChain(f[s]) /\ Len(f[s]) <= Len(merged)
    /\ f[s] = <<>> \/ \E i \in DOMAIN merged : Front(f[s]) = f[<<"merged", i>>]

Continued(f) ==
  /\ Among(<<>>, f, Slots)
  /\ \A i \in DOMAIN merged : \A k \in DOMAIN Declares(project, PathOf(f[<<"merged", i>>])) :
       Among(Append(f[<<"merged", i>>], k), f, Slots)

Covers(f) == Own(f, Slots) /\ Labelled(f) /\ Rooted(f) /\ Continued(f)

TreeInv ==
  /\ ~Idle => loaded = "none"
  /\ command = "compile_commands" =>
       step \in {"compile", "compiler", "load"} /\ merged = <<>> /\ external = <<>>
  /\ command \in {"build", "lock"} => \E f : Covers(f)
  /\ Idle /\ loaded = "ok" =>
       Len(merged) + Len(external) <= 1 \/ (worklist = <<>> /\ \E f : Covers(f))

\* A slot that changes its place keeps its chain.
Moved(f, S, from, to) == [s \in (S \ {from}) \cup {to} |-> IF s = to THEN f[from] ELSE f[s]]

LEMMA MovedFacts ==
  ASSUME NEW S, NEW f, Own(f, S), NEW from \in S, NEW to, to \notin S
  PROVE  /\ Own(Moved(f, S, from, to), (S \ {from}) \cup {to})
         /\ Moved(f, S, from, to)[to] = f[from]
         /\ \A s \in S \ {from} : Moved(f, S, from, to)[s] = f[s]
         /\ \A c : Among(c, Moved(f, S, from, to), (S \ {from}) \cup {to}) <=> Among(c, f, S)
<1> DEFINE T == (S \ {from}) \cup {to}
           g == Moved(f, S, from, to)
<1>1. f \in [S -> Chain] /\ \A s, t \in S : f[s] = f[t] => s = t
  BY DEF Own
<1>2. g = [s \in T |-> IF s = to THEN f[from] ELSE f[s]]
  BY DEF Moved
<1> HIDE DEF g
<1>3. g[to] = f[from] /\ \A s \in S \ {from} : g[s] = f[s]
  BY <1>2
<1>4. g \in [T -> Chain]
  BY <1>1, <1>2
<1>5. \A s, t \in T : g[s] = g[t] => s = t
  BY <1>1, <1>3
<1>6. \A c : Among(c, g, T) <=> Among(c, f, S)
  <2>1. ASSUME NEW c, NEW t \in T, g[t] = c PROVE \E s \in S : f[s] = c
    BY <1>3, <2>1
  <2>2. ASSUME NEW c, NEW s \in S, f[s] = c PROVE \E t \in T : g[t] = c
    BY <1>3, <2>2
  <2> QED BY <2>1, <2>2 DEF Among
<1>7. Own(g, T)
  BY <1>4, <1>5 DEF Own
<1> HIDE DEF T
<1> QED BY <1>3, <1>6, <1>7 DEF g, T

\* While nothing is merged, handed on or put on the worklist the tree is the same.
LEMMA SameSlots ==
  ASSUME UNCHANGED <<project, current, worklist, merged, external>>, Compiling' = Compiling,
         NEW f, Covers(f)
  PROVE  Covers(f)'
<1>1. project' = project /\ merged' = merged /\ external' = external
      /\ worklist' = worklist /\ current' = current
  OBVIOUS
<1>2. Slots' = Slots
  BY <1>1 DEF Slots, Places
<1>3. \A c : /\ PathOf(c)' = PathOf(c) /\ DeclaredAt(c)' = DeclaredAt(c)
             /\ SystemOf(c)' = SystemOf(c) /\ IsChain(c)' = IsChain(c)
  BY <1>1, SameTree
<1>4. Own(f, Slots)' /\ (\A c : Among(c, f, Slots)' <=> Among(c, f, Slots))
  BY <1>2 DEF Covers, Own, Among
<1>5. Labelled(f)'
  BY <1>1, <1>3 DEF Covers, Labelled
<1>6. Rooted(f)'
  BY <1>1, <1>2, <1>3 DEF Covers, Rooted
<1>7. Continued(f)'
  BY <1>1, <1>3, <1>4 DEF Covers, Continued
<1> QED BY <1>4, <1>5, <1>6, <1>7 DEF Covers

LEMMA SlotFacts ==
  ASSUME LoadInv
  PROVE  /\ DOMAIN merged = 1..Len(merged) /\ Len(merged) \in Nat
         /\ DOMAIN external = 1..Len(external) /\ Len(external) \in Nat
         /\ DOMAIN worklist = 1..Len(worklist) /\ Len(worklist) \in Nat
         /\ \A i \in DOMAIN merged : <<"merged", i>> \in Slots
         /\ \A i \in DOMAIN external : <<"external", i>> \in Slots
         /\ \A i \in DOMAIN worklist : <<"worklist", i>> \in Slots
         /\ \A i : i \notin DOMAIN merged => <<"merged", i>> \notin Slots
         /\ \A i : i \notin DOMAIN external => <<"external", i>> \notin Slots
         /\ \A i : i \notin DOMAIN worklist => <<"worklist", i>> \notin Slots
         /\ Compiling <=> Here \in Slots
<1>1. /\ merged \in Seq(Parts) /\ external \in Seq(Handed) /\ worklist \in Seq(Pendings)
  BY LoadingType DEF LoadInv, LoadingOK
<1>2. /\ DOMAIN merged = 1..Len(merged) /\ Len(merged) \in Nat
      /\ DOMAIN external = 1..Len(external) /\ Len(external) \in Nat
      /\ DOMAIN worklist = 1..Len(worklist) /\ Len(worklist) \in Nat
  BY <1>1
<1>3. /\ \A i \in DOMAIN merged : <<"merged", i>> \in Slots
      /\ \A i \in DOMAIN external : <<"external", i>> \in Slots
      /\ \A i \in DOMAIN worklist : <<"worklist", i>> \in Slots
  BY DEF Slots, Places
<1>4. /\ \A i : i \notin DOMAIN merged => <<"merged", i>> \notin Slots
      /\ \A i : i \notin DOMAIN external => <<"external", i>> \notin Slots
      /\ \A i : i \notin DOMAIN worklist => <<"worklist", i>> \notin Slots
  BY DEF Slots, Places, Here
<1>5. Compiling <=> Here \in Slots
  BY DEF Slots, Places, Here
<1> QED BY <1>2, <1>3, <1>4, <1>5

\* The last of the worklist is the end of its chain.
LEMMA PoppedChain ==
  ASSUME LoadInv, worklist # <<>>, NEW f, Covers(f), NEW c, c = f[<<"worklist", Len(worklist)>>]
  PROVE  /\ Len(worklist) \in DOMAIN worklist
         /\ <<"worklist", Len(worklist)>> \in Slots
         /\ c \in Chain /\ c # <<>>
         /\ PoppedPath = PathOf(c) /\ System = SystemOf(c)
         /\ DOMAIN Front(worklist) = DOMAIN worklist \ {Len(worklist)}
         /\ \A i \in DOMAIN Front(worklist) : Front(worklist)[i] = worklist[i]
<1> DEFINE n == Len(worklist)
<1>1. /\ n \in DOMAIN worklist /\ Popped = worklist[n]
      /\ DOMAIN Front(worklist) = DOMAIN worklist \ {n}
      /\ \A i \in DOMAIN Front(worklist) : Front(worklist)[i] = worklist[i]
  <2>1. /\ Front(worklist) \in Seq(Pendings) /\ n \in Nat \ {0} /\ Len(Front(worklist)) = n - 1
        /\ \A i \in 1..Len(Front(worklist)) : Front(worklist)[i] = worklist[i]
        /\ Popped = worklist[n]
    BY WorklistFacts
  <2>2. DOMAIN Front(worklist) = 1..(n - 1) /\ DOMAIN worklist = 1..n
    BY <2>1, SlotFacts
  <2>3. n \in 1..n /\ 1..(n - 1) = (1..n) \ {n}
    BY <2>1
  <2> QED BY <2>1, <2>2, <2>3
<1>2. <<"worklist", n>> \in Slots
  BY <1>1, SlotFacts
<1>3. /\ c \in Chain /\ c # <<>> /\ IsChain(c)
      /\ Popped.parent = PathOf(Front(c)) /\ Popped.declared = DeclaredAt(c)
  BY <1>1, <1>2 DEF Covers, Own, Labelled, Rooted
<1>4. Last(c) \in DOMAIN Declares(project, PathOf(Front(c)))
  BY <1>3, ChainEnds
<1>5. PoppedPath = PathOf(c)
  <2>1. DeclaredAt(c) = Declares(project, PathOf(Front(c)))[Last(c)]
    BY DEF DeclaredAt
  <2>2. PathOf(c) = PathOf(Front(c)) \o DeclaredAt(c).path
    BY <1>3, <1>4, <2>1, PathFacts DEF Below
  <2> QED BY <1>3, <2>2 DEF PoppedPath
<1>6. System = SystemOf(c)
  BY <1>3, <1>5, PathFacts DEF System
<1> QED BY <1>1, <1>2, <1>3, <1>5, <1>6

LEMMA EnterTree ==
  ASSUME LoadInv, Enter, NEW f, Covers(f)
  PROVE  \E g : Covers(g)'
<1> DEFINE w == <<"worklist", Len(worklist)>>
<1>1. /\ step = "next" /\ worklist # <<>> /\ System = "cppup"
      /\ worklist' = Front(worklist) /\ current' = PoppedPath /\ step' = "compile"
      /\ project' = project /\ merged' = merged /\ external' = external
  BY DEF Enter, disk
<1>2. PICK c : c = f[w]
  OBVIOUS
<1>3. /\ Len(worklist) \in DOMAIN worklist /\ w \in Slots
      /\ c \in Chain /\ c # <<>> /\ PoppedPath = PathOf(c) /\ System = SystemOf(c)
      /\ DOMAIN Front(worklist) = DOMAIN worklist \ {Len(worklist)}
      /\ \A i \in DOMAIN Front(worklist) : Front(worklist)[i] = worklist[i]
  BY <1>1, <1>2, PoppedChain
<1>4. Here \notin Slots /\ ~Compiling /\ Compiling'
  BY <1>1, SlotFacts DEF Compiling
<1>5. Slots' = (Slots \ {w}) \cup {Here}
  <2>1. Places(worklist', "worklist") = Places(worklist, "worklist") \ {w}
    BY <1>1, <1>3 DEF Places
  <2>2. /\ w \notin Places(merged, "merged") /\ w \notin Places(external, "external")
        /\ Places(merged', "merged") = Places(merged, "merged")
        /\ Places(external', "external") = Places(external, "external")
    BY <1>1 DEF Places
  <2> HIDE DEF w
  <2> QED BY <1>4, <2>1, <2>2 DEF Slots
<1>6. PICK g : g = Moved(f, Slots, w, Here)
  OBVIOUS
<1>7. /\ Own(g, (Slots \ {w}) \cup {Here}) /\ g[Here] = c
      /\ \A s \in Slots \ {w} : g[s] = f[s]
      /\ \A x : Among(x, g, (Slots \ {w}) \cup {Here}) <=> Among(x, f, Slots)
  <2>1. Own(f, Slots)
    BY DEF Covers
  <2> HIDE DEF w
  <2>2. /\ Own(Moved(f, Slots, w, Here), (Slots \ {w}) \cup {Here})
        /\ Moved(f, Slots, w, Here)[Here] = f[w]
        /\ \A s \in Slots \ {w} : Moved(f, Slots, w, Here)[s] = f[s]
        /\ \A x : Among(x, Moved(f, Slots, w, Here), (Slots \ {w}) \cup {Here}) <=> Among(x, f, Slots)
    BY <1>3, <1>4, <2>1, MovedFacts
  <2> QED BY <1>2, <1>6, <2>2
<1>8. /\ \A i \in DOMAIN merged : g[<<"merged", i>>] = f[<<"merged", i>>]
      /\ \A i \in DOMAIN external : g[<<"external", i>>] = f[<<"external", i>>]
      /\ \A i \in DOMAIN Front(worklist) :
           i \in DOMAIN worklist /\ g[<<"worklist", i>>] = f[<<"worklist", i>>]
  BY <1>3, <1>7, SlotFacts
<1>9. \A x : /\ PathOf(x)' = PathOf(x) /\ DeclaredAt(x)' = DeclaredAt(x)
             /\ SystemOf(x)' = SystemOf(x) /\ IsChain(x)' = IsChain(x)
  BY <1>1, SameTree
<1>10. Labelled(g)'
  <2>1. Labelled(f)
    BY DEF Covers
  <2> QED BY <1>1, <1>3, <1>7, <1>8, <1>9, <2>1 DEF Labelled
<1>11. Rooted(g)'
  <2>1. ASSUME NEW s \in Slots
        PROVE  /\ IsChain(f[s]) /\ Len(f[s]) <= Len(merged)
               /\ f[s] = <<>> \/ \E i \in DOMAIN merged : Front(f[s]) = g[<<"merged", i>>]
    BY <1>8 DEF Covers, Rooted
  <2>2. ASSUME NEW t \in Slots' PROVE \E s \in Slots : g[t] = f[s]
    BY <1>2, <1>3, <1>5, <1>7
  <2> QED BY <1>1, <1>9, <2>1, <2>2 DEF Rooted
<1>12. Continued(g)'
  <2>1. \A x : Among(x, g, Slots)' <=> Among(x, f, Slots)
    BY <1>5, <1>7 DEF Among
  <2>2. Continued(f)
    BY DEF Covers
  <2> QED BY <1>1, <1>8, <1>9, <2>1, <2>2 DEF Continued
<1>13. Own(g, Slots)'
  BY <1>5, <1>7 DEF Own
<1> QED BY <1>10, <1>11, <1>12, <1>13 DEF Covers

LEMMA DelegateTree ==
  ASSUME LoadInv, Delegate, NEW f, Covers(f)
  PROVE  \E g : Covers(g)'
<1> DEFINE w == <<"worklist", Len(worklist)>>
           m == Len(external) + 1
           x == <<"external", m>>
<1>1. /\ step = "next" /\ worklist # <<>> /\ System # "cppup"
      /\ worklist' = Front(worklist) /\ step' = step
      /\ external' = Append(external, [path |-> PoppedPath, system |-> System])
      /\ project' = project /\ merged' = merged
  BY DEF Delegate, disk
<1>2. PICK c : c = f[w]
  OBVIOUS
<1>3. /\ Len(worklist) \in DOMAIN worklist /\ w \in Slots
      /\ c \in Chain /\ c # <<>> /\ PoppedPath = PathOf(c) /\ System = SystemOf(c)
      /\ DOMAIN Front(worklist) = DOMAIN worklist \ {Len(worklist)}
      /\ \A i \in DOMAIN Front(worklist) : Front(worklist)[i] = worklist[i]
  BY <1>1, <1>2, PoppedChain
<1>4. ~Compiling /\ ~Compiling'
  BY <1>1 DEF Compiling
<1>5. /\ DOMAIN external' = DOMAIN external \cup {m} /\ m \notin DOMAIN external
      /\ \A i \in DOMAIN external : external'[i] = external[i]
      /\ external'[m] = [path |-> PoppedPath, system |-> System]
  <2>1. external \in Seq(Handed)
    BY LoadingType DEF LoadInv, LoadingOK
  <2>2. /\ \A i \in 1..Len(external) : external'[i] = external[i]
        /\ external'[m] = [path |-> PoppedPath, system |-> System]
        /\ DOMAIN external' = 1..m /\ DOMAIN external = 1..Len(external) /\ Len(external) \in Nat
    BY <1>1, <2>1
  <2>3. 1..m = (1..Len(external)) \cup {m} /\ m \notin 1..Len(external)
    BY <2>2
  <2> QED BY <2>2, <2>3
<1>6. x \notin Slots
  BY <1>5, SlotFacts
<1>7. Slots' = (Slots \ {w}) \cup {x}
  <2>1. Places(worklist', "worklist") = Places(worklist, "worklist") \ {w}
    BY <1>1, <1>3 DEF Places
  <2>2. /\ w \notin Places(merged, "merged") /\ w \notin Places(external, "external")
        /\ Places(merged', "merged") = Places(merged, "merged")
    BY <1>1 DEF Places
  <2>3. Places(external', "external") = Places(external, "external") \cup {x}
    <3> HIDE DEF m
    <3> QED BY <1>5 DEF Places
  <2> HIDE DEF w, x
  <2> QED BY <1>4, <2>1, <2>2, <2>3 DEF Slots
<1> HIDE DEF m
<1>8. PICK g : g = Moved(f, Slots, w, x)
  OBVIOUS
<1>9. /\ Own(g, (Slots \ {w}) \cup {x}) /\ g[x] = c
      /\ \A s \in Slots \ {w} : g[s] = f[s]
      /\ \A y : Among(y, g, (Slots \ {w}) \cup {x}) <=> Among(y, f, Slots)
  <2>1. Own(f, Slots)
    BY DEF Covers
  <2> HIDE DEF w, x
  <2>2. /\ Own(Moved(f, Slots, w, x), (Slots \ {w}) \cup {x})
        /\ Moved(f, Slots, w, x)[x] = f[w]
        /\ \A s \in Slots \ {w} : Moved(f, Slots, w, x)[s] = f[s]
        /\ \A y : Among(y, Moved(f, Slots, w, x), (Slots \ {w}) \cup {x}) <=> Among(y, f, Slots)
    BY <1>3, <1>6, <2>1, MovedFacts
  <2> QED BY <1>2, <1>8, <2>2
<1>10. /\ \A i \in DOMAIN merged : g[<<"merged", i>>] = f[<<"merged", i>>]
       /\ \A i \in DOMAIN external : g[<<"external", i>>] = f[<<"external", i>>]
       /\ \A i \in DOMAIN Front(worklist) :
            i \in DOMAIN worklist /\ g[<<"worklist", i>>] = f[<<"worklist", i>>]
  BY <1>3, <1>9, SlotFacts
<1>11. \A y : /\ PathOf(y)' = PathOf(y) /\ DeclaredAt(y)' = DeclaredAt(y)
              /\ SystemOf(y)' = SystemOf(y) /\ IsChain(y)' = IsChain(y)
  BY <1>1, SameTree
<1>12. Labelled(g)'
  <2>1. Labelled(f)
    BY DEF Covers
  <2>2. ASSUME NEW i \in DOMAIN external'
        PROVE  /\ external'[i].path = PathOf(g[<<"external", i>>])
               /\ external'[i].system = SystemOf(g[<<"external", i>>])
    <3>1. CASE i \in DOMAIN external
      BY <1>5, <1>10, <2>1, <3>1 DEF Labelled
    <3>2. CASE i = m
      BY <1>3, <1>5, <1>9, <3>2
    <3> QED BY <1>5, <3>1, <3>2
  <2>3. /\ \A i \in DOMAIN merged' :
             merged'[i].path = PathOf(g[<<"merged", i>>]) /\ SystemOf(g[<<"merged", i>>]) = "cppup"
        /\ \A i \in DOMAIN worklist' :
             /\ g[<<"worklist", i>>] # <<>>
             /\ worklist'[i].parent = PathOf(Front(g[<<"worklist", i>>]))
             /\ worklist'[i].declared = DeclaredAt(g[<<"worklist", i>>])
    BY <1>1, <1>3, <1>10, <2>1 DEF Labelled
  <2> QED BY <1>4, <1>11, <2>2, <2>3 DEF Labelled
<1>13. Rooted(g)'
  <2>1. ASSUME NEW s \in Slots
        PROVE  /\ IsChain(f[s]) /\ Len(f[s]) <= Len(merged)
               /\ f[s] = <<>> \/ \E i \in DOMAIN merged : Front(f[s]) = g[<<"merged", i>>]
    BY <1>10 DEF Covers, Rooted
  <2>2. ASSUME NEW t \in Slots' PROVE \E s \in Slots : g[t] = f[s]
    <3> HIDE DEF w, x
    <3> QED BY <1>2, <1>3, <1>7, <1>9
  <2> QED BY <1>1, <1>11, <2>1, <2>2 DEF Rooted
<1>14. Continued(g)'
  <2>1. \A y : Among(y, g, Slots)' <=> Among(y, f, Slots)
    BY <1>7, <1>9 DEF Among
  <2>2. Continued(f)
    BY DEF Covers
  <2> QED BY <1>1, <1>10, <1>11, <2>1, <2>2 DEF Continued
<1>15. Own(g, Slots)'
  BY <1>7, <1>9 DEF Own
<1> QED BY <1>12, <1>13, <1>14, <1>15 DEF Covers

\* The chains of what a directory declares take places after the n-th of the worklist.
Waiting(n, l)       == {<<"worklist", n + i>> : i \in 1..l}
Added(f, S, c, n, l) ==
  [s \in S \cup Waiting(n, l) |-> IF s \in S THEN f[s] ELSE Append(c, s[2] - n)]

Fresh(f, S, c, n, l) ==
  \A i \in 1..l : <<"worklist", n + i>> \notin S /\ ~Among(Append(c, i), f, S)

\* g has the chains of f, and those of what c declares.
With(g, f, S, c, n, l) ==
  /\ Own(g, S \cup Waiting(n, l))
  /\ \A s \in S : g[s] = f[s]
  /\ \A i \in 1..l : g[<<"worklist", n + i>>] = Append(c, i)
  /\ \A x : Among(x, g, S \cup Waiting(n, l)) <=> Among(x, f, S) \/ \E i \in 1..l : x = Append(c, i)

LEMMA AddedFacts ==
  ASSUME NEW S, NEW f, Own(f, S), NEW c \in Chain, NEW n \in Nat, NEW l \in Nat,
         Fresh(f, S, c, n, l)
  PROVE  With(Added(f, S, c, n, l), f, S, c, n, l)
<1> DEFINE N == Waiting(n, l)
           T == S \cup N
           g == Added(f, S, c, n, l)
<1>1. f \in [S -> Chain] /\ \A s, t \in S : f[s] = f[t] => s = t
  BY DEF Own
<1>2. g = [s \in T |-> IF s \in S THEN f[s] ELSE Append(c, s[2] - n)]
  BY DEF Added
<1> HIDE DEF g
<1>3. ASSUME NEW t \in N PROVE \E i \in 1..l : t = <<"worklist", n + i>> /\ t \notin S
  BY <1>3 DEF Waiting, Fresh
<1>4. ASSUME NEW i \in 1..l
      PROVE  /\ <<"worklist", n + i>> \in N /\ g[<<"worklist", n + i>>] = Append(c, i)
             /\ Append(c, i) \in Chain /\ Last(Append(c, i)) = i
  <2>1. <<"worklist", n + i>> \in N /\ <<"worklist", n + i>> \notin S
    BY DEF Waiting, Fresh
  <2>2. <<"worklist", n + i>>[2] - n = i
    OBVIOUS
  <2>3. Append(c, i) \in Chain /\ Last(Append(c, i)) = i
    BY Longer
  <2> QED BY <1>2, <2>1, <2>2, <2>3
<1> HIDE DEF N
<1>5. \A s \in S : g[s] = f[s]
  BY <1>2
<1>6. g \in [T -> Chain]
  <2>1. \A t \in T : g[t] \in Chain
    <3>1. \A t \in S : g[t] \in Chain
      BY <1>1, <1>5
    <3>2. \A t \in N : g[t] \in Chain
      BY <1>3, <1>4
    <3> QED BY <3>1, <3>2
  <2>2. DOMAIN g = T /\ g = [t \in T |-> g[t]]
    BY <1>2
  <2> HIDE DEF T
  <2> QED BY <2>1, <2>2
<1>7. ASSUME NEW s \in S, NEW t \in N PROVE g[s] # g[t]
  <2>1. PICK i \in 1..l : t = <<"worklist", n + i>>
    BY <1>3
  <2>2. g[t] = Append(c, i) /\ g[s] = f[s]
    BY <1>4, <1>5, <2>1
  <2> QED BY <2>2 DEF Among, Fresh
<1>8. ASSUME NEW s \in N, NEW t \in N, g[s] = g[t] PROVE s = t
  <2>1. PICK i \in 1..l : s = <<"worklist", n + i>>
    BY <1>3
  <2>2. PICK j \in 1..l : t = <<"worklist", n + j>>
    BY <1>3
  <2>3. i = j
    BY <1>4, <1>8, <2>1, <2>2
  <2> QED BY <2>1, <2>2, <2>3
<1>9. \A s, t \in T : g[s] = g[t] => s = t
  BY <1>1, <1>5, <1>7, <1>8
<1>10. Own(g, T)
  BY <1>6, <1>9 DEF Own
<1>11. ASSUME NEW x PROVE Among(x, g, T) <=> Among(x, f, S) \/ \E i \in 1..l : x = Append(c, i)
  <2>1. ASSUME NEW t \in T, g[t] = x PROVE Among(x, f, S) \/ \E i \in 1..l : x = Append(c, i)
    <3>1. CASE t \in S
      BY <1>5, <2>1, <3>1 DEF Among
    <3>2. CASE t \in N
      <4>1. PICK i \in 1..l : t = <<"worklist", n + i>>
        BY <1>3, <3>2
      <4> QED BY <1>4, <2>1, <4>1
    <3> QED BY <2>1, <3>1, <3>2
  <2>2. ASSUME NEW s \in S, f[s] = x PROVE \E t \in T : g[t] = x
    BY <1>5, <2>2
  <2>3. ASSUME NEW i \in 1..l, x = Append(c, i) PROVE \E t \in T : g[t] = x
    BY <1>4, <2>3
  <2> QED BY <2>1, <2>2, <2>3 DEF Among
<1> QED BY <1>4, <1>5, <1>10, <1>11 DEF With, g, N

LEMMA LoadTree ==
  ASSUME LoadInv, Load, command # "compile_commands", NEW f, Covers(f)
  PROVE  \E g : Covers(g)'
<1> DEFINE m == Len(merged) + 1
           x == <<"merged", m>>
           n == Len(worklist)
           S == (Slots \ {Here}) \cup {x}
<1>1. /\ step = "load" /\ step' = "next" /\ Loads
      /\ merged' = Append(merged, [path |-> current, from |-> Library])
      /\ worklist' = worklist \o Pending(current) /\ external' = external
      /\ project' = project /\ HasBuildFile(current)
  BY DEF Load, disk, LoadInv, ReadyInv
<1>2. Compiling /\ ~Compiling' /\ Here \in Slots
  BY <1>1, SlotFacts DEF Compiling
<1>3. PICK c : c = f[Here]
  OBVIOUS
<1>4. /\ c \in Chain /\ IsChain(c) /\ Len(c) <= Len(merged) /\ Len(c) \in Nat
      /\ current = PathOf(c) /\ SystemOf(c) = "cppup"
  <2>1. c \in Chain /\ IsChain(c) /\ Len(c) <= Len(merged)
    BY <1>2, <1>3 DEF Covers, Own, Rooted
  <2>2. current = PathOf(c) /\ SystemOf(c) = "cppup"
    BY <1>2, <1>3 DEF Covers, Labelled
  <2> QED BY <2>1, <2>2, ChainFacts
<1>5. PICK l : l = Len(Declares(project, current))
  OBVIOUS
<1>6. /\ l \in Nat /\ n \in Nat /\ Pending(current) \in Seq(Pendings) /\ worklist \in Seq(Pendings)
      /\ Len(Pending(current)) = l /\ DOMAIN Declares(project, PathOf(c)) = 1..l
      /\ \A i \in 1..l : /\ Pending(current)[i].declared = Declares(project, PathOf(c))[i]
                         /\ Pending(current)[i].parent = current
  <2>1. /\ Pending(current) \in Seq(Pendings)
        /\ Len(Pending(current)) = Len(project.dirs[DirOf(current)].declares)
        /\ \A i \in 1..Len(Pending(current)) :
             /\ Pending(current)[i].declared = project.dirs[DirOf(current)].declares[i]
             /\ Pending(current)[i].parent = current
    BY <1>1, PendingFacts
  <2>2. Declares(project, current) = project.dirs[DirOf(current)].declares
    BY <1>1 DEF Declares, HasBuildFile, IsDirectory
  <2>3. Declares(project, current) \in Seq(Declarations)
    BY DeclaresFacts DEF LoadInv, LoadTypeOK
  <2>4. l \in Nat /\ DOMAIN Declares(project, current) = 1..l
    BY <1>5, <2>3
  <2>5. worklist \in Seq(Pendings)
    BY LoadingType DEF LoadInv, LoadingOK
  <2> QED BY <1>4, <1>5, <2>1, <2>2, <2>4, <2>5
<1>7. /\ DOMAIN merged' = DOMAIN merged \cup {m} /\ m \notin DOMAIN merged
      /\ \A i \in DOMAIN merged : merged'[i] = merged[i]
      /\ merged'[m].path = current /\ Len(merged') = m /\ Len(merged) \in Nat
  <2>1. merged \in Seq(Parts) /\ [path |-> current, from |-> Library] \in Parts
    BY <1>1, LibraryFacts
  <2>2. /\ \A i \in 1..Len(merged) : merged'[i] = merged[i]
        /\ merged'[m] = [path |-> current, from |-> Library] /\ Len(merged') = m
        /\ DOMAIN merged' = 1..m /\ DOMAIN merged = 1..Len(merged) /\ Len(merged) \in Nat
    BY <1>1, <2>1
  <2>3. 1..m = (1..Len(merged)) \cup {m} /\ m \notin 1..Len(merged)
    BY <2>2
  <2> QED BY <2>2, <2>3
<1>8. /\ DOMAIN worklist' = DOMAIN worklist \cup {n + i : i \in 1..l}
      /\ \A i \in 1..l : n + i \notin DOMAIN worklist
      /\ \A i \in DOMAIN worklist : worklist'[i] = worklist[i]
      /\ \A i \in 1..l : worklist'[n + i] = Pending(current)[i]
  <2>1. /\ worklist' \in Seq(Pendings) /\ Len(worklist') = n + l
        /\ \A i \in 1..(n + l) : worklist'[i] = IF i <= n THEN worklist[i]
                                                ELSE Pending(current)[i - n]
    BY <1>1, <1>6, ConcatProperties
  <2>2. DOMAIN worklist' = 1..(n + l) /\ DOMAIN worklist = 1..n
    BY <1>6, <2>1
  <2>3. /\ 1..(n + l) = (1..n) \cup {n + i : i \in 1..l}
        /\ \A i \in 1..l : n + i \notin 1..n /\ n + i \in 1..(n + l) /\ (n + i) - n = i /\ ~(n + i <= n)
        /\ \A i \in 1..n : i \in 1..(n + l) /\ i <= n
    <3> HIDE DEF n
    <3>1. ASSUME NEW j \in 1..(n + l), j \notin 1..n PROVE j \in {n + i : i \in 1..l}
      <4>1. j - n \in 1..l /\ n + (j - n) = j
        BY <1>6, <3>1
      <4> QED BY <4>1
    <3>2. \A i \in 1..l : n + i \in 1..(n + l) /\ n + i \notin 1..n /\ (n + i) - n = i /\ ~(n + i <= n)
      BY <1>6
    <3>3. \A i \in 1..n : i \in 1..(n + l) /\ i <= n
      BY <1>6
    <3> QED BY <3>1, <3>2, <3>3
  <2> HIDE DEF n
  <2> QED BY <2>1, <2>2, <2>3
<1>9. x \notin Slots
  BY <1>7, SlotFacts
<1> HIDE DEF m, n
<1>10. Slots' = S \cup Waiting(n, l)
  <2>1. Places(merged', "merged") = Places(merged, "merged") \cup {x}
    BY <1>7 DEF Places
  <2>2. Places(worklist', "worklist") = Places(worklist, "worklist") \cup Waiting(n, l)
    BY <1>8 DEF Places, Waiting
  <2>3. Places(external', "external") = Places(external, "external")
    BY <1>1 DEF Places
  <2>4. /\ Here \notin Places(merged, "merged") /\ Here \notin Places(external, "external")
        /\ Here \notin Places(worklist, "worklist")
    BY DEF Here, Places
  <2> HIDE DEF x
  <2> QED BY <1>2, <2>1, <2>2, <2>3, <2>4 DEF Slots
<1>11. PICK h : h = Moved(f, Slots, Here, x)
  OBVIOUS
<1>12. /\ Own(h, S) /\ h[x] = c
       /\ \A s \in Slots \ {Here} : h[s] = f[s]
       /\ \A y : Among(y, h, S) <=> Among(y, f, Slots)
  <2>1. Own(f, Slots)
    BY DEF Covers
  <2> HIDE DEF x
  <2>2. /\ Own(Moved(f, Slots, Here, x), (Slots \ {Here}) \cup {x})
        /\ Moved(f, Slots, Here, x)[x] = f[Here]
        /\ \A s \in Slots \ {Here} : Moved(f, Slots, Here, x)[s] = f[s]
        /\ \A y : Among(y, Moved(f, Slots, Here, x), (Slots \ {Here}) \cup {x}) <=> Among(y, f, Slots)
    BY <1>2, <1>9, <2>1, MovedFacts
  <2> QED BY <1>3, <1>11, <2>2
<1>13. /\ \A i \in DOMAIN merged : <<"merged", i>> \in S /\ h[<<"merged", i>>] = f[<<"merged", i>>]
       /\ \A i \in DOMAIN external :
            <<"external", i>> \in S /\ h[<<"external", i>>] = f[<<"external", i>>]
       /\ \A i \in DOMAIN worklist :
            <<"worklist", i>> \in S /\ h[<<"worklist", i>>] = f[<<"worklist", i>>]
       /\ x \in S
  BY <1>12, SlotFacts DEF Here
<1>14. ASSUME NEW i \in 1..l
       PROVE  /\ <<"worklist", n + i>> \notin S /\ ~Among(Append(c, i), h, S)
              /\ i \in Nat /\ Append(c, i) \in Chain /\ IsChain(Append(c, i))
              /\ Append(c, i) # <<>> /\ Front(Append(c, i)) = c /\ Last(Append(c, i)) = i
              /\ Len(Append(c, i)) = Len(c) + 1
  <2>1. <<"worklist", n + i>> \notin Slots
    BY <1>8, SlotFacts
  <2>2. i \in Nat /\ Append(c, i) \in Chain /\ IsChain(Append(c, i))
    BY <1>4, <1>6, LongerChain
  <2>3. /\ Append(c, i) # <<>> /\ Front(Append(c, i)) = c /\ Last(Append(c, i)) = i
        /\ Len(Append(c, i)) = Len(c) + 1
    BY <1>4, <2>2, Longer
  <2>4. ASSUME NEW s \in Slots, f[s] = Append(c, i) PROVE FALSE
    <3>1. PICK j \in DOMAIN merged : c = f[<<"merged", j>>]
      BY <2>3, <2>4 DEF Covers, Rooted
    <3>2. <<"merged", j>> \in Slots /\ <<"merged", j>> # Here
      BY SlotFacts DEF Here
    <3> QED BY <1>2, <1>3, <3>1, <3>2 DEF Covers, Own
  <2>5. ~Among(Append(c, i), h, S)
    BY <1>12, <2>4 DEF Among
  <2> QED BY <2>1, <2>2, <2>3, <2>5
<1>15. PICK g : g = Added(h, S, c, n, l)
  OBVIOUS
<1> HIDE DEF S
<1>16. /\ Own(g, S \cup Waiting(n, l))
       /\ \A s \in S : g[s] = h[s]
       /\ \A i \in 1..l : g[<<"worklist", n + i>>] = Append(c, i)
       /\ \A y : Among(y, g, S \cup Waiting(n, l)) <=>
                   Among(y, f, Slots) \/ \E i \in 1..l : y = Append(c, i)
  <2>1. With(Added(h, S, c, n, l), h, S, c, n, l)
    <3>1. Fresh(h, S, c, n, l)
      BY <1>14 DEF Fresh
    <3>2. Own(h, S) /\ c \in Chain /\ n \in Nat /\ l \in Nat
      BY <1>4, <1>6, <1>12
    <3> QED BY <3>1, <3>2, AddedFacts
  <2> QED BY <1>12, <1>15, <2>1 DEF With
<1>17. /\ \A i \in DOMAIN merged : g[<<"merged", i>>] = f[<<"merged", i>>]
       /\ \A i \in DOMAIN external : g[<<"external", i>>] = f[<<"external", i>>]
       /\ \A i \in DOMAIN worklist : g[<<"worklist", i>>] = f[<<"worklist", i>>]
       /\ g[x] = c
  BY <1>12, <1>13, <1>16
<1>18. \A y : /\ PathOf(y)' = PathOf(y) /\ DeclaredAt(y)' = DeclaredAt(y)
              /\ SystemOf(y)' = SystemOf(y) /\ IsChain(y)' = IsChain(y)
  BY <1>1, SameTree
<1>19. Labelled(g)'
  <2>1. Labelled(f)
    BY DEF Covers
  <2>2. ASSUME NEW i \in DOMAIN merged'
        PROVE  merged'[i].path = PathOf(g[<<"merged", i>>]) /\ SystemOf(g[<<"merged", i>>]) = "cppup"
    <3>1. CASE i \in DOMAIN merged
      BY <1>7, <1>17, <2>1, <3>1 DEF Labelled
    <3>2. CASE i = m
      BY <1>4, <1>7, <1>17, <3>2
    <3> QED BY <1>7, <3>1, <3>2
  <2>3. ASSUME NEW i \in DOMAIN worklist'
        PROVE  /\ g[<<"worklist", i>>] # <<>>
               /\ worklist'[i].parent = PathOf(Front(g[<<"worklist", i>>]))
               /\ worklist'[i].declared = DeclaredAt(g[<<"worklist", i>>])
    <3>1. CASE i \in DOMAIN worklist
      BY <1>8, <1>17, <2>1, <3>1 DEF Labelled
    <3>2. ASSUME NEW j \in 1..l, i = n + j
          PROVE  /\ g[<<"worklist", i>>] # <<>>
                 /\ worklist'[i].parent = PathOf(Front(g[<<"worklist", i>>]))
                 /\ worklist'[i].declared = DeclaredAt(g[<<"worklist", i>>])
      <4>1. g[<<"worklist", i>>] = Append(c, j) /\ worklist'[i] = Pending(current)[j]
        BY <1>8, <1>16, <3>2
      <4>2. DeclaredAt(Append(c, j)) = Declares(project, PathOf(c))[j]
        BY <1>14 DEF DeclaredAt
      <4> QED BY <1>4, <1>6, <1>14, <4>1, <4>2
    <3> QED BY <1>8, <3>1, <3>2
  <2>4. \A i \in DOMAIN external' :
          external'[i].path = PathOf(g[<<"external", i>>])
            /\ external'[i].system = SystemOf(g[<<"external", i>>])
    BY <1>1, <1>17, <2>1 DEF Labelled
  <2> QED BY <1>2, <1>18, <2>2, <2>3, <2>4 DEF Labelled
<1>20. Rooted(g)'
  <2>1. ASSUME NEW s \in Slots
        PROVE  /\ IsChain(f[s]) /\ Len(f[s]) <= Len(merged')
               /\ f[s] = <<>> \/ \E i \in DOMAIN merged' : Front(f[s]) = g[<<"merged", i>>]
    <3>1. /\ IsChain(f[s]) /\ Len(f[s]) <= Len(merged) /\ Len(f[s]) \in Nat
          /\ f[s] = <<>> \/ \E i \in DOMAIN merged : Front(f[s]) = f[<<"merged", i>>]
      BY ChainFacts DEF Covers, Own, Rooted
    <3>2. Len(f[s]) <= Len(merged')
      BY <1>7, <3>1 DEF m
    <3> QED BY <1>7, <1>17, <3>1, <3>2
  <2>2. ASSUME NEW i \in 1..l
        PROVE  /\ IsChain(Append(c, i)) /\ Len(Append(c, i)) <= Len(merged')
               /\ \E j \in DOMAIN merged' : Front(Append(c, i)) = g[<<"merged", j>>]
    <3>1. Len(Append(c, i)) <= Len(merged')
      BY <1>4, <1>7, <1>14 DEF m
    <3> QED BY <1>7, <1>14, <1>17, <3>1
  <2>3. ASSUME NEW t \in Slots'
        PROVE  (\E s \in Slots : g[t] = f[s]) \/ \E i \in 1..l : g[t] = Append(c, i)
    <3>1. Among(g[t], g, S \cup Waiting(n, l))
      BY <1>10 DEF Among
    <3> QED BY <1>16, <3>1 DEF Among
  <2> QED BY <1>18, <2>1, <2>2, <2>3 DEF Rooted
<1>21. Continued(g)'
  <2>1. \A y : Among(y, g, Slots)' <=> Among(y, f, Slots) \/ \E i \in 1..l : y = Append(c, i)
    BY <1>10, <1>16 DEF Among
  <2>2. Continued(f)
    BY DEF Covers
  <2>3. ASSUME NEW i \in DOMAIN merged',
               NEW k \in DOMAIN Declares(project, PathOf(g[<<"merged", i>>]))
        PROVE  \/ Among(Append(g[<<"merged", i>>], k), f, Slots)
               \/ \E j \in 1..l : Append(g[<<"merged", i>>], k) = Append(c, j)
    <3>1. CASE i \in DOMAIN merged
      BY <1>17, <2>2, <3>1 DEF Continued
    <3>2. CASE i = m
      <4>1. g[<<"merged", i>>] = c
        BY <1>17, <3>2
      <4>2. k \in 1..l
        BY <1>6, <4>1
      <4> QED BY <4>1, <4>2
    <3> QED BY <1>7, <3>1, <3>2
  <2> QED BY <1>1, <1>18, <2>1, <2>2, <2>3 DEF Continued
<1>22. Own(g, Slots)'
  BY <1>10, <1>16 DEF Own
<1> QED BY <1>19, <1>20, <1>21, <1>22 DEF Covers

LEMMA TreeInitially == LoadInit => TreeInv
  BY DEF LoadInit, TreeInv, Idle

\* A step that does no more than go on.
LEMMA SameWork ==
  ASSUME TreeInv, UNCHANGED <<project, current, worklist, merged, external, command, loaded>>,
         Compiling' = Compiling,
         step' = step \/ (command # "compile_commands" \/ step' \in {"compile", "compiler", "load"})
  PROVE  TreeInv'
<1>1. merged' = merged /\ external' = external /\ worklist' = worklist
  OBVIOUS
<1>2. \A f : Covers(f) => Covers(f)'
  BY SameSlots
<1> QED BY <1>1, <1>2 DEF TreeInv, Idle

LEMMA TreeStart == ASSUME LoadInv, NEW c \in Commands, Start(c) PROVE TreeInv'
<1>1. /\ Idle /\ command' = c /\ step' = IF c = "compile_commands" THEN "compile" ELSE "header"
      /\ current' = <<>> /\ worklist' = <<>> /\ merged' = <<>> /\ external' = <<>>
      /\ loaded' = "none" /\ project' = project
  BY DEF Start, disk
<1>2. PICK f : f = [s \in {Here} |-> <<>>]
  OBVIOUS
<1>3. Slots' = {Here}
  BY <1>1 DEF Slots, Places, Compiling
<1>4. /\ PathOf(<<>>) = <<>> /\ SystemOf(<<>>) = "cppup" /\ <<>> \in Chain
      /\ PathOf(<<>>)' = PathOf(<<>>) /\ SystemOf(<<>>)' = SystemOf(<<>>)
  BY <1>1, PathFacts, SameTree
<1>5. Own(f, Slots)'
  BY <1>2, <1>3, <1>4 DEF Own
<1>6. Labelled(f)'
  BY <1>1, <1>2, <1>4 DEF Labelled
<1>7. Rooted(f)'
  <2>1. IsChain(<<>>)'
    BY DEF IsChain
  <2>2. Len(<<>>) <= Len(merged')
    BY <1>1
  <2> QED BY <1>2, <1>3, <2>1, <2>2 DEF Rooted
<1>8. Continued(f)'
  BY <1>1, <1>2, <1>3 DEF Continued, Among
<1>9. Covers(f)'
  BY <1>5, <1>6, <1>7, <1>8 DEF Covers
<1> QED BY <1>1, <1>9 DEF TreeInv, Idle, Commands

LEMMA TreeStep == ASSUME LoadInv, TreeInv, [LoadNext]_loadVars PROVE TreeInv'
<1>1. CASE \/ \E d \in DOMAIN project.dirs : Edit(d)
           \/ \E p \in Headers : Upgrade(p)
           \/ CleanLibraries
           \/ UNCHANGED loadVars
  <2>1. UNCHANGED <<project, current, worklist, merged, external, command, step, loaded>>
    BY <1>1 DEF Edit, Upgrade, CleanLibraries, disk, loadVars, loading
  <2> QED BY <2>1, SameWork DEF Compiling
<1>2. CASE \/ HeaderIsCurrent \/ TruncateHeader \/ WriteHeader \/ WipeLibraries
           \/ Reuse \/ StartCompiler \/ Compile
  <2>1. /\ UNCHANGED <<project, current, worklist, merged, external, command, loaded>>
        /\ step \in {"header", "write", "wipe", "compile", "compiler"}
        /\ step' \in {"compile", "write", "wipe", "compiler", "load"}
        /\ step \in {"compile", "compiler"} => step' \in {"compiler", "load"}
    BY <1>2 DEF HeaderIsCurrent, TruncateHeader, AfterTheHeader, WriteHeader, WipeLibraries, Reuse,
                StartCompiler, Compile, disk, loading
  <2>2. Compiling' = Compiling
    BY <2>1 DEF Compiling
  <2>3. command = "compile_commands" => step' \in {"compile", "compiler", "load"}
    BY <2>1 DEF TreeInv
  <2> QED BY <2>1, <2>2, <2>3, SameWork
<1>3. CASE \E c \in Commands : Start(c)
  BY <1>3, TreeStart
<1>4. ASSUME NEW r \in {"error", "killed"}, End(r) PROVE TreeInv'
  BY <1>4 DEF End, TreeInv, Idle
<1>5. CASE Load /\ command = "compile_commands"
  <2>1. /\ merged' = Append(merged, [path |-> current, from |-> Library])
        /\ End("ok") /\ merged = <<>> /\ external = <<>>
    BY <1>5 DEF Load, TreeInv
  <2>2. Len(merged') = 1 /\ Len(external') = 0
    BY <2>1 DEF End
  <2> QED BY <2>1, <2>2 DEF End, TreeInv, Idle
<1>6. ASSUME step # "none", command # "compile_commands"
      PROVE  /\ command \in {"build", "lock"} /\ ~Idle /\ loaded = "none"
             /\ \E f : Covers(f)
  BY <1>6 DEF LoadInv, LoadTypeOK, Idle, Commands, TreeInv
<1>7. CASE Load /\ command # "compile_commands"
  <2>1. step # "none" /\ UNCHANGED <<command, loaded>>
    BY <1>7 DEF Load
  <2>2. \E f : Covers(f)'
    BY <1>6, <1>7, <2>1, LoadTree
  <2> QED BY <1>6, <1>7, <2>1, <2>2 DEF TreeInv, Idle
<1>8. CASE Enter \/ Delegate
  <2>1. step = "next" /\ UNCHANGED <<command, loaded>>
    BY <1>8 DEF Enter, Delegate
  <2>2. command # "compile_commands"
    BY <2>1 DEF TreeInv
  <2>3. \E f : Covers(f)'
    BY <1>6, <1>8, <2>1, <2>2, EnterTree, DelegateTree
  <2> QED BY <1>6, <2>1, <2>2, <2>3 DEF TreeInv, Idle
<1>9. CASE ReturnConfiguration
  <2>1. /\ step = "next" /\ worklist = <<>> /\ End("ok")
        /\ project' = project /\ merged' = merged
    BY <1>9 DEF ReturnConfiguration, disk
  <2>2. command # "compile_commands"
    BY <2>1 DEF TreeInv
  <2>3. PICK f : Covers(f)
    BY <1>6, <2>1, <2>2
  <2>4. /\ external' = external /\ worklist' = worklist /\ ~Compiling /\ ~Compiling'
    BY <2>1 DEF End, Compiling
  <2>5. Slots' = Slots
    BY <2>1, <2>4 DEF Slots, Places
  <2>6. \A c : /\ PathOf(c)' = PathOf(c) /\ DeclaredAt(c)' = DeclaredAt(c)
               /\ SystemOf(c)' = SystemOf(c) /\ IsChain(c)' = IsChain(c)
    BY <2>1, SameTree
  <2>7. Own(f, Slots)' /\ (\A c : Among(c, f, Slots)' <=> Among(c, f, Slots))
    BY <2>3, <2>5 DEF Covers, Own, Among
  <2>8. Labelled(f)'
    BY <2>1, <2>3, <2>4, <2>6 DEF Covers, Labelled
  <2>9. Rooted(f)'
    BY <2>1, <2>3, <2>5, <2>6 DEF Covers, Rooted
  <2>10. Continued(f)'
    BY <2>1, <2>3, <2>6, <2>7 DEF Covers, Continued
  <2>11. Covers(f)'
    BY <2>7, <2>8, <2>9, <2>10 DEF Covers
  <2> QED BY <2>1, <2>4, <2>11 DEF End, TreeInv, Idle
<1>10. CASE HeaderFails \/ CompileFails \/ LoadFails \/ Unresolved \/ Kill
  <2>1. End("error") \/ End("killed")
    BY <1>10 DEF HeaderFails, CompileFails, LoadFails, Unresolved, Kill
  <2> QED BY <1>4, <2>1
<1> QED BY <1>1, <1>2, <1>3, <1>5, <1>7, <1>8, <1>9, <1>10 DEF LoadNext, LoadStep, LoadUser

\* Sets one of which is numbered by the other are of one size.
LEMMA Counted ==
  ASSUME NEW S, IsFiniteSet(S), NEW T, NEW g \in [S -> T],
         \A s, t \in S : g[s] = g[t] => s = t,
         \A x \in T : \E s \in S : g[s] = x
  PROVE  Cardinality(S) = Cardinality(T)
<1>1. g \in Bijection(S, T)
  BY DEF Bijection, Injection, Surjection, IsInjective
<1> QED BY <1>1, FS_Bijection DEF ExistsBijection

\* When nothing waits the chains there are are those that have a place.
LEMMA AllChains ==
  ASSUME LoadInv, NEW f, Covers(f), worklist = <<>>, ~Compiling
  PROVE  \A c : c \in Chains <=> \E s \in Slots : f[s] = c
<1> DEFINE places == UNION {DOMAIN project.dirs[d].declares : d \in DOMAIN project.dirs}
<1>1. Chains = {c \in UNION {[1..k -> places] : k \in 0..Len(merged)} : IsChain(c)}
  BY DEF Chains
<1>2. places \subseteq Nat
  BY ProjectsAssumption DEF ProjectsAssumption, LoadInv, LoadTypeOK
<1>3. Slots = Places(merged, "merged") \cup Places(external, "external")
  BY DEF Slots, Places
<1>4. Len(merged) \in Nat
  BY SlotFacts
<1>5. ASSUME NEW s \in Slots PROVE f[s] \in Chains
  <2>1. PICK c : c = f[s]
    OBVIOUS
  <2>2. c \in Chain /\ IsChain(c) /\ Len(c) <= Len(merged)
    BY <2>1 DEF Covers, Own, Rooted
  <2>3. Len(c) \in 0..Len(merged) /\ DOMAIN c = 1..Len(c) /\ c = [k \in 1..Len(c) |-> c[k]]
    BY <1>4, <2>2 DEF Chain
  <2>4. ASSUME NEW k \in 1..Len(c) PROVE c[k] \in places
    <3>1. c[k] \in DOMAIN Declares(project, PathOf(SubSeq(c, 1, k - 1)))
      BY <2>2, <2>3 DEF IsChain
    <3>2. PICK w : w = PathOf(SubSeq(c, 1, k - 1))
      OBVIOUS
    <3>3. CASE DirOf(w) \in DOMAIN project.dirs
      BY <3>1, <3>2, <3>3 DEF Declares
    <3>4. CASE DirOf(w) \notin DOMAIN project.dirs
      <4>1. Declares(project, w) = <<>>
        BY <3>4 DEF Declares
      <4> QED BY <3>1, <3>2, <4>1
    <3> QED BY <3>3, <3>4
  <2> HIDE DEF places
  <2>5. c \in [1..Len(c) -> places]
    BY <2>3, <2>4
  <2> QED BY <1>1, <2>1, <2>2, <2>3, <2>5
<1>6. ASSUME NEW c \in Chains PROVE Among(c, f, Slots)
  <2>1. PICK n \in 0..Len(merged) : c \in [1..n -> places] /\ IsChain(c)
    BY <1>1
  <2>2. c \in Chain /\ Len(c) \in Nat
    <3>1. n \in Nat
      BY <1>4, <2>1
    <3>2. c \in [1..n -> Nat]
      BY <1>2, <2>1
    <3> QED BY <3>1, <3>2, ChainFacts DEF Chain
  <2> DEFINE T == {k \in Nat : k <= Len(c) => Among(SubSeq(c, 1, k), f, Slots)}
  <2>3. 0 \in T
    <3>1. SubSeq(c, 1, 0) = <<>>
      BY SubSeqEmpty
    <3> QED BY <3>1 DEF Covers, Continued
  <2>4. ASSUME NEW k \in Nat, k \in T PROVE k + 1 \in T
    <3> SUFFICES ASSUME k + 1 <= Len(c) PROVE Among(SubSeq(c, 1, k + 1), f, Slots)
      OBVIOUS
    <3>1. k \in 0..(Len(c) - 1) /\ Among(SubSeq(c, 1, k), f, Slots)
      BY <2>2, <2>4
    <3>2. PICK s \in Slots : f[s] = SubSeq(c, 1, k)
      BY <3>1 DEF Among
    <3>3. /\ SystemOf(f[s]) = "cppup" /\ c[k + 1] \in DOMAIN Declares(project, PathOf(f[s]))
          /\ SubSeq(c, 1, k + 1) = Append(f[s], c[k + 1])
      BY <2>1, <2>2, <3>1, <3>2, Beginnings
    <3>4. s \notin Places(external, "external")
      <4> SUFFICES ASSUME NEW i \in DOMAIN external, s = <<"external", i>> PROVE FALSE
        BY DEF Places
      <4>1. external \in Seq(Handed)
        BY LoadingType DEF LoadInv, LoadingOK
      <4>2. external[i] \in Handed
        BY <4>1
      <4>3. external[i].system # "cppup"
        BY <4>2 DEF Handed
      <4> QED BY <3>3, <4>3 DEF Covers, Labelled
    <3>5. PICK i \in DOMAIN merged : s = <<"merged", i>>
      BY <1>3, <3>4 DEF Places
    <3> QED BY <3>3, <3>5 DEF Covers, Continued
  <2> HIDE DEF T
  <2>5. Len(c) \in T
    BY <2>2, <2>3, <2>4, EveryNumber
  <2>6. SubSeq(c, 1, Len(c)) = c
    BY <2>2, SubSeqFull DEF Chain
  <2>7. Among(SubSeq(c, 1, Len(c)), f, Slots)
    BY <2>2, <2>5 DEF T
  <2> QED BY <2>6, <2>7
<1> QED BY <1>5, <1>6 DEF Among

\* What is merged and handed on, in this order.
LEMMA NodesFacts ==
  ASSUME LoadInv
  PROVE  /\ Len(Nodes) = Len(merged) + Len(external) /\ DOMAIN Nodes = 1..Len(Nodes)
         /\ Len(Nodes) \in Nat
         /\ \A i \in DOMAIN merged : Nodes[i] = <<merged[i].path, "cppup">>
         /\ \A i \in DOMAIN external :
              Nodes[Len(merged) + i] = <<external[i].path, external[i].system>>
<1> DEFINE S == Paths \X BuildSystem
           m == Len(merged)
           e == Len(external)
           s == [i \in DOMAIN merged |-> <<merged[i].path, "cppup">>]
           t == [i \in DOMAIN external |-> <<external[i].path, external[i].system>>]
<1>1. /\ merged \in Seq(Parts) /\ external \in Seq(Handed)
      /\ DOMAIN merged = 1..m /\ m \in Nat /\ DOMAIN external = 1..e /\ e \in Nat
  BY SlotFacts, LoadingType DEF LoadInv, LoadingOK
<1>2. s \in Seq(S) /\ Len(s) = m /\ \A i \in 1..m : s[i] = <<merged[i].path, "cppup">>
  <2>1. \A i \in 1..m : merged[i] \in Parts
    BY <1>1
  <2>2. \A i \in 1..m : <<merged[i].path, "cppup">> \in S
    BY <2>1 DEF Parts, BuildSystem
  <2> HIDE DEF S, m
  <2>3. s \in [1..m -> S]
    BY <1>1, <2>2
  <2> QED BY <1>1, <2>3
<1>3. t \in Seq(S) /\ Len(t) = e /\ \A i \in 1..e : t[i] = <<external[i].path, external[i].system>>
  <2>1. \A i \in 1..e : external[i] \in Handed
    BY <1>1
  <2>2. \A i \in 1..e : <<external[i].path, external[i].system>> \in S
    BY <2>1 DEF Handed
  <2> HIDE DEF S, e
  <2>3. t \in [1..e -> S]
    BY <1>1, <2>2
  <2> QED BY <1>1, <2>3
<1>4. Nodes = s \o t
  BY DEF Nodes
<1> HIDE DEF S, m, e, s, t
<1>5. /\ Nodes \in Seq(S) /\ Len(Nodes) = m + e
      /\ \A i \in 1..(m + e) : Nodes[i] = IF i <= m THEN s[i] ELSE t[i - m]
  BY <1>2, <1>3, <1>4, ConcatProperties
<1>6. DOMAIN Nodes = 1..Len(Nodes) /\ Len(Nodes) \in Nat
  BY <1>5
<1>7. ASSUME NEW i \in 1..m PROVE Nodes[i] = <<merged[i].path, "cppup">>
  BY <1>1, <1>2, <1>5
<1>8. ASSUME NEW i \in 1..e PROVE Nodes[m + i] = <<external[i].path, external[i].system>>
  <2>1. m + i \in 1..(m + e) /\ ~(m + i <= m) /\ (m + i) - m = i
    BY <1>1
  <2> QED BY <1>3, <1>5, <2>1
<1> QED BY <1>1, <1>5, <1>6, <1>7, <1>8 DEF m, e

\* Every node has a chain of its own, and every chain is that of a node.
LEMMA NumberedChains ==
  ASSUME LoadInv, NEW f, Covers(f), worklist = <<>>, ~Compiling
  PROVE  \E g \in [1..Len(Nodes) -> Chains] :
           /\ \A i, j \in 1..Len(Nodes) : g[i] = g[j] => i = j
           /\ \A c \in Chains : \E i \in 1..Len(Nodes) : g[i] = c
           /\ \A i \in 1..Len(Nodes) : Node(g[i]) = Nodes[i]
<1> DEFINE m == Len(merged)
           n == Len(Nodes)
           place == [i \in 1..n |-> IF i <= m THEN <<"merged", i>> ELSE <<"external", i - m>>]
           g == [i \in 1..n |-> f[place[i]]]
<1>1. /\ n = m + Len(external) /\ n \in Nat /\ m \in Nat /\ Len(external) \in Nat
      /\ DOMAIN merged = 1..m /\ DOMAIN external = 1..Len(external)
  BY NodesFacts, SlotFacts
<1>2. /\ \A i \in 1..m : Nodes[i] = <<merged[i].path, "cppup">>
      /\ \A i \in 1..Len(external) : Nodes[m + i] = <<external[i].path, external[i].system>>
  BY <1>1, NodesFacts
<1> HIDE DEF m, n
<1>3. ASSUME NEW i \in 1..n
      PROVE  \/ i \in 1..m /\ place[i] = <<"merged", i>>
             \/ i \notin 1..m /\ i - m \in 1..Len(external) /\ place[i] = <<"external", i - m>>
  <2>1. CASE i <= m
    BY <1>1, <2>1
  <2>2. CASE ~(i <= m)
    BY <1>1, <2>2
  <2> QED BY <2>1, <2>2
<1>4. /\ \A i \in 1..m : i \in 1..n /\ place[i] = <<"merged", i>>
      /\ \A i \in 1..Len(external) : m + i \in 1..n /\ place[m + i] = <<"external", i>>
  <2>1. ASSUME NEW i \in 1..m PROVE i \in 1..n /\ place[i] = <<"merged", i>>
    BY <1>1
  <2>2. ASSUME NEW i \in 1..Len(external) PROVE m + i \in 1..n /\ place[m + i] = <<"external", i>>
    <3>1. m + i \in 1..n /\ ~(m + i <= m) /\ (m + i) - m = i
      BY <1>1
    <3> QED BY <3>1
  <2> QED BY <2>1, <2>2
<1> HIDE DEF place
<1>5. Slots = Places(merged, "merged") \cup Places(external, "external")
  BY DEF Slots, Places
<1>6. \A i \in 1..n : place[i] \in Slots
  BY <1>1, <1>3, <1>5 DEF Places
<1>7. \A i, j \in 1..n : place[i] = place[j] => i = j
  <2> SUFFICES ASSUME NEW i \in 1..n, NEW j \in 1..n, place[i] = place[j] PROVE i = j
    OBVIOUS
  <2>1. CASE i \in 1..m
    BY <1>3, <2>1
  <2>2. CASE i \notin 1..m
    <3>1. j \notin 1..m /\ i - m = j - m
      BY <1>3, <2>2
    <3> QED BY <1>1, <3>1
  <2> QED BY <2>1, <2>2
<1>8. \A s \in Slots : \E i \in 1..n : place[i] = s
  <2> SUFFICES ASSUME NEW s \in Slots PROVE \E i \in 1..n : place[i] = s
    OBVIOUS
  <2>1. CASE s \in Places(merged, "merged")
    BY <1>1, <1>4, <2>1 DEF Places
  <2>2. CASE s \in Places(external, "external")
    BY <1>1, <1>4, <2>2 DEF Places
  <2> QED BY <1>5, <2>1, <2>2
<1>9. \A c : c \in Chains <=> \E s \in Slots : f[s] = c
  BY AllChains
<1>10. g \in [1..n -> Chains]
  BY <1>6, <1>9
<1>11. \A i, j \in 1..n : g[i] = g[j] => i = j
  BY <1>6, <1>7 DEF Covers, Own
<1>12. \A c \in Chains : \E i \in 1..n : g[i] = c
  BY <1>8, <1>9
<1>13. ASSUME NEW i \in 1..n PROVE Node(g[i]) = Nodes[i]
  <2>1. CASE i \in 1..m
    <3>1. g[i] = f[<<"merged", i>>]
      BY <1>3, <2>1
    <3>2. merged[i].path = PathOf(g[i]) /\ SystemOf(g[i]) = "cppup"
      BY <1>1, <2>1, <3>1 DEF Covers, Labelled
    <3> QED BY <1>2, <2>1, <3>2 DEF Node
  <2>2. CASE i \notin 1..m
    <3>1. PICK k \in 1..Len(external) : k = i - m /\ place[i] = <<"external", k>>
      BY <1>3, <2>2
    <3>2. m + k = i /\ g[i] = f[<<"external", k>>]
      BY <1>1, <3>1
    <3>3. external[k].path = PathOf(g[i]) /\ external[k].system = SystemOf(g[i])
      BY <1>1, <3>2 DEF Covers, Labelled
    <3> QED BY <1>2, <3>2, <3>3 DEF Node
  <2> QED BY <2>1, <2>2
<1> HIDE DEF g
<1>14. \E h \in [1..n -> Chains] :
         /\ \A i, j \in 1..n : h[i] = h[j] => i = j
         /\ \A c \in Chains : \E i \in 1..n : h[i] = c
         /\ \A i \in 1..n : Node(h[i]) = Nodes[i]
  BY <1>10, <1>11, <1>12, <1>13
<1> QED BY <1>14 DEF n

\* The tree is what has been merged and handed on.
LEMMA TreeIsMerged ==
  ASSUME LoadInv, NEW f, Covers(f), worklist = <<>>, ~Compiling
  PROVE  /\ \A chain \in Chains :
              Times(Nodes, Node(chain))
                = Cardinality({other \in Chains : Node(other) = Node(chain)})
         /\ Len(Nodes) = Cardinality(Chains)
<1>1. PICK n : n = Len(Nodes)
  OBVIOUS
<1>2. n \in Nat /\ DOMAIN Nodes = 1..n
  BY <1>1, NodesFacts
<1>3. PICK g \in [1..n -> Chains] :
        /\ \A i, j \in 1..n : g[i] = g[j] => i = j
        /\ \A c \in Chains : \E i \in 1..n : g[i] = c
        /\ \A i \in 1..n : Node(g[i]) = Nodes[i]
  BY <1>1, NumberedChains
<1>4. IsFiniteSet(1..n) /\ Cardinality(1..n) = n
  BY <1>2, FS_Interval
<1>5. n = Cardinality(Chains)
  <2> DEFINE I == 1..n
  <2>1. /\ g \in [I -> Chains] /\ IsFiniteSet(I) /\ Cardinality(I) = n
        /\ \A i, j \in I : g[i] = g[j] => i = j
        /\ \A c \in Chains : \E i \in I : g[i] = c
    BY <1>3, <1>4
  <2> HIDE DEF I
  <2>2. Cardinality(I) = Cardinality(Chains)
    BY <2>1, Counted
  <2> QED BY <2>1, <2>2
<1>6. ASSUME NEW x
      PROVE  Times(Nodes, x) = Cardinality({other \in Chains : Node(other) = x})
  <2> DEFINE I == {i \in 1..n : Nodes[i] = x}
             C == {other \in Chains : Node(other) = x}
             h == [i \in I |-> g[i]]
  <2>1. IsFiniteSet(I)
    BY <1>4, FS_Subset
  <2>2. h \in [I -> C]
    BY <1>3
  <2>3. \A i, j \in I : h[i] = h[j] => i = j
    BY <1>3
  <2>4. \A c \in C : \E i \in I : h[i] = c
    BY <1>3
  <2>5. Times(Nodes, x) = Cardinality(I)
    BY <1>2 DEF Times
  <2> HIDE DEF I, C, h
  <2>6. Cardinality(I) = Cardinality(C)
    BY <2>1, <2>2, <2>3, <2>4, Counted
  <2> QED BY <2>5, <2>6 DEF C
<1> QED BY <1>1, <1>5, <1>6

\* However the directories are nested and repeated, a load that succeeds has merged or
\* handed on each as often as it is declared, and under its path from the root.
THEOREM TreeMerged == LoadInit /\ [][LoadNext]_loadVars => []MergesTheTree
<1>1. LoadInit => LoadInv /\ TreeInv
  BY LoadInitially, TreeInitially
<1>2. LoadInv /\ TreeInv /\ [LoadNext]_loadVars => LoadInv' /\ TreeInv'
  BY LoadStepKept, TreeStep
<1>3. LoadInv /\ TreeInv => MergesTheTree
  <2> SUFFICES ASSUME LoadInv, TreeInv, loaded = "ok", Len(Nodes) > 1
               PROVE  /\ \A chain \in Chains :
                           Times(Nodes, Node(chain))
                             = Cardinality({other \in Chains : Node(other) = Node(chain)})
                      /\ Len(Nodes) = Cardinality(Chains)
    BY DEF MergesTheTree
  <2>1. Idle /\ step = "none"
    BY DEF TreeInv, LoadInv, LoadTypeOK
  <2>2. ~Compiling
    BY <2>1 DEF Compiling
  <2>3. ~(Len(merged) + Len(external) <= 1)
    BY NodesFacts, SlotFacts
  <2>4. worklist = <<>> /\ \E f : Covers(f)
    BY <2>1, <2>3 DEF TreeInv
  <2> QED BY <2>2, <2>4, TreeIsMerged
<1> QED BY <1>1, <1>2, <1>3, PTL

------------------------------------------------------------------------------
(* A load ends: its chains have no more declarations than the longest name *)
(* of a file has words                                                      *)

\* Paths whose components have a word at least, as they have in a file system.
Solid == Seq(Seq(Words) \ {<<>>})

\* A project has finitely many directories, and every subproject is declared by a
\* path that has a component: "" would lead from the root to the root.
PathsLead ==
  \A p \in Projects :
    /\ IsFiniteSet(DOMAIN p.dirs)
    /\ \A d \in DOMAIN p.dirs : \A i \in DOMAIN p.dirs[d].declares :
         p.dirs[d].declares[i].path \in Solid \ {<<>>}

\* A name has a word at least for every component of the path.
LEMMA NameLength ==
  ASSUME NEW v \in Solid
  PROVE  FlattenSeq(v) \in Seq(Words) /\ Len(v) <= Len(FlattenSeq(v))
<1> DEFINE n == Len(v)
           D == Seq(Words)
           G == [x \in (1..n) \X D |-> IF x[1] = 1 THEN v[x[1]] ELSE x[2] \o v[x[1]]]
           Is(g) == g = [i \in 1..n |-> IF i = 1 THEN v[i] ELSE g[i - 1] \o v[i]]
           f == CHOOSE g : Is(g)
<1>1. n \in Nat /\ \A k \in 1..n : v[k] \in D /\ v[k] # <<>> /\ Len(v[k]) \in Nat \ {0}
  <2>1. n \in Nat /\ \A k \in 1..n : v[k] \in Seq(Words) \ {<<>>}
    BY DEF Solid
  <2>2. \A s \in Seq(Words) \ {<<>>} : Len(s) \in Nat \ {0}
    OBVIOUS
  <2> QED BY <2>1, <2>2
<1>2. CASE n = 0
  <2>1. FlattenSeq(v) = v /\ v = <<>>
    BY <1>2 DEF FlattenSeq, Solid
  <2> QED BY <2>1, EmptySeq
<1>3. CASE n # 0
  <2>1. FlattenSeq(v) = f[n]
    BY <1>3 DEF FlattenSeq
  <2> HIDE DEF n
  <2>2. G \in [(1..n) \X D -> D]
    <3>1. ASSUME NEW x \in (1..n) \X D
          PROVE  (IF x[1] = 1 THEN v[x[1]] ELSE x[2] \o v[x[1]]) \in D
      <4>1. v[x[1]] \in D /\ x[2] \in D
        BY <1>1
      <4> HIDE DEF D
      <4>2. x[2] \o v[x[1]] \in D
        BY <4>1, ConcatProperties DEF D
      <4> QED BY <4>1, <4>2
    <3> HIDE DEF D
    <3> QED BY <3>1
  <2>3. PICK h : Loops(h, n, D, <<>>, G)
    <3>1. <<>> \in D
      BY EmptySeq
    <3> HIDE DEF D, G
    <3> QED BY <1>1, <2>2, <3>1, LoopExists
  <2> DEFINE g == [i \in 1..n |-> h[i]]
  <2>4. Is(g)
    <3>1. ASSUME NEW i \in 1..n PROVE g[i] = IF i = 1 THEN v[i] ELSE g[i - 1] \o v[i]
      <4>1. h[i] = G[<<i, h[i - 1]>>] /\ h[i - 1] \in D
        <5>1. i - 1 \in 0..n
          BY <1>1
        <5> HIDE DEF D, G
        <5> QED BY <2>3, <5>1 DEF Loops
      <4>2. h[i] = IF i = 1 THEN v[i] ELSE h[i - 1] \o v[i]
        <5>1. <<i, h[i - 1]>> \in (1..n) \X D
          BY <4>1
        <5> HIDE DEF D
        <5> QED BY <4>1, <5>1
      <4>3. i # 1 => i - 1 \in 1..n
        BY <1>1
      <4> QED BY <4>2, <4>3
    <3>2. g = [i \in 1..n |-> g[i]]
      OBVIOUS
    <3> HIDE DEF g
    <3> QED BY <3>1, <3>2
  <2>5. Is(f)
    <3> HIDE DEF g, Is
    <3> QED BY <2>4
  <2>6. \A i \in 1..n : f[i] = IF i = 1 THEN v[i] ELSE f[i - 1] \o v[i]
    <3> HIDE DEF f
    <3> QED BY <2>5
  <2> HIDE DEF f
  <2> DEFINE T == {k \in Nat : k \in 1..n => f[k] \in Seq(Words) /\ k <= Len(f[k])}
  <2>7. 0 \in T
    OBVIOUS
  <2>8. ASSUME NEW k \in Nat, k \in T PROVE k + 1 \in T
    <3> SUFFICES ASSUME k + 1 \in 1..n
                 PROVE  f[k + 1] \in Seq(Words) /\ k + 1 <= Len(f[k + 1])
      OBVIOUS
    <3>1. v[k + 1] \in Seq(Words) /\ Len(v[k + 1]) \in Nat \ {0}
      BY <1>1
    <3>2. CASE k = 0
      <4>1. f[k + 1] = v[k + 1]
        BY <2>6, <3>2
      <4> QED BY <3>1, <3>2, <4>1
    <3>3. CASE k # 0
      <4>1. k \in 1..n /\ (k + 1) - 1 = k /\ k + 1 # 1
        BY <1>1, <3>3
      <4>2. f[k] \in Seq(Words) /\ k <= Len(f[k]) /\ Len(f[k]) \in Nat
        BY <2>8, <4>1
      <4>3. f[k + 1] = f[k] \o v[k + 1]
        BY <2>6, <4>1
      <4>4. f[k + 1] \in Seq(Words) /\ Len(f[k + 1]) = Len(f[k]) + Len(v[k + 1])
        BY <3>1, <4>2, <4>3, ConcatProperties
      <4> DEFINE old == Len(f[k])
                 more == Len(v[k + 1])
      <4>5. k <= old /\ old \in Nat /\ more \in Nat \ {0} /\ Len(f[k + 1]) = old + more
        BY <3>1, <4>2, <4>4
      <4> HIDE DEF old, more
      <4>6. k + 1 <= Len(f[k + 1])
        BY <4>5
      <4>7. f[k + 1] \in Seq(Words)
        BY <4>4
      <4> QED BY <4>6, <4>7
    <3> QED BY <3>2, <3>3
  <2> HIDE DEF T
  <2>9. n \in T
    BY <1>1, <2>7, <2>8, EveryNumber
  <2>10. n \in 1..n
    BY <1>1, <1>3
  <2> QED BY <2>1, <2>9, <2>10 DEF T, n
<1> QED BY <1>2, <1>3

\* A chain has no more declarations than its path has components.
LEMMA ChainLength ==
  ASSUME PathsLead, LoadInv, NEW c \in Chain, IsChain(c)
  PROVE  PathOf(c) \in Solid /\ Len(c) <= Len(PathOf(c))
<1> DEFINE upto(k) == SubSeq(c, 1, k)
           T == {k \in Nat : k <= Len(c) => PathOf(upto(k)) \in Solid /\ k <= Len(PathOf(upto(k)))}
<1>0. Len(c) \in Nat
  BY ChainFacts
<1>1. 0 \in T
  <2>1. upto(0) = <<>> /\ PathOf(<<>>) = <<>>
    BY SubSeqEmpty, PathFacts
  <2>2. <<>> \in Solid /\ Len(<<>>) = 0
    BY EmptySeq DEF Solid
  <2> HIDE DEF upto
  <2> QED BY <2>1, <2>2
<1>2. ASSUME NEW k \in Nat, k \in T PROVE k + 1 \in T
  <2> SUFFICES ASSUME k + 1 <= Len(c)
               PROVE  PathOf(upto(k + 1)) \in Solid /\ k + 1 <= Len(PathOf(upto(k + 1)))
    OBVIOUS
  <2>1. k \in 0..(Len(c) - 1)
    BY <1>0
  <2>2. /\ upto(k) \in Chain /\ c[k + 1] \in DOMAIN Declares(project, PathOf(upto(k)))
        /\ upto(k + 1) = Append(upto(k), c[k + 1])
    BY <2>1, Beginnings
  <2>3. PathOf(upto(k)) \in Solid /\ k <= Len(PathOf(upto(k)))
    BY <1>0, <1>2
  <2> HIDE DEF upto
  <2> DEFINE w == PathOf(upto(k))
             declared == Declares(project, w)[c[k + 1]].path
  <2>4. project \in Projects /\ PathOf(upto(k)) \in Paths
    BY <2>2, PathFacts DEF LoadInv, LoadTypeOK
  <2>5. c[k + 1] \in Nat
    BY <2>2, <2>4, DeclaresFacts
  <2>6. declared \in Solid \ {<<>>}
    <3>1. DirOf(w) \in DOMAIN project.dirs
      BY <2>2 DEF Declares
    <3> QED BY <2>2, <2>4, <3>1 DEF Declares, PathsLead
  <2>7. PathOf(upto(k + 1)) = w \o declared
    <3>1. /\ upto(k + 1) \in Chain /\ upto(k + 1) # <<>>
          /\ Front(upto(k + 1)) = upto(k) /\ Last(upto(k + 1)) = c[k + 1]
      <4> DEFINE u == upto(k)
      <4>1. u \in Chain /\ upto(k + 1) = Append(u, c[k + 1])
        BY <2>2
      <4> HIDE DEF u
      <4>2. /\ Append(u, c[k + 1]) \in Chain /\ Append(u, c[k + 1]) # <<>>
            /\ Front(Append(u, c[k + 1])) = u /\ Last(Append(u, c[k + 1])) = c[k + 1]
        BY <2>5, <4>1, Longer
      <4> QED BY <4>1, <4>2 DEF u
    <3>2. PathOf(upto(k + 1)) = Below(project, w, c[k + 1])
      BY <3>1, PathFacts
    <3> QED BY <2>2, <3>2 DEF Below
  <2>8. w \in Solid /\ k <= Len(w)
    BY <2>3
  <2> HIDE DEF w, declared
  <2>9. w \o declared \in Solid /\ Len(w \o declared) = Len(w) + Len(declared)
    BY <2>6, <2>8, ConcatProperties DEF Solid
  <2>10. Len(declared) \in Nat \ {0} /\ Len(w) \in Nat
    BY <2>6, <2>8 DEF Solid
  <2>11. k + 1 <= Len(w \o declared)
    <3> DEFINE old == Len(w)
               more == Len(declared)
    <3>1. k <= old /\ old \in Nat /\ more \in Nat \ {0} /\ Len(w \o declared) = old + more
      BY <2>8, <2>9, <2>10
    <3> HIDE DEF old, more
    <3> QED BY <3>1
  <2> QED BY <2>7, <2>9, <2>11
<1> HIDE DEF T
<1>3. Len(c) \in T
  BY <1>0, <1>1, <1>2, EveryNumber
<1>4. upto(Len(c)) = c
  BY SubSeqFull DEF Chain
<1>5. PathOf(upto(Len(c))) \in Solid /\ Len(c) <= Len(PathOf(upto(Len(c))))
  BY <1>0, <1>3 DEF T
<1> QED BY <1>4, <1>5

\* A library has a name a file can have, and what is merged was in a library.
ShortInv ==
  /\ \A n \in DOMAIN library : Len(n) <= MaxName
  /\ \A i \in DOMAIN merged : Len(get_shared_library_path(merged[i].path)) <= MaxName

\* Only the compiler gives a library its name.
LEMMA NewNames ==
  ASSUME LoadInv, [LoadNext]_loadVars
  PROVE  \A n \in DOMAIN library' : n \in DOMAIN library \/ Len(n) <= MaxName
<1>1. CASE UNCHANGED library
  BY <1>1
<1>2. ASSUME NEW S, RemoveLibraries(S) PROVE DOMAIN library' \subseteq DOMAIN library
  BY <1>2 DEF RemoveLibraries, Without, Restrict
<1>3. ASSUME step = "compiler", NEW what, WriteLibrary(current, what)
      PROVE  \A n \in DOMAIN library' : n \in DOMAIN library \/ Len(n) <= MaxName
  <2>1. DOMAIN library' = DOMAIN library \cup {get_shared_library_path(current)}
    BY <1>3 DEF WriteLibrary
  <2> QED BY <1>3, <2>1 DEF LoadInv, ReadyInv
<1>4. CASE CleanLibraries \/ WipeLibraries
  <2>1. \E S : RemoveLibraries(S)
    BY <1>4 DEF CleanLibraries, WipeLibraries
  <2> QED BY <1>2, <2>1
<1>5. CASE Compile
  BY <1>3, <1>5 DEF Compile
<1>6. CASE Kill
  <2>1. \/ UNCHANGED library
        \/ step = "compiler" /\ \E what : WriteLibrary(current, what)
        \/ \E S : RemoveLibraries(S)
    BY <1>6 DEF Kill
  <2> QED BY <1>1, <1>2, <1>3, <2>1
<1> QED
  BY <1>1, <1>4, <1>5, <1>6
     DEF LoadNext, LoadStep, LoadUser, loadVars, disk, Edit, Upgrade, Start,
         HeaderIsCurrent, TruncateHeader, WriteHeader, HeaderFails, Reuse, StartCompiler, CompileFails,
         Load, LoadFails, Enter, Delegate, Unresolved, ReturnConfiguration

LEMMA ShortStep == ASSUME LoadInv, ShortInv, [LoadNext]_loadVars PROVE ShortInv'
<1>1. ASSUME NEW n \in DOMAIN library' PROVE Len(n) <= MaxName
  BY NewNames DEF ShortInv
<1>2. ASSUME NEW i \in DOMAIN merged'
      PROVE  Len(get_shared_library_path(merged'[i].path)) <= MaxName
  <2>1. CASE merged' = merged
    BY <2>1 DEF ShortInv
  <2>2. CASE merged' = <<>>
    BY <2>2
  <2>3. CASE Load
    <3> DEFINE part == [path |-> current, from |-> Library]
    <3>1. /\ merged' = Append(merged, part) /\ merged \in Seq(Parts) /\ part \in Parts
          /\ get_shared_library_path(current) \in DOMAIN library
      BY <2>3, LibraryFacts DEF Load
    <3>2. part.path = current
      OBVIOUS
    <3> HIDE DEF part
    <3>3. /\ DOMAIN merged' = 1..(Len(merged) + 1) /\ DOMAIN merged = 1..Len(merged)
          /\ Len(merged) \in Nat
          /\ \A j \in 1..Len(merged) : merged'[j] = merged[j]
          /\ merged'[Len(merged) + 1] = part
      BY <3>1, AppendProperties
    <3>4. CASE i \in 1..Len(merged)
      BY <3>3, <3>4 DEF ShortInv
    <3>5. CASE i = Len(merged) + 1
      BY <3>1, <3>2, <3>3, <3>5 DEF ShortInv
    <3> QED BY <3>3, <3>4, <3>5
  <2> QED BY <2>1, <2>2, <2>3, NextMerged
<1> QED BY <1>1, <1>2 DEF ShortInv

\* The chains that fit into a name.
Numbers == UNION {DOMAIN project.dirs[d].declares : d \in DOMAIN project.dirs}
Room    == ShortLists(Numbers, MaxName)

LEMMA RoomFinite ==
  ASSUME PathsLead, LoadInv
  PROVE  IsFiniteSet(Room) /\ Cardinality(Room) \in Nat
<1> DEFINE f == [d \in DOMAIN project.dirs |-> DOMAIN project.dirs[d].declares]
<1>1. project \in Projects /\ IsFiniteSet(DOMAIN project.dirs) /\ MaxName \in Nat
  BY LoaderAssumption DEF LoaderAssumption, PathsLead, LoadInv, LoadTypeOK
<1>2. ASSUME NEW d \in DOMAIN project.dirs PROVE IsFiniteSet(f[d])
  <2>1. project.dirs[d].declares \in Seq(Declarations)
    BY <1>1, ProjectsAssumption DEF ProjectsAssumption
  <2>2. /\ DOMAIN project.dirs[d].declares = 1..Len(project.dirs[d].declares)
        /\ Len(project.dirs[d].declares) \in Nat
    BY <2>1
  <2>3. IsFiniteSet(1..Len(project.dirs[d].declares))
    BY <2>2, FS_Interval
  <2> QED BY <2>2, <2>3
<1>3. Numbers = UNION {f[d] : d \in DOMAIN project.dirs}
  BY DEF Numbers
<1> HIDE DEF f
<1>4. IsFiniteSet(Numbers)
  BY <1>1, <1>2, <1>3, FiniteUnion
<1>5. IsFiniteSet(Room)
  BY <1>1, <1>4, FiniteLists DEF Room
<1> QED BY <1>5, FS_CardinalityType

\* The texts of words are as many as the words.
LEMMA SameLength ==
  ASSUME NEW s \in Seq(Words)
  PROVE  Len([k \in DOMAIN s |-> s[k].text]) = Len(s)
<1>1. Len(s) \in Nat /\ DOMAIN s = 1..Len(s)
  OBVIOUS
<1> DEFINE t == [k \in 1..Len(s) |-> s[k].text]
<1>2. t \in Seq({s[k].text : k \in 1..Len(s)}) /\ DOMAIN t = 1..Len(s)
  BY <1>1
<1> QED BY <1>1, <1>2

\* Every part that is merged has a chain of its own, for which there is room.
LEMMA MergedFits ==
  ASSUME PathsLead, LoadInv, ShortInv, NEW f, Covers(f)
  PROVE  Len(merged) <= Cardinality(Room)
<1> DEFINE I == 1..Len(merged)
           g == [i \in I |-> f[<<"merged", i>>]]
<1>1. /\ DOMAIN merged = I /\ Len(merged) \in Nat
      /\ \A i \in I : <<"merged", i>> \in Slots
  BY SlotFacts
<1>2. /\ f \in [Slots -> Chain] /\ \A s, t \in Slots : f[s] = f[t] => s = t
      /\ \A s \in Slots : IsChain(f[s])
      /\ \A i \in I : merged[i].path = PathOf(f[<<"merged", i>>])
  BY <1>1 DEF Covers, Own, Labelled, Rooted
<1>3. ASSUME NEW i \in I PROVE f[<<"merged", i>>] \in Room
  <2>1. PICK c : c = f[<<"merged", i>>]
    OBVIOUS
  <2>2. c \in Chain /\ IsChain(c) /\ PathOf(c) = merged[i].path
    BY <1>1, <1>2, <2>1
  <2>3. Len(c) <= MaxName /\ Len(c) \in Nat /\ MaxName \in Nat
    <3>1. PathOf(c) \in Solid /\ Len(c) <= Len(PathOf(c))
      BY <2>2, ChainLength
    <3>2. Len(PathOf(c)) <= Len(FlattenSeq(PathOf(c)))
      BY <3>1, NameLength
    <3>3. Len(FlattenSeq(PathOf(c))) <= MaxName
      <4>1. Len(get_shared_library_path(PathOf(c))) <= MaxName
        BY <1>1, <2>2 DEF ShortInv
      <4>2. FlattenSeq(PathOf(c)) \in Seq(Words)
        BY <3>1, NameLength
      <4> QED BY <4>1, <4>2, SameLength DEF get_shared_library_path
    <3>4. Len(FlattenSeq(PathOf(c))) \in Nat
      <4>1. FlattenSeq(PathOf(c)) \in Seq(Words)
        BY <3>1, NameLength
      <4> QED BY <4>1
    <3> QED BY <2>2, <3>1, <3>2, <3>3, <3>4, ChainFacts, LoaderAssumption DEF LoaderAssumption, Solid
  <2>4. DOMAIN c = 1..Len(c) /\ c = [k \in 1..Len(c) |-> c[k]]
    BY <2>2 DEF Chain
  <2>5. ASSUME NEW k \in 1..Len(c) PROVE c[k] \in Numbers
    <3> DEFINE w == PathOf(SubSeq(c, 1, k - 1))
    <3>1. c[k] \in DOMAIN Declares(project, w)
      BY <2>2, <2>4 DEF IsChain
    <3> HIDE DEF w
    <3>2. CASE DirOf(w) \in DOMAIN project.dirs
      BY <3>1, <3>2 DEF Declares, Numbers
    <3>3. CASE DirOf(w) \notin DOMAIN project.dirs
      <4>1. Declares(project, w) = <<>>
        BY <3>3 DEF Declares
      <4> QED BY <3>1, <4>1
    <3> QED BY <3>2, <3>3
  <2>6. c \in [1..Len(c) -> Numbers] /\ Len(c) \in 0..MaxName
    BY <2>3, <2>4, <2>5
  <2> QED BY <2>1, <2>6 DEF Room, ShortLists
<1>4. g \in Injection(I, Room)
  <2>1. g \in [I -> Room]
    BY <1>3
  <2>2. ASSUME NEW i \in I, NEW j \in I, g[i] = g[j] PROVE i = j
    <3>1. <<"merged", i>> = <<"merged", j>>
      BY <1>1, <1>2, <2>2
    <3> QED BY <3>1
  <2> HIDE DEF g, I
  <2> QED BY <2>1, <2>2 DEF Injection, IsInjective
<1> HIDE DEF g
<1>5. IsFiniteSet(Room)
  BY RoomFinite
<1>6. Cardinality(I) <= Cardinality(Room)
  <2> HIDE DEF I
  <2> QED BY <1>4, <1>5, FS_Injection
<1>7. Cardinality(I) = Len(merged)
  <2> DEFINE n == Len(merged)
  <2>1. n \in Nat /\ 1 \in Int /\ n \in Int
    BY <1>1
  <2> HIDE DEF n
  <2>2. Cardinality(1..n) = n
    BY <2>1, FS_Interval
  <2> QED BY <2>2 DEF n
<1> QED BY <1>6, <1>7

\* Steps of a command before the next subproject is taken.
StepsAhead ==
  [none |-> 0, next |-> 0, load |-> 1, compiler |-> 2, compile |-> 3, wipe |-> 4, write |-> 5,
   header |-> 6][step]

\* What the command still has to do: parts for which there is room, subprojects that
\* wait, and the steps of the one in hand.
LoadMeasure ==
  IF Idle THEN <<0, 0, 0, 0>>
  ELSE <<1, Cardinality(Room) - Len(merged), Len(worklist), StepsAhead>>

LEMMA LoadMeasureType ==
  ASSUME PathsLead, LoadInv, TreeInv, ShortInv
  PROVE  LoadMeasure \in [1..4 -> Nat]
<1> DEFINE c == Cardinality(Room)
           m == Len(merged)
           l == Len(worklist)
<1>1. c \in Nat /\ m \in Nat /\ l \in Nat
  BY RoomFinite, SlotFacts
<1>2. ~Idle => m <= c
  <2>1. CASE command = "compile_commands"
    <3>1. m = 0
      BY <2>1 DEF TreeInv
    <3> HIDE DEF c, m
    <3> QED BY <1>1, <3>1
  <2>2. CASE command \in {"build", "lock"}
    BY <2>2, MergedFits DEF TreeInv
  <2> QED BY <2>1, <2>2 DEF LoadInv, LoadTypeOK, Commands, Idle
<1>3. StepsAhead \in Nat
  BY DEF LoadInv, LoadTypeOK, StepsAhead
<1> HIDE DEF c, m, l
<1>4. CASE Idle
  <2>1. <<0, 0, 0, 0>> \in [1..4 -> Nat]
    OBVIOUS
  <2> QED BY <1>4, <2>1 DEF LoadMeasure
<1>5. CASE ~Idle
  <2>1. c - m \in Nat
    BY <1>1, <1>2, <1>5
  <2> DEFINE r == c - m
  <2>2. LoadMeasure = <<1, r, l, StepsAhead>>
    BY <1>5 DEF LoadMeasure, c, m, l
  <2>3. r \in Nat
    BY <2>1
  <2> HIDE DEF r
  <2>4. <<1, r, l, StepsAhead>> \in [1..4 -> Nat]
    BY <1>1, <1>3, <2>3
  <2> QED BY <2>2, <2>4
<1> QED BY <1>4, <1>5

\* A build.cpp is saved, which adds nothing to what is left to do.
Saved == (\E d \in DOMAIN project.dirs : Edit(d)) /\ LoadMeasure' = LoadMeasure

LEMMA SavesAddNothing ==
  ASSUME NEW d \in DOMAIN project.dirs, Edit(d)
  PROVE  LoadMeasure' = LoadMeasure
<1>1. UNCHANGED <<project, command, step, loading>>
  BY DEF Edit
<1> QED BY <1>1 DEF LoadMeasure, Idle, StepsAhead, Room, Numbers, loading

\* Whatever a command does, less is left to do.
LEMMA LoadTurnDescends ==
  ASSUME LoadInv, [LoadNext]_loadVars, ~ UNCHANGED loadVars, ~Idle, PathsLead,
         ~ \E d \in DOMAIN project.dirs : Edit(d)
  PROVE  Lower(LoadMeasure', LoadMeasure)
<1> DEFINE c == Cardinality(Room)
           m == Len(merged)
           l == Len(worklist)
           r == c - m
<1>1. c \in Nat /\ m \in Nat /\ l \in Nat
  BY RoomFinite, SlotFacts
<1>2. c' = c
  BY SameProject DEF Room, Numbers
<1>3. LoadMeasure = <<1, r, l, StepsAhead>>
  BY DEF LoadMeasure
<1>4. CASE Idle'
  <2>1. LoadMeasure' = <<0, 0, 0, 0>>
    BY <1>4 DEF LoadMeasure
  <2> HIDE DEF r, l
  <2>2. Lower(<<0, 0, 0, 0>>, <<1, r, l, StepsAhead>>)
    BY LowerFour
  <2> QED BY <1>3, <2>1, <2>2
<1>5. CASE ~Idle'
  <2>1. LoadMeasure' = <<1, r', l', StepsAhead'>>
    BY <1>5 DEF LoadMeasure
  <2>2. r' = c - m'
    BY <1>2
  <2>3. \/ r' < r
        \/ r' = r /\ l' < l
        \/ r' = r /\ l' = l /\ StepsAhead' < StepsAhead
    <3>1. CASE \/ HeaderIsCurrent \/ TruncateHeader \/ WriteHeader \/ WipeLibraries
               \/ Reuse \/ StartCompiler \/ Compile
      <4>1. merged' = merged /\ worklist' = worklist /\ StepsAhead' < StepsAhead
        BY <3>1 DEF HeaderIsCurrent, TruncateHeader, AfterTheHeader, WriteHeader, WipeLibraries, Reuse,
                    StartCompiler, Compile, loading, StepsAhead
      <4> QED BY <2>2, <4>1
    <3>2. CASE Load
      <4> DEFINE part == [path |-> current, from |-> Library]
      <4>1. merged' = Append(merged, part) /\ merged \in Seq(Parts) /\ part \in Parts
        BY <3>2, LibraryFacts DEF Load
      <4> HIDE DEF part
      <4>2. m' = m + 1
        BY <4>1, AppendProperties
      <4> HIDE DEF c, m
      <4> QED BY <1>1, <2>2, <4>2
    <3>3. CASE Enter \/ Delegate
      <4>1. worklist # <<>> /\ worklist' = Front(worklist) /\ merged' = merged
        BY <3>3 DEF Enter, Delegate
      <4>2. l' = l - 1
        BY <4>1, WorklistFacts
      <4>3. m' = m
        BY <4>1
      <4> HIDE DEF c, m, l
      <4> QED BY <1>1, <2>2, <4>2, <4>3
    <3>4. ~(HeaderFails \/ CompileFails \/ LoadFails \/ Unresolved \/ ReturnConfiguration \/ Kill)
      BY <1>5 DEF HeaderFails, CompileFails, LoadFails, Unresolved, ReturnConfiguration, Kill, End, Idle
    <3>5. /\ ~ \E p \in Headers : Upgrade(p)
          /\ ~ \E x \in Commands : Start(x)
          /\ ~ CleanLibraries
      BY DEF Upgrade, Start, CleanLibraries
    <3> QED BY <3>1, <3>2, <3>3, <3>4, <3>5 DEF LoadNext, LoadStep, LoadUser
  <2> HIDE DEF r, l
  <2>4. Lower(<<1, r', l', StepsAhead'>>, <<1, r, l, StepsAhead>>)
    BY <2>3, LowerFour
  <2> QED BY <1>3, <2>1, <2>4
<1> QED BY <1>4, <1>5

\* Every step of a command lowers a list of four numbers, and saving a build.cpp
\* meanwhile leaves it as it is, so no load takes steps for ever (DescentEnds), not even
\* of a subproject that leads back to one that contains it: the names on the way grow
\* longer and there are only so many that fit into a file's.
THEOREM LoadDescends ==
  PathsLead /\ LoadInit /\ [][LoadNext]_loadVars =>
    /\ [](LoadMeasure \in [1..4 -> Nat])
    /\ [][~Idle => Lower(LoadMeasure', LoadMeasure) \/ Saved]_loadVars
<1>1. LoadInit => LoadInv /\ TreeInv /\ ShortInv
  <2>1. LoadInit => ShortInv
    BY DEF LoadInit, ShortInv
  <2> QED BY <2>1, LoadInitially, TreeInitially
<1>2. LoadInv /\ TreeInv /\ ShortInv /\ [LoadNext]_loadVars => LoadInv' /\ TreeInv' /\ ShortInv'
  BY LoadStepKept, TreeStep, ShortStep
<1>3. PathsLead /\ LoadInv /\ TreeInv /\ ShortInv => LoadMeasure \in [1..4 -> Nat]
  BY LoadMeasureType
<1>4. PathsLead /\ LoadInv /\ [LoadNext]_loadVars =>
        [~Idle => Lower(LoadMeasure', LoadMeasure) \/ Saved]_loadVars
  BY LoadTurnDescends, SavesAddNothing DEF Saved
<1>5. PathsLead => []PathsLead
  <2>1. PathsLead /\ [TRUE]_loadVars => PathsLead'
    BY DEF PathsLead
  <2> QED BY <2>1, PTL
<1> QED BY <1>1, <1>2, <1>3, <1>4, <1>5, PTL

------------------------------------------------------------------------------
(* A project and the cppup it is built with *)

\* Whatever installs the program, to the loader it is another program or the same.
LEMMA InstallationLoads == [InstallationNext]_installationVars => [LoadNext]_loadVars
<1> SUFFICES ASSUME [InstallationNext]_installationVars PROVE [LoadNext]_loadVars
  OBVIOUS
<1>1. CASE LoadProject
  BY <1>1 DEF LoadProject, LoadNext
<1>2. CASE RunCommand
  BY <1>2 DEF RunCommand, LoadNext, LoadUser
<1>3. CASE UseProject
  BY <1>3 DEF UseProject, LoadNext, LoadUser
<1>4. CASE UpdateItself
  <2>1. UNCHANGED <<disk, command, step, loading, loaded, flaws>> /\ Idle
    BY <1>4 DEF UpdateItself
  <2>2. CASE program' = program
    BY <2>1, <2>2 DEF loadVars
  <2>3. CASE program' # program
    <3>1. program' \in Headers
      BY <1>4, <2>3, InstallationAssumption DEF UpdateItself, InstallationAssumption
    <3>2. Upgrade(program')
      BY <2>1, <2>3 DEF Upgrade
    <3> QED BY <3>1, <3>2 DEF LoadNext, LoadUser
  <2> QED BY <2>2, <2>3
<1>5. CASE InstallAnother
  BY <1>5 DEF InstallAnother, LoadNext, LoadUser
<1>6. CASE UNCHANGED installationVars
  BY <1>6 DEF installationVars
<1> QED BY <1>1, <1>2, <1>3, <1>4, <1>5, <1>6 DEF InstallationNext

LEMMA InstallationInitially == InstallationInit => InstallationInv
<1> SUFFICES ASSUME InstallationInit PROVE InstallationInv
  OBVIOUS
<1>1. LoadInv /\ UpdateInv
  BY LoadInitially, UpdateInitially DEF InstallationInit
<1> QED BY <1>1 DEF InstallationInit, InstallationInv, UpdateInit

\* A step of an update, none, or a program put in place by another way.
LEMMA InstallationUpdates ==
  ASSUME InstallationInv, [InstallationNext]_installationVars
  PROVE  \/ [UpdateNext]_updateVars /\ project \in SelfUpdating
         \/ UNCHANGED updateVars /\ (program' = program \/ project \in SelfUpdating)
         \/ /\ project \notin SelfUpdating /\ target' = program' /\ program' \in Releases
            /\ UNCHANGED <<backup, staged, wanted, at, updated, cut>>
<1>1. CASE LoadProject
  BY <1>1 DEF LoadProject, LoadStep, HeaderIsCurrent, TruncateHeader, WriteHeader, WipeLibraries,
              HeaderFails, Reuse, StartCompiler, Compile, CompileFails, Load, LoadFails, Enter, Delegate, Unresolved,
              ReturnConfiguration
<1>2. CASE RunCommand
  BY <1>2 DEF RunCommand, Start
<1>3. CASE UseProject
  BY <1>3 DEF UseProject, Edit, CleanLibraries, Kill
<1>4. CASE UpdateItself
  BY <1>4 DEF UpdateItself
<1>5. CASE InstallAnother
  BY <1>5, InstallationAssumption DEF InstallAnother, Upgrade, InstallationAssumption
<1>6. CASE UNCHANGED installationVars
  BY <1>6 DEF installationVars, loadVars
<1> QED BY <1>1, <1>2, <1>3, <1>4, <1>5, <1>6 DEF InstallationNext

LEMMA InstallationKept ==
  ASSUME InstallationInv, [InstallationNext]_installationVars
  PROVE  /\ InstallationInv'
         /\ [~cut' /\ (Runs(target) \/ Runs(backup)) => Runs(target') \/ Runs(backup')]_updateVars
<1>1. LoadInv' /\ project' = project
  BY InstallationLoads, LoadStepKept, SameProject DEF InstallationInv
<1>2. CASE [UpdateNext]_updateVars /\ project \in SelfUpdating
  <2>1. UpdateInv'
    BY <1>2, UpdateStep DEF InstallationInv
  <2>2. [~cut' /\ (Runs(target) \/ Runs(backup)) => Runs(target') \/ Runs(backup')]_updateVars
    BY <1>2, BinaryKeptStep DEF InstallationInv
  <2> QED BY <1>1, <1>2, <2>1, <2>2 DEF InstallationInv
<1>3. CASE UNCHANGED updateVars /\ (program' = program \/ project \in SelfUpdating)
  <2>1. UpdateInv'
    BY <1>3, UpdateStep DEF InstallationInv
  <2> QED BY <1>1, <1>3, <2>1 DEF InstallationInv, updateVars, install
<1>4. CASE /\ project \notin SelfUpdating /\ target' = program' /\ program' \in Releases
           /\ UNCHANGED <<backup, staged, wanted, at, updated, cut>>
  <2>1. UpdateInv'
    BY <1>4, UpdateAssumption DEF InstallationInv, UpdateInv, UpdateTypeOK, UpdateAssumption, Files
  <2> QED BY <1>1, <1>4, <2>1 DEF InstallationInv, Runs
<1> QED BY <1>2, <1>3, <1>4, InstallationUpdates

\* With the cppup that builds it being replaced between the commands, or while it
\* replaces itself, a project is loaded, and a binary installed, as each promises.
THEOREM InstallationInvariance == InstallationSpec => []InstallationInv
  BY InstallationInitially, InstallationKept, PTL DEF InstallationSpec

\* Installed and used, the program does to a project what the loader describes.
THEOREM InstallationImplementsLoader ==
  InstallationSpec => LoadInit /\ [][LoadNext]_loadVars
  BY InstallationLoads, PTL DEF InstallationSpec, InstallationInit

------------------------------------------------------------------------------
(* All that is done with a build.cpp *)

LEMMA ConfigurationInitially == Init => ConfigurationInv
  BY LockInitially, InstallationInitially
     DEF Init, ConfigurationInv, LockInit, LockInv, WalkInv, LockComplete, LockErrors

LEMMA ConfigurationSteps ==
  [Next]_configVars => [LockNext]_lockVars /\ [InstallationNext]_installationVars
<1> SUFFICES ASSUME [Next]_configVars
             PROVE  [LockNext]_lockVars /\ [InstallationNext]_installationVars
  OBVIOUS
<1>1. CASE Walk
  BY <1>1 DEF Walk
<1>2. CASE Use
  BY <1>2 DEF Use
<1>3. CASE UNCHANGED configVars
  BY <1>3 DEF configVars
<1> QED BY <1>1, <1>2, <1>3 DEF Next

\* The walk over packages, the loader and the update keep what they rest on when
\* they are put together.
THEOREM ConfigurationInvariance == Spec => []ConfigurationInv
<1>1. ConfigurationInv /\ [Next]_configVars => ConfigurationInv'
  BY ConfigurationSteps, LockStep, InstallationKept DEF ConfigurationInv
<1> QED BY <1>1, ConfigurationInitially, PTL DEF Spec

\* So what a run checks of the update and of the loader holds of every instance.
THEOREM ConfigurationKeepsBinaries == Spec => []InstalledIsVerified /\ LastBinaryKept
<1>1. ConfigurationInv => InstalledIsVerified
  BY DEF ConfigurationInv, InstallationInv, UpdateInv, UpdateTypeOK, InstalledIsVerified, Files
<1>2. ConfigurationInv /\ [Next]_configVars =>
        [~cut' /\ (Runs(target) \/ Runs(backup)) => Runs(target') \/ Runs(backup')]_updateVars
  BY ConfigurationSteps, InstallationKept DEF ConfigurationInv
<1> QED BY <1>1, <1>2, ConfigurationInvariance, PTL DEF Spec, LastBinaryKept

\* To the loader all of it is commands, edits and upgrades.
LEMMA ConfigurationLoads == Spec => LoadInit /\ [][LoadNext]_loadVars
<1>1. Init => LoadInit
  BY DEF Init, InstallationInit
<1>2. [Next]_configVars => [LoadNext]_loadVars
  BY ConfigurationSteps, InstallationLoads
<1> QED BY <1>1, <1>2, PTL DEF Spec

\* Nor does any of it keep what is loaded from being current.
THEOREM ConfigurationIsCurrent == NamesApart /\ Spec => LoadsCurrent
  BY ConfigurationLoads, CurrentLoads, PTL

\* Nor from being the whole tree.
THEOREM ConfigurationMergesTheTree == Spec => []MergesTheTree
  BY ConfigurationLoads, TreeMerged, PTL

\* Nor from ending.
THEOREM ConfigurationLoadDescends ==
  PathsLead /\ Spec =>
    /\ [](LoadMeasure \in [1..4 -> Nat])
    /\ [][~Idle => Lower(LoadMeasure', LoadMeasure) \/ Saved]_loadVars
  BY ConfigurationLoads, LoadDescends, PTL
==============================================================================
