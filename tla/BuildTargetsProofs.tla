-------------------------- MODULE BuildTargetsProofs --------------------------
(***************************************************************************)
(* What a successful build leaves, for every set of targets, files and     *)
(* versions: under FreshnessConditions its outputs are those of a build    *)
(* from nothing.                                                           *)
(***************************************************************************)
EXTENDS BuildTargets, Induction, FiniteSetTheorems, TLAPS

Phases == {<<"plan", "compile">>, <<"compile", "library">>, <<"library", "binary">>, <<"binary", "test">>}

(* Types *)

\* What a source reads is a file, and of the files a target reads.
LEMMA InputTypes ==
  ASSUME NEW t \in Targets
  PROVE  /\ Read(t) \subseteq Files /\ NeededBy(t) \subseteq Read(t)
         /\ \A s \in SourcesOf[t] : /\ s \in Files \ Headers /\ Includes[s] \subseteq Headers
                                    /\ Inputs(s) \subseteq Files
                                    /\ FreshnessConditions => Inputs(s) \subseteq NeededBy(t)
BY TargetsAssumption DEF Read, NeededBy, Inputs, FreshnessConditions

LEMMA SnapshotType ==
  ASSUME TypeOK, NEW t \in Targets, NEW s \in SourcesOf[t]
  PROVE  Snapshot(t, s) \in Snapshots
<1>1. s \in Files \ Headers /\ Inputs(s) \subseteq Files
  BY InputTypes
<1>2. [f \in Inputs(s) |-> content[f]] \in [Inputs(s) -> Versions \cup {Nothing}]
  BY <1>1 DEF TypeOK
<1>3. CompilerOf(t) \in Compilers \cup {Gxx} /\ selection.flags \in FlagSets
  BY DEF TypeOK, CompilerOf
<1>4. QED
  BY <1>1, <1>2, <1>3 DEF Snapshot, Snapshots

\* A clean output is an output, and not a torn one.
LEMMA CleanType ==
  ASSUME TypeOK, NEW t \in Targets
  PROVE  /\ CleanObjects(t) \in [SourcesOf[t] -> Snapshots] /\ CleanObjects(t) \in ObjectLists
         /\ CleanObjects(t) # Torn.objects
<1>1. CleanObjects(t) \in [SourcesOf[t] -> Snapshots]
  BY SnapshotType DEF CleanObjects
<1>2. CleanObjects(t) \in ObjectLists
  BY <1>1 DEF ObjectLists
<1>3. QED
  BY <1>1, <1>2, TargetsAssumption DEF Torn

\* There is one database, and one compiler for each target.
LEMMA OneToolchain ==
  ASSUME FreshnessConditions, TypeOK,
         selection' \in [compiler : Compilers, flags : FlagSets]
  PROVE  triplet' = triplet /\ \A t \in Targets : CompilerOf(t)' = CompilerOf(t)
BY DEF FreshnessConditions, TypeOK, triplet, CompilerOf

LEMMA EntryTypes ==
  ASSUME TypeOK, NEW t \in Targets
  PROVE  /\ triplet \in DOMAIN cache /\ NameOf[t] \in DOMAIN cache[triplet]
         /\ EntryOf(t) \in Entries \cup {Nothing}
<1>1. selection.compiler \in Compilers
  BY DEF TypeOK
<1>2. triplet \in {FamilyOf[c] : c \in Compilers} /\ NameOf[t] \in {NameOf[u] : u \in Targets}
  BY <1>1 DEF triplet
<1>3. /\ DOMAIN cache = {FamilyOf[c] : c \in Compilers}
      /\ cache[triplet] \in [{NameOf[u] : u \in Targets} -> Entries \cup {Nothing}]
  BY <1>2 DEF TypeOK
<1>4. QED
  BY <1>2, <1>3 DEF EntryOf

\* What ar or the linker writes from the objects of this build.
LEMMA ArtifactType ==
  ASSUME TypeOK, MadeInv, NEW t \in Targets, compiled[t] = SourcesOf[t],
         \A l \in LinksOf[t] : artifact[l] \notin {Nothing, Torn}
  PROVE  LET new == [objects |-> [s \in SourcesOf[t] |-> object[ObjectOf[t][s]]],
                     libs |-> [l \in LinksOf[t] |-> artifact[l].objects]]
         IN  new \in Artifacts /\ new # Nothing /\ new.objects = CleanObjects(t)
<1>1. [s \in SourcesOf[t] |-> object[ObjectOf[t][s]]] = CleanObjects(t)
  BY DEF MadeInv, CleanObjects
<1>2. \A l \in LinksOf[t] : l \in Targets /\ artifact[l].objects \in ObjectLists
  BY TargetsAssumption DEF TypeOK, ObjectLists
<1>3. [l \in LinksOf[t] |-> artifact[l].objects] \in [LinksOf[t] -> ObjectLists]
  BY <1>2
<1>4. QED
  BY <1>1, <1>3, CleanType, TargetsAssumption DEF Artifacts

\* What is recorded is an entry.
LEMMA RecordedType ==
  ASSUME TypeOK, NEW t \in Targets, NEW version \in [Read(t) -> Versions \cup {Nothing}], NEW flags \in FlagSets
  PROVE  /\ [signature |-> [target |-> t, flags |-> flags], dependencies |-> Recorded(t, version)] \in Entries
         /\ [signature |-> [target |-> t, flags |-> flags], dependencies |-> Recorded(t, version)] # Nothing
<1>1. Recorded(t, version) \subseteq [file : Files, checksum : Versions]
  BY InputTypes DEF Recorded
<1>2. QED
  BY <1>1, TargetsAssumption DEF Entries

\* The record cache_build_result writes.
NewEntry(t) == [signature |-> target_signature(t),
                dependencies |-> collected[t].sources \cup
                  {[file |-> h, checksum |-> content[h]] :
                     h \in {i \in collected[t].includes : content[i] # Nothing}}]

LEMMA NewEntryIs ==
  ASSUME TypeOK, MadeInv, NEW t \in Targets, pc[t] = "persist"
  PROVE  /\ NewEntry(t) = [signature |-> target_signature(t), dependencies |-> Recorded(t, content)]
         /\ NewEntry(t) \in Entries /\ NewEntry(t) # Nothing
<1>1. /\ collected[t] = [sources |-> {[file |-> s, checksum |-> content[s]] : s \in SourcesOf[t]},
                         includes |-> {h \in UNION {Includes[s] : s \in SourcesOf[t]} : content[h] # Nothing}]
      /\ \A s \in SourcesOf[t] : content[s] # Nothing
  BY DEF MadeInv, Made, Complete, NeededBy
<1>2. NewEntry(t).dependencies = Recorded(t, content)
  BY <1>1 DEF NewEntry, Recorded, Read
<1>3. NewEntry(t) = [signature |-> target_signature(t), dependencies |-> Recorded(t, content)]
  BY <1>2 DEF NewEntry
<1>4. [f \in Read(t) |-> content[f]] \in [Read(t) -> Versions \cup {Nothing}] /\ selection.flags \in FlagSets
  BY InputTypes DEF TypeOK
<1>5. Recorded(t, content) = Recorded(t, [f \in Read(t) |-> content[f]])
  BY DEF Recorded
<1>6. QED
  BY <1>3, <1>4, <1>5, RecordedType DEF target_signature

LEMMA NothingBegun ==
  /\ NoObjects \in [ObjectFiles -> Snapshots \cup {Nothing}]
  /\ Unbegun \in [Targets -> SUBSET Files] /\ \A t \in Targets : Unbegun[t] = {}
BY DEF NoObjects, Unbegun

\* Each step keeps every variable of its type.
LEMMA TypeStep ==
  ASSUME TypeOK, MadeInv, [Next]_vars
  PROVE  TypeOK'
<1> USE DEF TypeOK
<1>1. ASSUME NEW f \in Files, Edit(f) PROVE TypeOK'
  <2>1. PICK v \in EditsOf(f) : content' = [content EXCEPT ![f] = v]
    BY <1>1 DEF Edit
  <2>2. v \in Versions \/ (v = Nothing /\ f \in Headers)
    BY <2>1 DEF EditsOf
  <2>3. /\ content' \in [Files -> Versions \cup {Nothing}]
        /\ \A g \in Files \ Headers : content'[g] # Nothing
    BY <2>1, <2>2, TargetsAssumption
  <2>4. QED
    BY <1>1, <2>3 DEF Edit, files, outputs, objects, progress, history
<1>2. CASE Select
  BY <1>2 DEF Select, files, outputs, objects, progress, history
<1>3. CASE executeClean
  <2>1. PICK gone \in SUBSET Targets, triplets \in SUBSET DOMAIN cache :
               /\ regime.partialCleans \/ gone = {} \/ triplets = DOMAIN cache
               /\ artifact' = [t \in Targets |-> IF t \in gone THEN Nothing ELSE artifact[t]]
               /\ cache' = [k \in DOMAIN cache |-> IF k \in triplets
                                                  THEN [n \in DOMAIN cache[k] |-> Nothing]
                                                  ELSE cache[k]]
    BY <1>3 DEF executeClean
  <2>2. /\ artifact' \in [Targets -> Artifacts \cup {Nothing, Torn}]
        /\ \A u \in Targets : artifact'[u] \notin {Nothing, Torn} => artifact'[u].objects \in [SourcesOf[u] -> Snapshots]
    BY <2>1
  <2>3. \A k \in {FamilyOf[c] : c \in Compilers} :
          cache'[k] \in [{NameOf[u] : u \in Targets} -> Entries \cup {Nothing}]
    BY <2>1
  <2>4. cache' \in [{FamilyOf[c] : c \in Compilers} -> [{NameOf[u] : u \in Targets} -> Entries \cup {Nothing}]]
    BY <2>1, <2>3
  <2>5. QED
    BY <1>3, <2>2, <2>4 DEF executeClean, files, outputs, objects, progress, history
<1>4. CASE StartBuild
  BY <1>4 DEF StartBuild, files, outputs, objects, progress, history
<1>5. CASE StartWithoutCache
  BY <1>5, NothingBegun DEF StartWithoutCache, EndBuild, files, outputs, objects, progress, history
<1>6. CASE PreBuildScripts
  <2>1. /\ content' \in [Files -> Versions \cup {Nothing}]
        /\ \A f \in Files : content'[f] = content[f] \/ content'[f] # Nothing
    BY <1>6 DEF PreBuildScripts
  <2>2. QED
    BY <1>6, <2>1 DEF PreBuildScripts, files, outputs, objects, progress, history
<1>7. CASE ScriptFails
  BY <1>7, NothingBegun DEF ScriptFails, EndBuild, files, outputs, objects, progress, history
<1>8. ASSUME NEW from, NEW to, NextPhase(from, to), <<from, to>> \in Phases PROVE TypeOK'
  BY <1>8 DEF NextPhase, Phases, files, outputs, objects, progress, history
<1>9. CASE Succeed
  BY <1>9, NothingBegun DEF Succeed, EndBuild, files, outputs, objects, progress, history
<1>10. CASE GiveUp
  BY <1>10, NothingBegun DEF GiveUp, EndBuild, files, outputs, objects, progress, history
<1>11. CASE Crash
  <2>1. \A t \in Targets : artifact'[t] \in {artifact[t], Torn, Nothing} /\ DOMAIN artifact' = Targets
    BY <1>11 DEF Crash
  <2>2. artifact' = [t \in Targets |-> artifact'[t]]
    BY <1>11 DEF Crash
  <2>3. /\ artifact' \in [Targets -> Artifacts \cup {Nothing, Torn}]
        /\ \A u \in Targets : artifact'[u] \notin {Nothing, Torn} => artifact'[u].objects \in [SourcesOf[u] -> Snapshots]
    BY <2>1, <2>2
  <2>4. QED
    BY <1>11, <2>3, NothingBegun DEF Crash, EndBuild, files, outputs, objects, progress, history
<1>12. ASSUME NEW t \in Targets, CheckCache(t) PROVE TypeOK'
  BY <1>12 DEF CheckCache, files, outputs, objects, progress, history
<1>13. ASSUME NEW t \in Targets, JobFails(t) PROVE TypeOK'
  <2>1. artifact' = artifact \/ \E left \in {Nothing, Torn} : artifact' = [artifact EXCEPT ![t] = left]
    BY <1>13 DEF JobFails
  <2>2. /\ artifact' \in [Targets -> Artifacts \cup {Nothing, Torn}]
        /\ \A u \in Targets : artifact'[u] \notin {Nothing, Torn} => artifact'[u].objects \in [SourcesOf[u] -> Snapshots]
    BY <2>1
  <2>3. QED
    BY <1>13, <2>2 DEF JobFails, files, outputs, objects, progress, history
<1>14. ASSUME NEW t \in Targets, Finish(t) PROVE TypeOK'
  <2>1. DEFINE new == [objects |-> [s \in SourcesOf[t] |-> object[ObjectOf[t][s]]],
                       libs |-> [l \in LinksOf[t] |-> artifact[l].objects]]
  <2>2. new \in Artifacts /\ new.objects \in [SourcesOf[t] -> Snapshots]
    BY <1>14, ArtifactType, CleanType DEF Finish, Linking
  <2>3. artifact' = [artifact EXCEPT ![t] = new]
    BY <1>14 DEF Finish
  <2> HIDE DEF new
  <2>4. /\ artifact' \in [Targets -> Artifacts \cup {Nothing, Torn}]
        /\ \A u \in Targets : artifact'[u] \notin {Nothing, Torn} => artifact'[u].objects \in [SourcesOf[u] -> Snapshots]
    BY <2>2, <2>3
  <2>5. QED
    BY <1>14, <2>4 DEF Finish, Linking, files, outputs, objects, progress, history
<1>15. ASSUME NEW t \in Targets, collect_dependencies(t) PROVE TypeOK'
  BY <1>15 DEF collect_dependencies, files, outputs, objects, progress, history
<1>16. ASSUME NEW t \in Targets, cache_build_result(t) PROVE TypeOK'
  <2>1. cache' = [cache EXCEPT ![triplet][NameOf[t]] = NewEntry(t)]
    BY <1>16 DEF cache_build_result, NewEntry
  <2>2. NewEntry(t) \in Entries
    BY <1>16, NewEntryIs DEF cache_build_result
  <2>3. cache' \in [{FamilyOf[c] : c \in Compilers} -> [{NameOf[u] : u \in Targets} -> Entries \cup {Nothing}]]
    BY <2>1, <2>2, EntryTypes
  <2>4. QED
    BY <1>16, <2>3 DEF cache_build_result, files, outputs, objects, progress, history
<1>17. ASSUME NEW t \in Targets, NEW s \in SourcesOf[t], Compile(t, s) PROVE TypeOK'
  <2>1. Snapshot(t, s) \in Snapshots
    BY <1>17, SnapshotType DEF Compile
  <2>2. /\ object' = [object EXCEPT ![ObjectOf[t][s]] = Snapshot(t, s)]
        /\ compiled' = [compiled EXCEPT ![t] = @ \cup {s}]
    BY <1>17 DEF Compile
  <2>3. object' \in [ObjectFiles -> Snapshots \cup {Nothing}]
    BY <2>1, <2>2
  <2>4. /\ compiled' \in [Targets -> SUBSET Files]
        /\ \A u \in Targets : compiled'[u] \subseteq SourcesOf[u]
    BY <2>2, TargetsAssumption
  <2>5. QED
    BY <1>17, <2>3, <2>4 DEF Compile, files, outputs, objects, progress, history
<1>18. CASE UNCHANGED vars
  BY <1>18 DEF vars, files, outputs, objects, progress, history
<1>19. QED
  BY <1>1, <1>2, <1>3, <1>4, <1>5, <1>6, <1>7, <1>8, <1>9, <1>10, <1>11, <1>12, <1>13, <1>14, <1>15, <1>16, <1>17, <1>18
     DEF Next, Job, executeBuild, Phases

(* The phases *)

\* While a build runs its targets move through the phases in order.
LEMMA PhaseStep ==
  ASSUME TypeOK, PhaseInv, [Next]_vars
  PROVE  PhaseInv'
<1> USE TargetsAssumption DEF TypeOK, PhaseInv, OfKind
<1>1. ASSUME NEW f \in Files, Edit(f) PROVE PhaseInv'
  BY <1>1 DEF Edit, files, outputs, objects, progress, history
<1>2. CASE Select
  BY <1>2 DEF Select, files, outputs, objects, progress, history
<1>3. CASE executeClean
  BY <1>3 DEF executeClean, files, outputs, objects, progress, history
<1>4. CASE StartBuild
  BY <1>4 DEF StartBuild, files, outputs, objects, progress, history
<1>5. CASE StartWithoutCache
  BY <1>5 DEF StartWithoutCache, EndBuild, files, outputs, objects, progress, history
<1>6. CASE PreBuildScripts
  BY <1>6 DEF PreBuildScripts, files, outputs, objects, progress, history
<1>7. CASE ScriptFails
  BY <1>7 DEF ScriptFails, EndBuild, files, outputs, objects, progress, history
<1>8. ASSUME NEW from, NEW to, NextPhase(from, to), <<from, to>> \in Phases PROVE PhaseInv'
  <2>1. CASE from = "plan" \/ from = "compile"
    BY <1>8, <2>1 DEF NextPhase, Phases, files, outputs, objects, progress, history
  <2>2. CASE from = "library" \/ from = "binary"
    BY <1>8, <2>2 DEF NextPhase, Phases, files, outputs, objects, progress, history
  <2>3. QED
    BY <1>8, <2>1, <2>2 DEF Phases
<1>9. CASE Succeed
  BY <1>9 DEF Succeed, EndBuild, files, outputs, objects, progress, history
<1>10. CASE GiveUp
  BY <1>10 DEF GiveUp, EndBuild, files, outputs, objects, progress, history
<1>11. CASE Crash
  BY <1>11 DEF Crash, EndBuild, files, outputs, objects, progress, history
<1>12. ASSUME NEW t \in Targets, CheckCache(t) PROVE PhaseInv'
  BY <1>12 DEF CheckCache, files, outputs, objects, progress, history
<1>13. ASSUME NEW t \in Targets, JobFails(t) PROVE PhaseInv'
  BY <1>13 DEF JobFails, Compiling, files, outputs, objects, progress, history
<1>14. ASSUME NEW t \in Targets, Finish(t) PROVE PhaseInv'
  BY <1>14 DEF Finish, Linking, files, outputs, objects, progress, history
<1>15. ASSUME NEW t \in Targets, collect_dependencies(t) PROVE PhaseInv'
  BY <1>15 DEF collect_dependencies, files, outputs, objects, progress, history
<1>16. ASSUME NEW t \in Targets, cache_build_result(t) PROVE PhaseInv'
  BY <1>16 DEF cache_build_result, files, outputs, objects, progress, history
<1>17. ASSUME NEW t \in Targets, NEW s \in SourcesOf[t], Compile(t, s) PROVE PhaseInv'
  BY <1>17 DEF Compile, files, outputs, objects, progress, history
<1>18. CASE UNCHANGED vars
  BY <1>18 DEF vars, files, outputs, objects, progress, history
<1>19. QED
  BY <1>1, <1>2, <1>3, <1>4, <1>5, <1>6, <1>7, <1>8, <1>9, <1>10, <1>11, <1>12, <1>13, <1>14, <1>15, <1>16, <1>17, <1>18
     DEF Next, Job, executeBuild, Phases

(* What depends on the files and the selection alone *)

LEMMA SameInputs ==
  ASSUME UNCHANGED <<content, selection>>, NEW t \in Targets
  PROVE  /\ CompilerOf(t)' = CompilerOf(t)
         /\ \A s \in SourcesOf[t] : Snapshot(t, s)' = Snapshot(t, s)
         /\ CleanObjects(t)' = CleanObjects(t)
         /\ Complete(t)' <=> Complete(t)
         /\ target_signature(t)' = target_signature(t)
         /\ triplet' = triplet
<1>1. CompilerOf(t)' = CompilerOf(t)
  BY DEF CompilerOf
<1>2. \A s \in SourcesOf[t] : Snapshot(t, s)' = Snapshot(t, s)
  BY <1>1 DEF Snapshot
<1>3. CleanObjects(t)' = CleanObjects(t)
  BY <1>2 DEF CleanObjects
<1>4. Complete(t)' <=> Complete(t)
  BY DEF Complete
<1>5. target_signature(t)' = target_signature(t) /\ triplet' = triplet
  BY DEF target_signature, triplet
<1>6. QED
  BY <1>1, <1>2, <1>3, <1>4, <1>5

\* A target is served or not by its own output and entry.
LEMMA SameVerdict ==
  ASSUME UNCHANGED <<content, selection>>, NEW t \in Targets,
         artifact'[t] = artifact[t], EntryOf(t)' = EntryOf(t)
  PROVE  needs_rebuild(t)' <=> needs_rebuild(t)
BY SameInputs DEF needs_rebuild, EntryOf

\* A target whose output and record are not touched is as fresh as it was.
LEMMA SameOutput ==
  ASSUME UNCHANGED <<content, selection>>, NEW t \in Targets, artifact'[t] = artifact[t]
  PROVE  /\ Made(t)' <=> Made(t)
         /\ UNCHANGED cache => EntryOf(t)' = EntryOf(t)
         /\ EntryOf(t)' = EntryOf(t) => (Fresh(t)' <=> Fresh(t))
<1>1. Made(t)' <=> Made(t)
  BY SameInputs DEF Made
<1>2. UNCHANGED cache => EntryOf(t)' = EntryOf(t)
  BY SameInputs DEF EntryOf
<1>3. QED
  BY <1>1, <1>2, SameVerdict DEF Fresh

\* What RecordInv says of one target.
Accounts(t, version, flags) ==
  /\ EntryOf(t) = [signature |-> [target |-> t, flags |-> flags],
                   dependencies |-> Recorded(t, version)]
  /\ \A f \in NeededBy(t) : version[f] # Nothing
  /\ regime.crashes => /\ flags = selection.flags
                       /\ \A f \in Read(t) : version[f] # Nothing /\ version[f] <= content[f]
  /\ pc[t] \notin {"collect", "persist"} =>
       \/ artifact[t] # Nothing /\ artifact[t].objects = ObjectsFrom(t, flags, version)
       \/ artifact[t] = Nothing /\ ~regime.crashes
       \/ Outdated(t, version)
  /\ pc[t] = "compile" /\ regime.crashes => Outdated(t, version)

RecordOf(t) == EntryOf(t) # Nothing =>
  \E version \in [Read(t) -> Versions \cup {Nothing}], flags \in FlagSets : Accounts(t, version, flags)

LEMMA RecordsOne ==
  RecordInv <=> /\ regime.crashes => \A f \in Files : content[f] # Nothing
                /\ \A t \in Targets : RecordOf(t)
BY DEF RecordInv, RecordOf, Accounts

\* A hit in the cache means what it should.
LEMMA HitIsFresh ==
  ASSUME FreshnessConditions, TypeOK, RecordInv, NEW t \in Targets,
         pc[t] \notin {"collect", "persist"}, ~needs_rebuild(t)
  PROVE  Fresh(t)
<1>1. /\ artifact[t] # Nothing /\ EntryOf(t) # Nothing
      /\ EntryOf(t).signature = target_signature(t)
      /\ \A d \in EntryOf(t).dependencies : content[d.file] = d.checksum
  BY DEF needs_rebuild, EntryOf
<1>2. PICK version \in [Read(t) -> Versions \cup {Nothing}], flags \in FlagSets : Accounts(t, version, flags)
  BY <1>1, RecordsOne DEF RecordOf
<1>3. flags = selection.flags
  BY <1>1, <1>2 DEF target_signature, Accounts
<1>4. \A f \in Read(t) : version[f] # Nothing => content[f] = version[f]
  <2> SUFFICES ASSUME NEW f \in Read(t), version[f] # Nothing PROVE content[f] = version[f]
    OBVIOUS
  <2>1. [file |-> f, checksum |-> version[f]] \in EntryOf(t).dependencies
    BY <1>2 DEF Recorded, Accounts
  <2>2. QED
    BY <1>1, <2>1
<1>5. \A f \in NeededBy(t) : content[f] = version[f] /\ content[f] # Nothing
  BY <1>2, <1>4, InputTypes DEF Accounts
<1>6. artifact[t].objects = ObjectsFrom(t, flags, version)
  <2>1. ~Outdated(t, version)
    <3> SUFFICES ASSUME regime.crashes, NEW f \in Read(t), version[f] < content[f] PROVE FALSE
      BY DEF Outdated
    <3>1. version[f] = content[f] /\ version[f] \in Nat
      BY <1>2, <1>4, TargetsAssumption DEF Accounts
    <3>2. QED
      BY <3>1
  <2>2. QED
    BY <1>1, <1>2, <2>1 DEF Accounts
<1>7. \A s \in SourcesOf[t] : [f \in Inputs(s) |-> version[f]] = [f \in Inputs(s) |-> content[f]]
  BY <1>5, InputTypes
<1>8. ObjectsFrom(t, flags, version) = CleanObjects(t)
  BY <1>3, <1>7 DEF ObjectsFrom, CleanObjects, Snapshot
<1>9. QED
  BY <1>1, <1>5, <1>6, <1>8 DEF Fresh, Made, Complete

(* What a build has made *)

\* One entry is replaced: names differ.
LEMMA Persisted ==
  ASSUME FreshnessConditions, TypeOK, NEW t \in Targets, cache_build_result(t)
  PROVE  /\ EntryOf(t)' = NewEntry(t)
         /\ \A u \in Targets \ {t} : EntryOf(u)' = EntryOf(u)
<1>1. cache' = [cache EXCEPT ![triplet][NameOf[t]] = NewEntry(t)] /\ triplet' = triplet
  BY DEF cache_build_result, NewEntry, files, triplet
<1>2. \A u \in Targets \ {t} : NameOf[u] # NameOf[t]
  BY DEF FreshnessConditions
<1>3. triplet \in DOMAIN cache /\ NameOf[t] \in DOMAIN cache[triplet]
  BY EntryTypes
<1>4. QED
  BY <1>1, <1>2, <1>3 DEF EntryOf

\* Before a build, and when it has ended, there is nothing to account for.
LEMMA NothingMade ==
  ASSUME \A u \in Targets : pc'[u] = "todo" /\ compiled'[u] = {}, outcome' # "success"
  PROVE  MadeInv'
BY DEF MadeInv

LEMMA BeforeTheBuild ==
  ASSUME PhaseInv, MadeInv, phase \in {"idle", "scripts"}, UNCHANGED <<pc, compiled>>, outcome' # "success"
  PROVE  MadeInv'
<1>1. \A u \in Targets : pc[u] = "todo" /\ compiled[u] = {}
  BY DEF PhaseInv, MadeInv
<1>2. QED
  BY <1>1, NothingMade

\* What was compiled stays what it is.
LEMMA CompiledStays ==
  ASSUME TypeOK, MadeInv, UNCHANGED <<content, selection, compiled, object, phase>>, NEW t \in Targets
  PROVE  \A s \in compiled'[t] : /\ phase' \notin {"idle", "scripts"}
                                /\ object'[ObjectOf[t][s]] = Snapshot(t, s)'
                                /\ \A f \in {s} \cup Needed[s] : content'[f] # Nothing
<1>1. \A s \in compiled[t] : Snapshot(t, s)' = Snapshot(t, s)
  BY SameInputs DEF TypeOK
<1>2. QED
  BY <1>1 DEF MadeInv

\* Each step keeps what the build has made so far.
LEMMA MadeStep ==
  ASSUME FreshnessConditions, TypeOK, PhaseInv, MadeInv, RecordInv, [Next]_vars
  PROVE  MadeInv'
<1>1. ASSUME NEW f \in Files, Edit(f) PROVE MadeInv'
  <2>1. phase = "idle"
    BY <1>1 DEF Edit, FreshnessConditions, TypeOK
  <2>2. QED
    BY <1>1, <2>1, BeforeTheBuild DEF Edit, objects
<1>2. CASE Select
  BY <1>2, BeforeTheBuild DEF Select, objects
<1>3. CASE executeClean
  BY <1>3, BeforeTheBuild DEF executeClean, objects
<1>4. CASE StartBuild
  BY <1>4, BeforeTheBuild DEF StartBuild, objects
<1>5. CASE StartWithoutCache \/ ScriptFails \/ GiveUp \/ Crash
  BY <1>5, NothingBegun, NothingMade DEF StartWithoutCache, ScriptFails, GiveUp, Crash, EndBuild
<1>6. CASE PreBuildScripts
  BY <1>6, BeforeTheBuild DEF PreBuildScripts, PhaseInv, objects
<1>7. ASSUME NEW from, NEW to, NextPhase(from, to), <<from, to>> \in Phases PROVE MadeInv'
  <2>1. /\ UNCHANGED <<content, selection, compiled, object, artifact, cache, pc, collected>> /\ outcome' # "success"
        /\ phase' \notin {"idle", "scripts"}
    BY <1>7 DEF NextPhase, Phases, PhaseInv, files, outputs, objects
  <2>2. QED
    BY <2>1, SameInputs, SameOutput DEF MadeInv, TypeOK
<1>8. CASE Succeed
  <2>1. \A u \in Targets : pc'[u] = "todo" /\ compiled'[u] = {}
    BY <1>8, NothingBegun DEF Succeed, EndBuild
  <2>2. \A u \in Targets : pc[u] = "done"
    BY <1>8, TargetsAssumption DEF Succeed, PhaseInv, OfKind
  <2>3. \A u \in Targets : Fresh(u)'
    BY <1>8, <2>2, SameOutput DEF Succeed, MadeInv, files, outputs
  <2>4. QED
    BY <2>1, <2>3 DEF MadeInv
<1>9. ASSUME NEW t \in Targets, CheckCache(t) PROVE MadeInv'
  <2>0. phase \notin {"idle", "scripts"}
    BY <1>9, TargetsAssumption DEF CheckCache
  <2>1. /\ UNCHANGED <<content, selection, compiled, object, artifact, cache, phase, collected>> /\ outcome' # "success"
        /\ pc[t] = "todo" /\ \A u \in Targets \ {t} : pc'[u] = pc[u]
    BY <2>0, <1>9 DEF CheckCache, PhaseInv, TypeOK, files, outputs, objects
  <2>2. pc'[t] = "compile" \/ (pc'[t] = "done" /\ ~needs_rebuild(t))
    BY <1>9 DEF CheckCache, TypeOK
  <2>3. pc'[t] = "done" => Fresh(t)
    BY <2>1, <2>2, HitIsFresh
  <2>4. \A u \in Targets : (Made(u)' <=> Made(u)) /\ (Fresh(u)' <=> Fresh(u))
    BY <2>1, SameOutput
  <2>5. QED
    BY <2>1, <2>2, <2>3, <2>4, SameInputs DEF MadeInv, TypeOK
<1>10. ASSUME NEW t \in Targets, JobFails(t) PROVE MadeInv'
  <2>1. /\ UNCHANGED <<content, selection, compiled, object, cache, phase, collected>> /\ outcome' # "success"
        /\ pc'[t] = "failed" /\ \A u \in Targets \ {t} : pc'[u] = pc[u] /\ artifact'[u] = artifact[u]
    BY <1>10, TargetsAssumption DEF JobFails, Compiling, PhaseInv, TypeOK, files, objects
  <2>2. \A u \in Targets \ {t} : (Made(u)' <=> Made(u)) /\ (Fresh(u)' <=> Fresh(u))
    BY <2>1, SameOutput
  <2>3. QED
    BY <2>1, <2>2, SameInputs DEF MadeInv, TypeOK
<1>11. ASSUME NEW t \in Targets, Finish(t) PROVE MadeInv'
  <2>1. /\ UNCHANGED <<content, selection, compiled, object, cache, phase, collected>> /\ outcome' # "success"
        /\ compiled[t] = SourcesOf[t] /\ \A l \in LinksOf[t] : artifact[l] \notin {Nothing, Torn}
        /\ pc'[t] = "collect" /\ \A u \in Targets \ {t} : pc'[u] = pc[u] /\ artifact'[u] = artifact[u]
    BY <1>11, TargetsAssumption DEF Finish, Linking, PhaseInv, TypeOK, files, objects
  <2>2. DEFINE new == [objects |-> [s \in SourcesOf[t] |-> object[ObjectOf[t][s]]],
                       libs |-> [l \in LinksOf[t] |-> artifact[l].objects]]
  <2>3. artifact'[t] = new
    BY <1>11 DEF Finish, TypeOK
  <2>4. new # Nothing /\ new.objects = CleanObjects(t)
    BY <2>1, ArtifactType
  <2> HIDE DEF new
  <2>5. Complete(t)
    <3>1. \A s \in SourcesOf[t] : \A f \in {s} \cup Needed[s] : content[f] # Nothing
      BY <2>1 DEF MadeInv
    <3>2. QED
      BY <3>1 DEF Complete, NeededBy
  <2>6. Made(t)'
    BY <2>1, <2>3, <2>4, <2>5, SameInputs DEF Made
  <2>7. \A u \in Targets \ {t} : (Made(u)' <=> Made(u)) /\ (Fresh(u)' <=> Fresh(u))
    BY <2>1, SameOutput
  <2>8. QED
    BY <2>1, <2>6, <2>7, SameInputs DEF MadeInv, TypeOK
<1>12. ASSUME NEW t \in Targets, collect_dependencies(t) PROVE MadeInv'
  <2>1. /\ UNCHANGED <<content, selection, compiled, object, artifact, cache, phase>> /\ outcome' # "success"
        /\ pc[t] = "collect" /\ pc'[t] = "persist"
        /\ \A u \in Targets \ {t} : pc'[u] = pc[u] /\ collected'[u] = collected[u]
    BY <1>12 DEF collect_dependencies, PhaseInv, TypeOK, files, outputs, objects
  <2>2. Made(t)
    BY <2>1 DEF MadeInv
  <2>3. collected'[t] = [sources |-> {[file |-> s, checksum |-> content[s]] : s \in SourcesOf[t]},
                         includes |-> {h \in UNION {Includes[s] : s \in SourcesOf[t]} : content[h] # Nothing}]
    BY <1>12 DEF collect_dependencies, TypeOK
  <2>4. \A u \in Targets : (Made(u)' <=> Made(u)) /\ (Fresh(u)' <=> Fresh(u))
    BY <2>1, SameOutput
  <2>5. ASSUME NEW u \in Targets, pc'[u] = "persist"
        PROVE  collected'[u] = [sources |-> {[file |-> s, checksum |-> content'[s]] : s \in SourcesOf[u]},
                                includes |-> {h \in UNION {Includes[s] : s \in SourcesOf[u]} : content'[h] # Nothing}]
    <3>1. content' = content
      BY <2>1
    <3>2. CASE u = t
      BY <2>3, <3>1, <3>2
    <3>3. CASE u # t
      <4>1. pc[u] = "persist" /\ collected'[u] = collected[u]
        BY <2>1, <2>5, <3>3
      <4>2. QED
        BY <3>1, <4>1 DEF MadeInv
    <3>4. QED
      BY <3>2, <3>3
  <2>6. \A u \in Targets : pc'[u] \in {"collect", "persist"} => Made(u)'
    BY <2>1, <2>2, <2>4 DEF MadeInv
  <2>7. \A u \in Targets : pc'[u] = "done" => Fresh(u)'
    BY <2>1, <2>4 DEF MadeInv
  <2>8. QED
    BY <2>1, <2>5, <2>6, <2>7, CompiledStays DEF MadeInv
<1>13. ASSUME NEW t \in Targets, cache_build_result(t) PROVE MadeInv'
  <2>1. /\ UNCHANGED <<content, selection, compiled, object, artifact, phase, collected>> /\ outcome' # "success"
        /\ pc[t] = "persist" /\ pc'[t] = "done" /\ \A u \in Targets \ {t} : pc'[u] = pc[u]
    BY <1>13 DEF cache_build_result, PhaseInv, TypeOK, files, objects
  <2>2. EntryOf(t)' = NewEntry(t) /\ \A u \in Targets \ {t} : EntryOf(u)' = EntryOf(u)
    BY <1>13, Persisted
  <2>3. \A u \in Targets : Made(u)' <=> Made(u)
    BY <2>1, SameOutput
  <2>4. ~needs_rebuild(t)'
    <3>1. /\ EntryOf(t)' = [signature |-> target_signature(t), dependencies |-> Recorded(t, content)]
          /\ EntryOf(t)' # Nothing
      BY <2>1, <2>2, NewEntryIs
    <3>2. artifact'[t] # Nothing /\ content' = content /\ target_signature(t)' = target_signature(t)
      BY <2>1, SameInputs DEF MadeInv, Made
    <3>3. \A d \in Recorded(t, content) : content'[d.file] = d.checksum
      BY <3>2 DEF Recorded
    <3>4. QED
      BY <3>1, <3>2, <3>3 DEF needs_rebuild, EntryOf
  <2>5. Fresh(t)'
    BY <2>1, <2>3, <2>4 DEF Fresh, MadeInv
  <2>6. \A u \in Targets \ {t} : Fresh(u)' <=> Fresh(u)
    BY <2>1, <2>2, SameOutput
  <2>7. QED
    BY <2>1, <2>3, <2>5, <2>6, SameInputs DEF MadeInv, TypeOK
<1>14. ASSUME NEW t \in Targets, NEW s \in SourcesOf[t], Compile(t, s) PROVE MadeInv'
  <2>1. /\ UNCHANGED <<content, selection, artifact, cache, phase, pc, collected>> /\ outcome' # "success"
        /\ phase \notin {"idle", "scripts"}
    BY <1>14, TargetsAssumption DEF Compile, Compiling, PhaseInv, files, outputs
  <2>2. /\ compiled' = [compiled EXCEPT ![t] = @ \cup {s}]
        /\ object' = [object EXCEPT ![ObjectOf[t][s]] = Snapshot(t, s)]
        /\ \A f \in {s} \cup Needed[s] : content[f] # Nothing
    BY <1>14 DEF Compile
  <2>3. \A u \in Targets : (Made(u)' <=> Made(u)) /\ (Fresh(u)' <=> Fresh(u))
    BY <2>1, SameOutput
  <2>4. ASSUME NEW u \in Targets, NEW r \in compiled'[u]
        PROVE  /\ object'[ObjectOf[u][r]] = Snapshot(u, r)'
               /\ \A f \in {r} \cup Needed[r] : content'[f] # Nothing
    <3>1. /\ ObjectOf[t][s] \in DOMAIN object /\ content' = content
          /\ r \in SourcesOf[u] /\ ((u = t /\ r = s) \/ r \in compiled[u])
      BY <2>1, <2>2 DEF TypeOK, ObjectFiles
    <3>2. Snapshot(u, r)' = Snapshot(u, r)
      BY <2>1, <3>1, SameInputs
    <3>3. CASE u = t /\ r = s
      BY <2>2, <3>1, <3>2, <3>3
    <3>4. CASE ~(u = t /\ r = s)
      <4>1. ObjectOf[u][r] # ObjectOf[t][s]
        BY <3>1, <3>4 DEF FreshnessConditions
      <4>2. object'[ObjectOf[u][r]] = object[ObjectOf[u][r]]
        BY <2>2, <4>1
      <4>3. QED
        BY <3>1, <3>2, <3>4, <4>2 DEF MadeInv
    <3>5. QED
      BY <3>3, <3>4
  <2>5. QED
    BY <2>1, <2>3, <2>4 DEF MadeInv
<1>15. CASE UNCHANGED vars
  <2>1. /\ UNCHANGED <<content, selection, compiled, object, artifact, cache, pc, collected, phase, outcome>>
    BY <1>15 DEF vars, files, outputs, objects
  <2>2. QED
    BY <2>1, SameInputs, SameOutput DEF MadeInv, TypeOK
<1>16. QED
  BY <1>1, <1>2, <1>3, <1>4, <1>5, <1>6, <1>7, <1>8, <1>9, <1>10, <1>11, <1>12, <1>13, <1>14, <1>15
     DEF Next, Job, executeBuild, Phases

(* Records and outputs *)

\* The files stay; the record goes, or the output stays, or is lost while the record
\* was outdated already.
LEMMA KeepsRecord ==
  ASSUME NEW t \in Targets, RecordOf(t), UNCHANGED <<regime, content, selection>>,
         EntryOf(t)' = EntryOf(t) \/ EntryOf(t)' = Nothing,
         \/ artifact'[t] = artifact[t] \/ EntryOf(t)' = Nothing
         \/ regime.crashes /\ pc[t] = "compile"
         \/ ~regime.crashes /\ artifact'[t] = Nothing,
         pc[t] \in {"collect", "persist"} => pc'[t] \in {"collect", "persist"},
         pc'[t] = "compile" => pc[t] = "compile"
  PROVE  RecordOf(t)'
<1>1. CASE EntryOf(t)' = Nothing
  BY <1>1 DEF RecordOf
<1>2. CASE EntryOf(t)' = EntryOf(t) /\ EntryOf(t) # Nothing
  <2>1. PICK version \in [Read(t) -> Versions \cup {Nothing}], flags \in FlagSets : Accounts(t, version, flags)
    BY <1>2 DEF RecordOf
  <2>2. /\ ObjectsFrom(t, flags, version)' = ObjectsFrom(t, flags, version)
        /\ Outdated(t, version)' <=> Outdated(t, version)
    BY DEF ObjectsFrom, CompilerOf, Outdated
  <2>3. Accounts(t, version, flags)'
    BY <1>2, <2>1, <2>2 DEF Accounts
  <2>4. QED
    BY <2>3 DEF RecordOf
<1>3. QED
  BY <1>1, <1>2 DEF RecordOf

\* Files change while no target is being made; if processes die, to later versions.
LEMMA FilesMove ==
  ASSUME TypeOK, NEW t \in Targets, RecordOf(t), UNCHANGED <<regime, selection, artifact, cache, pc>>,
         pc[t] = "todo",
         regime.crashes => \A f \in Files : /\ content[f] \in Versions /\ content'[f] \in Versions
                                            /\ content[f] <= content'[f]
  PROVE  RecordOf(t)'
<1>1. EntryOf(t)' = EntryOf(t)
  BY DEF EntryOf, triplet
<1> SUFFICES ASSUME EntryOf(t) # Nothing PROVE RecordOf(t)'
  BY <1>1 DEF RecordOf
<1>2. PICK version \in [Read(t) -> Versions \cup {Nothing}], flags \in FlagSets : Accounts(t, version, flags)
  BY DEF RecordOf
<1>3. ObjectsFrom(t, flags, version)' = ObjectsFrom(t, flags, version)
  BY DEF ObjectsFrom, CompilerOf
<1>4. ASSUME regime.crashes, NEW f \in Read(t)
      PROVE  /\ version[f] \in Nat /\ content[f] \in Nat /\ content'[f] \in Nat
             /\ content[f] <= content'[f] /\ version[f] <= content[f]
  <2>1. f \in Files /\ version[f] \in Versions /\ version[f] <= content[f]
    BY <1>2, <1>4, InputTypes DEF Accounts
  <2>2. Versions \subseteq Nat
    BY TargetsAssumption
  <2>3. QED
    BY <1>4, <2>1, <2>2
<1>5. regime.crashes => \A f \in Read(t) : /\ version[f] <= content'[f]
                                           /\ version[f] < content[f] => version[f] < content'[f]
  BY <1>4
<1>6. Outdated(t, version) => Outdated(t, version)'
  BY <1>5 DEF Outdated
<1>7. Accounts(t, version, flags)'
  BY <1>1, <1>2, <1>3, <1>5, <1>6 DEF Accounts
<1>8. QED
  BY <1>7 DEF RecordOf

\* The user, where old versions do not come back.
LEMMA EditsMoveOn ==
  ASSUME FreshnessConditions, TypeOK, RecordInv, regime.crashes, NEW f \in Files
  PROVE  /\ content[f] \in Versions /\ content[f] \in Nat
         /\ \A v \in EditsOf(f) : v \in Versions /\ v \in Nat /\ content[f] <= v
<1>1. regime \in Regimes /\ ~regime.reverts
  BY DEF FreshnessConditions, TypeOK
<1>2. content[f] \in Versions /\ content[f] \in Nat
  <2>1. content \in [Files -> Versions \cup {Nothing}] /\ content[f] # Nothing
    BY DEF TypeOK, RecordInv
  <2>2. QED
    BY <2>1, TargetsAssumption
<1>3. EditsOf(f) = {v \in Versions : v > content[f]}
  BY <1>1 DEF EditsOf
<1>4. \A v \in Versions : v \in Nat /\ (v > content[f] => content[f] <= v)
  <2>1. Versions \subseteq Nat
    BY TargetsAssumption
  <2>2. QED
    BY <1>2, <2>1
<1>5. QED
  BY <1>2, <1>3, <1>4

\* A record that is not the files as they are is outdated for good.
LEMMA LaterVersions ==
  ASSUME FreshnessConditions, TypeOK, RecordInv, NEW t \in Targets, regime.crashes,
         NEW version \in [Read(t) -> Versions \cup {Nothing}], NEW flags \in FlagSets,
         Accounts(t, version, flags), NEW f \in Read(t), version[f] # content[f]
  PROVE  Outdated(t, version)
<1>1. version[f] \in Nat /\ content[f] \in Nat /\ version[f] <= content[f]
  BY InputTypes, EditsMoveOn, TargetsAssumption DEF Accounts
<1>2. QED
  BY <1>1 DEF Outdated

\* A target that is to be made again, where processes die, has an outdated record.
LEMMA MissIsOutdated ==
  ASSUME FreshnessConditions, TypeOK, RecordInv, NEW t \in Targets, regime.crashes,
         NEW version \in [Read(t) -> Versions \cup {Nothing}], NEW flags \in FlagSets,
         Accounts(t, version, flags), EntryOf(t) # Nothing, pc[t] = "todo", needs_rebuild(t)
  PROVE  Outdated(t, version)
<1>1. EntryOf(t).signature = target_signature(t) /\ EntryOf(t).dependencies = Recorded(t, version)
  BY DEF Accounts, target_signature
<1>2. CASE artifact[t] = Nothing
  BY <1>2 DEF Accounts
<1>3. CASE \E d \in Recorded(t, version) : content[d.file] # d.checksum
  <2>1. PICK f \in Read(t) : content[f] # version[f]
    BY <1>3 DEF Recorded
  <2>2. QED
    BY <2>1, LaterVersions
<1>4. QED
  BY <1>1, <1>2, <1>3 DEF needs_rebuild, EntryOf

\* A process dies between an output and its record.
LEMMA DiedBetween ==
  ASSUME FreshnessConditions, TypeOK, RecordInv, NEW t \in Targets, regime.crashes, Made(t),
         UNCHANGED <<files, cache>>, artifact'[t] = artifact[t], pc'[t] = "todo"
  PROVE  RecordOf(t)'
<1>1. EntryOf(t)' = EntryOf(t)
  BY DEF EntryOf, triplet, files
<1> SUFFICES ASSUME EntryOf(t) # Nothing PROVE RecordOf(t)'
  BY <1>1 DEF RecordOf
<1>2. PICK version \in [Read(t) -> Versions \cup {Nothing}], flags \in FlagSets : Accounts(t, version, flags)
  BY RecordsOne DEF RecordOf
<1>3. /\ ObjectsFrom(t, flags, version)' = ObjectsFrom(t, flags, version)
      /\ Outdated(t, version)' <=> Outdated(t, version)
  BY DEF ObjectsFrom, CompilerOf, Outdated, files
<1>4. artifact[t].objects = ObjectsFrom(t, flags, version) \/ Outdated(t, version)
  <2>1. CASE \A f \in Read(t) : version[f] = content[f]
    <3>1. \A s \in SourcesOf[t] : [f \in Inputs(s) |-> version[f]] = [f \in Inputs(s) |-> content[f]]
      BY <2>1, InputTypes
    <3>2. flags = selection.flags
      BY <1>2 DEF Accounts
    <3>3. ObjectsFrom(t, flags, version) = CleanObjects(t)
      BY <3>1, <3>2 DEF ObjectsFrom, CleanObjects, Snapshot
    <3>4. QED
      BY <3>3 DEF Made
  <2>2. CASE \E f \in Read(t) : version[f] # content[f]
    BY <1>2, <2>2, LaterVersions
  <2>3. QED
    BY <2>1, <2>2
<1>5. Accounts(t, version, flags)'
  BY <1>1, <1>2, <1>3, <1>4 DEF Accounts, Made, files
<1>6. QED
  BY <1>5 DEF RecordOf

\* A record that has just been written.
LEMMA RecordWritten ==
  ASSUME FreshnessConditions, TypeOK, MadeInv, RecordInv, NEW t \in Targets, cache_build_result(t)
  PROVE  RecordOf(t)'
<1>1. /\ UNCHANGED <<content, selection, regime, artifact>> /\ pc[t] = "persist" /\ pc'[t] = "done"
  BY DEF cache_build_result, files, TypeOK
<1>2. Made(t) /\ (regime.crashes => \A f \in Files : content[f] # Nothing)
  BY <1>1 DEF MadeInv, RecordInv
<1>3. PICK version \in [Read(t) -> Versions \cup {Nothing}] : version = [f \in Read(t) |-> content[f]]
  BY InputTypes DEF TypeOK
<1>4. PICK flags \in FlagSets : flags = selection.flags
  BY DEF TypeOK
<1>5. Recorded(t, content) = Recorded(t, version)
  BY <1>3 DEF Recorded
<1>6. EntryOf(t)' = [signature |-> [target |-> t, flags |-> flags], dependencies |-> Recorded(t, version)]
  BY <1>1, <1>4, <1>5, Persisted, NewEntryIs DEF target_signature
<1>7. \A s \in SourcesOf[t] : [f \in Inputs(s) |-> version[f]] = [f \in Inputs(s) |-> content[f]]
  BY <1>3, InputTypes
<1>8. ObjectsFrom(t, flags, version) = CleanObjects(t)
  BY <1>4, <1>7 DEF ObjectsFrom, CleanObjects, Snapshot
<1>9. \A f \in NeededBy(t) : version[f] # Nothing
  BY <1>2, <1>3, InputTypes DEF Made, Complete
<1>10. regime.crashes => \A f \in Read(t) : version[f] # Nothing /\ version[f] <= content[f]
  <2>1. regime.crashes => \A f \in Read(t) : version[f] \in Nat /\ version[f] # Nothing /\ version[f] = content[f]
    BY <1>2, <1>3, InputTypes, TargetsAssumption
  <2>2. QED
    BY <2>1
<1>11. ObjectsFrom(t, flags, version)' = ObjectsFrom(t, flags, version)
  BY <1>1 DEF ObjectsFrom, CompilerOf
<1>12. Accounts(t, version, flags)'
  BY <1>1, <1>2, <1>4, <1>6, <1>8, <1>9, <1>10, <1>11 DEF Accounts, Made
<1>13. QED
  BY <1>12 DEF RecordOf

LEMMA RecordsNext ==
  ASSUME regime'.crashes => \A f \in Files : content'[f] # Nothing,
         \A t \in Targets : RecordOf(t)'
  PROVE  RecordInv'
BY DEF RecordInv, RecordOf, Accounts

LEMMA RecordsKept ==
  ASSUME RecordInv, UNCHANGED <<regime, content>>, \A t \in Targets : RecordOf(t)'
  PROVE  RecordInv'
<1>1. regime'.crashes => \A f \in Files : content'[f] # Nothing
  BY DEF RecordInv
<1>2. QED
  BY <1>1, RecordsNext

\* Nothing on disk changes, and no target is left between output and record.
LEMMA Untouched ==
  ASSUME RecordInv, UNCHANGED <<regime, content, selection, artifact, cache>>,
         \A t \in Targets : /\ pc[t] \in {"collect", "persist"} => pc'[t] \in {"collect", "persist"}
                            /\ pc'[t] = "compile" => pc[t] = "compile"
  PROVE  RecordInv'
<1>1. ASSUME NEW t \in Targets PROVE RecordOf(t)'
  <2>1. RecordOf(t) /\ EntryOf(t)' = EntryOf(t)
    BY RecordsOne DEF EntryOf, triplet
  <2>2. QED
    BY <2>1, KeepsRecord
<1>2. QED
  BY <1>1, RecordsKept

\* Files change before anything is made.
LEMMA MovedFiles ==
  ASSUME FreshnessConditions, TypeOK, PhaseInv, RecordInv, UNCHANGED <<regime, selection, artifact, cache, pc>>,
         phase \in {"idle", "scripts"},
         regime.crashes => \A f \in Files : /\ content[f] \in Versions /\ content'[f] \in Versions
                                            /\ content[f] <= content'[f]
  PROVE  RecordInv'
<1>1. ASSUME NEW t \in Targets PROVE RecordOf(t)'
  <2>1. RecordOf(t) /\ pc[t] = "todo"
    BY RecordsOne DEF PhaseInv
  <2>2. QED
    BY <2>1, FilesMove
<1>2. regime'.crashes => \A f \in Files : content'[f] # Nothing
  BY TargetsAssumption
<1>3. QED
  BY <1>1, <1>2, RecordsNext

\* Each step keeps records true of their outputs.
LEMMA RecordStep ==
  ASSUME FreshnessConditions, TypeOK, PhaseInv, MadeInv, RecordInv, [Next]_vars
  PROVE  RecordInv'
<1>1. ASSUME NEW f \in Files, Edit(f) PROVE RecordInv'
  <2>1. phase = "idle"
    BY <1>1 DEF Edit, FreshnessConditions, TypeOK
  <2>2. PICK v \in EditsOf(f) : content' = [content EXCEPT ![f] = v]
    BY <1>1 DEF Edit
  <2>3. ASSUME regime.crashes, NEW g \in Files
        PROVE  /\ content[g] \in Versions /\ content'[g] \in Versions
               /\ content[g] <= content'[g]
    <3>1. content[g] \in Versions /\ content[g] \in Nat
      BY <2>3, EditsMoveOn
    <3>2. CASE g = f
      BY <2>2, <2>3, <3>2, EditsMoveOn DEF TypeOK
    <3>3. CASE g # f
      BY <2>2, <3>1, <3>3 DEF TypeOK
    <3>4. QED
      BY <3>2, <3>3
  <2>4. QED
    BY <1>1, <2>1, <2>3, MovedFiles DEF Edit, outputs
<1>2. CASE Select
  <2>1. /\ UNCHANGED <<regime, content, artifact, cache, pc>> /\ regime.reverts
        /\ selection' \in [compiler : Compilers, flags : FlagSets]
    BY <1>2 DEF Select, outputs
  <2>2. ~regime.crashes
    BY <2>1 DEF FreshnessConditions, TypeOK
  <2>3. triplet' = triplet /\ \A t \in Targets : CompilerOf(t)' = CompilerOf(t)
    BY <2>1, OneToolchain
  <2>4. ASSUME NEW t \in Targets PROVE RecordOf(t)'
    <3>1. EntryOf(t)' = EntryOf(t)
      BY <2>1, <2>3 DEF EntryOf
    <3> SUFFICES ASSUME EntryOf(t) # Nothing PROVE RecordOf(t)'
      BY <3>1 DEF RecordOf
    <3>2. PICK version \in [Read(t) -> Versions \cup {Nothing}], flags \in FlagSets : Accounts(t, version, flags)
      BY RecordsOne DEF RecordOf
    <3>3. ObjectsFrom(t, flags, version)' = ObjectsFrom(t, flags, version) /\ ~Outdated(t, version)
      BY <2>2, <2>3 DEF ObjectsFrom, Outdated
    <3>4. Accounts(t, version, flags)'
      BY <2>1, <2>2, <3>1, <3>2, <3>3 DEF Accounts
    <3>5. QED
      BY <3>4 DEF RecordOf
  <2>5. QED
    BY <2>1, <2>2, <2>4, RecordsKept
<1>3. CASE executeClean
  <2>1. PICK gone \in SUBSET Targets, triplets \in SUBSET DOMAIN cache :
               /\ regime.partialCleans \/ gone = {} \/ triplets = DOMAIN cache
               /\ artifact' = [t \in Targets |-> IF t \in gone THEN Nothing ELSE artifact[t]]
               /\ cache' = [k \in DOMAIN cache |-> IF k \in triplets
                                                  THEN [n \in DOMAIN cache[k] |-> Nothing]
                                                  ELSE cache[k]]
    BY <1>3 DEF executeClean
  <2>2. UNCHANGED <<regime, content, selection, pc>>
    BY <1>3 DEF executeClean, files
  <2>3. regime.crashes => ~regime.partialCleans
    BY DEF FreshnessConditions, TypeOK
  <2>4. ASSUME NEW t \in Targets PROVE RecordOf(t)'
    <3>1. triplet \in DOMAIN cache /\ NameOf[t] \in DOMAIN cache[triplet] /\ triplet' = triplet
      BY <2>2, EntryTypes DEF triplet
    <3>2. /\ EntryOf(t)' = EntryOf(t) \/ EntryOf(t)' = Nothing
          /\ triplets = DOMAIN cache => EntryOf(t)' = Nothing
      BY <2>1, <3>1 DEF EntryOf
    <3>3. artifact'[t] = artifact[t] \/ EntryOf(t)' = Nothing \/ (~regime.crashes /\ artifact'[t] = Nothing)
      <4>1. CASE regime.partialCleans
        BY <2>1, <2>3, <4>1
      <4>2. CASE gone = {} \/ triplets = DOMAIN cache
        BY <2>1, <3>2, <4>2
      <4>3. QED
        BY <2>1, <4>1, <4>2
    <3>4. RecordOf(t)
      BY RecordsOne
    <3>5. QED
      BY <2>2, <3>2, <3>3, <3>4, KeepsRecord
  <2>5. QED
    BY <2>2, <2>4, RecordsKept
<1>4. CASE StartBuild
  BY <1>4, Untouched DEF StartBuild, files, outputs
<1>5. CASE StartWithoutCache \/ ScriptFails \/ Succeed \/ GiveUp
  <2>1. /\ UNCHANGED <<regime, content, selection, artifact, cache>>
        /\ \A u \in Targets : pc[u] \notin {"collect", "persist"} /\ pc'[u] = "todo"
    BY <1>5, TargetsAssumption DEF StartWithoutCache, ScriptFails, Succeed, GiveUp, EndBuild, PhaseInv, OfKind,
       files, outputs
  <2>2. QED
    BY <2>1, Untouched
<1>6. CASE PreBuildScripts
  <2>1. /\ \A g \in Files : content'[g] = content[g] \/ content'[g] \in EditsOf(g)
        /\ content' \in [Files -> Versions \cup {Nothing}]
    BY <1>6 DEF PreBuildScripts
  <2>2. regime.crashes => \A g \in Files : /\ content[g] \in Versions /\ content'[g] \in Versions
                                           /\ content[g] <= content'[g]
    BY <2>1, EditsMoveOn
  <2>3. QED
    BY <1>6, <2>2, MovedFiles DEF PreBuildScripts, outputs
<1>7. ASSUME NEW from, NEW to, NextPhase(from, to), <<from, to>> \in Phases PROVE RecordInv'
  BY <1>7, Untouched DEF NextPhase, files, outputs
<1>8. CASE Crash
  <2>1. /\ UNCHANGED <<files, regime, content, selection, cache>> /\ regime.crashes
        /\ \A t \in Targets : /\ pc'[t] = "todo"
                              /\ artifact'[t] = artifact[t] \/ pc[t] = "compile"
    BY <1>8 DEF Crash, EndBuild, Linking, files
  <2>2. ASSUME NEW t \in Targets PROVE RecordOf(t)'
    <3>1. CASE pc[t] \in {"collect", "persist"}
      <4>1. Made(t)
        BY <3>1 DEF MadeInv
      <4>2. QED
        BY <2>1, <3>1, <4>1, DiedBetween
    <3>2. CASE pc[t] \notin {"collect", "persist"}
      <4>1. RecordOf(t) /\ EntryOf(t)' = EntryOf(t)
        BY <2>1, RecordsOne DEF EntryOf, triplet
      <4>2. QED
        BY <2>1, <3>2, <4>1, KeepsRecord
    <3>3. QED
      BY <3>1, <3>2
  <2>3. QED
    BY <2>1, <2>2, RecordsKept
<1>9. ASSUME NEW t \in Targets, CheckCache(t) PROVE RecordInv'
  <2>1. /\ UNCHANGED <<regime, content, selection, artifact, cache>>
        /\ \A u \in Targets \ {t} : pc'[u] = pc[u]
        /\ pc[t] = "todo" /\ pc'[t] \in {"compile", "done"} /\ (pc'[t] = "compile" => needs_rebuild(t))
    BY <1>9 DEF CheckCache, TypeOK, files, outputs
  <2>2. \A u \in Targets : RecordOf(u) /\ EntryOf(u)' = EntryOf(u)
    BY <2>1, RecordsOne DEF EntryOf, triplet
  <2>3. ASSUME NEW u \in Targets \ {t} PROVE RecordOf(u)'
    BY <2>1, <2>2, KeepsRecord
  <2>4. RecordOf(t)'
    <3>1. CASE EntryOf(t) # Nothing
      <4>1. PICK version \in [Read(t) -> Versions \cup {Nothing}], flags \in FlagSets : Accounts(t, version, flags)
        BY <2>2, <3>1 DEF RecordOf
      <4>2. pc'[t] = "compile" /\ regime.crashes => Outdated(t, version)
        BY <2>1, <3>1, <4>1, MissIsOutdated
      <4>3. /\ ObjectsFrom(t, flags, version)' = ObjectsFrom(t, flags, version)
            /\ Outdated(t, version)' <=> Outdated(t, version)
        BY <2>1 DEF ObjectsFrom, CompilerOf, Outdated
      <4>4. Accounts(t, version, flags)'
        BY <2>1, <2>2, <4>1, <4>2, <4>3 DEF Accounts
      <4>5. QED
        BY <4>4 DEF RecordOf
    <3>2. QED
      BY <2>2, <3>1 DEF RecordOf
  <2>5. QED
    BY <2>1, <2>3, <2>4, RecordsKept
<1>10. ASSUME NEW t \in Targets, JobFails(t) PROVE RecordInv'
  <2>1. /\ UNCHANGED <<regime, content, selection, cache>> /\ pc[t] = "compile" /\ pc'[t] = "failed"
        /\ \A u \in Targets \ {t} : artifact'[u] = artifact[u] /\ pc'[u] = pc[u]
        /\ artifact'[t] = artifact[t] \/ regime.crashes \/ artifact'[t] = Nothing
    BY <1>10 DEF JobFails, Compiling, TypeOK, files
  <2>2. ASSUME NEW u \in Targets PROVE RecordOf(u)'
    <3>1. RecordOf(u) /\ EntryOf(u)' = EntryOf(u)
      BY <2>1, RecordsOne DEF EntryOf, triplet
    <3>2. \/ artifact'[u] = artifact[u]
          \/ regime.crashes /\ pc[u] = "compile"
          \/ ~regime.crashes /\ artifact'[u] = Nothing
      BY <2>1
    <3>3. QED
      BY <2>1, <3>1, <3>2, KeepsRecord
  <2>3. QED
    BY <2>1, <2>2, RecordsKept
<1>11. ASSUME NEW t \in Targets, Finish(t) PROVE RecordInv'
  <2>1. /\ UNCHANGED <<regime, content, selection, cache>> /\ pc'[t] = "collect"
        /\ \A u \in Targets \ {t} : artifact'[u] = artifact[u] /\ pc'[u] = pc[u]
    BY <1>11 DEF Finish, TypeOK, files
  <2>2. \A u \in Targets : RecordOf(u) /\ EntryOf(u)' = EntryOf(u)
    BY <2>1, RecordsOne DEF EntryOf, triplet
  <2>3. ASSUME NEW u \in Targets \ {t} PROVE RecordOf(u)'
    BY <2>1, <2>2, KeepsRecord
  <2>4. RecordOf(t)'
    <3>1. CASE EntryOf(t) # Nothing
      <4>1. PICK version \in [Read(t) -> Versions \cup {Nothing}], flags \in FlagSets : Accounts(t, version, flags)
        BY <2>2, <3>1 DEF RecordOf
      <4>2. Accounts(t, version, flags)'
        BY <2>1, <2>2, <4>1 DEF Accounts
      <4>3. QED
        BY <4>2 DEF RecordOf
    <3>2. QED
      BY <2>2, <3>1 DEF RecordOf
  <2>5. QED
    BY <2>1, <2>3, <2>4, RecordsKept
<1>12. ASSUME NEW t \in Targets, collect_dependencies(t) PROVE RecordInv'
  <2>1. /\ UNCHANGED <<regime, content, selection, artifact, cache>>
        /\ \A u \in Targets : pc'[u] = pc[u] \/ (pc[u] = "collect" /\ pc'[u] = "persist")
    BY <1>12 DEF collect_dependencies, TypeOK, files, outputs
  <2>2. QED
    BY <2>1, Untouched
<1>13. ASSUME NEW t \in Targets, cache_build_result(t) PROVE RecordInv'
  <2>1. /\ UNCHANGED <<regime, content, selection, artifact>>
        /\ \A u \in Targets \ {t} : pc'[u] = pc[u] /\ EntryOf(u)' = EntryOf(u)
    BY <1>13, Persisted DEF cache_build_result, TypeOK, files
  <2>2. ASSUME NEW u \in Targets \ {t} PROVE RecordOf(u)'
    <3>1. RecordOf(u)
      BY RecordsOne
    <3>2. QED
      BY <2>1, <3>1, KeepsRecord
  <2>3. RecordOf(t)'
    BY <1>13, RecordWritten
  <2>4. QED
    BY <2>1, <2>2, <2>3, RecordsKept
<1>14. ASSUME NEW t \in Targets, NEW s \in SourcesOf[t], Compile(t, s) PROVE RecordInv'
  BY <1>14, Untouched DEF Compile, files, outputs
<1>15. CASE UNCHANGED vars
  BY <1>15, Untouched DEF vars, files, outputs
<1>16. QED
  BY <1>1, <1>2, <1>3, <1>4, <1>5, <1>6, <1>7, <1>8, <1>9, <1>10, <1>11, <1>12, <1>13, <1>14, <1>15
     DEF Next, Job, executeBuild, Phases

(* The progress steps *)

AllSteps == UNION {StepsOf(t) : t \in Targets}

\* A project has finitely many steps; a target's pending steps are its own.
LEMMA FiniteSteps ==
  /\ IsFiniteSet(AllSteps)
  /\ Left \subseteq AllSteps /\ IsFiniteSet(Left) /\ Cardinality(Left) \in Nat
  /\ \A t \in Targets : \A p \in Pending(t) : p \in StepsOf(t) /\ p[1] = t
<1>1. ASSUME NEW t \in Targets PROVE IsFiniteSet(StepsOf(t))
  <2> DEFINE f == [s \in SourcesOf[t] |-> <<t, s>>]
  <2>1. IsFiniteSet({f[s] : s \in SourcesOf[t]})
    BY FiniteProject, FiniteImage
  <2>2. {f[s] : s \in SourcesOf[t]} = {<<t, s>> : s \in SourcesOf[t]}
    OBVIOUS
  <2>3. QED
    BY <2>1, <2>2, FS_AddElement DEF StepsOf
<1>2. IsFiniteSet(AllSteps)
  <2> DEFINE g == [t \in Targets |-> StepsOf(t)]
  <2>1. IsFiniteSet({g[t] : t \in Targets})
    BY FiniteProject, FiniteImage
  <2>2. {g[t] : t \in Targets} = {StepsOf(t) : t \in Targets}
    OBVIOUS
  <2>3. QED
    BY <1>1, <2>1, <2>2, FS_UNION DEF AllSteps
<1>3. ASSUME NEW t \in Targets, NEW p \in Pending(t) PROVE p \in StepsOf(t) /\ p[1] = t
  BY DEF Pending, StepsOf
<1>4. Left \subseteq AllSteps
  BY <1>3 DEF Left, AllSteps
<1>5. QED
  BY <1>2, <1>3, <1>4, FS_Subset, FS_CardinalityType

\* The count of the plan is the number of pending steps once every target is to do.
LEMMA PlanIsPending ==
  ASSUME \A t \in Targets : pc[t] = "todo"
  PROVE  count_planned_steps = Cardinality(Left)
<1>1. \A t \in Targets : Pending(t) = IF needs_rebuild(t) THEN StepsOf(t) ELSE {}
  BY DEF Pending
<1>2. Left = UNION {StepsOf(t) : t \in {u \in Targets : needs_rebuild(u)}}
  BY <1>1 DEF Left
<1>3. QED
  BY <1>2 DEF count_planned_steps

\* A target whose place, output, entry and compiled sources stay has the same steps pending.
LEMMA SamePending ==
  ASSUME UNCHANGED <<content, selection>>, NEW t \in Targets, pc'[t] = pc[t],
         compiled'[t] = compiled[t],
         pc[t] = "todo" => artifact'[t] = artifact[t] /\ EntryOf(t)' = EntryOf(t)
  PROVE  Pending(t)' = Pending(t)
BY SameVerdict DEF Pending

\* What is left when target t goes from one set of pending steps to another.
LEMMA LeftMoves ==
  ASSUME NEW t \in Targets, \A u \in Targets \ {t} : Pending(u)' = Pending(u)
  PROVE  /\ Pending(t)' = Pending(t) => Left' = Left
         /\ \A p \in Pending(t) : Pending(t)' = Pending(t) \ {p} => /\ p \in Left
                                                                    /\ Left' = Left \ {p}
<1>1. Pending(t)' = Pending(t) => Left' = Left
  BY DEF Left
<1>2. ASSUME NEW p \in Pending(t), Pending(t)' = Pending(t) \ {p}
      PROVE  p \in Left /\ Left' = Left \ {p}
  <2>1. \A u \in Targets \ {t} : p \notin Pending(u)
    BY FiniteSteps
  <2>2. QED
    BY <1>2, <2>1 DEF Left
<1>3. QED
  BY <1>1, <1>2

\* One more step emitted, one fewer left.
LEMMA OneStepEmitted ==
  ASSUME CountInv, NEW p \in Left, Left' = Left \ {p}, Emit,
         UNCHANGED <<total, phase, scripted, failed>>,
         \A t \in Targets : pc'[t] = "todo" => compiled'[t] = {}
  PROVE  CountInv'
<1>1. /\ Cardinality(Left \ {p}) = Cardinality(Left) - 1
      /\ Cardinality(Left) \in Nat /\ Cardinality(Left \ {p}) \in Nat
  BY FiniteSteps, FS_RemoveElement, FS_CardinalityType
<1>2. total \in Nat /\ done \in Nat /\ done' \in Nat
  BY DEF CountInv, Emit
<1>3. CASE phase # "idle" /\ ~scripted /\ ~failed
  <2>1. total = done + Cardinality(Left) /\ total # 0
    BY <1>1, <1>2, <1>3 DEF CountInv
  <2>2. done' = done + 1
    BY <2>1 DEF Emit
  <2>3. total' = done' + Cardinality(Left')
    BY <1>1, <1>2, <2>1, <2>2
  <2>4. QED
    BY <1>2, <1>3, <2>3 DEF CountInv
<1>4. QED
  BY <1>2, <1>3 DEF CountInv

\* Each step of the build keeps the account.
LEMMA CountStep ==
  ASSUME FreshnessConditions, TypeOK, PhaseInv, CountInv, PlannedIsDone, [Next]_vars
  PROVE  CountInv' /\ PlannedIsDone'
<1> USE DEF TypeOK, CountInv, PlannedIsDone
<1>1. ASSUME NEW f \in Files, Edit(f) PROVE CountInv' /\ PlannedIsDone'
  <2>1. phase = "idle" /\ outcome' = "none" /\ phase' = phase
    BY <1>1 DEF Edit, FreshnessConditions
  <2>2. QED
    BY <1>1, <2>1 DEF Edit, progress, objects
<1>2. CASE Select \/ executeClean
  BY <1>2 DEF Select, executeClean, progress, files, objects
<1>3. CASE StartBuild
  <2>1. \A t \in Targets : pc[t] = "todo"
    BY <1>3 DEF StartBuild, PhaseInv
  <2>2. UNCHANGED <<content, selection, artifact, cache, pc, compiled>>
    BY <1>3 DEF StartBuild, files, outputs, objects
  <2>3. \A t \in Targets : Pending(t)' = Pending(t)
    BY <2>2, SamePending, SameOutput
  <2>4. total' = Cardinality(Left) /\ done' = 0 /\ outcome' = "none" /\ Left' = Left /\ scripted' = FALSE
    BY <1>3, <2>1, <2>3, PlanIsPending DEF StartBuild, Left
  <2>5. QED
    BY <2>2, <2>4, FiniteSteps
<1>4. CASE StartWithoutCache \/ ScriptFails \/ GiveUp \/ Crash
  BY <1>4 DEF StartWithoutCache, ScriptFails, GiveUp, Crash, EndBuild, progress, Unbegun
<1>5. CASE PreBuildScripts
  <2>1. /\ phase = "scripts" /\ outcome' = outcome /\ pc' = pc /\ compiled' = compiled
        /\ UNCHANGED <<selection, artifact, cache, progress, failed>>
        /\ scripted' = (content' # content) /\ phase' = "plan"
    BY <1>5 DEF PreBuildScripts, outputs, objects
  <2>2. CASE content' = content
    <3>1. \A t \in Targets : Pending(t)' = Pending(t)
      BY <2>1, <2>2, SamePending, SameOutput
    <3>2. Left' = Left
      BY <3>1 DEF Left
    <3>3. QED
      BY <2>1, <2>2, <3>2 DEF progress, PhaseInv
  <2>3. CASE content' # content
    BY <2>1, <2>3 DEF progress, PhaseInv
  <2>4. QED
    BY <2>2, <2>3
<1>6. ASSUME NEW from, NEW to, NextPhase(from, to), <<from, to>> \in Phases
      PROVE  CountInv' /\ PlannedIsDone'
  <2>1. UNCHANGED <<content, selection, artifact, cache, pc, compiled, failed, outcome, progress, history>>
    BY <1>6 DEF NextPhase, files, outputs, objects
  <2>2. phase # "idle" /\ phase' # "scripts"
    BY <1>6 DEF NextPhase, Phases
  <2>3. \A t \in Targets : Pending(t)' = Pending(t)
    BY <2>1, SamePending, SameOutput
  <2>4. Left' = Left
    BY <2>3 DEF Left
  <2>5. QED
    BY <2>1, <2>2, <2>4 DEF progress, history
<1>7. CASE Succeed
  <2>1. \A t \in Targets : pc[t] = "done"
    BY <1>7, TargetsAssumption DEF Succeed, PhaseInv, OfKind
  <2>2. Left = {}
    BY <2>1 DEF Left, Pending
  <2>3. ~scripted => total = done
    BY <1>7, <2>2, FS_EmptySet DEF Succeed
  <2>4. QED
    BY <1>7, <2>3 DEF Succeed, EndBuild, progress, history, Unbegun
<1>8. ASSUME NEW t \in Targets, CheckCache(t) PROVE CountInv' /\ PlannedIsDone'
  <2>1. /\ UNCHANGED <<content, selection, artifact, cache, phase, compiled, failed, outcome, progress, history>>
        /\ pc[t] = "todo" /\ pc' = [pc EXCEPT ![t] = IF needs_rebuild(t) THEN "compile" ELSE "done"]
    BY <1>8 DEF CheckCache, files, outputs, objects
  <2>2. \A u \in Targets \ {t} : Pending(u)' = Pending(u)
    BY <2>1, SamePending, SameOutput
  <2>3. Pending(t)' = Pending(t)
    <3>1. CASE needs_rebuild(t)
      <4>1. pc'[t] = "compile" /\ Pending(t) = StepsOf(t)
        BY <2>1, <3>1 DEF Pending
      <4>2. compiled'[t] = {}
        BY <2>1
      <4>3. QED
        BY <4>1, <4>2 DEF Pending
    <3>2. CASE ~needs_rebuild(t)
      BY <2>1, <3>2 DEF Pending
    <3>3. QED
      BY <3>1, <3>2
  <2>4. Left' = Left
    BY <2>2, <2>3, LeftMoves
  <2>5. QED
    BY <2>1, <2>4 DEF progress, history
<1>9. ASSUME NEW t \in Targets, JobFails(t) PROVE CountInv' /\ PlannedIsDone'
  BY <1>9 DEF JobFails, progress, history, PhaseInv, Compiling, objects
<1>10. ASSUME NEW t \in Targets, Finish(t) PROVE CountInv' /\ PlannedIsDone'
  <2>1. /\ UNCHANGED <<content, selection, cache, phase, compiled, failed, outcome, total, history>>
        /\ pc[t] = "compile" /\ pc' = [pc EXCEPT ![t] = "collect"] /\ Emit
        /\ compiled[t] = SourcesOf[t]
        /\ \A u \in Targets \ {t} : artifact'[u] = artifact[u] /\ pc'[u] = pc[u]
    BY <1>10 DEF Finish, Linking, files, objects
  <2>2. phase # "idle"
    BY <2>1 DEF PhaseInv
  <2>3. \A u \in Targets \ {t} : Pending(u)' = Pending(u)
    BY <2>1, SamePending, SameOutput
  <2>4. Pending(t) = {<<t, Nothing>>} /\ Pending(t)' = {}
    BY <2>1, TargetsAssumption DEF Pending, StepsOf
  <2>5. <<t, Nothing>> \in Left /\ Left' = Left \ {<<t, Nothing>>}
    BY <2>3, <2>4, LeftMoves
  <2>6. CountInv'
    <3>1. \A u \in Targets : pc'[u] = "todo" => compiled'[u] = {}
      BY <2>1
    <3>2. QED
      BY <2>1, <2>5, <3>1, OneStepEmitted DEF history
  <2>7. QED
    BY <2>1, <2>2, <2>6 DEF history, PhaseInv
<1>11. ASSUME NEW t \in Targets, collect_dependencies(t) PROVE CountInv' /\ PlannedIsDone'
  <2>1. /\ UNCHANGED <<content, selection, artifact, cache, phase, compiled, failed, outcome, progress, history>>
        /\ pc[t] = "collect" /\ pc' = [pc EXCEPT ![t] = "persist"]
    BY <1>11 DEF collect_dependencies, files, outputs, objects
  <2>2. \A u \in Targets \ {t} : Pending(u)' = Pending(u)
    BY <2>1, SamePending, SameOutput
  <2>3. Pending(t)' = Pending(t)
    BY <2>1 DEF Pending
  <2>4. Left' = Left
    BY <2>2, <2>3, LeftMoves
  <2>5. QED
    BY <2>1, <2>4 DEF progress, history
<1>12. ASSUME NEW t \in Targets, cache_build_result(t) PROVE CountInv' /\ PlannedIsDone'
  <2>1. /\ UNCHANGED <<content, selection, artifact, phase, compiled, failed, outcome, progress, history>>
        /\ pc[t] = "persist" /\ pc' = [pc EXCEPT ![t] = "done"]
    BY <1>12 DEF cache_build_result, files, objects
  <2>2. \A u \in Targets \ {t} : EntryOf(u)' = EntryOf(u)
    BY <1>12, Persisted
  <2>3. \A u \in Targets \ {t} : Pending(u)' = Pending(u)
    BY <2>1, <2>2, SamePending
  <2>4. Pending(t)' = Pending(t)
    BY <2>1 DEF Pending
  <2>5. Left' = Left
    BY <2>3, <2>4, LeftMoves
  <2>6. QED
    BY <2>1, <2>5 DEF progress, history
<1>13. ASSUME NEW t \in Targets, NEW s \in SourcesOf[t], Compile(t, s) PROVE CountInv' /\ PlannedIsDone'
  <2>1. /\ UNCHANGED <<content, selection, artifact, cache, phase, pc, failed, outcome, total, history>>
        /\ pc[t] = "compile" /\ s \notin compiled[t] /\ Emit
        /\ compiled' = [compiled EXCEPT ![t] = @ \cup {s}]
    BY <1>13 DEF Compile, Compiling, files, outputs
  <2>2. phase # "idle"
    BY <2>1 DEF PhaseInv
  <2>3. \A u \in Targets \ {t} : Pending(u)' = Pending(u)
    BY <2>1, SamePending, SameOutput
  <2>4. s # Nothing
    BY TargetsAssumption
  <2>5. <<t, s>> \in Pending(t)
    BY <2>1 DEF Pending, StepsOf
  <2>6. Pending(t)' = Pending(t) \ {<<t, s>>}
    BY <2>1, <2>4 DEF Pending, StepsOf
  <2>7. <<t, s>> \in Left /\ Left' = Left \ {<<t, s>>}
    BY <2>3, <2>5, <2>6, LeftMoves
  <2>8. \A u \in Targets : pc'[u] = "todo" => compiled'[u] = {}
    BY <2>1
  <2>9. CountInv'
    BY <2>1, <2>7, <2>8, OneStepEmitted DEF history
  <2>10. QED
    BY <2>1, <2>2, <2>9 DEF history, PhaseInv
<1>14. CASE UNCHANGED vars
  <2>1. \A t \in Targets : Pending(t)' = Pending(t)
    BY <1>14, SamePending, SameOutput DEF vars, files, outputs, objects
  <2>2. Left' = Left
    BY <2>1 DEF Left
  <2>3. QED
    BY <1>14, <2>2 DEF vars, files, outputs, objects, progress, history
<1>15. QED
  BY <1>1, <1>2, <1>3, <1>4, <1>5, <1>6, <1>7, <1>8, <1>9, <1>10, <1>11, <1>12, <1>13, <1>14
     DEF Next, Job, executeBuild, Phases

(* What holds of every build *)

LEMMA BuildInit ==
  ASSUME Init
  PROVE  BuildInv
<1>1. TypeOK
  <2>1. /\ content \in [Files -> Versions \cup {Nothing}]
        /\ \A f \in Files \ Headers : content[f] # Nothing
    BY TargetsAssumption DEF Init
  <2>2. /\ artifact \in [Targets -> Artifacts \cup {Nothing, Torn}]
        /\ \A t \in Targets : artifact[t] = Nothing
    BY DEF Init
  <2>3. cache \in [{FamilyOf[c] : c \in Compilers} -> [{NameOf[t] : t \in Targets} -> Entries \cup {Nothing}]]
    BY DEF Init
  <2>4. /\ object \in [ObjectFiles -> Snapshots \cup {Nothing}] /\ compiled \in [Targets -> SUBSET Files]
        /\ \A t \in Targets : compiled[t] \subseteq SourcesOf[t]
    BY NothingBegun DEF Init
  <2>5. DOMAIN collected = Targets /\ pc \in [Targets -> {"todo", "compile", "collect", "persist", "done", "failed"}]
    BY DEF Init
  <2>6. QED
    BY <2>1, <2>2, <2>3, <2>4, <2>5 DEF Init, TypeOK
<1>2. PhaseInv
  BY <1>1 DEF Init, PhaseInv
<1>3. MadeInv
  BY DEF Init, MadeInv, Unbegun
<1>4. \A t \in Targets : EntryOf(t) = Nothing
  <2>1. ASSUME NEW t \in Targets PROVE EntryOf(t) = Nothing
    <3>1. triplet \in {FamilyOf[c] : c \in Compilers}
      BY DEF Init, triplet
    <3>2. QED
      BY <3>1 DEF Init, EntryOf
  <2>2. QED
    BY <2>1
<1>5. \A f \in Files : content[f] # Nothing
  BY TargetsAssumption DEF Init
<1>6. CountInv /\ PlannedIsDone
  BY DEF Init, CountInv, PlannedIsDone, Unbegun
<1>7. QED
  BY <1>1, <1>2, <1>3, <1>4, <1>5, <1>6 DEF BuildInv, RecordInv

LEMMA BuildStep ==
  ASSUME FreshnessConditions, BuildInv, [Next]_vars
  PROVE  BuildInv'
BY TypeStep, PhaseStep, MadeStep, RecordStep, CountStep DEF BuildInv

\* Outputs, records and what the running build has made account for each other.
THEOREM InvariantHolds ==
  ASSUME FreshnessConditions
  PROVE  Spec => []BuildInv
<1>1. Init => BuildInv
  BY BuildInit
<1>2. BuildInv /\ [Next]_vars => BuildInv'
  BY BuildStep
<1>3. QED
  BY <1>1, <1>2, PTL DEF Spec

\* The last progress line of a successful build is [n/n]: every step that was
\* planned was emitted, and no other, unless a script wrote files after the count.
THEOREM EveryPlannedStep ==
  ASSUME FreshnessConditions
  PROVE  Spec => []PlannedIsDone
<1>1. BuildInv => PlannedIsDone
  BY DEF BuildInv
<1>2. QED
  BY <1>1, InvariantHolds, PTL

\* A successful build leaves the objects a build from nothing would give, whatever
\* builds failed, died or were served before.
THEOREM SuccessIsUpToDate ==
  ASSUME FreshnessConditions
  PROVE  Spec => []UpToDate
<1>1. BuildInv => UpToDate
  BY DEF BuildInv, MadeInv, Fresh, Made, UpToDate
<1>2. QED
  BY <1>1, InvariantHolds, PTL

\* A second build would find every target clean.
THEOREM SuccessIsNoOp ==
  ASSUME FreshnessConditions
  PROVE  Spec => []SecondBuildIsNoOp
<1>1. BuildInv => SecondBuildIsNoOp
  BY DEF BuildInv, MadeInv, Fresh, SecondBuildIsNoOp
<1>2. QED
  BY <1>1, InvariantHolds, PTL

\* An output that was cut off while it was written is not served, whatever record it
\* had: either it is none the cache knows, or the record is outdated.
THEOREM TornIsNeverServed ==
  ASSUME FreshnessConditions
  PROVE  Spec => []TornIsRebuilt
<1>1. ASSUME BuildInv, NEW t \in Targets, artifact[t] = Torn, ~needs_rebuild(t)
      PROVE  FALSE
  <2>1. ~Made(t)
    BY <1>1, CleanType DEF BuildInv, Made
  <2>2. pc[t] \notin {"collect", "persist"}
    BY <1>1, <2>1 DEF BuildInv, MadeInv
  <2>3. Fresh(t)
    BY <1>1, <2>2, HitIsFresh DEF BuildInv
  <2>4. QED
    BY <2>1, <2>3 DEF Fresh
<1>2. BuildInv => TornIsRebuilt
  BY <1>1 DEF TornIsRebuilt
<1>3. QED
  BY <1>2, InvariantHolds, PTL

Hits == \A t \in Targets : pc[t] = "done" => ~needs_rebuild(t)

\* What a build records is the output of the files as they are, and is a hit from then on.
THEOREM RecordedIsFresh ==
  ASSUME FreshnessConditions
  PROVE  Spec => RecordsFreshOutputs
<1>1. BuildInv => Hits
  BY DEF BuildInv, MadeInv, Fresh, Hits
<1>2. ASSUME BuildInv, Hits', NEW t \in Targets, pc[t] = "persist", pc'[t] = "done"
      PROVE  artifact[t].objects = CleanObjects(t) /\ ~needs_rebuild(t)'
  BY <1>2 DEF BuildInv, MadeInv, Made, Hits
<1>3. BuildInv /\ Hits' =>
        [\A t \in Targets : pc[t] = "persist" /\ pc'[t] = "done" /\ quiet =>
           /\ artifact[t].objects = CleanObjects(t)
           /\ ~needs_rebuild(t)']_vars
  BY <1>2
<1>4. QED
  BY <1>1, <1>3, InvariantHolds, PTL DEF RecordsFreshOutputs

\* The archives an executable is linked from hold what a build from nothing would put there.
THEOREM LinkedWhenReady ==
  ASSUME FreshnessConditions
  PROVE  Spec => LinksReadyLibraries
<1>1. ASSUME BuildInv, Next, NEW t \in Targets, pc[t] = "compile", pc'[t] = "collect"
      PROVE  Finish(t)
  <2>1. pc \in [Targets -> {"todo", "compile", "collect", "persist", "done", "failed"}]
    BY <1>1 DEF BuildInv, TypeOK
  <2>2. \/ \E u \in Targets : Finish(u)
        \/ pc' = pc \/ pc' = [u \in Targets |-> "todo"]
        \/ \E u \in Targets, r \in {"compile", "done", "failed", "persist"} : pc' = [pc EXCEPT ![u] = r]
    BY <1>1 DEF Next, Job, executeBuild, Select, executeClean, Edit, StartBuild, StartWithoutCache,
       PreBuildScripts, ScriptFails, NextPhase, Succeed, GiveUp, Crash, EndBuild, CheckCache, JobFails,
       Compile, collect_dependencies, cache_build_result
  <2>3. PICK u \in Targets : Finish(u)
    BY <1>1, <2>1, <2>2
  <2>4. u = t
    BY <1>1, <2>1, <2>3 DEF Finish
  <2>5. QED
    BY <2>3, <2>4
<1>2. ASSUME BuildInv, NEW t \in Targets, Finish(t), NEW l \in LinksOf[t]
      PROVE  artifact[l].objects = CleanObjects(l)
  <2>1. l \in OfKind("library") /\ phase \in {"binary", "test"}
    BY <1>2, TargetsAssumption DEF Finish, Linking, OfKind
  <2>2. pc[l] = "done" /\ l \in Targets
    BY <1>2, <2>1 DEF BuildInv, PhaseInv, OfKind
  <2>3. QED
    BY <1>2, <2>2 DEF BuildInv, MadeInv, Fresh, Made
<1>3. BuildInv /\ [Next]_vars =>
        [\A t \in Targets : pc[t] = "compile" /\ pc'[t] = "collect" /\ quiet =>
           \A l \in LinksOf[t] : artifact[l].objects = CleanObjects(l)]_vars
  BY <1>1, <1>2
<1>4. QED
  BY <1>3, InvariantHolds, PTL DEF Spec, LinksReadyLibraries
==============================================================================
