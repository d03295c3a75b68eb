---------------------------- MODULE BuildTargets -----------------------------
(***************************************************************************)
(* `cppup build` over a project's life: executeBuild with its planning,    *)
(* the library, binary and test phases (cli/commands/build.cpp), and the   *)
(* freshness cache each target is checked against (build/cache.cpp).       *)
(*                                                                         *)
(* A file is known by its version; what a compiler reads and is told makes *)
(* a snapshot, and an output is known by the snapshots it was made from.   *)
(* Workers are left to WorkerPool: here the jobs of a phase run in any     *)
(* order and interleave with the user's editor.  Objects are not kept      *)
(* between builds, since a build reads only those it has written; ar and   *)
(* the linker write the output itself, and may be cut off in the middle.   *)
(***************************************************************************)
EXTENDS Naturals, FiniteSets

CONSTANTS
  Targets, KindOf, NameOf,  \* "library", "binary" or "test"; the name
  SourcesOf, LinksOf,       \* a target's sources; the libraries it links
  ObjectOf,  \* the object of each source: stem_name.o, stem_name_kind.o
  Files, Headers,           \* the headers may be missing
  Includes,  \* the headers the text of a source names, in an include path
  Needed,    \* those of them the compiler reads: the others are named in a
             \* comment, or for another platform
  Hidden,    \* those it reads otherwise: through a header, in the source's
             \* own folder, or if they are there
  Versions, FlagSets,
  Compilers, FamilyOf, Gxx, \* normalize_compiler; the "g++" of libraries
  Generated,                \* files a pre-build script writes
  Regimes,                  \* what may happen to a project: see Edit, Crash
  Nothing                   \* no such file, entry or output

Inputs(s) == {s} \cup Needed[s] \cup Hidden[s]

\* What collect_dependencies looks for.
Read(t) == SourcesOf[t] \cup UNION {Includes[s] : s \in SourcesOf[t]}

Snapshots   == [compiler : Compilers \cup {Gxx}, flags : FlagSets,
                inputs : UNION {[Inputs(s) -> Versions \cup {Nothing}] : s \in Files \ Headers}]
ObjectFiles == UNION {{ObjectOf[t][s] : s \in SourcesOf[t]} : t \in Targets}
ObjectLists == UNION {[SourcesOf[t] -> Snapshots] : t \in Targets}
Artifacts   == [objects : ObjectLists, libs : UNION {[LinksOf[t] -> ObjectLists] : t \in Targets}]

\* An output that was cut off while it was written.
Torn == [objects |-> Nothing, libs |-> Nothing]

Entries     == [signature : [target : Targets, flags : FlagSets],
                dependencies : SUBSET [file : Files, checksum : Versions]]

\* An archive takes no libraries.
ASSUME TargetsAssumption ==
  /\ KindOf \in [Targets -> {"library", "binary", "test"}]
  /\ \A t \in Targets : /\ SourcesOf[t] \subseteq Files \ Headers
                        /\ \A l \in LinksOf[t] : l \in Targets /\ KindOf[l] = "library"
                        /\ KindOf[t] = "library" => LinksOf[t] = {}
  /\ Headers \subseteq Files
  /\ \A s \in Files : Needed[s] \subseteq Includes[s] /\ Includes[s] \cup Hidden[s] \subseteq Headers
  /\ Versions \subseteq Nat /\ Generated \subseteq Files
  /\ Nothing \notin Versions /\ Nothing \notin Artifacts \cup {Torn} /\ Nothing \notin Entries
  /\ Nothing \notin Files /\ Nothing \notin Snapshots \cup ObjectLists

ASSUME FiniteProject == IsFiniteSet(Targets) /\ \A t \in Targets : IsFiniteSet(SourcesOf[t])

VARIABLES
  regime,     \* what happens in this behaviour: reverts, editsDuringBuild,
              \* partialCleans, crashes (BOOLEAN each)
  content,    \* each file's version
  selection,  \* compiler and flags: toolchain, profile, options
  artifact,   \* what each output file was made from
  cache,      \* the database of each triplet
  phase,
  pc,         \* where the build is with each target
  compiled,   \* the sources this build has compiled for each target
  object,     \* what each object of this build was made from
  collected,  \* what collect_dependencies returned
  failed,     \* a job of this build failed
  outcome,    \* of the last build, while nothing was touched since
  total, done,
  quiet,      \* history: nobody edited during this build
  scripted    \* history: a script changed a file during this build

files    == <<regime, content, selection>>
outputs  == <<artifact, cache>>
progress == <<total, done>>
history  == <<quiet, scripted>>
objects  == <<compiled, object>>
vars     == <<files, outputs, phase, pc, objects, collected, failed, outcome,
              progress, history>>

OfKind(k) == {t \in Targets : KindOf[t] = k}

CompilerOf(t) == IF KindOf[t] = "library" THEN Gxx ELSE selection.compiler

\* What compiling s for t gives now.
Snapshot(t, s) == [compiler |-> CompilerOf(t), flags |-> selection.flags,
                   inputs |-> [f \in Inputs(s) |-> content[f]]]

CleanObjects(t) == [s \in SourcesOf[t] |-> Snapshot(t, s)]

NoObjects == [o \in ObjectFiles |-> Nothing]
Unbegun   == [t \in Targets |-> {}]

(* The cache: one database per triplet, one entry per target name *)

triplet == FamilyOf[selection.compiler]

\* WRONG variant: the flags are left out of the signature.
SignatureWithoutFlags(t) == [target |-> t]

\* Type, output, source list and flags; not the compiler.
target_signature(t) == [target |-> t, flags |-> selection.flags]

\* WRONG variant: the files are not looked at.
RebuildOnlyIfUnknown(t) ==
  LET e == cache[triplet][NameOf[t]]
  IN  artifact[t] = Nothing \/ e = Nothing \/ e.signature # target_signature(t)

needs_rebuild(t) ==
  LET e == cache[triplet][NameOf[t]]
  IN  \/ artifact[t] = Nothing
      \/ e = Nothing
      \/ e.signature # target_signature(t)
      \/ \E d \in e.dependencies : content[d.file] # d.checksum

\* The progress steps of a target: its sources are compiled, then it is finished.
StepsOf(t) == {<<t, s>> : s \in SourcesOf[t]} \cup {<<t, Nothing>>}

\* WRONG variant: the step that finishes a target is not counted.
CountCompilesOnly ==
  Cardinality(UNION {StepsOf(t) \ {<<t, Nothing>>} : t \in {u \in Targets : needs_rebuild(u)}})

\* The steps of every target that is not cached.
count_planned_steps ==
  Cardinality(UNION {StepsOf(t) : t \in {u \in Targets : needs_rebuild(u)}})

------------------------------------------------------------------------------
Init ==
  /\ regime \in Regimes
  /\ content \in [Files -> Versions]
  /\ selection \in [compiler : Compilers, flags : FlagSets]
  /\ artifact = [t \in Targets |-> Nothing]
  /\ cache = [k \in {FamilyOf[c] : c \in Compilers} |->
                [n \in {NameOf[t] : t \in Targets} |-> Nothing]]
  /\ phase = "idle"
  /\ pc = [t \in Targets |-> "todo"]
  /\ object = NoObjects /\ compiled = Unbegun
  /\ collected = [t \in Targets |-> Nothing]
  /\ failed = FALSE
  /\ outcome = "none"
  /\ total = 0 /\ done = 0
  /\ quiet = TRUE /\ scripted = FALSE

(* The user *)

\* A new version, an old one, or (a header) none.
EditsOf(f) ==
  IF regime.reverts
  THEN (Versions \cup (IF f \in Headers THEN {Nothing} ELSE {})) \ {content[f]}
  ELSE {v \in Versions : v > content[f]}

Edit(f) ==
  /\ phase = "idle" \/ regime.editsDuringBuild
  /\ \E v \in EditsOf(f) : content' = [content EXCEPT ![f] = v]
  /\ outcome' = "none"
  /\ quiet' = (phase = "idle")
  /\ UNCHANGED <<regime, selection, outputs, phase, pc, objects, collected, failed, progress, scripted>>

\* Old flags coming back are as old versions coming back.
Select ==
  /\ phase = "idle" /\ regime.reverts
  /\ selection' \in [compiler : Compilers, flags : FlagSets] \ {selection}
  /\ outcome' = "none"
  /\ UNCHANGED <<regime, content, outputs, phase, pc, objects, collected, failed, progress, history>>

\* WRONG variant: the databases are not among what is removed.
CleanOutputs ==
  /\ phase = "idle"
  /\ \E gone \in SUBSET Targets :
       artifact' = [t \in Targets |-> IF t \in gone THEN Nothing ELSE artifact[t]]
  /\ outcome' = "none"
  /\ UNCHANGED <<files, cache, phase, pc, objects, collected, failed, progress, history>>

\* `cppup clean`, or the user's own rm: what cannot be removed is left behind
\* with a warning.  Outputs that go may leave their records (partialCleans).
executeClean ==
  /\ phase = "idle"
  /\ \E gone \in SUBSET Targets, triplets \in SUBSET DOMAIN cache :
       /\ regime.partialCleans \/ gone = {} \/ triplets = DOMAIN cache
       /\ artifact' = [t \in Targets |-> IF t \in gone THEN Nothing ELSE artifact[t]]
       /\ cache' = [k \in DOMAIN cache |-> IF k \in triplets
                                          THEN [n \in DOMAIN cache[k] |-> Nothing]
                                          ELSE cache[k]]
  /\ outcome' = "none"
  /\ UNCHANGED <<files, phase, pc, objects, collected, failed, progress, history>>

(* executeBuild *)

\* The process ends, whatever it was doing; SQLite rolls back.
EndBuild(result) ==
  /\ phase' = "idle"
  /\ outcome' = result
  /\ pc' = [t \in Targets |-> "todo"]
  /\ object' = NoObjects /\ compiled' = Unbegun
  /\ collected' = [t \in Targets |-> Nothing]
  /\ failed' = FALSE

StartBuild ==
  /\ phase = "idle"
  /\ phase' = "scripts"
  /\ outcome' = "none"
  /\ total' = count_planned_steps
  /\ done' = 0
  /\ quiet' = TRUE /\ scripted' = FALSE
  /\ UNCHANGED <<files, outputs, pc, objects, collected, failed>>

\* create_build_cache returned nullptr; count_planned_steps calls through it.
StartWithoutCache ==
  /\ phase = "idle"
  /\ regime.crashes
  /\ EndBuild("crashed")
  /\ UNCHANGED <<files, outputs, progress, history>>

PreBuildScripts ==
  /\ phase = "scripts"
  /\ content' \in {c \in [Files -> Versions \cup {Nothing}] : \A f \in Files :
       c[f] = content[f] \/ (f \in Generated /\ c[f] \in EditsOf(f) \ {Nothing})}
  /\ scripted' = (content' # content)
  /\ phase' = "plan"
  /\ UNCHANGED <<regime, selection, outputs, pc, objects, collected, failed, outcome, progress, quiet>>

ScriptFails ==
  /\ phase = "scripts"
  /\ EndBuild("failed")
  /\ UNCHANGED <<files, outputs, progress, history>>

\* WRONG variant: a phase begins as soon as no job of the last one is queued.
NextPhaseEarly(from, to) ==
  /\ phase = from
  /\ \A t \in OfKind("library") : pc[t] # "todo"
  /\ phase' = to
  /\ UNCHANGED <<files, outputs, pc, objects, collected, failed, outcome, progress, history>>

\* The pools are joined: a phase begins when the last one is over.
NextPhase(from, to) ==
  /\ phase = from /\ ~failed
  /\ CASE from = "plan"    -> \A t \in OfKind("library") : pc[t] # "todo"
       [] from = "compile" -> \A t \in OfKind("library") : pc[t] = "compile" =>
                                compiled[t] = SourcesOf[t]
       [] from = "library" -> \A t \in OfKind("library") : pc[t] = "done"
       [] from = "binary"  -> \A t \in OfKind("binary") : pc[t] = "done"
  /\ phase' = to
  /\ UNCHANGED <<files, outputs, pc, objects, collected, failed, outcome, progress, history>>

Succeed ==
  /\ phase = "test" /\ ~failed
  /\ \A t \in OfKind("test") : pc[t] = "done"
  /\ EndBuild(IF quiet THEN "success" ELSE "none")
  /\ UNCHANGED <<files, outputs, progress, history>>

\* A job failed: those under way are ended first.
GiveUp ==
  /\ failed
  /\ \A t \in Targets : /\ pc[t] \notin {"collect", "persist"}
                        /\ phase \in {"binary", "test"} => pc[t] # "compile"
  /\ EndBuild("failed")
  /\ UNCHANGED <<files, outputs, progress, history>>

\* ar or the linker may be writing the output of t.
Linking(t) == pc[t] = "compile" /\ phase = KindOf[t] /\ compiled[t] = SourcesOf[t]

\* An output that was being written is left as it was, removed, or torn.
Crash ==
  /\ regime.crashes /\ phase # "idle"
  /\ \E left \in [{t \in Targets : Linking(t)} -> {"old", "none", "torn"}] :
       artifact' = [t \in Targets |->
         IF ~Linking(t) \/ left[t] = "old" THEN artifact[t]
         ELSE IF left[t] = "torn" THEN Torn ELSE Nothing]
  /\ EndBuild("crashed")
  /\ UNCHANGED <<files, cache, progress, history>>

(* The jobs of the phases *)

\* plan_library_build, and the head of build_executable.
CheckCache(t) ==
  /\ pc[t] = "todo"
  /\ phase = IF KindOf[t] = "library" THEN "plan" ELSE KindOf[t]
  /\ pc' = [pc EXCEPT ![t] = IF needs_rebuild(t) THEN "compile" ELSE "done"]
  /\ UNCHANGED <<files, outputs, phase, objects, collected, failed, outcome, progress, history>>

\* Libraries are compiled together; a binary or test compiles its own.
Compiling(t) ==
  /\ pc[t] = "compile"
  /\ phase = IF KindOf[t] = "library" THEN "compile" ELSE KindOf[t]

\* ProgressReporter::step
Emit == done' = IF total = 0 THEN done ELSE done + 1

\* WRONG variant: a header that is not there is no error.
CompileAnyway(t, s) ==
  /\ Compiling(t)
  /\ s \notin compiled[t]
  /\ compiled' = [compiled EXCEPT ![t] = @ \cup {s}]
  /\ object' = [object EXCEPT ![ObjectOf[t][s]] = Snapshot(t, s)]
  /\ Emit
  /\ UNCHANGED <<files, outputs, phase, pc, collected, failed, outcome, total, history>>

\* Each source is compiled once, into its object; the last of those that share
\* one stays.
Compile(t, s) ==
  /\ Compiling(t)
  /\ s \notin compiled[t]
  /\ \A f \in {s} \cup Needed[s] : content[f] # Nothing
  /\ compiled' = [compiled EXCEPT ![t] = @ \cup {s}]
  /\ object' = [object EXCEPT ![ObjectOf[t][s]] = Snapshot(t, s)]
  /\ Emit
  /\ UNCHANGED <<files, outputs, phase, pc, collected, failed, outcome, total, history>>

\* The compiler, ar or the linker fails.  A linker leaves no output behind, but
\* one that was killed a torn one.
JobFails(t) ==
  /\ \/ Compiling(t)
     \/ phase = "library" /\ pc[t] = "compile"
  /\ failed' = TRUE
  /\ pc' = [pc EXCEPT ![t] = "failed"]
  /\ \/ artifact' = artifact
     \/ /\ Linking(t) /\ KindOf[t] # "library"
        /\ artifact' = [artifact EXCEPT ![t] = Nothing]
     \/ /\ Linking(t) /\ regime.crashes
        /\ artifact' = [artifact EXCEPT ![t] = Torn]
  /\ UNCHANGED <<files, cache, phase, objects, collected, outcome, progress, history>>

\* ar rcs of archive_library, the link of build_executable.
Finish(t) ==
  /\ Linking(t)
  /\ \A l \in LinksOf[t] : artifact[l] \notin {Nothing, Torn}
  /\ artifact' = [artifact EXCEPT ![t] =
                    [objects |-> [s \in SourcesOf[t] |-> object[ObjectOf[t][s]]],
                     libs |-> [l \in LinksOf[t] |-> artifact[l].objects]]]
  /\ pc' = [pc EXCEPT ![t] = "collect"]
  /\ Emit
  /\ UNCHANGED <<files, cache, phase, objects, collected, failed, outcome, total, history>>

collect_dependencies(t) ==
  /\ pc[t] = "collect"
  /\ collected' = [collected EXCEPT ![t] =
       [sources |-> {[file |-> s, checksum |-> content[s]] : s \in SourcesOf[t]},
        includes |-> {h \in UNION {Includes[s] : s \in SourcesOf[t]} :
                        content[h] # Nothing}]]
  /\ pc' = [pc EXCEPT ![t] = "persist"]
  /\ UNCHANGED <<files, outputs, phase, objects, failed, outcome, progress, history>>

\* WRONG variant: rows of the entry that is replaced are not deleted.
PersistKeepsRows(t) ==
  /\ pc[t] = "persist"
  /\ cache' = [cache EXCEPT ![triplet][NameOf[t]] =
       [signature |-> target_signature(t),
        dependencies |-> (IF @ = Nothing THEN {} ELSE @.dependencies) \cup
          collected[t].sources \cup
          {[file |-> h, checksum |-> content[h]] :
             h \in {i \in collected[t].includes : content[i] # Nothing}}]]
  /\ pc' = [pc EXCEPT ![t] = "done"]
  /\ UNCHANGED <<files, artifact, phase, objects, collected, failed, outcome, progress, history>>

\* One transaction; the headers are read now, those that vanished are skipped.
cache_build_result(t) ==
  /\ pc[t] = "persist"
  /\ cache' = [cache EXCEPT ![triplet][NameOf[t]] =
       [signature |-> target_signature(t),
        dependencies |-> collected[t].sources \cup
          {[file |-> h, checksum |-> content[h]] :
             h \in {i \in collected[t].includes : content[i] # Nothing}}]]
  /\ pc' = [pc EXCEPT ![t] = "done"]
  /\ UNCHANGED <<files, artifact, phase, objects, collected, failed, outcome, progress, history>>

Job(t) ==
  \/ CheckCache(t) \/ JobFails(t) \/ Finish(t)
  \/ collect_dependencies(t) \/ cache_build_result(t)
  \/ \E s \in SourcesOf[t] : Compile(t, s)

executeBuild ==
  \/ StartBuild \/ StartWithoutCache \/ PreBuildScripts \/ ScriptFails
  \/ NextPhase("plan", "compile") \/ NextPhase("compile", "library")
  \/ NextPhase("library", "binary") \/ NextPhase("binary", "test")
  \/ Succeed \/ GiveUp \/ Crash

Next ==
  \/ Select \/ executeClean
  \/ \E f \in Files : Edit(f)
  \/ \E t \in Targets : Job(t)
  \/ executeBuild

Spec == Init /\ [][Next]_vars

------------------------------------------------------------------------------
TypeOK ==
  /\ regime \in Regimes
  /\ content \in [Files -> Versions \cup {Nothing}]
  /\ \A f \in Files \ Headers : content[f] # Nothing
  /\ selection \in [compiler : Compilers, flags : FlagSets]
  /\ phase \in {"idle", "scripts", "plan", "compile", "library", "binary", "test"}
  /\ pc \in [Targets -> {"todo", "compile", "collect", "persist", "done", "failed"}]
  /\ compiled \in [Targets -> SUBSET Files] /\ \A t \in Targets : compiled[t] \subseteq SourcesOf[t]
  /\ object \in [ObjectFiles -> Snapshots \cup {Nothing}]
  /\ artifact \in [Targets -> Artifacts \cup {Nothing, Torn}]
  /\ \A t \in Targets : artifact[t] \notin {Nothing, Torn} => artifact[t].objects \in [SourcesOf[t] -> Snapshots]
  /\ cache \in [{FamilyOf[c] : c \in Compilers} -> [{NameOf[t] : t \in Targets} -> Entries \cup {Nothing}]]
  /\ DOMAIN collected = Targets
  /\ failed \in BOOLEAN /\ quiet \in BOOLEAN /\ scripted \in BOOLEAN
  /\ outcome \in {"none", "success", "failed", "crashed"}

\* "Only a confirmed clean hit returns false": when a build reports success
\* and nobody edited while it ran, every target holds the objects a build
\* from nothing would give, whatever builds failed or were served before.
UpToDate ==
  outcome = "success" => \A t \in Targets : /\ artifact[t] # Nothing
                                            /\ artifact[t].objects = CleanObjects(t)

\* ... and the libraries in it are those a build from nothing would link.
LinkedUpToDate ==
  outcome = "success" =>
    \A t \in Targets : \A l \in LinksOf[t] : artifact[t].libs[l] = CleanObjects(l)

\* A second build would find nothing to do.
SecondBuildIsNoOp == outcome = "success" => \A t \in Targets : ~needs_rebuild(t)

\* "Only a confirmed clean hit returns false": an output that the linker or ar was
\* writing when it was cut off is never served from the cache, whatever an older
\* record says.
TornIsRebuilt == \A t \in Targets : artifact[t] = Torn => needs_rebuild(t)

\* An executable is linked when its libraries are ready: what it takes from
\* them is what a build from nothing would give it.
LinksReadyLibraries ==
  [][\A t \in Targets : pc[t] = "compile" /\ pc'[t] = "collect" /\ quiet =>
       \A l \in LinksOf[t] : artifact[l].objects = CleanObjects(l)]_vars

\* Whatever went before, what a quiet build writes is fresh when it is recorded.
RecordsFreshOutputs ==
  [][\A t \in Targets : pc[t] = "persist" /\ pc'[t] = "done" /\ quiet =>
       /\ artifact[t].objects = CleanObjects(t)
       /\ ~needs_rebuild(t)']_vars

\* "return the number of progress steps the build will emit": [n/n] is the
\* last line, unless a script wrote files after the count.
PlannedIsDone == outcome = "success" /\ ~scripted => done = total

------------------------------------------------------------------------------
(* The inductive invariant behind UpToDate and what follows from it, and   *)
(* what it takes for granted.  Without the first four conditions outputs,  *)
(* objects or records are shared, or inputs unseen; without the last the   *)
(* old record of an output that was replaced may become true again, or may *)
(* still be true of an output that a build was cut off in replacing.       *)

FreshnessConditions ==
  /\ \A c, d \in Compilers : c = d
  /\ \A t, u \in Targets : NameOf[t] = NameOf[u] => t = u
  /\ \A t, u \in Targets : \A s \in SourcesOf[t], r \in SourcesOf[u] :
       ObjectOf[t][s] = ObjectOf[u][r] => t = u /\ s = r
  /\ \A s \in Files : Hidden[s] = {}
  /\ \A r \in Regimes : ~r.editsDuringBuild /\ ~(r.crashes /\ (r.reverts \/ r.partialCleans))

EntryOf(t) == cache[triplet][NameOf[t]]

Recorded(t, version) ==
  {[file |-> f, checksum |-> version[f]] : f \in {g \in Read(t) : version[g] # Nothing}}

NeededBy(t) == SourcesOf[t] \cup UNION {Needed[s] : s \in SourcesOf[t]}

Complete(t) == \A f \in NeededBy(t) : content[f] # Nothing

\* The output is the one a build from nothing would make, and is recorded so.
Made(t)  == Complete(t) /\ artifact[t] # Nothing /\ artifact[t].objects = CleanObjects(t)
Fresh(t) == Made(t) /\ ~needs_rebuild(t)

\* Which targets are behind the build, and which before it.
PhaseInv ==
  /\ outcome = "success" => phase = "idle"
  /\ phase \in {"idle", "scripts"} => \A t \in Targets : pc[t] = "todo"
  /\ phase \in {"binary", "test"} => \A t \in OfKind("library") : pc[t] = "done"
  /\ phase = "test" => \A t \in OfKind("binary") : pc[t] = "done"

\* What this build has made so far, nothing having changed since it was planned.
MadeInv ==
  \A t \in Targets :
    /\ \A s \in compiled[t] :
         /\ phase \notin {"idle", "scripts"}
         /\ object[ObjectOf[t][s]] = Snapshot(t, s)
         /\ \A f \in {s} \cup Needed[s] : content[f] # Nothing
    /\ pc[t] \in {"collect", "persist"} => Made(t)
    /\ pc[t] = "persist" => collected[t] =
         [sources |-> {[file |-> s, checksum |-> content[s]] : s \in SourcesOf[t]},
          includes |-> {h \in UNION {Includes[s] : s \in SourcesOf[t]} : content[h] # Nothing}]
    /\ pc[t] = "done" \/ outcome = "success" => Fresh(t)

\* The objects of t, compiled with these flags from these versions.
ObjectsFrom(t, flags, version) ==
  [s \in SourcesOf[t] |-> [compiler |-> CompilerOf(t), flags |-> flags,
                           inputs |-> [f \in Inputs(s) |-> version[f]]]]

\* Where processes die versions only move on, and the record will never match again.
Outdated(t, version) == regime.crashes /\ \E f \in Read(t) : version[f] < content[f]

\* A record names every input of its target, and the output is what the record says.
\* Or it is gone; or a process died between the two, or in the middle of the output,
\* which it was writing because the record was outdated already.
RecordInv ==
  /\ regime.crashes => \A f \in Files : content[f] # Nothing
  /\ \A t \in Targets : EntryOf(t) # Nothing =>
       \E version \in [Read(t) -> Versions \cup {Nothing}], flags \in FlagSets :
         /\ EntryOf(t) = [signature |-> [target |-> t, flags |-> flags],
                          dependencies |-> Recorded(t, version)]
         /\ \A f \in NeededBy(t) : version[f] # Nothing
         /\ regime.crashes => /\ flags = selection.flags
                              /\ \A f \in Read(t) : version[f] # Nothing /\ version[f] <= content[f]
         /\ pc[t] \notin {"collect", "persist"} =>
              \/ artifact[t] # Nothing /\ artifact[t].objects = ObjectsFrom(t, flags, version)
              \/ artifact[t] = Nothing /\ ~regime.crashes
              \/ Outdated(t, version)
         /\ pc[t] = "compile" /\ regime.crashes => Outdated(t, version)

\* The progress steps target t has still to emit in this build.
Pending(t) ==
  CASE pc[t] = "todo"    -> IF needs_rebuild(t) THEN StepsOf(t) ELSE {}
    [] pc[t] = "compile" -> {p \in StepsOf(t) : p[2] \notin compiled[t]}
    [] OTHER             -> {}

Left == UNION {Pending(t) : t \in Targets}

\* Until something fails, the steps emitted and those pending make up the plan.
CountInv ==
  /\ total \in Nat /\ done \in Nat
  /\ phase = "scripts" => ~scripted
  /\ \A t \in Targets : pc[t] = "todo" => compiled[t] = {}
  /\ phase # "idle" /\ ~scripted /\ ~failed =>
       total = done + Cardinality(Left)

BuildInv == TypeOK /\ PhaseInv /\ MadeInv /\ RecordInv /\ CountInv /\ PlannedIsDone
==============================================================================
