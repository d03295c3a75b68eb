------------------------------- MODULE LockWalk -------------------------------
(***************************************************************************)
(* entries_from_configuration and walk_info                                *)
(* (src/core/cli/commands/lockfile.cpp): how `cppup package lock` turns    *)
(* the packages and test frameworks of build.cpp into the entries of       *)
(* cppup.lock, and the check of resolve_test_frameworks                    *)
(* (src/core/cli/commands/build.cpp) that uses what was locked and synced. *)
(*                                                                         *)
(* A package of the manifest is a tree, [name, dependencies]: its nodes    *)
(* are shared but written once, so a cycle can only be one of names.       *)
(* Version, url and the like are data of the node and play no part.        *)
(***************************************************************************)
EXTENDS Naturals, Sequences, SequencesExt

CONSTANTS PackageNames,  \* numbers, in the lexicographic order of the names
          Nested,        \* the trees, by how deep they are
          Manifests,     \* what config.packages may be
          FrameworkLists \* what config.test_frameworks may be

Infos == UNION {Nested[k] : k \in 1..Len(Nested)}

\* A tree is made of trees that are less deep.
ASSUME NestedAssumption ==
  /\ PackageNames \subseteq Nat \ {0}
  /\ Nested \in Seq(SUBSET Infos)
  /\ \A k \in 1..Len(Nested) : \A info \in Nested[k] :
       /\ info.name \in PackageNames
       /\ info.dependencies \in Seq(UNION {Nested[j] : j \in 1..(k - 1)})

\* A framework is [name, package, default]: .package and what the plugin's
\* default_package() answers are a sequence of at most one tree.  The answer is
\* empty, too, when no such plugin is registered.
ASSUME ManifestsAssumption ==
  /\ Manifests \subseteq Seq(Infos)
  /\ FrameworkLists \subseteq
       Seq([name : PackageNames, package : Seq(Infos), default : Seq(Infos)])
  /\ \A fs \in FrameworkLists : \A i \in DOMAIN fs :
       Len(fs[i].package) <= 1 /\ Len(fs[i].default) <= 1

VARIABLES
  packages,     \* config.packages
  frameworks,   \* config.test_frameworks
  todo,         \* the roots still to be walked
  done,         \* state.done
  path,         \* state.stack: the names being walked
  frames,       \* walk_info's stack, the top one last
  entries,      \* state.entries
  answer,       \* "none" while the walk runs
  offender      \* the package an error names

lockVars == <<packages, frameworks, todo, done, path, frames, entries, answer, offender>>

NoPackage == 0

\* Explicit package first, then the plugin's default, then nothing.
FrameworkPackage(framework) ==
  IF framework.package # <<>> THEN framework.package ELSE framework.default

\* What is walked in turn: every package, and of every framework its package, if any.
Roots == [i \in DOMAIN packages |-> <<packages[i]>>]
           \o [i \in DOMAIN frameworks |-> FrameworkPackage(frameworks[i])]

LockInit ==
  /\ packages \in Manifests
  /\ frameworks \in FrameworkLists
  /\ todo = Roots
  /\ done = {}
  /\ path = {}
  /\ frames = <<>>
  /\ entries = <<>>
  /\ answer = "none"
  /\ offender = NoPackage

------------------------------------------------------------------------------
(* The walk *)

Frame(info)     == [info |-> info, expanded |-> FALSE]
Current         == Last(frames)
AtEntrance(n)   == answer = "none" /\ frames # <<>> /\ ~Current.expanded /\ Current.info.name = n
DependencyNames(info) == [i \in DOMAIN info.dependencies |-> info.dependencies[i].name]

WalkNext ==
  /\ answer = "none" /\ frames = <<>> /\ todo # <<>>
  /\ frames' = [i \in DOMAIN Head(todo) |-> Frame(Head(todo)[i])]
  /\ todo' = Tail(todo)
  /\ UNCHANGED <<packages, frameworks, done, path, entries, answer, offender>>

\* The first occurrence of a name wins.
SkipDone(n) ==
  /\ AtEntrance(n)
  /\ n \in done
  /\ frames' = Front(frames)
  /\ UNCHANGED <<packages, frameworks, todo, done, path, entries, answer, offender>>

\* WRONG variant: a name that is waited for elsewhere is taken for a cycle.
RefusePending(n) ==
  /\ AtEntrance(n)
  /\ n \notin done
  /\ \E i \in 1..(Len(frames) - 1) : frames[i].info.name = n
  /\ answer' = "cycle"
  /\ offender' = n
  /\ UNCHANGED <<packages, frameworks, todo, done, path, frames, entries>>

RefuseCycle(n) ==
  /\ AtEntrance(n)
  /\ n \notin done /\ n \in path
  /\ answer' = "cycle"
  /\ offender' = n
  /\ UNCHANGED <<packages, frameworks, todo, done, path, frames, entries>>

\* The children go on the stack in reverse, so that the first is visited first.
Expand(n) ==
  /\ AtEntrance(n)
  /\ n \notin done /\ n \notin path
  /\ path' = path \cup {n}
  /\ frames' = Append(Front(frames), [info |-> Current.info, expanded |-> TRUE])
                 \o [i \in DOMAIN Current.info.dependencies |->
                       Frame(Reverse(Current.info.dependencies)[i])]
  /\ UNCHANGED <<packages, frameworks, todo, done, entries, answer, offender>>

\* WRONG variant: the name is not remembered as emitted.
EmitForgetful ==
  /\ answer = "none" /\ frames # <<>> /\ Current.expanded
  /\ path' = path \ {Current.info.name}
  /\ entries' = Append(entries, [name |-> Current.info.name,
                                 dependencies |-> DependencyNames(Current.info)])
  /\ frames' = Front(frames)
  /\ UNCHANGED <<packages, frameworks, todo, done, answer, offender>>

Emit ==
  /\ answer = "none" /\ frames # <<>> /\ Current.expanded
  /\ path' = path \ {Current.info.name}
  /\ done' = done \cup {Current.info.name}
  /\ entries' = Append(entries, [name |-> Current.info.name,
                                 dependencies |-> DependencyNames(Current.info)])
  /\ frames' = Front(frames)
  /\ UNCHANGED <<packages, frameworks, todo, answer, offender>>

\* std::ranges::sort leaves the entries in an order in which no name comes after
\* a greater one.
ReturnEntries ==
  /\ answer = "none" /\ frames = <<>> /\ todo = <<>>
  /\ \E at \in Bijection(DOMAIN entries, DOMAIN entries) :
       /\ \A i, j \in DOMAIN entries : i < j => ~(entries[at[j]].name < entries[at[i]].name)
       /\ entries' = [i \in DOMAIN entries |-> entries[at[i]]]
  /\ answer' = "locked"
  /\ UNCHANGED <<packages, frameworks, todo, done, path, frames, offender>>

LockNext ==
  \/ WalkNext
  \/ \E n \in PackageNames : SkipDone(n) \/ RefuseCycle(n) \/ Expand(n)
  \/ Emit
  \/ ReturnEntries

LockSpec == LockInit /\ [][LockNext]_lockVars

------------------------------------------------------------------------------
(* What `cppup build` makes of it *)

Locked == {entries[i].name : i \in DOMAIN entries}

\* The directory of .cppup/packages where resolve_test_frameworks looks.
PackageRoot(framework) ==
  IF framework.package # <<>> THEN framework.package[1].name ELSE framework.name

------------------------------------------------------------------------------
(* What a lockfile must be *)

\* The nodes of a tree.
Beneath[info \in Infos] ==
  {info} \cup UNION {Beneath[info.dependencies[i]] : i \in DOMAIN info.dependencies}

\* Those but its root.
Under(info) == UNION {Beneath[info.dependencies[i]] : i \in DOMAIN info.dependencies}

RootInfos     == UNION {ToSet(Roots[i]) : i \in DOMAIN Roots}
DeclaredInfos == UNION {Beneath[info] : info \in RootInfos}

LockTypeOK ==
  /\ packages \in Seq(Infos) /\ frameworks \in FrameworkLists
  /\ done \subseteq PackageNames /\ path \subseteq PackageNames
  /\ todo \in Seq(Seq(RootInfos))
  /\ frames \in Seq([info : DeclaredInfos, expanded : BOOLEAN])
  /\ entries \in Seq([name : done, dependencies : Seq(PackageNames)])
  /\ answer \in {"none", "locked", "cycle"}
  /\ offender \in PackageNames \cup {NoPackage}

\* A lockfile is sorted with one entry per name, has every package the manifest
\* and the frameworks ask for, an entry for every dependency an entry names, only
\* entries the manifest declares, and no cycle for a later reader to follow.
LockComplete ==
  answer = "locked" =>
    /\ \A i, j \in DOMAIN entries : i < j => entries[i].name < entries[j].name
    /\ {t.name : t \in RootInfos} \subseteq Locked
    /\ \A i \in DOMAIN entries :
         /\ ToSet(entries[i].dependencies) \subseteq Locked
         /\ \E t \in DeclaredInfos : /\ t.name = entries[i].name
                                /\ DependencyNames(t) = entries[i].dependencies
    /\ \A S \in (SUBSET DOMAIN entries) \ {{}} :
         \E i \in S : \A j \in S : ~Contains(entries[i].dependencies, entries[j].name)

\* A project is refused only for a package that some declaration makes depend on
\* itself, and never because two packages share a dependency.
LockErrors ==
  answer = "cycle" => \E t \in DeclaredInfos :
                        /\ t.name = offender
                        /\ \E u \in Under(t) : u.name = offender

\* After lock and sync a build finds the package of every framework that has one:
\* "Test-framework packages roundtrip through the lockfile too so a fresh
\* `git clone && cppup test` reproduces the framework source state".
FrameworksAreLocked ==
  answer = "locked" => \A i \in DOMAIN frameworks :
                         FrameworkPackage(frameworks[i]) # <<>> => PackageRoot(frameworks[i]) \in Locked

------------------------------------------------------------------------------
(* Why: the inductive invariant *)

Position    == 1..Len(frames)
NameAt(i)   == frames[i].info.name
Expanded(i) == frames[i].expanded

\* The names on the path are those of the expanded frames, and not yet emitted.
OnPathInv ==
  /\ path = {NameAt(i) : i \in {j \in Position : Expanded(j)}}
  /\ \A i, j \in Position : Expanded(i) /\ Expanded(j) /\ i # j => NameAt(i) # NameAt(j)
  /\ path \cap done = {}

\* Above an expanded frame is only what its package asks for.
AncestryInv ==
  \A i, j \in Position : i < j /\ Expanded(i) => frames[j].info \in Under(frames[i].info)

\* What an expanded frame asks for is emitted or on the stack above it.
DependenciesInv ==
  \A i \in Position : Expanded(i) =>
    \A k \in DOMAIN frames[i].info.dependencies :
      LET n == frames[i].info.dependencies[k].name
      IN  n \in done \/ \E j \in Position : i < j /\ NameAt(j) = n

\* A root is emitted, on the stack or still to be walked.
WalkRootsInv ==
  \A info \in RootInfos :
    \/ info.name \in done
    \/ \E j \in Position : NameAt(j) = info.name
    \/ \E i \in DOMAIN todo : info \in ToSet(todo[i])

\* Until they are sorted, entries come after those they depend on.
EntriesInv ==
  /\ done = Locked
  /\ \A i, j \in DOMAIN entries : i # j => entries[i].name # entries[j].name
  /\ \A i \in DOMAIN entries :
       \E t \in DeclaredInfos : /\ t.name = entries[i].name
                               /\ DependencyNames(t) = entries[i].dependencies
  /\ answer # "locked" => \A i \in DOMAIN entries :
       ToSet(entries[i].dependencies) \subseteq {entries[j].name : j \in 1..(i - 1)}

LockInv == /\ LockTypeOK /\ OnPathInv /\ AncestryInv /\ DependenciesInv
           /\ WalkRootsInv /\ EntriesInv /\ LockComplete /\ LockErrors
==============================================================================
