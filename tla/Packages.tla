------------------------------ MODULE Packages -------------------------------
(***************************************************************************)
(* The package layers of a project and the commands that rewrite them:     *)
(* cppup.lock with its two halves, package list and selection (lockfile,   *)
(* selection_resolver, toolchain, registry .cpp), the directories under    *)
(* .cppup/packages and registry.txt (package.cpp), and the gate and the    *)
(* migration at the head of `cppup build`.                                 *)
(*                                                                         *)
(* One command runs at a time.  It does its file operations one by one,    *)
(* may fail at each of them, and may be killed between any two of them.    *)
(* A stream is flushed when it is destroyed, and nobody asks whether that  *)
(* went well: what a command reports as written may not be on disk.        *)
(* What configure() lists is chosen when `package lock` asks for it.       *)
(***************************************************************************)
EXTENDS Naturals, Sequences, SequencesExt, FiniteSets

CONSTANTS
  Names,        \* packages
  KindOf,       \* "git", "copied" (directory, archives) or "placeholder"
  Versions,
  Toolchains, Profiles, Registries,  \* what the user may select
  OldToolchains,  \* what an old version may have left in toolchain.txt
  Nothing, Torn \* no such file, entry or choice; a file truncated and not written

Lists      == [Names -> Versions \cup {Nothing}]
Selections == [toolchain : Toolchains \cup OldToolchains \cup {Nothing}, profile : Profiles \cup {Nothing},
               registry : Registries \cup {Nothing}]
Lockfiles  == [packages : Lists, selection : Selections]

ASSUME PackagesAssumption ==
  /\ IsFiniteSet(Names) /\ KindOf \in [Names -> {"git", "copied", "placeholder"}]
  /\ Versions \cap {"absent", "empty", "broken"} = {}
  /\ Nothing \notin Toolchains
  /\ Nothing # Torn /\ {Nothing, Torn} \cap Lockfiles = {}

VARIABLES
  lock,      \* cppup.lock
  legacy,    \* .cppup/toolchain.txt
  dir,       \* .cppup/packages/<name>: "absent", "empty", "broken", or a version
  registry,  \* registry.txt
  op, step,  \* the command that runs, and where it is
  selection, text,                      \* locals of the lockfile's writers
  entries, records, fetch, stale, errors,  \* locals of add, remove and sync
  outcome,   \* of the last command, while nothing was touched since
  before,    \* history: the lockfile and the legacy file when the command began
  lost       \* history: the last command did not notice that its write failed

files     == <<lock, legacy, dir, registry>>
writer    == <<selection, text>>
installer == <<entries, records, fetch, stale, errors>>
vars      == <<files, op, step, writer, installer, outcome, before, lost>>

NoPackages  == [n \in Names |-> Nothing]
NoSelection == [toolchain |-> Nothing, profile |-> Nothing, registry |-> Nothing]

Locked(list) == {n \in Names : list[n] # Nothing}

(* Reading *)

\* Malformed text leaves the fields unset.
read_selection(file) == IF file \in {Nothing, Torn} THEN NoSelection ELSE file.selection

dir_present(n) == dir[n] \notin {"absent", "empty"}

Installed(recs) == {recs[i].name : i \in DOMAIN recs}

\* The gate of build, on a lockfile that parses.
find_unmaterialized_packages(file) ==
  {n \in Locked(file.packages) : ~dir_present(n)}

\* What sync plans for a lockfile: the packages to fetch ...
NeedsFetch(list) == {n \in Locked(list) : ~dir_present(n)}

\* ... and those whose record is to be written.
NeedsMetadata(list, recs) == NeedsFetch(list) \cup (Locked(list) \ Installed(recs))

(* The toolchain a build would be given *)
Choice(file, old) == IF read_selection(file).toolchain # Nothing
                     THEN read_selection(file).toolchain ELSE old

------------------------------------------------------------------------------
Init ==
  /\ lock = Nothing
  /\ legacy \in OldToolchains \cup {Nothing}
  /\ dir = [n \in Names |-> "absent"]
  /\ registry = <<>>
  /\ op = "none" /\ step = "idle"
  /\ selection = NoSelection /\ text = Nothing
  /\ entries = NoPackages /\ records = <<>>
  /\ fetch = {} /\ stale = {} /\ errors = {}
  /\ outcome = "none"
  /\ before = [lock |-> Nothing, legacy |-> Nothing]
  /\ lost = FALSE

Begin(o, s) ==
  /\ step = "idle"
  /\ op' = o /\ step' = s
  /\ outcome' = "none"
  /\ before' = [lock |-> lock, legacy |-> legacy]
  /\ lost' = FALSE

\* The command returns; its locals are gone.
Return(result) ==
  /\ op' = "none" /\ step' = "idle"
  /\ selection' = NoSelection /\ text' = Nothing
  /\ entries' = NoPackages /\ records' = <<>>
  /\ fetch' = {} /\ stale' = {} /\ errors' = {}
  /\ outcome' = result
  /\ before' = [lock |-> Nothing, legacy |-> Nothing]

End(result) == Return(result) /\ UNCHANGED lost

Goto(s) == /\ step' = s
           /\ UNCHANGED <<op, outcome, before, lost>>

\* An error that is returned before anything is touched.
Refused == /\ step = "idle"
           /\ End("failed")
           /\ UNCHANGED files

(* cppup.lock: toolchain select, profile select, registry set, package lock *)

executeToolchainSelect(t) ==
  /\ Begin("toolchain_select", "entries")
  /\ selection' = [read_selection(lock) EXCEPT !.toolchain = t]
  /\ UNCHANGED <<files, text, installer>>

executeProfileSelect(p) ==
  /\ Begin("profile_select", "entries")
  /\ selection' = [read_selection(lock) EXCEPT !.profile = p]
  /\ UNCHANGED <<files, text, installer>>

executeRegistrySet(r) ==
  /\ Begin("registry_set", "entries")
  /\ selection' = [read_selection(lock) EXCEPT !.registry = r]
  /\ UNCHANGED <<files, text, installer>>

\* serialize(*entries) has no selection to write.
executePackageLock(list) ==
  /\ Begin("lock", "truncate")
  /\ text' = [packages |-> list, selection |-> NoSelection]
  /\ UNCHANGED <<files, selection, installer>>

\* WRONG variant: the file is rewritten from the selection alone.
SelectionOnly ==
  /\ step = "entries" /\ lock # Torn
  /\ text' = [packages |-> NoPackages, selection |-> selection]
  /\ Goto("truncate")
  /\ UNCHANGED <<files, selection, installer>>

\* write_selection reads the package list a second time ...
ReadEntries ==
  /\ step = "entries" /\ lock # Torn
  /\ text' = [packages |-> IF lock = Nothing THEN NoPackages ELSE lock.packages,
              selection |-> selection]
  /\ Goto("truncate")
  /\ UNCHANGED <<files, selection, installer>>

\* ... opens the file with trunc ...
Truncate ==
  /\ step = "truncate"
  /\ lock' = Torn
  /\ Goto("write")
  /\ UNCHANGED <<legacy, dir, registry, writer, installer>>

\* ... and writes it.  What is still in the buffer goes with the stream, after the
\* last look at it: a disk that is full then leaves the file torn.
Write ==
  /\ step = "write"
  /\ \/ lock' = text /\ lost' = FALSE
     \/ lock' = Torn /\ lost' = TRUE
  /\ IF op \in {"toolchain_select", "build"}
     THEN step' = "legacy" /\ UNCHANGED <<op, outcome, before, writer, installer>>
     ELSE Return("done")
  /\ UNCHANGED <<legacy, dir, registry>>

\* Parse error, open error, a write error that is seen.  A build warns and goes on.
WriteSelectionFails ==
  /\ \/ step = "entries" /\ lock = Torn
     \/ step \in {"truncate", "write"}
  /\ IF op = "build" THEN Goto("resolve") /\ UNCHANGED <<writer, installer>>
     ELSE End("failed")
  /\ UNCHANGED files

\* An error of remove() is ignored.
RemoveLegacyFile ==
  /\ step = "legacy"
  /\ legacy' \in {legacy, Nothing}
  /\ IF op = "build" THEN Goto("resolve") /\ UNCHANGED <<writer, installer>>
     ELSE End("done")
  /\ UNCHANGED <<lock, dir, registry>>

(* The head of build *)

executeBuild ==
  /\ lock # Torn
  /\ lock # Nothing => find_unmaterialized_packages(lock) = {}
  /\ Begin("build", "migrate")
  /\ UNCHANGED <<files, writer, installer>>

\* WRONG variant: the file is removed and then recorded.
MigrateRemovingFirst ==
  /\ step = "migrate"
  /\ selection' = [read_selection(lock) EXCEPT !.toolchain = IF @ = Nothing THEN legacy ELSE @]
  /\ Goto(IF legacy = Nothing THEN "resolve" ELSE "entries")
  /\ legacy' = Nothing
  /\ UNCHANGED <<lock, dir, registry, text, installer>>

\* WRONG variant: the old file overrides what was selected since.
MigrateAlways ==
  /\ step = "migrate"
  /\ IF legacy = Nothing
     THEN Goto("resolve") /\ UNCHANGED selection
     ELSE /\ selection' = [read_selection(lock) EXCEPT !.toolchain = legacy]
          /\ Goto("entries")
  /\ UNCHANGED <<files, text, installer>>

migrate_legacy_toolchain_file ==
  /\ step = "migrate"
  /\ IF legacy = Nothing \/ read_selection(lock).toolchain # Nothing
     THEN /\ Goto(IF legacy = Nothing THEN "resolve" ELSE "legacy")
          /\ UNCHANGED selection
     ELSE /\ selection' = [read_selection(lock) EXCEPT !.toolchain = legacy]
          /\ Goto("entries")
  /\ UNCHANGED <<files, text, installer>>

\* read_persisted_selection, then the rest of the build.
Resolve ==
  /\ step = "resolve"
  /\ End("built")
  /\ UNCHANGED files

(* Packages *)

\* What a fetch of version v leaves: git cleans up after itself, a copy or
\* an extraction may stop half way, a placeholder makes an empty directory.
FetchOk(n, v) ==
  IF KindOf[n] = "placeholder" THEN "empty" ELSE v

FetchFailures(n) ==
  {dir[n]} \cup CASE KindOf[n] = "git" -> {"absent"}
                  [] KindOf[n] = "copied" -> {"broken"}
                  [] OTHER -> {}

executePackageSync ==
  /\ lock \notin {Nothing, Torn}
  /\ Begin("sync", "fetch")
  /\ entries' = lock.packages
  /\ records' = registry
  /\ fetch' = NeedsFetch(lock.packages)
  /\ stale' = NeedsMetadata(lock.packages, registry)
  /\ UNCHANGED <<files, writer, errors>>

\* materialize_entry, by some worker.
Fetch(n) ==
  /\ step = "fetch" /\ n \in fetch
  /\ fetch' = fetch \ {n}
  /\ \/ /\ dir' = [dir EXCEPT ![n] = FetchOk(n, entries[n])]
        /\ errors' = errors
     \/ /\ \E d \in FetchFailures(n) : dir' = [dir EXCEPT ![n] = d]
        /\ errors' = errors \cup {n}
  /\ UNCHANGED <<lock, legacy, registry, op, step, writer, entries, records, stale, outcome, before, lost>>

FetchFailed ==
  /\ step = "fetch" /\ fetch = {} /\ errors # {}
  /\ End("failed")
  /\ UNCHANGED files

Record(n, v) == [name |-> n, version |-> v]

IsFirst(recs, i) == \A j \in 1..(i - 1) : recs[j].name # recs[i].name

\* The first record of a package is replaced ...
Replaced(recs, todo) ==
  [i \in DOMAIN recs |-> IF recs[i].name \in todo /\ IsFirst(recs, i)
                         THEN Record(recs[i].name, entries[recs[i].name]) ELSE recs[i]]

\* ... and those that have none follow.
Added(new) == LET names == SetToSeq(new)
              IN  [i \in DOMAIN names |-> Record(names[i], entries[names[i]])]

Reconciled(recs, todo) == Replaced(recs, todo) \o Added(todo \ Installed(recs))

\* WRONG variant: records are repaired, never added.
ReconcileKnown ==
  /\ step = "fetch" /\ fetch = {} /\ errors = {}
  /\ records' = Reconciled(records, stale \cap Installed(records))
  /\ Goto("save")
  /\ UNCHANGED <<files, writer, entries, fetch, stale, errors>>

\* WRONG variant: packages that left the lockfile are recorded from it too.
ReconcileAll ==
  /\ step = "fetch" /\ fetch = {} /\ errors = {}
  /\ records' = Reconciled(records, stale \cup Installed(records))
  /\ Goto("save")
  /\ UNCHANGED <<files, writer, entries, fetch, stale, errors>>

\* WRONG variant: every record is appended.
ReconcileAppending ==
  /\ step = "fetch" /\ fetch = {} /\ errors = {}
  /\ records' = records \o Reconciled(<<>>, stale)
  /\ Goto("save")
  /\ UNCHANGED <<files, writer, entries, fetch, stale, errors>>

Reconcile ==
  /\ step = "fetch" /\ fetch = {} /\ errors = {}
  /\ records' = Reconciled(records, stale)
  /\ Goto("save")
  /\ UNCHANGED <<files, writer, entries, fetch, stale, errors>>

executePackageAdd(n, v) ==
  /\ n \notin Installed(registry)
  /\ Begin("add", "install")
  /\ entries' = [NoPackages EXCEPT ![n] = v]
  /\ records' = registry
  /\ fetch' = {n}
  /\ UNCHANGED <<files, writer, stale, errors>>

\* The directory is not looked at first: git refuses one that is not empty,
\* a copy goes over what is there.
Install(n) ==
  /\ step = "install" /\ n \in fetch
  /\ KindOf[n] = "git" => ~dir_present(n)
  /\ dir' = [dir EXCEPT ![n] =
       IF KindOf[n] = "placeholder" THEN (IF @ = "absent" THEN "empty" ELSE @)
       ELSE IF dir_present(n) /\ @ # entries[n] THEN "broken" ELSE entries[n]]
  /\ records' = Append(records, Record(n, entries[n]))
  /\ Goto("save")
  /\ UNCHANGED <<lock, legacy, registry, writer, entries, fetch, stale, errors>>

InstallFails(n) ==
  /\ step = "install" /\ n \in fetch
  /\ \E d \in (IF dir_present(n) /\ KindOf[n] = "git" THEN {dir[n]} ELSE FetchFailures(n)) :
       dir' = [dir EXCEPT ![n] = d]
  /\ End("failed")
  /\ UNCHANGED <<lock, legacy, registry>>

\* The first record goes; a directory that cannot be removed is left, with a warning.
executePackageRemove(n) ==
  /\ n \in Installed(registry)
  /\ Begin("remove", "save")
  /\ \E d \in {"absent", dir[n]} \cup (IF dir_present(n) THEN {"broken"} ELSE {}) :
       dir' = [dir EXCEPT ![n] = d]
  /\ \E i \in DOMAIN registry :
       /\ registry[i].name = n /\ IsFirst(registry, i)
       /\ records' = RemoveAt(registry, i)
  /\ UNCHANGED <<lock, legacy, registry, writer, entries, fetch, stale, errors>>

\* The first k records.
FirstRecords(k) == SubSeq(records, 1, k)

\* Nothing is asked of the stream: some records may be missing on disk.
SaveRegistry ==
  /\ step = "save"
  /\ \/ registry' = records /\ lost' = FALSE
     \/ lost' = TRUE /\ \E k \in 0..(Len(records) - 1) : registry' = FirstRecords(k)
  /\ Return(IF op = "sync" THEN "synced" ELSE "done")
  /\ UNCHANGED <<lock, legacy, dir>>

\* The file cannot be opened.
SaveFails ==
  /\ step = "save"
  /\ End("failed")
  /\ UNCHANGED files

(* What else happens to the files *)

\* Killed: a fetch is left half way, a registry half written.
Crash ==
  /\ step # "idle"
  /\ End("crashed")
  /\ \E half \in SUBSET {n \in fetch : step \in {"fetch", "install"} /\ KindOf[n] # "placeholder"} :
       dir' = [n \in Names |-> IF n \in half THEN "broken" ELSE dir[n]]
  /\ registry' \in {registry} \cup (IF step # "save" THEN {}
                                    ELSE {FirstRecords(k) : k \in 0..Len(records)})
  /\ UNCHANGED <<lock, legacy>>

Delete ==
  /\ step = "idle"
  /\ \/ /\ \E n \in Names : dir' = [dir EXCEPT ![n] = "absent"]
        /\ registry' = registry
     \/ /\ registry' = <<>>
        /\ dir' = dir
  /\ outcome' = "none"
  /\ UNCHANGED <<lock, legacy, op, step, writer, installer, before, lost>>

LockfileCommand ==
  \/ \E t \in Toolchains : executeToolchainSelect(t)
  \/ \E p \in Profiles : executeProfileSelect(p)
  \/ \E r \in Registries : executeRegistrySet(r)
  \/ \E list \in [Names -> Versions \cup {Nothing}] : executePackageLock(list)
  \/ ReadEntries \/ Truncate \/ Write \/ WriteSelectionFails \/ RemoveLegacyFile

Build == executeBuild \/ migrate_legacy_toolchain_file \/ Resolve

PackageCommand ==
  \/ executePackageSync \/ FetchFailed \/ Reconcile
  \/ \E n \in Names : Fetch(n) \/ Install(n) \/ InstallFails(n) \/ executePackageRemove(n)
  \/ \E n \in Names, v \in Versions : executePackageAdd(n, v)
  \/ SaveRegistry \/ SaveFails

Next == LockfileCommand \/ Build \/ PackageCommand \/ Refused \/ Crash \/ Delete

Spec == Init /\ [][Next]_vars

------------------------------------------------------------------------------
Records    == [name : Names, version : Versions]

TypeOK ==
  /\ lock \in Lockfiles \cup {Nothing, Torn}
  /\ legacy \in OldToolchains \cup {Nothing}
  /\ dir \in [Names -> {"absent", "empty", "broken"} \cup Versions]
  /\ registry \in Seq(Records) /\ records \in Seq(Records)
  /\ op \in {"none", "toolchain_select", "profile_select", "registry_set",
            "lock", "build", "sync", "add", "remove"}
  /\ step \in {"idle", "entries", "truncate", "write", "legacy", "migrate", "resolve",
               "fetch", "install", "save"}
  /\ selection \in Selections
  /\ text \in Lockfiles \cup {Nothing}
  /\ step \in {"truncate", "write"} => text # Nothing
  /\ entries \in Lists
  /\ fetch \cup stale \cup errors \subseteq Names
  /\ outcome \in {"none", "done", "built", "synced", "failed", "crashed"}
  /\ lost \in BOOLEAN
  /\ before \in [lock : Lockfiles \cup {Nothing, Torn}, legacy : OldToolchains \cup {Nothing}]

Unique(recs) == \A i, j \in DOMAIN recs : recs[i].name = recs[j].name => i = j

\* registry.txt names a package once, whatever commands failed or were killed
\* before: add, remove and sync look a package up by its first record.
OneRecordPerName == Unique(registry)

Fetchable(list) == {n \in Locked(list) : KindOf[n] # "placeholder"}

\* "Idempotent: a second run is a no-op when state already matches": after a
\* successful sync another one fetches nothing it can fetch, and if registry.txt
\* was written whole it has no record to write for these packages either.
SyncIsIdempotent ==
  outcome = "synced" =>
    /\ NeedsFetch(lock.packages) \cap Fetchable(lock.packages) = {}
    /\ ~lost => NeedsMetadata(lock.packages, registry) \cap Fetchable(lock.packages) = {}

KeyOf(o) == CASE o = "profile_select" -> "profile" [] o = "registry_set" -> "registry"
              [] OTHER -> "toolchain"

\* "Writing a selection never disturbs the package list", nor the other
\* selections: once the file is written again, only the chosen key differs.
SelectionKeepsTheRest ==
  [][step = "write" /\ op # "lock" /\ lock' # Torn =>
       /\ lock'.packages = IF before.lock = Nothing THEN NoPackages ELSE before.lock.packages
       /\ \A k \in DOMAIN NoSelection \ {KeyOf(op)} :
            lock'.selection[k] = read_selection(before.lock)[k]]_vars

\* The migration is idempotent and changes no choice: through a build of a project
\* that has a lockfile, and when it fails or is killed half way, the toolchain is
\* the one it was, unless the lockfile itself is lost.
MigrationKeepsChoice ==
  [][op = "build" /\ before.lock # Nothing /\ lock' # Torn =>
       Choice(lock', legacy') = Choice(before.lock, before.legacy)]_vars

\* "Drop the legacy file so the lockfile is the only source of truth": it
\* goes only when the lockfile on disk holds a toolchain, or when the command that
\* wrote one there did not notice that the write failed.
LegacyGoesAfterItIsRecorded ==
  [][legacy # Nothing /\ legacy' = Nothing => read_selection(lock).toolchain # Nothing \/ lost]_vars

\* "`cppup package lock` regenerating the package list preserves the selection".
LockKeepsSelection ==
  [][op = "lock" /\ outcome' = "done" /\ ~lost' =>
       read_selection(lock') = read_selection(before.lock)]_vars

\* "Returns true if the on-disk state is now valid for the entry": after a
\* successful sync no package it can fetch is a half-made copy.
SyncedIsComplete ==
  outcome = "synced" => \A n \in Fetchable(lock.packages) : dir[n] # "broken"

------------------------------------------------------------------------------
(* The inductive invariant behind them *)

Writers == {"toolchain_select", "profile_select", "registry_set", "build"}

\* Which command is at which step; while one runs there is no outcome yet.
StepInv ==
  /\ step = "idle" <=> op = "none"
  /\ step # "idle" => outcome = "none"
  /\ step = "entries" => op \in Writers
  /\ step \in {"truncate", "write"} => op \in Writers \cup {"lock"}
  /\ step = "legacy" => op \in {"toolchain_select", "build"}
  /\ step \in {"migrate", "resolve"} => op = "build"
  /\ step = "fetch" => op = "sync"
  /\ step = "install" => op = "add"
  /\ step = "save" => op \in {"add", "remove", "sync"}

\* What add and sync are about to write names a package once, too.
RegistryInv ==
  /\ Unique(registry) /\ Unique(records)
  /\ step = "install" => \A n \in fetch : n \notin Installed(records) /\ entries[n] \in Versions

PackagesOf(file) == IF file = Nothing THEN NoPackages ELSE file.packages

\* What a writer is about to write is the old file but for its own key, and what a
\* build writes in it is the choice it found.
WriterInv ==
  /\ step \in {"migrate", "entries", "truncate"} /\ op # "lock" => lock = before.lock
  /\ step \in {"migrate", "entries"} => lock # Torn \/ op # "build"
  /\ step \in {"entries", "truncate", "write"} /\ op # "lock" =>
       /\ \A k \in {"toolchain", "profile", "registry"} :
            k # KeyOf(op) => selection[k] = read_selection(before.lock)[k]
       /\ op \in {"toolchain_select", "build"} => selection.toolchain # Nothing
       /\ op = "build" => selection.toolchain = Choice(before.lock, before.legacy)
  /\ step \in {"truncate", "write"} /\ op # "lock" =>
       text = [packages |-> PackagesOf(before.lock), selection |-> selection]
  /\ step = "write" => lock = Torn
  /\ step = "legacy" => read_selection(lock).toolchain # Nothing \/ (lock = Torn /\ lost)
  /\ op = "build" => lock = Torn \/ Choice(lock, legacy) = Choice(before.lock, before.legacy)

\* Every package that sync lists and can fetch is there, waits to be fetched or has
\* failed; those without a record are on its list.
SyncInv ==
  /\ op = "sync" => lock \in Lockfiles /\ entries = lock.packages
  /\ step = "fetch" =>
       /\ fetch \cup stale \subseteq Locked(entries) /\ Locked(entries) \ Installed(records) \subseteq stale
       /\ \A n \in Fetchable(entries) \ (fetch \cup errors) : dir_present(n)
  /\ step = "save" /\ op = "sync" =>
       /\ Locked(entries) \subseteq Installed(records)
       /\ \A n \in Fetchable(entries) : dir_present(n)
  /\ outcome = "synced" =>
       /\ lock \in Lockfiles
       /\ ~lost => Locked(lock.packages) \subseteq Installed(registry)
       /\ \A n \in Fetchable(lock.packages) : dir_present(n)

PackagesInv == TypeOK /\ StepInv /\ RegistryInv /\ WriterInv /\ SyncInv
==============================================================================
