---------------------------- MODULE PackagesProofs ----------------------------
(***************************************************************************)
(* The safety of the commands on packages and selections, for every finite *)
(* set of packages and every set of versions, toolchains, profiles and     *)
(* registries.                                                             *)
(***************************************************************************)
EXTENDS Packages, FiniteSetTheorems, SequenceTheorems, TLAPS

(* Lists of records *)

LEMMA FirstRecordTypes == ASSUME NEW recs \in Seq(Records)
                          PROVE  /\ Installed(recs) \subseteq Names
                                 /\ \A i \in DOMAIN recs : recs[i] \in Records
<1>1. DOMAIN recs = 1..Len(recs) /\ \A i \in 1..Len(recs) : recs[i] \in Records
  OBVIOUS
<1>2. \A r \in Records : r.name \in Names
  BY DEF Records
<1>3. QED
  BY <1>1, <1>2 DEF Installed

\* A piece of a list has its names once.
LEMMA Slice ==
  ASSUME NEW recs \in Seq(Records), Unique(recs), NEW m \in Nat \ {0}, NEW n \in Nat, n <= Len(recs)
  PROVE  LET piece == SubSeq(recs, m, n)
         IN  /\ piece \in Seq(Records) /\ Unique(piece)
             /\ Len(piece) = IF m <= n THEN n - m + 1 ELSE 0
             /\ \A i \in 1..Len(piece) : m + i - 1 \in m..n /\ piece[i] = recs[m + i - 1]
<1> DEFINE piece == SubSeq(recs, m, n)
<1>1. DOMAIN recs = 1..Len(recs) /\ Len(recs) \in Nat /\ \A i \in m..n : recs[i] \in Records
  BY LenProperties, ElementOfSeq
<1>2. /\ piece \in Seq(Records) /\ Len(piece) = IF m <= n THEN n - m + 1 ELSE 0
      /\ \A i \in 1..(n - m + 1) : piece[i] = recs[m + i - 1]
  BY <1>1, SubSeqProperties
<1>3. DOMAIN piece = 1..Len(piece)
  BY <1>2, LenProperties
<1> HIDE DEF piece
<1>4. ASSUME NEW i \in 1..Len(piece) PROVE m + i - 1 \in m..n /\ piece[i] = recs[m + i - 1]
  <2>1. m <= n /\ i \in 1..(n - m + 1)
    BY <1>2
  <2>2. QED
    BY <1>2, <2>1
<1>5. Unique(piece)
  <2> SUFFICES ASSUME NEW i \in 1..Len(piece), NEW j \in 1..Len(piece), piece[i].name = piece[j].name
               PROVE  i = j
    BY <1>3 DEF Unique
  <2>1. m + i - 1 \in DOMAIN recs /\ m + j - 1 \in DOMAIN recs
    BY <1>1, <1>4
  <2>2. m + i - 1 = m + j - 1
    BY <1>4, <2>1 DEF Unique
  <2>3. QED
    BY <1>2, <2>2
<1>6. QED
  BY <1>2, <1>4, <1>5 DEF piece

\* Two lists without a name in common.
LEMMA Joined ==
  ASSUME NEW a \in Seq(Records), NEW b \in Seq(Records), Unique(a), Unique(b),
         Installed(a) \cap Installed(b) = {}
  PROVE  /\ a \o b \in Seq(Records) /\ Unique(a \o b)
         /\ Installed(a \o b) = Installed(a) \cup Installed(b)
<1> DEFINE both == a \o b
<1>1. /\ DOMAIN a = 1..Len(a) /\ Len(a) \in Nat
      /\ DOMAIN b = 1..Len(b) /\ Len(b) \in Nat
  BY LenProperties
<1>2. /\ both \in Seq(Records) /\ Len(both) = Len(a) + Len(b)
      /\ \A i \in 1..(Len(a) + Len(b)) : both[i] = IF i <= Len(a) THEN a[i] ELSE b[i - Len(a)]
  BY ConcatProperties
<1>3. DOMAIN both = 1..(Len(a) + Len(b))
  BY <1>2, LenProperties
<1> HIDE DEF both
<1>4. \A i \in DOMAIN both : \/ i \in DOMAIN a /\ both[i] = a[i]
                             \/ i - Len(a) \in DOMAIN b /\ both[i] = b[i - Len(a)] /\ i > Len(a)
  BY <1>1, <1>2, <1>3
<1>5. /\ \A i \in DOMAIN a : i \in DOMAIN both /\ both[i] = a[i]
      /\ \A i \in DOMAIN b : i + Len(a) \in DOMAIN both /\ both[i + Len(a)] = b[i]
  BY <1>1, <1>2, <1>3
<1>6. Installed(both) = Installed(a) \cup Installed(b)
  BY <1>4, <1>5 DEF Installed
<1>7. Unique(both)
  <2>0. ASSUME NEW i \in DOMAIN a, NEW j \in DOMAIN both \ DOMAIN a PROVE both[i].name # both[j].name
    <3>1. both[i].name \in Installed(a)
      BY <1>5 DEF Installed
    <3>2. both[j].name \in Installed(b)
      BY <1>4 DEF Installed
    <3>3. QED
      BY <3>1, <3>2
  <2> SUFFICES ASSUME NEW i \in DOMAIN both, NEW j \in DOMAIN both, both[i].name = both[j].name
               PROVE  i = j
    BY DEF Unique
  <2>1. CASE i \in DOMAIN a /\ both[i] = a[i] /\ j \in DOMAIN a /\ both[j] = a[j]
    BY <2>1 DEF Unique
  <2>2. CASE i \notin DOMAIN a /\ j \notin DOMAIN a
    BY <1>1, <1>3, <1>4, <2>2 DEF Unique
  <2>3. QED
    BY <1>5, <2>0, <2>1, <2>2
<1>8. QED
  BY <1>2, <1>6, <1>7 DEF both

\* An erased record leaves the others.
LEMMA Erased ==
  ASSUME NEW recs \in Seq(Records), Unique(recs), NEW i \in DOMAIN recs
  PROVE  RemoveAt(recs, i) \in Seq(Records) /\ Unique(RemoveAt(recs, i))
<1> DEFINE front == SubSeq(recs, 1, i - 1)
           back == SubSeq(recs, i + 1, Len(recs))
<1>1. DOMAIN recs = 1..Len(recs) /\ Len(recs) \in Nat
  BY LenProperties
<1>2. /\ front \in Seq(Records) /\ Unique(front)
      /\ \A k \in 1..Len(front) : k \in 1..(i - 1) /\ front[k] = recs[k]
  BY <1>1, Slice
<1>3. /\ back \in Seq(Records) /\ Unique(back)
      /\ \A k \in 1..Len(back) : i + k \in (i + 1)..Len(recs) /\ back[k] = recs[i + k]
  BY <1>1, Slice
<1>4. DOMAIN front = 1..Len(front) /\ DOMAIN back = 1..Len(back)
  BY <1>2, <1>3, LenProperties
<1> HIDE DEF front, back
<1>5. ASSUME NEW k \in DOMAIN front, NEW m \in DOMAIN back PROVE front[k].name # back[m].name
  BY <1>1, <1>2, <1>3, <1>4 DEF Unique
<1>6. Installed(front) \cap Installed(back) = {}
  BY <1>5 DEF Installed
<1>7. QED
  BY <1>2, <1>3, <1>6, Joined DEF RemoveAt, front, back

\* A new name is appended once.
LEMMA AppendNew ==
  ASSUME NEW recs \in Seq(Records), Unique(recs), NEW r \in Records, r.name \notin Installed(recs)
  PROVE  Append(recs, r) \in Seq(Records) /\ Unique(Append(recs, r))
<1>1. /\ Append(recs, r) \in Seq(Records) /\ Len(Append(recs, r)) = Len(recs) + 1
      /\ \A j \in 1..Len(recs) : Append(recs, r)[j] = recs[j]
      /\ Append(recs, r)[Len(recs) + 1] = r
  OBVIOUS
<1>2. QED
  BY <1>1 DEF Unique, Installed

\* SetToSeq lists a finite set, each element once.
LEMMA SetToSeqLists ==
  ASSUME NEW S, IsFiniteSet(S)
  PROVE  /\ SetToSeq(S) \in Seq(S) /\ IsInjective(SetToSeq(S))
         /\ {SetToSeq(S)[i] : i \in DOMAIN SetToSeq(S)} = S
<1> DEFINE n == Cardinality(S)
           f == SetToSeq(S)
<1>1. n \in Nat /\ ExistsBijection(1..n, S)
  BY FS_CardinalityType
<1>2. f \in [1..n -> S] /\ IsInjective(f)
  BY <1>1 DEF SetToSeq, ExistsBijection, Bijection, Injection
<1>3. IsFiniteSet(1..n) /\ Cardinality(1..n) = n
  BY <1>1, FS_Interval
<1>4. f \in Surjection(1..n, S)
  BY <1>2, <1>3, FS_Injection DEF Injection
<1>5. QED
  BY <1>1, <1>2, <1>4 DEF Surjection

\* A replaced record keeps its name.
LEMMA ReplacedNames ==
  ASSUME NEW recs \in Seq(Records), Unique(recs), entries \in Lists, NEW todo \in SUBSET Locked(entries)
  PROVE  /\ Replaced(recs, todo) \in Seq(Records) /\ Unique(Replaced(recs, todo))
         /\ Installed(Replaced(recs, todo)) = Installed(recs)
<1> DEFINE new == Replaced(recs, todo)
<1>1. DOMAIN recs = 1..Len(recs) /\ Len(recs) \in Nat /\ \A i \in 1..Len(recs) : recs[i] \in Records
  BY LenProperties, ElementOfSeq
<1>2. \A n \in todo : Record(n, entries[n]) \in Records /\ Record(n, entries[n]).name = n
  BY DEF Locked, Lists, Record, Records
<1>3. DOMAIN new = 1..Len(recs)
  BY <1>1 DEF Replaced
<1>4. ASSUME NEW i \in 1..Len(recs)
      PROVE  new[i] \in Records /\ new[i].name = recs[i].name
  BY <1>1, <1>2 DEF Replaced
<1>5. new \in Seq(Records)
  BY <1>1, <1>3, <1>4, IsASeq DEF Replaced
<1> HIDE DEF new
<1>6. Unique(new) /\ Installed(new) = Installed(recs)
  BY <1>1, <1>3, <1>4 DEF Unique, Installed
<1>7. QED
  BY <1>5, <1>6 DEF new

\* The packages added are those that had no record, each once.
LEMMA AddedNames ==
  ASSUME entries \in Lists, NEW new \in SUBSET Locked(entries)
  PROVE  Added(new) \in Seq(Records) /\ Unique(Added(new)) /\ Installed(Added(new)) = new
<1> DEFINE names == SetToSeq(new)
           added == Added(new)
<1>1. IsFiniteSet(new)
  BY PackagesAssumption, FS_Subset DEF Locked
<1>2. names \in Seq(new) /\ IsInjective(names) /\ {names[i] : i \in DOMAIN names} = new
  BY <1>1, SetToSeqLists
<1>3. DOMAIN names = 1..Len(names) /\ Len(names) \in Nat /\ \A i \in 1..Len(names) : names[i] \in new
  BY <1>2, LenProperties, ElementOfSeq
<1>4. \A n \in new : Record(n, entries[n]) \in Records /\ Record(n, entries[n]).name = n
  BY DEF Locked, Lists, Record, Records
<1>5. added = [i \in DOMAIN names |-> Record(names[i], entries[names[i]])]
  BY DEF Added
<1> HIDE DEF names, added
<1>6. DOMAIN added = DOMAIN names /\ \A i \in DOMAIN names : added[i] \in Records /\ added[i].name = names[i]
  BY <1>3, <1>4, <1>5
<1>7. added \in Seq(Records)
  BY <1>3, <1>6, <1>5
<1>8. Unique(added)
  BY <1>2, <1>6 DEF Unique, IsInjective
<1>9. Installed(added) = {names[i] : i \in DOMAIN names}
  BY <1>6 DEF Installed
<1>10. QED
  BY <1>2, <1>7, <1>8, <1>9 DEF added

\* The reconciled list has a record of every package there was and of every one to do.
LEMMA ReconciledNames ==
  ASSUME NEW recs \in Seq(Records), Unique(recs), entries \in Lists, NEW todo \in SUBSET Locked(entries)
  PROVE  /\ Reconciled(recs, todo) \in Seq(Records) /\ Unique(Reconciled(recs, todo))
         /\ Installed(Reconciled(recs, todo)) = Installed(recs) \cup todo
<1>1. todo \ Installed(recs) \in SUBSET Locked(entries)
  OBVIOUS
<1>2. QED
  BY <1>1, ReplacedNames, AddedNames, Joined DEF Reconciled

\* What is read from a file, and what a command starts from, is of its type.
LEMMA ReadTypes ==
  /\ NoPackages \in Lists /\ NoSelection \in Selections /\ <<>> \in Seq(Records)
  /\ \A file \in Lockfiles : file.packages \in Lists /\ file.selection \in Selections
  /\ \A file \in Lockfiles \cup {Nothing, Torn} : read_selection(file) \in Selections
<1>1. NoPackages \in Lists /\ NoSelection \in Selections /\ <<>> \in Seq(Records)
  BY DEF NoPackages, NoSelection, Lists, Selections
<1>2. \A file \in Lockfiles : file.packages \in Lists /\ file.selection \in Selections
  BY DEF Lockfiles
<1>3. QED
  BY <1>1, <1>2 DEF read_selection

\* A selection with one key chosen.
LEMMA Chosen ==
  ASSUME NEW s \in Selections
  PROVE  /\ \A t \in Toolchains \cup OldToolchains : [s EXCEPT !.toolchain = t] \in Selections
         /\ \A p \in Profiles : [s EXCEPT !.profile = p] \in Selections
         /\ \A r \in Registries : [s EXCEPT !.registry = r] \in Selections
BY DEF Selections

\* What a fetch leaves is one of the states of a directory.
LEMMA DirTypes ==
  ASSUME dir \in [Names -> {"absent", "empty", "broken"} \cup Versions], NEW n \in Names
  PROVE  /\ FetchFailures(n) \subseteq {"absent", "empty", "broken"} \cup Versions
         /\ \A v \in Versions : FetchOk(n, v) \in {"absent", "empty", "broken"} \cup Versions
<1>1. KindOf[n] \in {"git", "copied", "placeholder"} /\ dir[n] \in {"absent", "empty", "broken"} \cup Versions
  BY PackagesAssumption
<1>2. CASE KindOf[n] = "git"
  BY <1>1, <1>2 DEF FetchFailures, FetchOk
<1>3. CASE KindOf[n] = "copied"
  BY <1>1, <1>3 DEF FetchFailures, FetchOk
<1>4. CASE KindOf[n] = "placeholder"
  BY <1>1, <1>4 DEF FetchFailures, FetchOk
<1>5. QED
  BY <1>1, <1>2, <1>3, <1>4

\* What a crash leaves of a list is a list of its first records.
LEMMA FirstOnes ==
  ASSUME NEW recs \in Seq(Records), Unique(recs), NEW k \in Nat, k <= Len(recs)
  PROVE  SubSeq(recs, 1, k) \in Seq(Records) /\ Unique(SubSeq(recs, 1, k))
BY Slice

\* What a save leaves: all of the records, or the first of them.
LEMMA Saved ==
  ASSUME records \in Seq(Records), Unique(records), SaveRegistry
  PROVE  registry' \in Seq(Records) /\ Unique(registry')
<1>1. Len(records) \in Nat
  BY LenProperties
<1>2. ASSUME NEW k \in 0..(Len(records) - 1), registry' = FirstRecords(k)
      PROVE  registry' \in Seq(Records) /\ Unique(registry')
  BY <1>1, <1>2, FirstOnes DEF FirstRecords
<1>3. QED
  BY <1>2 DEF SaveRegistry

\* Each step keeps every variable of its type.
LEMMA TypeStep == PackagesInv /\ [Next]_vars => TypeOK'
<1> SUFFICES ASSUME TypeOK, PackagesInv, [Next]_vars PROVE TypeOK'
  BY DEF PackagesInv
<1> USE PackagesAssumption DEF TypeOK
<1>0. StepInv /\ RegistryInv /\ SyncInv
  BY DEF PackagesInv
<1>1. ASSUME NEW t \in Toolchains, executeToolchainSelect(t) PROVE TypeOK'
  <2>1. selection' \in Selections
    BY <1>1, ReadTypes, Chosen DEF executeToolchainSelect
  <2>2. QED
    BY <1>1, <2>1, ReadTypes DEF executeToolchainSelect, Begin, End, Return, Goto, files, writer, installer
<1>2. ASSUME NEW p \in Profiles, executeProfileSelect(p) PROVE TypeOK'
  <2>1. selection' \in Selections
    BY <1>2, ReadTypes, Chosen DEF executeProfileSelect
  <2>2. QED
    BY <1>2, <2>1, ReadTypes DEF executeProfileSelect, Begin, End, Return, Goto, files, writer, installer
<1>3. ASSUME NEW r \in Registries, executeRegistrySet(r) PROVE TypeOK'
  <2>1. selection' \in Selections
    BY <1>3, ReadTypes, Chosen DEF executeRegistrySet
  <2>2. QED
    BY <1>3, <2>1, ReadTypes DEF executeRegistrySet, Begin, End, Return, Goto, files, writer, installer
<1>4. ASSUME NEW list \in Lists, executePackageLock(list) PROVE TypeOK'
  <2>1. text' \in Lockfiles
    BY <1>4, ReadTypes DEF executePackageLock, Lockfiles
  <2>2. before' \in [lock : Lockfiles \cup {Nothing, Torn}, legacy : OldToolchains \cup {Nothing}]
    BY <1>4 DEF executePackageLock, Begin
  <2>3. QED
    BY <1>4, <2>1, <2>2 DEF executePackageLock, Begin, files, installer
<1>5. CASE ReadEntries
  <2>1. text' \in Lockfiles
    BY <1>5, ReadTypes DEF ReadEntries, Lockfiles
  <2>2. QED
    BY <1>5, <2>1 DEF ReadEntries, Begin, End, Return, Goto, files, writer, installer
<1>6. CASE Truncate
  BY <1>6, ReadTypes DEF Truncate, Begin, End, Return, Goto, files, writer, installer
<1>7. CASE Write
  <2>1. CASE op \in {"toolchain_select", "build"}
    BY <1>7, <2>1 DEF Write, Begin, End, Return, Goto, files, writer, installer
  <2>2. CASE op \notin {"toolchain_select", "build"}
    <3>1. Return("done") /\ UNCHANGED <<legacy, dir, registry>> /\ lock' \in {text, Torn} /\ lost' \in BOOLEAN
      BY <1>7, <2>2 DEF Write
    <3>2. lock' \in Lockfiles \cup {Nothing, Torn}
      BY <3>1
    <3>3. before' \in [lock : Lockfiles \cup {Nothing, Torn}, legacy : OldToolchains \cup {Nothing}]
      BY <3>1 DEF Return
    <3>4. QED
      BY <3>1, <3>2, <3>3, ReadTypes DEF Return
  <2>3. QED
    BY <2>1, <2>2
<1>8. CASE WriteSelectionFails
  <2>1. CASE op = "build"
    BY <1>8, <2>1 DEF WriteSelectionFails, Begin, End, Return, Goto, files, writer, installer
  <2>2. CASE op # "build"
    BY <1>8, <2>2, ReadTypes DEF WriteSelectionFails, Begin, End, Return, Goto, files, writer, installer
  <2>3. QED
    BY <2>1, <2>2
<1>9. CASE RemoveLegacyFile
  <2>1. CASE op = "build"
    BY <1>9, <2>1 DEF RemoveLegacyFile, Begin, End, Return, Goto, files, writer, installer
  <2>2. CASE op # "build"
    BY <1>9, <2>2, ReadTypes DEF RemoveLegacyFile, Begin, End, Return, Goto, files, writer, installer
  <2>3. QED
    BY <2>1, <2>2
<1>10. CASE executeBuild
  BY <1>10, ReadTypes DEF executeBuild, Begin, End, Return, Goto, files, writer, installer
<1>11. CASE migrate_legacy_toolchain_file
  <2>1. selection' \in Selections
    <3>1. CASE selection' = selection
      BY <3>1
    <3>2. CASE selection' = [read_selection(lock) EXCEPT !.toolchain = legacy] /\ legacy # Nothing
      <4>1. read_selection(lock) \in Selections /\ legacy \in Toolchains \cup OldToolchains
        BY <3>2, ReadTypes
      <4>2. QED
        BY <3>2, <4>1, Chosen
    <3>3. QED
      BY <1>11, <3>1, <3>2 DEF migrate_legacy_toolchain_file
  <2>2. QED
    BY <1>11, <2>1 DEF migrate_legacy_toolchain_file, Begin, End, Return, Goto, files, writer, installer
<1>12. CASE Resolve
  BY <1>12, ReadTypes DEF Resolve, Begin, End, Return, Goto, files, writer, installer
<1>13. CASE executePackageSync
  <2>1. entries' \in Lists /\ fetch' \subseteq Names /\ stale' \subseteq Names
    BY <1>13, ReadTypes DEF executePackageSync, NeedsFetch, NeedsMetadata, Locked
  <2>2. QED
    BY <1>13, <2>1 DEF executePackageSync, Begin, End, Return, Goto, files, writer, installer
<1>14. CASE FetchFailed
  BY <1>14, ReadTypes DEF FetchFailed, Begin, End, Return, Goto, files, writer, installer
<1>15. CASE Reconcile
  <2>1. records' \in Seq(Records)
    BY <1>0, <1>15, ReconciledNames DEF Reconcile, SyncInv, RegistryInv
  <2>2. QED
    BY <1>0, <1>15, <2>1 DEF Reconcile, Begin, End, Return, Goto, files, writer, installer
<1>16. ASSUME NEW n \in Names, Fetch(n) PROVE TypeOK'
  <2>1. entries[n] \in Versions
    BY <1>0, <1>16 DEF Fetch, SyncInv, Locked, Lists
  <2>2. dir' \in [Names -> {"absent", "empty", "broken"} \cup Versions]
    BY <1>0, <1>16, <2>1, DirTypes DEF Fetch
  <2>3. QED
    BY <1>0, <1>16, <2>2 DEF Fetch, Begin, End, Return, Goto, files, writer, installer
<1>17. ASSUME NEW n \in Names, Install(n) PROVE TypeOK'
  <2>1. entries[n] \in Versions /\ n \notin Installed(records)
    BY <1>0, <1>17 DEF Install, RegistryInv
  <2>2. dir' \in [Names -> {"absent", "empty", "broken"} \cup Versions]
    BY <1>0, <1>17, <2>1 DEF Install
  <2>3. records' \in Seq(Records)
    BY <1>0, <1>17, <2>1 DEF Install, Record, Records
  <2>4. QED
    BY <1>0, <1>17, <2>2, <2>3 DEF Install, Begin, End, Return, Goto, files, writer, installer
<1>18. ASSUME NEW n \in Names, InstallFails(n) PROVE TypeOK'
  <2>1. dir' \in [Names -> {"absent", "empty", "broken"} \cup Versions]
    BY <1>18, DirTypes DEF InstallFails
  <2>2. QED
    BY <1>18, <2>1, ReadTypes DEF InstallFails, Begin, End, Return, Goto, files, writer, installer
<1>19. ASSUME NEW n \in Names, executePackageRemove(n) PROVE TypeOK'
  <2>1. dir' \in [Names -> {"absent", "empty", "broken"} \cup Versions]
    BY <1>0, <1>19 DEF executePackageRemove
  <2>2. records' \in Seq(Records)
    BY <1>0, <1>19, Erased DEF executePackageRemove, RegistryInv
  <2>3. QED
    BY <1>0, <1>19, <2>1, <2>2 DEF executePackageRemove, Begin, End, Return, Goto, files, writer, installer
<1>20. ASSUME NEW n \in Names, NEW v \in Versions, executePackageAdd(n, v) PROVE TypeOK'
  <2>1. entries' \in Lists
    BY <1>20, ReadTypes DEF executePackageAdd, Lists
  <2>2. QED
    BY <1>20, <2>1 DEF executePackageAdd, Begin, End, Return, Goto, files, writer, installer
<1>21. CASE SaveRegistry
  <2>1. registry' \in Seq(Records)
    BY <1>0, <1>21, Saved DEF RegistryInv
  <2>2. QED
    BY <1>21, <2>1, ReadTypes DEF SaveRegistry, Begin, End, Return, Goto, files, writer, installer
<1>22. CASE SaveFails
  BY <1>22, ReadTypes DEF SaveFails, Begin, End, Return, Goto, files, writer, installer
<1>23. CASE Refused
  BY <1>23, ReadTypes DEF Refused, Begin, End, Return, Goto, files, writer, installer
<1>24. CASE Crash
  <2>1. registry' \in Seq(Records)
    <3>1. CASE registry' = registry
      BY <3>1
    <3>2. CASE \E k \in 0..Len(records) : registry' = SubSeq(records, 1, k)
      <4>1. Len(records) \in Nat
        BY LenProperties
      <4>2. QED
        BY <1>0, <3>2, <4>1, FirstOnes DEF RegistryInv
    <3>3. registry' = registry \/ \E k \in 0..Len(records) : registry' = SubSeq(records, 1, k)
      BY <1>24 DEF Crash, FirstRecords
    <3>4. QED
      BY <3>1, <3>2, <3>3
  <2>2. dir' \in [Names -> {"absent", "empty", "broken"} \cup Versions]
    BY <1>0, <1>24 DEF Crash
  <2>3. QED
    BY <1>0, <1>24, <2>1, <2>2, ReadTypes DEF Crash, Begin, End, Return, Goto, files, writer, installer
<1>25. CASE Delete
  <2>1. dir' \in [Names -> {"absent", "empty", "broken"} \cup Versions]
    <3>1. \A n \in Names : [dir EXCEPT ![n] = "absent"] \in [Names -> {"absent", "empty", "broken"} \cup Versions]
      OBVIOUS
    <3>2. dir' = dir \/ \E n \in Names : dir' = [dir EXCEPT ![n] = "absent"]
      BY <1>25 DEF Delete
    <3>3. QED
      BY <3>1, <3>2
  <2>2. registry' \in Seq(Records)
    <3>1. <<>> \in Seq(Records)
      BY EmptySeq
    <3>2. registry' = registry \/ registry' = <<>>
      BY <1>25 DEF Delete
    <3>3. QED
      BY <3>1, <3>2
  <2>3. QED
    BY <1>25, <2>1, <2>2 DEF Delete, writer, installer
<1>26. CASE UNCHANGED vars
  BY <1>26 DEF vars, files, writer, installer
<1>27. QED
  BY <1>1, <1>2, <1>3, <1>4, <1>5, <1>6, <1>7, <1>8, <1>9, <1>10, <1>11, <1>12, <1>13, <1>14, <1>15, <1>16, <1>17, <1>18, <1>19, <1>20, <1>21, <1>22, <1>23, <1>24, <1>25, <1>26
     DEF Next, LockfileCommand, Build, PackageCommand, Lists

\* A command stays at the steps it has.
LEMMA StepsOfCommands == TypeOK /\ StepInv /\ [Next]_vars => StepInv'
<1> SUFFICES ASSUME TypeOK /\ StepInv, [Next]_vars PROVE StepInv'
  OBVIOUS
<1> USE DEF TypeOK, StepInv, Writers
<1>1. ASSUME NEW t \in Toolchains, executeToolchainSelect(t) PROVE StepInv'
  BY <1>1 DEF executeToolchainSelect, Begin, End, Return, Goto, files, writer, installer
<1>2. ASSUME NEW p \in Profiles, executeProfileSelect(p) PROVE StepInv'
  BY <1>2 DEF executeProfileSelect, Begin, End, Return, Goto, files, writer, installer
<1>3. ASSUME NEW r \in Registries, executeRegistrySet(r) PROVE StepInv'
  BY <1>3 DEF executeRegistrySet, Begin, End, Return, Goto, files, writer, installer
<1>4. ASSUME NEW list \in Lists, executePackageLock(list) PROVE StepInv'
  BY <1>4 DEF executePackageLock, Begin, End, Return, Goto, files, writer, installer
<1>5. CASE ReadEntries
  BY <1>5 DEF ReadEntries, Goto
<1>6. CASE Truncate
  BY <1>6 DEF Truncate, Goto
<1>7. CASE Write
  BY <1>7 DEF Write, Begin, End, Return, Goto, files, writer, installer
<1>8. CASE WriteSelectionFails
  BY <1>8 DEF WriteSelectionFails, Begin, End, Return, Goto, files, writer, installer
<1>9. CASE RemoveLegacyFile
  BY <1>9 DEF RemoveLegacyFile, Begin, End, Return, Goto, files, writer, installer
<1>10. CASE executeBuild
  BY <1>10 DEF executeBuild, Begin, End, Return, Goto, files, writer, installer
<1>11. CASE migrate_legacy_toolchain_file
  BY <1>11 DEF migrate_legacy_toolchain_file, Begin, End, Return, Goto, files, writer, installer
<1>12. CASE Resolve
  BY <1>12 DEF Resolve, Begin, End, Return, Goto, files, writer, installer
<1>13. CASE executePackageSync
  BY <1>13 DEF executePackageSync, Begin, End, Return, Goto, files, writer, installer
<1>14. CASE FetchFailed
  BY <1>14 DEF FetchFailed, Begin, End, Return, Goto, files, writer, installer
<1>15. CASE Reconcile
  BY <1>15 DEF Reconcile, Begin, End, Return, Goto, files, writer, installer
<1>16. ASSUME NEW n \in Names, Fetch(n) PROVE StepInv'
  BY <1>16 DEF Fetch, Begin, End, Return, Goto, files, writer, installer
<1>17. ASSUME NEW n \in Names, Install(n) PROVE StepInv'
  BY <1>17 DEF Install, Goto
<1>18. ASSUME NEW n \in Names, InstallFails(n) PROVE StepInv'
  BY <1>18 DEF InstallFails, Begin, End, Return, Goto, files, writer, installer
<1>19. ASSUME NEW n \in Names, executePackageRemove(n) PROVE StepInv'
  BY <1>19 DEF executePackageRemove, Begin, End, Return, Goto, files, writer, installer
<1>20. ASSUME NEW n \in Names, NEW v \in Versions, executePackageAdd(n, v) PROVE StepInv'
  BY <1>20 DEF executePackageAdd, Begin, End, Return, Goto, files, writer, installer
<1>21. CASE SaveRegistry
  BY <1>21 DEF SaveRegistry, Begin, End, Return, Goto, files, writer, installer
<1>22. CASE SaveFails
  BY <1>22 DEF SaveFails, Begin, End, Return, Goto, files, writer, installer
<1>23. CASE Refused
  BY <1>23 DEF Refused, Begin, End, Return, Goto, files, writer, installer
<1>24. CASE Crash
  BY <1>24 DEF Crash, Begin, End, Return, Goto, files, writer, installer
<1>25. CASE Delete
  BY <1>25 DEF Delete, Begin, End, Return, Goto, files, writer, installer
<1>26. CASE UNCHANGED vars
  BY <1>26 DEF vars, files, writer, installer
<1>27. QED
  BY <1>1, <1>2, <1>3, <1>4, <1>5, <1>6, <1>7, <1>8, <1>9, <1>10, <1>11, <1>12, <1>13, <1>14, <1>15, <1>16, <1>17, <1>18, <1>19, <1>20, <1>21, <1>22, <1>23, <1>24, <1>25, <1>26
     DEF Next, LockfileCommand, Build, PackageCommand, Lists

\* An empty list names nobody.
LEMMA Nobody == Unique(<<>>) /\ Installed(<<>>) = {}
BY DEF Unique, Installed

\* Each step leaves lists in which a package has one record.
LEMMA RegistryStep == PackagesInv /\ [Next]_vars => RegistryInv'
<1> SUFFICES ASSUME TypeOK, StepInv, RegistryInv, SyncInv, [Next]_vars PROVE RegistryInv'
  BY DEF PackagesInv
<1> USE DEF TypeOK, RegistryInv
<1>1. ASSUME NEW t \in Toolchains, executeToolchainSelect(t) PROVE RegistryInv'
  BY <1>1, Nobody DEF executeToolchainSelect, Begin, End, Return, Goto, files, writer, installer
<1>2. ASSUME NEW p \in Profiles, executeProfileSelect(p) PROVE RegistryInv'
  BY <1>2, Nobody DEF executeProfileSelect, Begin, End, Return, Goto, files, writer, installer
<1>3. ASSUME NEW r \in Registries, executeRegistrySet(r) PROVE RegistryInv'
  BY <1>3, Nobody DEF executeRegistrySet, Begin, End, Return, Goto, files, writer, installer
<1>4. ASSUME NEW list \in Lists, executePackageLock(list) PROVE RegistryInv'
  BY <1>4, Nobody DEF executePackageLock, Begin, End, Return, Goto, files, writer, installer
<1>5. CASE ReadEntries
  BY <1>5, Nobody DEF ReadEntries, Begin, End, Return, Goto, files, writer, installer
<1>6. CASE Truncate
  BY <1>6, Nobody DEF Truncate, Begin, End, Return, Goto, files, writer, installer
<1>7. CASE Write
  BY <1>7, Nobody DEF Write, Begin, End, Return, Goto, files, writer, installer
<1>8. CASE WriteSelectionFails
  BY <1>8, Nobody DEF WriteSelectionFails, Begin, End, Return, Goto, files, writer, installer
<1>9. CASE RemoveLegacyFile
  BY <1>9, Nobody DEF RemoveLegacyFile, Begin, End, Return, Goto, files, writer, installer
<1>10. CASE executeBuild
  BY <1>10, Nobody DEF executeBuild, Begin, End, Return, Goto, files, writer, installer
<1>11. CASE migrate_legacy_toolchain_file
  BY <1>11, Nobody DEF migrate_legacy_toolchain_file, Begin, End, Return, Goto, files, writer, installer
<1>12. CASE Resolve
  BY <1>12, Nobody DEF Resolve, Begin, End, Return, Goto, files, writer, installer
<1>13. CASE executePackageSync
  BY <1>13, Nobody DEF executePackageSync, Begin, End, Return, Goto, files, writer, installer
<1>14. CASE FetchFailed
  BY <1>14, Nobody DEF FetchFailed, Begin, End, Return, Goto, files, writer, installer
<1>15. CASE Reconcile
  <2>1. Unique(records')
    BY <1>15, ReconciledNames DEF Reconcile, SyncInv
  <2>2. QED
    BY <1>15, <2>1 DEF Reconcile, Begin, End, Return, Goto, files, writer, installer
<1>16. ASSUME NEW n \in Names, Fetch(n) PROVE RegistryInv'
  BY <1>16, Nobody DEF Fetch, Begin, End, Return, Goto, files, writer, installer
<1>17. ASSUME NEW n \in Names, Install(n) PROVE RegistryInv'
  <2>1. entries[n] \in Versions /\ n \notin Installed(records)
    BY <1>17 DEF Install
  <2>2. Record(n, entries[n]) \in Records /\ Record(n, entries[n]).name = n
    BY <2>1 DEF Record, Records
  <2>3. Unique(records')
    BY <1>17, <2>1, <2>2, AppendNew DEF Install
  <2>4. QED
    BY <1>17, <2>3 DEF Install, Begin, End, Return, Goto, files, writer, installer
<1>18. ASSUME NEW n \in Names, InstallFails(n) PROVE RegistryInv'
  BY <1>18, Nobody DEF InstallFails, Begin, End, Return, Goto, files, writer, installer
<1>19. ASSUME NEW n \in Names, executePackageRemove(n) PROVE RegistryInv'
  <2>1. Unique(records')
    BY <1>19, Erased DEF executePackageRemove
  <2>2. QED
    BY <1>19, <2>1 DEF executePackageRemove, Begin, End, Return, Goto, files, writer, installer
<1>20. ASSUME NEW n \in Names, NEW v \in Versions, executePackageAdd(n, v) PROVE RegistryInv'
  <2>1. entries'[n] = v /\ records' = registry /\ fetch' = {n}
    BY <1>20, ReadTypes DEF executePackageAdd, Lists
  <2>2. QED
    BY <1>20, <2>1 DEF executePackageAdd, Begin, End, Return, Goto, files, writer, installer
<1>21. CASE SaveRegistry
  <2>1. Unique(registry')
    BY <1>21, Saved
  <2>2. QED
    BY <1>21, <2>1, Nobody DEF SaveRegistry, Return
<1>22. CASE SaveFails
  BY <1>22, Nobody DEF SaveFails, Begin, End, Return, Goto, files, writer, installer
<1>23. CASE Refused
  BY <1>23, Nobody DEF Refused, Begin, End, Return, Goto, files, writer, installer
<1>24. CASE Crash
  <2>1. Unique(registry')
    <3>1. ASSUME NEW k \in 0..Len(records), registry' = SubSeq(records, 1, k) PROVE Unique(registry')
      <4>1. Len(records) \in Nat
        BY LenProperties
      <4>2. QED
        BY <3>1, <4>1, FirstOnes
    <3>2. registry' = registry \/ \E k \in 0..Len(records) : registry' = SubSeq(records, 1, k)
      BY <1>24 DEF Crash, FirstRecords
    <3>3. QED
      BY <3>1, <3>2
  <2>2. QED
    BY <1>24, <2>1, Nobody DEF Crash, End, Return
<1>25. CASE Delete
  BY <1>25, Nobody DEF Delete, Begin, End, Return, Goto, files, writer, installer
<1>26. CASE UNCHANGED vars
  BY <1>26 DEF vars, files, writer, installer
<1>27. QED
  BY <1>1, <1>2, <1>3, <1>4, <1>5, <1>6, <1>7, <1>8, <1>9, <1>10, <1>11, <1>12, <1>13, <1>14, <1>15, <1>16, <1>17, <1>18, <1>19, <1>20, <1>21, <1>22, <1>23, <1>24, <1>25, <1>26
     DEF Next, LockfileCommand, Build, PackageCommand, Lists

\* Outside the steps of a writer and of a build there is nothing to show.
LEMMA NoWriter ==
  step' \notin {"migrate", "entries", "truncate", "write", "legacy"} /\ op' # "build" => WriterInv'
BY DEF WriterInv

\* A command that chooses one key starts from the selection in the file.
LEMMA StartsFromTheFile ==
  ASSUME NEW s \in Selections, NEW c
  PROVE  /\ \A k \in {"toolchain", "profile", "registry"} :
              k # "toolchain" => [s EXCEPT !.toolchain = c][k] = s[k]
         /\ \A k \in {"toolchain", "profile", "registry"} :
              k # "profile" => [s EXCEPT !.profile = c][k] = s[k]
         /\ \A k \in {"toolchain", "profile", "registry"} :
              k # "registry" => [s EXCEPT !.registry = c][k] = s[k]
         /\ [s EXCEPT !.toolchain = c].toolchain = c
         /\ [s EXCEPT !.profile = c].profile = c
         /\ [s EXCEPT !.registry = c].registry = c
BY DEF Selections

\* Each step keeps what a writer is about to write.
LEMMA WriterStep == PackagesInv /\ [Next]_vars => WriterInv'
<1> SUFFICES ASSUME TypeOK, StepInv, WriterInv, [Next]_vars PROVE WriterInv'
  BY DEF PackagesInv
<1> USE DEF TypeOK
<1>1. ASSUME NEW t \in Toolchains, executeToolchainSelect(t) PROVE WriterInv'
  <2>1. op' = "toolchain_select" /\ step' = "entries" /\ lock' = lock /\ before'.lock = lock
    BY <1>1 DEF executeToolchainSelect, Begin, files
  <2>2. KeyOf(op') = "toolchain"
    BY <2>1 DEF KeyOf
  <2>3. selection' = [read_selection(lock) EXCEPT !.toolchain = t]
    BY <1>1 DEF executeToolchainSelect
  <2>4. /\ \A key \in {"toolchain", "profile", "registry"} :
             key # "toolchain" => selection'[key] = read_selection(lock)[key]
        /\ selection'.toolchain = t
    BY <2>3, ReadTypes, StartsFromTheFile
  <2>5. QED
    BY <2>1, <2>2, <2>4, PackagesAssumption DEF WriterInv
<1>2. ASSUME NEW p \in Profiles, executeProfileSelect(p) PROVE WriterInv'
  <2>1. op' = "profile_select" /\ step' = "entries" /\ lock' = lock /\ before'.lock = lock
    BY <1>2 DEF executeProfileSelect, Begin, files
  <2>2. KeyOf(op') = "profile"
    BY <2>1 DEF KeyOf
  <2>3. selection' = [read_selection(lock) EXCEPT !.profile = p]
    BY <1>2 DEF executeProfileSelect
  <2>4. /\ \A key \in {"toolchain", "profile", "registry"} :
             key # "profile" => selection'[key] = read_selection(lock)[key]
        /\ selection'.profile = p
    BY <2>3, ReadTypes, StartsFromTheFile
  <2>5. QED
    BY <2>1, <2>2, <2>4, PackagesAssumption DEF WriterInv
<1>3. ASSUME NEW r \in Registries, executeRegistrySet(r) PROVE WriterInv'
  <2>1. op' = "registry_set" /\ step' = "entries" /\ lock' = lock /\ before'.lock = lock
    BY <1>3 DEF executeRegistrySet, Begin, files
  <2>2. KeyOf(op') = "registry"
    BY <2>1 DEF KeyOf
  <2>3. selection' = [read_selection(lock) EXCEPT !.registry = r]
    BY <1>3 DEF executeRegistrySet
  <2>4. /\ \A key \in {"toolchain", "profile", "registry"} :
             key # "registry" => selection'[key] = read_selection(lock)[key]
        /\ selection'.registry = r
    BY <2>3, ReadTypes, StartsFromTheFile
  <2>5. QED
    BY <2>1, <2>2, <2>4, PackagesAssumption DEF WriterInv
<1>4. ASSUME NEW list \in Lists, executePackageLock(list) PROVE WriterInv'
  BY <1>4 DEF executePackageLock, WriterInv, Begin
<1>5. CASE ReadEntries
  BY <1>5 DEF ReadEntries, WriterInv, StepInv, Writers, PackagesOf, Goto, files
<1>6. CASE Truncate
  BY <1>6 DEF Truncate, WriterInv, Goto, writer
<1>7. CASE Write
  <2>1. CASE op \in {"toolchain_select", "build"}
    <3>1. /\ lock' = text \/ (lock' = Torn /\ lost')
          /\ step' = "legacy" /\ UNCHANGED <<op, before, legacy>>
      BY <1>7, <2>1 DEF Write
    <3>2. text \in Lockfiles /\ text.selection = selection /\ selection.toolchain # Nothing
      BY <1>7, <2>1 DEF Write, WriterInv
    <3>3. read_selection(text) = selection
      BY <3>2, PackagesAssumption DEF read_selection
    <3>4. op = "build" => selection.toolchain = Choice(before.lock, before.legacy)
      BY <1>7 DEF Write, WriterInv
    <3>5. op = "build" => Choice(text, legacy) = Choice(before.lock, before.legacy)
      BY <3>2, <3>3, <3>4 DEF Choice
    <3>6. QED
      BY <2>1, <3>1, <3>2, <3>3, <3>5 DEF WriterInv
  <2>2. CASE op \notin {"toolchain_select", "build"}
    BY <1>7, <2>2, NoWriter DEF Write, End, Return
  <2>3. QED
    BY <2>1, <2>2
<1>8. CASE WriteSelectionFails
  <2>1. CASE op = "build"
    BY <1>8, <2>1 DEF WriteSelectionFails, WriterInv, Goto, files
  <2>2. CASE op # "build"
    BY <1>8, <2>2, NoWriter DEF WriteSelectionFails, End, Return
  <2>3. QED
    BY <2>1, <2>2
<1>9. CASE RemoveLegacyFile
  <2>1. CASE op = "build"
    <3>1. /\ step' = "resolve" /\ UNCHANGED <<lock, op, before>>
          /\ lock = Torn \/ Choice(lock, legacy) = Choice(before.lock, before.legacy)
          /\ lock = Torn \/ read_selection(lock).toolchain # Nothing
      BY <1>9, <2>1 DEF RemoveLegacyFile, WriterInv, Goto
    <3>2. lock = Torn \/ Choice(lock, legacy') = Choice(lock, legacy)
      BY <3>1 DEF Choice
    <3>3. QED
      BY <2>1, <3>1, <3>2 DEF WriterInv
  <2>2. CASE op # "build"
    BY <1>9, <2>2, NoWriter DEF RemoveLegacyFile, End, Return
  <2>3. QED
    BY <2>1, <2>2
<1>10. CASE executeBuild
  BY <1>10 DEF executeBuild, WriterInv, Begin, files
<1>11. CASE migrate_legacy_toolchain_file
  <2>1. /\ op = "build" /\ lock = before.lock /\ lock # Torn
        /\ Choice(lock, legacy) = Choice(before.lock, before.legacy)
        /\ UNCHANGED <<lock, legacy, op, before>>
    BY <1>11 DEF migrate_legacy_toolchain_file, WriterInv, StepInv, Goto, files
  <2>2. CASE legacy = Nothing \/ read_selection(lock).toolchain # Nothing
    BY <1>11, <2>1, <2>2 DEF migrate_legacy_toolchain_file, WriterInv, Goto
  <2>3. CASE legacy # Nothing /\ read_selection(lock).toolchain = Nothing
    <3>1. step' = "entries" /\ selection' = [read_selection(lock) EXCEPT !.toolchain = legacy]
      BY <1>11, <2>3 DEF migrate_legacy_toolchain_file, Goto
    <3>2. /\ \A key \in {"toolchain", "profile", "registry"} :
               key # "toolchain" => selection'[key] = read_selection(lock)[key]
          /\ selection'.toolchain = legacy
      BY <3>1, ReadTypes, StartsFromTheFile
    <3>3. selection'.toolchain = Choice(lock, legacy)
      BY <2>3, <3>2 DEF Choice
    <3>4. KeyOf(op) = "toolchain"
      BY <2>1 DEF KeyOf
    <3>5. QED
      BY <2>1, <2>3, <3>1, <3>2, <3>3, <3>4 DEF WriterInv
  <2>4. QED
    BY <2>2, <2>3
<1>12. CASE Resolve
  BY <1>12, NoWriter DEF Resolve, Begin, End, Return, Goto, files, writer, installer
<1>13. CASE executePackageSync
  BY <1>13, NoWriter DEF executePackageSync, Begin, End, Return, Goto, files, writer, installer
<1>14. CASE FetchFailed
  BY <1>14, NoWriter DEF FetchFailed, StepInv, Begin, End, Return, Goto, files, writer, installer
<1>15. CASE Reconcile
  BY <1>15, NoWriter DEF Reconcile, StepInv, Begin, End, Return, Goto, files, writer, installer
<1>16. ASSUME NEW n \in Names, Fetch(n) PROVE WriterInv'
  BY <1>16, NoWriter DEF Fetch, StepInv, Begin, End, Return, Goto, files, writer, installer
<1>17. ASSUME NEW n \in Names, Install(n) PROVE WriterInv'
  BY <1>17, NoWriter DEF Install, StepInv, Begin, End, Return, Goto, files, writer, installer
<1>18. ASSUME NEW n \in Names, InstallFails(n) PROVE WriterInv'
  BY <1>18, NoWriter DEF InstallFails, StepInv, Begin, End, Return, Goto, files, writer, installer
<1>19. ASSUME NEW n \in Names, executePackageRemove(n) PROVE WriterInv'
  BY <1>19, NoWriter DEF executePackageRemove, Begin, End, Return, Goto, files, writer, installer
<1>20. ASSUME NEW n \in Names, NEW v \in Versions, executePackageAdd(n, v) PROVE WriterInv'
  BY <1>20, NoWriter DEF executePackageAdd, Begin, End, Return, Goto, files, writer, installer
<1>21. CASE SaveRegistry
  BY <1>21, NoWriter DEF SaveRegistry, StepInv, Begin, End, Return, Goto, files, writer, installer
<1>22. CASE SaveFails
  BY <1>22, NoWriter DEF SaveFails, StepInv, Begin, End, Return, Goto, files, writer, installer
<1>23. CASE Refused
  BY <1>23, NoWriter DEF Refused, Begin, End, Return, Goto, files, writer, installer
<1>24. CASE Crash
  BY <1>24, NoWriter DEF Crash, Begin, End, Return, Goto, files, writer, installer
<1>25. CASE Delete
  BY <1>25, NoWriter DEF Delete, StepInv, writer, installer
<1>26. CASE UNCHANGED vars
  BY <1>26 DEF vars, files, writer, installer, WriterInv
<1>27. QED
  BY <1>1, <1>2, <1>3, <1>4, <1>5, <1>6, <1>7, <1>8, <1>9, <1>10, <1>11, <1>12, <1>13, <1>14, <1>15, <1>16, <1>17, <1>18, <1>19, <1>20, <1>21, <1>22, <1>23, <1>24, <1>25, <1>26
     DEF Next, LockfileCommand, Build, PackageCommand, Lists

\* Outside a sync, and after anything but a successful one, there is nothing to show.
LEMMA NoSync == op' # "sync" /\ step' # "fetch" /\ outcome' # "synced" => SyncInv'
BY DEF SyncInv

\* Each step keeps what a sync has found and made.
LEMMA SyncStep == PackagesInv /\ [Next]_vars => SyncInv'
<1> SUFFICES ASSUME TypeOK, StepInv, RegistryInv, SyncInv, [Next]_vars PROVE SyncInv'
  BY DEF PackagesInv
<1> USE DEF TypeOK
<1>1. ASSUME NEW t \in Toolchains, executeToolchainSelect(t) PROVE SyncInv'
  BY <1>1, NoSync DEF executeToolchainSelect, StepInv, Writers, Begin, End, Return, Goto, files, writer, installer
<1>2. ASSUME NEW p \in Profiles, executeProfileSelect(p) PROVE SyncInv'
  BY <1>2, NoSync DEF executeProfileSelect, StepInv, Writers, Begin, End, Return, Goto, files, writer, installer
<1>3. ASSUME NEW r \in Registries, executeRegistrySet(r) PROVE SyncInv'
  BY <1>3, NoSync DEF executeRegistrySet, StepInv, Writers, Begin, End, Return, Goto, files, writer, installer
<1>4. ASSUME NEW list \in Lists, executePackageLock(list) PROVE SyncInv'
  BY <1>4, NoSync DEF executePackageLock, StepInv, Writers, Begin, End, Return, Goto, files, writer, installer
<1>5. CASE ReadEntries
  BY <1>5, NoSync DEF ReadEntries, StepInv, Writers, Goto
<1>6. CASE Truncate
  BY <1>6, NoSync DEF Truncate, StepInv, Writers, Goto
<1>7. CASE Write
  <2>1. CASE op \in {"toolchain_select", "build"}
    BY <1>7, <2>1, NoSync DEF Write, StepInv, Goto
  <2>2. CASE op \notin {"toolchain_select", "build"}
    BY <1>7, <2>2, NoSync DEF Write, End, Return
  <2>3. QED
    BY <2>1, <2>2
<1>8. CASE WriteSelectionFails
  BY <1>8, NoSync DEF WriteSelectionFails, StepInv, Writers, Begin, End, Return, Goto, files, writer, installer
<1>9. CASE RemoveLegacyFile
  BY <1>9, NoSync DEF RemoveLegacyFile, StepInv, Writers, Begin, End, Return, Goto, files, writer, installer
<1>10. CASE executeBuild
  BY <1>10, NoSync DEF executeBuild, StepInv, Writers, Begin, End, Return, Goto, files, writer, installer
<1>11. CASE migrate_legacy_toolchain_file
  BY <1>11, NoSync DEF migrate_legacy_toolchain_file, StepInv, Writers, Goto
<1>12. CASE Resolve
  BY <1>12, NoSync DEF Resolve, StepInv, Writers, Begin, End, Return, Goto, files, writer, installer
<1>13. CASE executePackageSync
  <2>1. /\ op' = "sync" /\ step' = "fetch" /\ outcome' = "none" /\ UNCHANGED <<lock, dir>>
        /\ entries' = lock.packages /\ records' = registry
        /\ fetch' = NeedsFetch(lock.packages) /\ stale' = NeedsMetadata(lock.packages, registry)
    BY <1>13 DEF executePackageSync, Begin, files
  <2>2. lock \in Lockfiles
    BY <1>13 DEF executePackageSync
  <2>3. \A n \in Fetchable(lock.packages) \ NeedsFetch(lock.packages) : dir_present(n)
    BY DEF Fetchable, NeedsFetch
  <2>4. \A n : dir_present(n) => dir_present(n)'
    BY <2>1 DEF dir_present
  <2>5. /\ NeedsFetch(lock.packages) \subseteq Locked(lock.packages)
        /\ NeedsMetadata(lock.packages, registry) \subseteq Locked(lock.packages)
        /\ Locked(lock.packages) \ Installed(registry) \subseteq NeedsMetadata(lock.packages, registry)
    BY DEF NeedsFetch, NeedsMetadata
  <2>6. QED
    BY <2>1, <2>2, <2>3, <2>4, <2>5 DEF SyncInv
<1>14. CASE FetchFailed
  BY <1>14, NoSync DEF FetchFailed, StepInv, Writers, Begin, End, Return, Goto, files, writer, installer
<1>15. CASE Reconcile
  <2>1. /\ step = "fetch" /\ fetch = {} /\ errors = {} /\ step' = "save"
        /\ UNCHANGED <<lock, dir, registry, op, entries, outcome>>
        /\ records' = Reconciled(records, stale) /\ outcome = "none" /\ op = "sync"
    BY <1>15 DEF Reconcile, StepInv, Goto, files
  <2>2. Installed(records') = Installed(records) \cup stale
    BY <2>1, ReconciledNames DEF SyncInv, RegistryInv
  <2>3. Locked(entries) \subseteq Installed(records')
    BY <2>1, <2>2 DEF SyncInv
  <2>4. \A n \in Fetchable(entries) : dir_present(n)'
    BY <2>1 DEF SyncInv, dir_present
  <2>5. QED
    BY <2>1, <2>3, <2>4 DEF SyncInv
<1>16. ASSUME NEW n \in Names, Fetch(n) PROVE SyncInv'
  <2>1. /\ step = "fetch" /\ n \in fetch /\ fetch' = fetch \ {n}
        /\ UNCHANGED <<lock, registry, op, step, entries, records, stale, outcome>>
        /\ outcome = "none" /\ op = "sync"
    BY <1>16 DEF Fetch, StepInv
  <2>2. /\ \A m \in Names \ {n} : dir'[m] = dir[m]
        /\ errors \subseteq errors'
    BY <1>16 DEF Fetch
  <2>3. CASE n \in errors'
    <3>1. \A m \in Fetchable(entries) \ (fetch' \cup errors') : dir_present(m)'
      BY <2>1, <2>2, <2>3 DEF SyncInv, dir_present, Fetchable, Locked
    <3>2. QED
      BY <2>1, <3>1 DEF SyncInv
  <2>4. CASE n \notin errors'
    <3>1. dir' = [dir EXCEPT ![n] = FetchOk(n, entries[n])]
      BY <1>16, <2>4 DEF Fetch
    <3>2. entries[n] \in Versions
      BY <2>1 DEF SyncInv, Locked, Lists
    <3>3. n \in Fetchable(entries) => dir_present(n)'
      BY <3>1, <3>2, PackagesAssumption DEF FetchOk, dir_present, Fetchable
    <3>4. \A m \in Fetchable(entries) \ (fetch' \cup errors') : dir_present(m)'
      BY <2>1, <2>2, <3>3 DEF SyncInv, dir_present, Fetchable, Locked
    <3>5. QED
      BY <2>1, <3>4 DEF SyncInv
  <2>5. QED
    BY <2>3, <2>4
<1>17. ASSUME NEW n \in Names, Install(n) PROVE SyncInv'
  BY <1>17, NoSync DEF Install, StepInv, Writers, Goto
<1>18. ASSUME NEW n \in Names, InstallFails(n) PROVE SyncInv'
  BY <1>18, NoSync DEF InstallFails, StepInv, Writers, Begin, End, Return, Goto, files, writer, installer
<1>19. ASSUME NEW n \in Names, executePackageRemove(n) PROVE SyncInv'
  BY <1>19, NoSync DEF executePackageRemove, StepInv, Writers, Begin, End, Return, Goto, files, writer, installer
<1>20. ASSUME NEW n \in Names, NEW v \in Versions, executePackageAdd(n, v) PROVE SyncInv'
  BY <1>20, NoSync DEF executePackageAdd, StepInv, Writers, Begin, End, Return, Goto, files, writer, installer
<1>21. CASE SaveRegistry
  <2>1. CASE op = "sync"
    <3>1. /\ step = "save" /\ UNCHANGED <<lock, dir>> /\ (registry' = records \/ lost')
          /\ op' = "none" /\ step' = "idle"
      BY <1>21 DEF SaveRegistry, Return
    <3>2. lock \in Lockfiles /\ (~lost' => Locked(lock.packages) \subseteq Installed(registry'))
      BY <2>1, <3>1 DEF SyncInv
    <3>3. \A n \in Fetchable(lock.packages) : dir_present(n)'
      BY <2>1, <3>1 DEF SyncInv, dir_present
    <3>4. QED
      BY <3>1, <3>2, <3>3 DEF SyncInv
  <2>2. CASE op # "sync"
    BY <1>21, <2>2, NoSync DEF SaveRegistry, End, Return
  <2>3. QED
    BY <2>1, <2>2
<1>22. CASE SaveFails
  BY <1>22, NoSync DEF SaveFails, StepInv, Writers, Begin, End, Return, Goto, files, writer, installer
<1>23. CASE Refused
  BY <1>23, NoSync DEF Refused, StepInv, Writers, Begin, End, Return, Goto, files, writer, installer
<1>24. CASE Crash
  BY <1>24, NoSync DEF Crash, StepInv, Writers, Begin, End, Return, Goto, files, writer, installer
<1>25. CASE Delete
  BY <1>25, NoSync DEF Delete, StepInv, Writers, Begin, End, Return, Goto, files, writer, installer
<1>26. CASE UNCHANGED vars
  BY <1>26 DEF vars, files, writer, installer, SyncInv, dir_present
<1>27. QED
  BY <1>1, <1>2, <1>3, <1>4, <1>5, <1>6, <1>7, <1>8, <1>9, <1>10, <1>11, <1>12, <1>13, <1>14, <1>15, <1>16, <1>17, <1>18, <1>19, <1>20, <1>21, <1>22, <1>23, <1>24, <1>25, <1>26
     DEF Next, LockfileCommand, Build, PackageCommand, Lists

LEMMA PackagesInit == Init => PackagesInv
<1> SUFFICES ASSUME Init PROVE PackagesInv
  OBVIOUS
<1> USE DEF Init
<1>1. TypeOK
  BY ReadTypes DEF TypeOK
<1>2. StepInv /\ RegistryInv /\ WriterInv /\ SyncInv
  BY Nobody DEF StepInv, RegistryInv, WriterInv, SyncInv
<1>3. QED
  BY <1>1, <1>2 DEF PackagesInv

LEMMA PackagesStep == PackagesInv /\ [Next]_vars => PackagesInv'
BY TypeStep, StepsOfCommands, RegistryStep, WriterStep, SyncStep DEF PackagesInv

\* The files, and what each command holds of them, stay related as PackagesInv
\* says, whatever fails or is killed.
THEOREM InvariantHolds == Spec => []PackagesInv
<1>1. Init => PackagesInv
  BY PackagesInit
<1>2. PackagesInv /\ [Next]_vars => PackagesInv'
  BY PackagesStep
<1>3. QED
  BY <1>1, <1>2, PTL DEF Spec

\* registry.txt names every package once.
THEOREM RegistryNamesOnce == Spec => []OneRecordPerName
<1>1. PackagesInv => OneRecordPerName
  BY DEF PackagesInv, RegistryInv, OneRecordPerName
<1>2. QED
  BY <1>1, InvariantHolds, PTL

\* After a sync that succeeded another one fetches nothing it can fetch, and writes no
\* record of it unless the first did not notice that its own write failed.
THEOREM SyncHasNothingLeft == Spec => []SyncIsIdempotent
<1>1. PackagesInv => SyncIsIdempotent
  BY DEF PackagesInv, SyncInv, SyncIsIdempotent, NeedsMetadata, NeedsFetch, Fetchable
<1>2. QED
  BY <1>1, InvariantHolds, PTL

\* A selection that is written leaves the package list and the other selections.
THEOREM SelectionIsolated == Spec => SelectionKeepsTheRest
<1>1. ASSUME PackagesInv, Next, step = "write", op # "lock", lock' # Torn
      PROVE  /\ lock'.packages = IF before.lock = Nothing THEN NoPackages ELSE before.lock.packages
             /\ \A k \in DOMAIN NoSelection \ {KeyOf(op)} :
                  lock'.selection[k] = read_selection(before.lock)[k]
  <2>1. lock = Torn /\ text = [packages |-> PackagesOf(before.lock), selection |-> selection]
    BY <1>1 DEF PackagesInv, WriterInv
  <2>2. lock' = text
    BY <1>1, <2>1, SMTT(30) DEF Next, LockfileCommand, Build, PackageCommand, executeToolchainSelect,
       executeProfileSelect, executeRegistrySet, executePackageLock, ReadEntries, Truncate, Write,
       WriteSelectionFails, RemoveLegacyFile, executeBuild, migrate_legacy_toolchain_file, Resolve,
       executePackageSync, FetchFailed, Reconcile, Fetch, Install, InstallFails, executePackageRemove,
       executePackageAdd, SaveRegistry, SaveFails, Refused, Crash, Delete, Begin, files
  <2>3. \A k \in {"toolchain", "profile", "registry"} \ {KeyOf(op)} :
          selection[k] = read_selection(before.lock)[k]
    BY <1>1 DEF PackagesInv, WriterInv
  <2>4. DOMAIN NoSelection = {"toolchain", "profile", "registry"}
    BY DEF NoSelection
  <2>5. QED
    BY <2>1, <2>2, <2>3, <2>4 DEF PackagesOf
<1>2. PackagesInv /\ [Next]_vars =>
        [step = "write" /\ op # "lock" /\ lock' # Torn =>
           /\ lock'.packages = IF before.lock = Nothing THEN NoPackages ELSE before.lock.packages
           /\ \A k \in DOMAIN NoSelection \ {KeyOf(op)} :
                lock'.selection[k] = read_selection(before.lock)[k]]_vars
  BY <1>1
<1>3. QED
  BY <1>2, InvariantHolds, PTL DEF Spec, SelectionKeepsTheRest

\* Each step of a build leaves the project's toolchain what it was, while the
\* lockfile is whole.
LEMMA BuildKeepsChoice ==
  ASSUME PackagesInv, Next, op = "build", lock' # Torn
  PROVE  Choice(lock', legacy') = Choice(before.lock, before.legacy)
<1> USE DEF Begin, Goto, End, Return, files
<1>1. lock = Torn \/ Choice(lock, legacy) = Choice(before.lock, before.legacy)
  BY DEF PackagesInv, WriterInv
<1>2. step # "idle" /\ step \notin {"fetch", "install", "save"}
  BY DEF PackagesInv, StepInv
<1>3. CASE Write
  <2>1. /\ lock' = text /\ legacy' = legacy /\ text \in Lockfiles /\ text.selection = selection
        /\ selection.toolchain = Choice(before.lock, before.legacy) /\ selection.toolchain # Nothing
    BY <1>3 DEF Write, PackagesInv, TypeOK, WriterInv
  <2>2. read_selection(text) = selection
    BY <2>1, PackagesAssumption DEF read_selection
  <2>3. QED
    BY <2>1, <2>2 DEF Choice
<1>4. CASE RemoveLegacyFile
  <2>1. lock' = lock /\ (lock = Torn \/ read_selection(lock).toolchain # Nothing)
    BY <1>4 DEF RemoveLegacyFile, PackagesInv, WriterInv
  <2>2. QED
    BY <1>1, <2>1 DEF Choice
<1>5. CASE ~Write /\ ~RemoveLegacyFile
  <2>1. lock' = lock /\ legacy' = legacy
    BY <1>2, <1>5 DEF Next, LockfileCommand, Build, PackageCommand, executeToolchainSelect,
       executeProfileSelect, executeRegistrySet, executePackageLock, ReadEntries, Truncate,
       WriteSelectionFails, executeBuild, migrate_legacy_toolchain_file, Resolve,
       executePackageSync, FetchFailed, Reconcile, Fetch, Install, InstallFails, executePackageRemove,
       executePackageAdd, SaveRegistry, SaveFails, Refused, Crash, Delete
  <2>2. QED
    BY <1>1, <2>1
<1>6. QED
  BY <1>3, <1>4, <1>5

\* The migration at the head of a build changes no choice, however it ends.
THEOREM MigrationIsSafe == Spec => MigrationKeepsChoice
<1>1. PackagesInv /\ [Next]_vars =>
        [op = "build" /\ before.lock # Nothing /\ lock' # Torn =>
           Choice(lock', legacy') = Choice(before.lock, before.legacy)]_vars
  BY BuildKeepsChoice
<1>2. QED
  BY <1>1, InvariantHolds, PTL DEF Spec, MigrationKeepsChoice

\* toolchain.txt is removed only when the lockfile on disk holds a toolchain, or when
\* the command that wrote one there did not notice that the write failed.
THEOREM LegacyIsRecorded == Spec => LegacyGoesAfterItIsRecorded
<1>1. ASSUME PackagesInv, Next, legacy # Nothing, legacy' = Nothing
      PROVE  read_selection(lock).toolchain # Nothing \/ lost
  <2>1. step = "legacy"
    BY <1>1 DEF Next, LockfileCommand, Build, PackageCommand, executeToolchainSelect,
       executeProfileSelect, executeRegistrySet, executePackageLock, ReadEntries, Truncate, Write,
       WriteSelectionFails, RemoveLegacyFile, executeBuild, migrate_legacy_toolchain_file, Resolve,
       executePackageSync, FetchFailed, Reconcile, Fetch, Install, InstallFails, executePackageRemove,
       executePackageAdd, SaveRegistry, SaveFails, Refused, Crash, Delete, Begin, files
  <2>2. QED
    BY <1>1, <2>1 DEF PackagesInv, WriterInv
<1>2. PackagesInv /\ [Next]_vars =>
        [legacy # Nothing /\ legacy' = Nothing => read_selection(lock).toolchain # Nothing \/ lost]_vars
  BY <1>1
<1>3. QED
  BY <1>2, InvariantHolds, PTL DEF Spec, LegacyGoesAfterItIsRecorded
==============================================================================
