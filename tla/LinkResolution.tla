---------------------------- MODULE LinkResolution ----------------------------
(***************************************************************************)
(* resolve_link_set and aggregate_link_flags                               *)
(* (src/core/configuration/link_resolution.hpp): which internal libraries  *)
(* an executable is linked with, in which order, and with which flags.     *)
(*                                                                         *)
(* The walk is a depth-first search with an explicit stack of frames and   *)
(* three colors; a step here is one turn of one of its loops.  The         *)
(* configuration (what each library links, what the executable links) is   *)
(* chosen at the start and never changes.                                  *)
(***************************************************************************)
EXTENDS Naturals, FiniteSets, Sequences, SequencesExt

CONSTANTS LibraryNames,   \* the names a library may have or mention
          Programs,       \* what config.libraries may be: name -> libraries
          RootLists,      \* what the executable may link
          link_flags      \* name -> the library's own link flags

LinkLists == Seq(LibraryNames)

ASSUME ProgramsAssumption ==
  \A p \in Programs : /\ DOMAIN p \subseteq LibraryNames
                      /\ \A n \in DOMAIN p : p[n] \in LinkLists
ASSUME FiniteConfiguration == \A p \in Programs : IsFiniteSet(DOMAIN p)
ASSUME RootListsAssumption == RootLists \subseteq LinkLists
ASSUME LinkFlagsAssumption == link_flags \in [LibraryNames -> Seq(STRING)]

VARIABLES
  libraries,   \* by_name: the libraries each declared library links
  roots,       \* the linked_library_names of the executable
  next_root,   \* the position of the loop over roots
  color,
  link_stack,  \* the frames, the top one last
  order,       \* the names in post-order, reversed at the return
  outcome,     \* "none" while the walk runs
  culprit      \* the library an error names

linkVars == <<libraries, roots, next_root, color, link_stack, order, outcome, culprit>>

Colors   == {"White", "Gray", "Black"}
Outcomes == {"none", "resolved", "unknown library", "cycle"}

NoLibrary == "no library"

LinkInit ==
  /\ libraries \in Programs
  /\ roots \in RootLists
  /\ next_root = 1
  /\ color = [n \in LibraryNames |-> "White"]
  /\ link_stack = <<>>
  /\ order = <<>>
  /\ outcome = "none"
  /\ culprit = NoLibrary

------------------------------------------------------------------------------
(* The walk *)

Walking == outcome = "none" /\ link_stack # <<>>
Between == outcome = "none" /\ link_stack = <<>>

Top  == link_stack[Len(link_stack)]
Deps == libraries[Top.name]

Declared == Top.name \in DOMAIN libraries
HasDep   == Declared /\ Top.next_dep <= Len(Deps)
Dep      == Deps[Top.next_dep]

\* The frames with the top one moved to its next dependency.
Advanced == [link_stack EXCEPT ![Len(link_stack)].next_dep = @ + 1]

Push(frames, n) == /\ link_stack' = Append(frames, [name |-> n, next_dep |-> 1])
                   /\ color' = [color EXCEPT ![n] = "Gray"]

SkipRoot ==
  /\ Between
  /\ next_root <= Len(roots)
  /\ color[roots[next_root]] = "Black"
  /\ next_root' = next_root + 1
  /\ UNCHANGED <<libraries, roots, color, link_stack, order, outcome, culprit>>

EnterRoot ==
  /\ Between
  /\ next_root <= Len(roots)
  /\ color[roots[next_root]] # "Black"
  /\ Push(<<>>, roots[next_root])
  /\ next_root' = next_root + 1
  /\ UNCHANGED <<libraries, roots, order, outcome, culprit>>

UnknownLibrary ==
  /\ Walking
  /\ ~Declared
  /\ outcome' = "unknown library"
  /\ culprit' = Top.name
  /\ UNCHANGED <<libraries, roots, next_root, color, link_stack, order>>

\* WRONG variant: the position is advanced only when the dependency is entered.
SkipDepInPlace ==
  /\ Walking
  /\ HasDep
  /\ color[Dep] = "Black"
  /\ UNCHANGED linkVars

SkipDep ==
  /\ Walking
  /\ HasDep
  /\ color[Dep] = "Black"
  /\ link_stack' = Advanced
  /\ UNCHANGED <<libraries, roots, next_root, color, order, outcome, culprit>>

\* WRONG variant: a library seen before, finished or not, closes a cycle.
CycleAtSharedLibrary ==
  /\ Walking
  /\ HasDep
  /\ color[Dep] # "White"
  /\ outcome' = "cycle"
  /\ culprit' = Dep
  /\ UNCHANGED <<libraries, roots, next_root, color, link_stack, order>>

CycleFound ==
  /\ Walking
  /\ HasDep
  /\ color[Dep] = "Gray"
  /\ outcome' = "cycle"
  /\ culprit' = Dep
  /\ UNCHANGED <<libraries, roots, next_root, color, link_stack, order>>

Descend ==
  /\ Walking
  /\ HasDep
  /\ color[Dep] = "White"
  /\ Push(Advanced, Dep)
  /\ UNCHANGED <<libraries, roots, next_root, order, outcome, culprit>>

\* WRONG variant: the library is not colored when it is finished.
FinishUncolored ==
  /\ Walking
  /\ Declared /\ ~HasDep
  /\ order' = Append(order, Top.name)
  /\ link_stack' = Front(link_stack)
  /\ UNCHANGED <<libraries, roots, next_root, color, outcome, culprit>>

Finish ==
  /\ Walking
  /\ Declared /\ ~HasDep
  /\ color' = [color EXCEPT ![Top.name] = "Black"]
  /\ order' = Append(order, Top.name)
  /\ link_stack' = Front(link_stack)
  /\ UNCHANGED <<libraries, roots, next_root, outcome, culprit>>

ReturnOrder ==
  /\ Between
  /\ next_root > Len(roots)
  /\ outcome' = "resolved"
  /\ UNCHANGED <<libraries, roots, next_root, color, link_stack, order, culprit>>

LinkNext == \/ SkipRoot \/ EnterRoot \/ UnknownLibrary \/ SkipDep
            \/ CycleFound \/ Descend \/ Finish \/ ReturnOrder

LinkSpec     == LinkInit /\ [][LinkNext]_linkVars
LinkFairSpec == LinkSpec /\ WF_linkVars(LinkNext)

------------------------------------------------------------------------------
(* The answer *)

\* WRONG variant: the post-order is handed out as it is.
PostOrder == order

LinkSet == Reverse(order)

Elems(s) == {s[i] : i \in 1..Len(s)}

\* WRONG variant: a flag is dropped only when it was the last one added.
AddIfNew(out, f) == IF out # <<>> /\ Last(out) = f THEN out ELSE Append(out, f)

AddFlag(out, f) == IF f \in Elems(out) THEN out ELSE Append(out, f)

\* aggregate_link_flags: the flags of the libraries in order, each once, at its
\* first occurrence.
AddFlags(out, flags) ==
  LET added[j \in 0..Len(flags)] == IF j = 0 THEN out ELSE AddFlag(added[j - 1], flags[j])
  IN  added[Len(flags)]

AggregateLinkFlags(names) ==
  LET joined[i \in 0..Len(names)] ==
        IF i = 0 THEN <<>> ELSE AddFlags(joined[i - 1], link_flags[names[i]])
  IN  joined[Len(names)]

------------------------------------------------------------------------------
(* What the caller relies on *)

LinkedBy(n) == IF n \in DOMAIN libraries THEN Elems(libraries[n]) ELSE {}

\* Sets that hold what the executable links and all that their members link.
Closed(S) == Elems(roots) \subseteq S /\ \A n \in S : LinkedBy(n) \subseteq S

\* Every closed set has n: n is linked, directly or not, by the executable.
Needed(n) == \A S \in SUBSET LibraryNames : Closed(S) => n \in S

\* n is linked, directly or not, by m.
Reaches(m, n) ==
  \A S \in SUBSET LibraryNames :
    (LinkedBy(m) \subseteq S /\ \A k \in S : LinkedBy(k) \subseteq S) => n \in S

OnCycle(n) == Reaches(n, n)

\* A successful resolution is the least closed set: all that is needed, nothing
\* else, every library declared and named once, and a library before those it
\* links, as the static linker needs them ("dependents before their deps").
LinkOrder ==
  outcome = "resolved" =>
    /\ Elems(LinkSet) = {n \in LibraryNames : Needed(n)}
    /\ Elems(LinkSet) \subseteq DOMAIN libraries
    /\ \A i, j \in 1..Len(LinkSet) :
         /\ i # j => LinkSet[i] # LinkSet[j]
         /\ LinkSet[j] \in LinkedBy(LinkSet[i]) => i < j

\* An error is never a false alarm, whatever was visited before it: the library
\* named is needed by the executable, and is undeclared, or links itself.
LinkErrors ==
  /\ outcome = "unknown library" => Needed(culprit) /\ culprit \notin DOMAIN libraries
  /\ outcome = "cycle" => Needed(culprit) /\ OnCycle(culprit)

\* The flags handed to the linker are those of the libraries linked, each once,
\* in the order of their first use in the link order.
FlagsInFirstUseOrder ==
  outcome = "resolved" =>
    LET flags == AggregateLinkFlags(LinkSet)
        Uses(f) == {i \in 1..Len(LinkSet) : f \in Elems(link_flags[LinkSet[i]])}
    IN  /\ Elems(flags) = UNION {Elems(link_flags[n]) : n \in Elems(LinkSet)}
        /\ \A i, j \in 1..Len(flags) :
             i < j => /\ flags[i] # flags[j]
                      /\ \E u \in Uses(flags[i]) : \A w \in Uses(flags[j]) : u <= w

------------------------------------------------------------------------------
(* Why: the inductive invariant *)

LinkTypeOK ==
  /\ DOMAIN libraries \subseteq LibraryNames
  /\ \A n \in DOMAIN libraries : libraries[n] \in LinkLists
  /\ roots \in LinkLists
  /\ next_root \in 1..(Len(roots) + 1)
  /\ color \in [LibraryNames -> Colors]
  /\ link_stack \in Seq([name : LibraryNames, next_dep : Nat \ {0}])
  /\ order \in LinkLists
  /\ outcome \in Outcomes

Depth == 1..Len(link_stack)
Name(i) == link_stack[i].name

\* The colors say where a library is: on the stack, in the order or in neither.
ColorsInv ==
  /\ \A n \in LibraryNames : color[n] = "Gray" => \E i \in Depth : Name(i) = n
  /\ \A i \in Depth : color[Name(i)] = "Gray"
  /\ \A i, j \in Depth : i # j => Name(i) # Name(j)
  /\ \A n \in LibraryNames : color[n] = "Black" => \E i \in 1..Len(order) : order[i] = n
  /\ \A i \in 1..Len(order) : color[order[i]] = "Black"
  /\ \A i, j \in 1..Len(order) : i # j => order[i] # order[j]

\* Each frame is at a dependency of its library; those before it are finished,
\* but for the last one, which is the frame above it.
StackInv ==
  \A i \in Depth :
    /\ i < Len(link_stack) => Name(i) \in DOMAIN libraries /\ link_stack[i].next_dep > 1
    /\ Name(i) \in DOMAIN libraries =>
         /\ link_stack[i].next_dep <= Len(libraries[Name(i)]) + 1
         /\ \A k \in 1..(link_stack[i].next_dep - 1) :
              \/ color[libraries[Name(i)][k]] = "Black"
              \/ i < Len(link_stack) /\ libraries[Name(i)][k] = Name(i + 1)

\* A frame is reached from all those below it.
PathInv == \A i, j \in Depth : i < j => Reaches(Name(i), Name(j))

\* What is finished was declared, and all that it links was finished before.
OrderInv ==
  \A i \in 1..Len(order) :
    /\ order[i] \in DOMAIN libraries
    /\ \A d \in LinkedBy(order[i]) : \E j \in 1..(i - 1) : order[j] = d

\* The roots passed are finished, but for the one the stack stands on.
RootsInv ==
  \A i \in 1..(next_root - 1) :
    color[roots[i]] = "Black" \/ (link_stack # <<>> /\ roots[i] = Name(1))

NeededInv == \A n \in LibraryNames : color[n] # "White" => Needed(n)

OutcomeInv ==
  /\ outcome = "resolved" => link_stack = <<>> /\ next_root = Len(roots) + 1
  /\ outcome = "unknown library" =>
       link_stack # <<>> /\ culprit = Top.name /\ ~Declared
  /\ outcome = "cycle" =>
       link_stack # <<>> /\ culprit \in LinkedBy(Top.name) /\ \E i \in Depth : culprit = Name(i)

LinkInv == /\ LinkTypeOK /\ ColorsInv /\ StackInv /\ PathInv
           /\ OrderInv /\ RootsInv /\ NeededInv /\ OutcomeInv
==============================================================================
