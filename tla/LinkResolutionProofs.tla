------------------------ MODULE LinkResolutionProofs -------------------------
(***************************************************************************)
(* Proofs about LinkResolution, for every set of names, every              *)
(* configuration and every list of roots: the invariant of the walk, the   *)
(* order it returns and the errors it reports.                             *)
(***************************************************************************)
EXTENDS LinkResolution, Induction, FiniteSetTheorems, SequenceTheorems, TLAPS

Frames == [name : LibraryNames, next_dep : Nat \ {0}]

------------------------------------------------------------------------------
(* What the steps do to the stack *)

\* A stack without its top frame.
LEMMA FrontFacts ==
  ASSUME NEW S, NEW s \in Seq(S), s # <<>>
  PROVE  /\ Front(s) \in Seq(S)
         /\ Len(Front(s)) = Len(s) - 1
         /\ \A i \in 1..(Len(s) - 1) : Front(s)[i] = s[i]
<1>1. Len(s) \in Nat /\ Len(s) # 0
  OBVIOUS
<1> DEFINE n == Len(s) - 1
<1>2. n \in Int /\ 1 \in Int /\ \A i \in 1..n : s[i] \in S
  BY <1>1
<1> HIDE DEF n
<1>3. /\ SubSeq(s, 1, n) \in Seq(S)
      /\ Len(SubSeq(s, 1, n)) = IF 1 <= n THEN n - 1 + 1 ELSE 0
      /\ \A i \in 1..(n - 1 + 1) : SubSeq(s, 1, n)[i] = s[1 + i - 1]
  BY <1>2, SubSeqProperties
<1>4. n \in Nat /\ n - 1 + 1 = n /\ \A i \in 1..n : 1 + i - 1 = i
  BY <1>1 DEF n
<1> QED BY <1>3, <1>4 DEF Front, n

\* A sequence with one element more.
LEMMA AppendFacts ==
  ASSUME NEW S, NEW s \in Seq(S), NEW e \in S
  PROVE  /\ Append(s, e) \in Seq(S)
         /\ Len(Append(s, e)) = Len(s) + 1
         /\ \A i \in 1..Len(s) : Append(s, e)[i] = s[i]
         /\ Append(s, e)[Len(s) + 1] = e
OBVIOUS

\* The top frame is one of the stack, and what it is at is a library's name.
LEMMA TopFacts ==
  ASSUME LinkTypeOK, Walking
  PROVE  /\ Len(link_stack) \in Depth
         /\ Top \in Frames
         /\ Top.name = Name(Len(link_stack))
         /\ HasDep => /\ Top.next_dep \in 1..Len(Deps)
                      /\ Dep \in LibraryNames
                      /\ Dep \in LinkedBy(Top.name)
<1>1. link_stack \in Seq(Frames) /\ link_stack # <<>>
  BY DEF LinkTypeOK, Walking, Frames
<1>2. Len(link_stack) \in 1..Len(link_stack) /\ Top \in Frames
  BY <1>1 DEF Top
<1>3. Top.next_dep \in Nat \ {0}
  BY <1>2 DEF Frames
<1>4. ASSUME HasDep
      PROVE  /\ Top.next_dep \in 1..Len(Deps)
             /\ Dep \in LibraryNames /\ Dep \in LinkedBy(Top.name)
  <2>1. Top.name \in DOMAIN libraries /\ Top.next_dep <= Len(Deps)
    BY <1>4 DEF HasDep, Declared
  <2>2. Deps \in Seq(LibraryNames)
    BY <2>1 DEF Deps, LinkTypeOK, LinkLists
  <2>3. Top.next_dep \in 1..Len(Deps)
    BY <1>3, <2>1, <2>2
  <2>4. Dep \in LibraryNames
    BY <2>2, <2>3 DEF Dep
  <2>5. Dep \in LinkedBy(Top.name)
    BY <2>1, <2>3 DEF Dep, Deps, LinkedBy, Elems
  <2> QED BY <2>3, <2>4, <2>5
<1> QED BY <1>2, <1>4 DEF Depth, Name, Top

\* The stack whose top frame went on to its next dependency.
LEMMA AdvancedFacts ==
  ASSUME LinkTypeOK, Walking
  PROVE  /\ Advanced \in Seq(Frames)
         /\ Len(Advanced) = Len(link_stack)
         /\ \A i \in Depth : Advanced[i].name = Name(i)
         /\ \A i \in Depth : i # Len(link_stack) => Advanced[i] = link_stack[i]
         /\ Advanced[Len(link_stack)].next_dep = Top.next_dep + 1
<1>1. link_stack \in Seq(Frames) /\ Len(link_stack) \in Depth /\ Top \in Frames
  BY TopFacts DEF LinkTypeOK, Frames
<1>2. [Top EXCEPT !.next_dep = @ + 1] \in Frames
  BY <1>1 DEF Frames
<1>3. Advanced = [link_stack EXCEPT ![Len(link_stack)] = [Top EXCEPT !.next_dep = @ + 1]]
  BY <1>1 DEF Advanced, Top, Depth
<1>4. Advanced \in Seq(Frames) /\ Len(Advanced) = Len(link_stack)
  BY <1>1, <1>2, <1>3 DEF Depth
<1>5. \A i \in Depth : i # Len(link_stack) => Advanced[i] = link_stack[i]
  BY <1>1, <1>3 DEF Depth
<1>6. /\ Advanced[Len(link_stack)].next_dep = Top.next_dep + 1
      /\ Advanced[Len(link_stack)].name = Top.name
  BY <1>1, <1>3 DEF Depth, Frames
<1>7. \A i \in Depth : Advanced[i].name = Name(i)
  BY <1>5, <1>6, TopFacts DEF Name
<1> QED BY <1>4, <1>5, <1>6, <1>7

\* What a step that enters a library changes.
LEMMA DescendFacts ==
  ASSUME LinkTypeOK, Descend
  PROVE  /\ link_stack' \in Seq(Frames)
         /\ Len(link_stack') = Len(link_stack) + 1
         /\ \A i \in Depth : link_stack'[i].name = Name(i)
         /\ \A i \in Depth : i # Len(link_stack) => link_stack'[i] = link_stack[i]
         /\ link_stack'[Len(link_stack)].next_dep = Top.next_dep + 1
         /\ link_stack'[Len(link_stack) + 1] = [name |-> Dep, next_dep |-> 1]
         /\ color' = [color EXCEPT ![Dep] = "Gray"]
<1>1. Walking /\ HasDep /\ link_stack' = Append(Advanced, [name |-> Dep, next_dep |-> 1])
  BY DEF Descend, Push
<1>2. [name |-> Dep, next_dep |-> 1] \in Frames
  BY <1>1, TopFacts DEF Frames
<1>3. Advanced \in Seq(Frames) /\ Len(Advanced) = Len(link_stack)
  BY <1>1, AdvancedFacts
<1>4. /\ link_stack' \in Seq(Frames)
      /\ Len(link_stack') = Len(link_stack) + 1
      /\ \A i \in Depth : link_stack'[i] = Advanced[i]
      /\ link_stack'[Len(link_stack) + 1] = [name |-> Dep, next_dep |-> 1]
  BY <1>1, <1>2, <1>3, AppendFacts DEF Depth
<1> QED BY <1>1, <1>4, AdvancedFacts, TopFacts DEF Descend, Push

\* What a step that finishes a library changes.
LEMMA FinishFacts ==
  ASSUME LinkTypeOK, Finish
  PROVE  /\ link_stack' \in Seq(Frames)
         /\ Len(link_stack') = Len(link_stack) - 1
         /\ \A i \in 1..(Len(link_stack) - 1) : link_stack'[i] = link_stack[i]
         /\ order' \in Seq(LibraryNames)
         /\ Len(order') = Len(order) + 1
         /\ \A i \in 1..Len(order) : order'[i] = order[i]
         /\ order'[Len(order) + 1] = Top.name
         /\ color' = [color EXCEPT ![Top.name] = "Black"]
<1>1. Walking /\ order' = Append(order, Top.name) /\ link_stack' = Front(link_stack)
  BY DEF Finish
<1>2. link_stack \in Seq(Frames) /\ link_stack # <<>> /\ order \in Seq(LibraryNames)
  BY <1>1 DEF LinkTypeOK, Walking, Frames, LinkLists
<1>3. Top.name \in LibraryNames
  BY <1>1, TopFacts DEF Frames
<1>4. /\ link_stack' \in Seq(Frames)
      /\ Len(link_stack') = Len(link_stack) - 1
      /\ \A i \in 1..(Len(link_stack) - 1) : link_stack'[i] = link_stack[i]
  BY <1>1, <1>2, FrontFacts
<1>5. /\ order' \in Seq(LibraryNames)
      /\ Len(order') = Len(order) + 1
      /\ \A i \in 1..Len(order) : order'[i] = order[i]
      /\ order'[Len(order) + 1] = Top.name
  BY <1>1, <1>2, <1>3, AppendFacts
<1> QED BY <1>4, <1>5 DEF Finish

\* What a step that enters a root changes.
LEMMA EnterRootFacts ==
  ASSUME LinkTypeOK, EnterRoot
  PROVE  /\ roots[next_root] \in LibraryNames
         /\ link_stack' \in Seq(Frames)
         /\ Len(link_stack') = 1
         /\ link_stack'[1] = [name |-> roots[next_root], next_dep |-> 1]
         /\ color' = [color EXCEPT ![roots[next_root]] = "Gray"]
<1>1. roots \in Seq(LibraryNames) /\ next_root \in 1..Len(roots)
  BY DEF LinkTypeOK, LinkLists, EnterRoot
<1>2. roots[next_root] \in LibraryNames
  BY <1>1
<1>3. [name |-> roots[next_root], next_dep |-> 1] \in Frames
  BY <1>2 DEF Frames
<1>4. link_stack' = <<[name |-> roots[next_root], next_dep |-> 1]>>
  BY DEF EnterRoot, Push
<1> QED BY <1>2, <1>3, <1>4 DEF EnterRoot, Push

\* The configuration stays as it is, and so does all that is said of it.
LEMMA SameGraph ==
  ASSUME [LinkNext]_linkVars
  PROVE  /\ libraries' = libraries /\ roots' = roots
         /\ \A n : LinkedBy(n)' = LinkedBy(n)
         /\ \A m, n : Reaches(m, n)' = Reaches(m, n)
         /\ \A n : Needed(n)' = Needed(n)
<1>1. libraries' = libraries /\ roots' = roots
  BY DEF LinkNext, linkVars, SkipRoot, EnterRoot, UnknownLibrary, SkipDep, CycleFound,
         Descend, Finish, ReturnOrder
<1>2. \A n : LinkedBy(n)' = LinkedBy(n)
  BY <1>1 DEF LinkedBy, Elems
<1>3. \A m, n : Reaches(m, n)' = Reaches(m, n)
  BY <1>2 DEF Reaches
<1>4. \A n : Needed(n)' = Needed(n)
  BY <1>1, <1>2 DEF Needed, Closed, Elems
<1> QED BY <1>1, <1>2, <1>3, <1>4

\* A library that is not white is one the executable needs, so what it links is
\* needed as well.
LEMMA NeededDep ==
  ASSUME NEW m \in LibraryNames, Needed(m), NEW n \in LinkedBy(m)
  PROVE  Needed(n)
BY DEF Needed, Closed

------------------------------------------------------------------------------
(* The invariant is inductive *)

LEMMA InitLinkInv == LinkInit => LinkInv
<1> SUFFICES ASSUME LinkInit PROVE LinkInv
  OBVIOUS
<1>1. LinkTypeOK
  <2>1. libraries \in Programs /\ roots \in LinkLists
    BY RootListsAssumption DEF LinkInit
  <2>2. /\ DOMAIN libraries \subseteq LibraryNames
        /\ \A n \in DOMAIN libraries : libraries[n] \in LinkLists
    BY <2>1, ProgramsAssumption
  <2>3. next_root \in 1..(Len(roots) + 1)
    BY <2>1 DEF LinkInit, LinkLists
  <2>4. order \in LinkLists /\ link_stack \in Seq([name : LibraryNames, next_dep : Nat \ {0}])
    BY DEF LinkInit, LinkLists
  <2> QED BY <2>1, <2>2, <2>3, <2>4 DEF LinkInit, LinkTypeOK, Colors, Outcomes
<1>2. ColorsInv /\ StackInv /\ PathInv
  BY DEF LinkInit, ColorsInv, StackInv, PathInv, Depth
<1>3. OrderInv /\ RootsInv /\ NeededInv /\ OutcomeInv
  BY DEF LinkInit, OrderInv, RootsInv, NeededInv, OutcomeInv
<1> QED BY <1>1, <1>2, <1>3 DEF LinkInv

LEMMA StepTypeOK == LinkTypeOK /\ [LinkNext]_linkVars => LinkTypeOK'
<1> SUFFICES ASSUME LinkTypeOK, [LinkNext]_linkVars PROVE LinkTypeOK'
  OBVIOUS
<1>1. /\ (DOMAIN libraries)' \subseteq LibraryNames
      /\ \A n \in (DOMAIN libraries)' : libraries'[n] \in LinkLists
      /\ roots' = roots /\ roots' \in LinkLists
  BY SameGraph DEF LinkTypeOK
<1>2. Len(roots) \in Nat /\ next_root \in 1..(Len(roots) + 1)
  BY DEF LinkTypeOK, LinkLists
<1>3. link_stack \in Seq(Frames)
  BY DEF LinkTypeOK, Frames
<1> USE DEF Frames, Colors, Outcomes
<1>4. CASE SkipRoot
  <2>1. next_root' \in 1..(Len(roots') + 1)
    BY <1>1, <1>2, <1>4 DEF SkipRoot
  <2> QED BY <1>1, <1>4, <2>1 DEF SkipRoot, LinkTypeOK
<1>5. CASE EnterRoot
  <2>1. next_root' \in 1..(Len(roots') + 1)
    BY <1>1, <1>2, <1>5 DEF EnterRoot
  <2>2. link_stack' \in Seq(Frames) /\ color' \in [LibraryNames -> Colors]
    BY <1>5, EnterRootFacts DEF LinkTypeOK
  <2> QED BY <1>1, <1>5, <2>1, <2>2 DEF EnterRoot, LinkTypeOK
<1>6. CASE UnknownLibrary
  BY <1>1, <1>2, <1>6 DEF UnknownLibrary, LinkTypeOK
<1>7. CASE SkipDep
  BY <1>1, <1>2, <1>7, AdvancedFacts DEF SkipDep, LinkTypeOK
<1>8. CASE CycleFound
  BY <1>1, <1>2, <1>8 DEF CycleFound, LinkTypeOK
<1>9. CASE Descend
  <2>1. link_stack' \in Seq(Frames) /\ color' \in [LibraryNames -> Colors]
    BY <1>9, DescendFacts DEF LinkTypeOK
  <2> QED BY <1>1, <1>2, <1>9, <2>1 DEF Descend, LinkTypeOK
<1>10. CASE Finish
  <2>1. link_stack' \in Seq(Frames) /\ color' \in [LibraryNames -> Colors] /\ order' \in LinkLists
    BY <1>10, FinishFacts DEF LinkTypeOK, LinkLists
  <2> QED BY <1>1, <1>2, <1>10, <2>1 DEF Finish, LinkTypeOK
<1>11. CASE ReturnOrder
  BY <1>1, <1>2, <1>11 DEF ReturnOrder, LinkTypeOK
<1>12. CASE UNCHANGED linkVars
  BY <1>1, <1>2, <1>12 DEF linkVars, LinkTypeOK
<1> QED BY <1>4, <1>5, <1>6, <1>7, <1>8, <1>9, <1>10, <1>11, <1>12 DEF LinkNext

\* The steps that touch neither the colors nor the order nor the frames' names.
LEMMA QuietSteps ==
  ASSUME LinkTypeOK, [LinkNext]_linkVars, ~EnterRoot, ~Descend, ~Finish
  PROVE  /\ color' = color /\ order' = order
         /\ Len(link_stack') = Len(link_stack)
         /\ \A i \in Depth : link_stack'[i].name = Name(i)
         /\ ~SkipDep => link_stack' = link_stack
<1>1. CASE SkipDep
  BY <1>1, AdvancedFacts DEF SkipDep
<1>2. CASE ~SkipDep
  BY <1>2 DEF LinkNext, linkVars, SkipRoot, UnknownLibrary, CycleFound, ReturnOrder, Name
<1> QED BY <1>1, <1>2

LEMMA StepColorsInv ==
  LinkTypeOK /\ ColorsInv /\ [LinkNext]_linkVars => ColorsInv'
<1> SUFFICES ASSUME LinkTypeOK, ColorsInv, [LinkNext]_linkVars PROVE ColorsInv'
  OBVIOUS
<1>0. /\ link_stack \in Seq(Frames) /\ Len(link_stack) \in Nat /\ Len(order) \in Nat
      /\ color \in [LibraryNames -> Colors]
      /\ \A i \in Depth : Name(i) \in LibraryNames
      /\ \A i \in 1..Len(order) : order[i] \in LibraryNames
  <2>1. /\ link_stack \in Seq(Frames) /\ order \in Seq(LibraryNames)
        /\ color \in [LibraryNames -> Colors]
    BY DEF LinkTypeOK, Frames, LinkLists
  <2>2. \A i \in Depth : link_stack[i] \in Frames
    BY <2>1 DEF Depth
  <2>3. \A i \in Depth : Name(i) \in LibraryNames
    BY <2>2 DEF Frames, Name
  <2> QED BY <2>1, <2>3
<1>1. CASE EnterRoot
  <2> DEFINE r == roots[next_root]
  <2>1. /\ Len(link_stack) = 0 /\ order' = order /\ color[r] # "Black"
    BY <1>0, <1>1 DEF EnterRoot, Between
  <2>2. /\ \A i : i \in Depth' <=> i = 1
        /\ Name(1)' = r /\ r \in LibraryNames
        /\ color' = [color EXCEPT ![r] = "Gray"]
    <3>1. Len(link_stack') = 1
      BY <1>1, EnterRootFacts
    <3>2. \A i : i \in Depth' <=> i = 1
      BY <3>1 DEF Depth
    <3> QED BY <1>1, <3>2, EnterRootFacts DEF Name
  <2> HIDE DEF r
  <2>3. \A n \in LibraryNames : color'[n] = "Gray" => n = r
    BY <1>0, <2>1, <2>2 DEF ColorsInv, Depth
  <2>4. \A n \in LibraryNames : color'[n] = "Black" <=> color[n] = "Black"
    BY <1>0, <2>1, <2>2
  <2> QED BY <1>0, <2>1, <2>2, <2>3, <2>4 DEF ColorsInv
<1>2. CASE Descend
  <2>1. /\ Dep \in LibraryNames /\ color[Dep] = "White" /\ order' = order
    BY <1>2, TopFacts DEF Descend
  <2> PICK top : top = Len(link_stack) + 1
    OBVIOUS
  <2>2. /\ \A i : i \in Depth' <=> i \in Depth \/ i = top
        /\ \A i \in Depth : Name(i)' = Name(i)
        /\ Name(top)' = Dep
        /\ color' = [color EXCEPT ![Dep] = "Gray"]
    <3>1. Len(link_stack') = Len(link_stack) + 1
      BY <1>2, DescendFacts
    <3>2. \A i : i \in Depth' <=> i \in Depth \/ i = top
      BY <1>0, <3>1 DEF Depth
    <3>3. \A i \in Depth : Name(i)' = Name(i)
      BY <1>2, DescendFacts DEF Name
    <3>4. Name(top)' = Dep
      BY <1>2, DescendFacts DEF Name
    <3> QED BY <1>2, <3>2, <3>3, <3>4, DescendFacts
  <2>3. \A n \in LibraryNames : color'[n] = "Gray" => n = Dep \/ color[n] = "Gray"
    BY <1>0, <2>1, <2>2
  <2>4. \A n \in LibraryNames : color'[n] = "Black" <=> color[n] = "Black"
    BY <1>0, <2>1, <2>2
  <2>5. \A i \in Depth : Name(i) # Dep
    BY <2>1 DEF ColorsInv
  <2>6. \A n \in LibraryNames : color'[n] = "Gray" => \E i \in Depth' : Name(i)' = n
    BY <2>2, <2>3 DEF ColorsInv
  <2>7. \A i \in Depth' : color'[Name(i)'] = "Gray"
    BY <1>0, <2>1, <2>2, <2>5 DEF ColorsInv
  <2>8. \A i, j \in Depth' : i # j => Name(i)' # Name(j)'
    BY <2>2, <2>5 DEF ColorsInv
  <2> QED BY <1>0, <2>1, <2>4, <2>6, <2>7, <2>8 DEF ColorsInv
<1>3. CASE Finish
  <2> DEFINE n0 == Top.name
  <2>1. /\ Len(link_stack) \in Depth /\ n0 \in LibraryNames /\ n0 = Name(Len(link_stack))
    BY <1>0, <1>3, TopFacts DEF Finish
  <2>2. /\ \A i : i \in Depth' <=> i \in Depth /\ i # Len(link_stack)
        /\ \A i \in Depth' : Name(i)' = Name(i)
        /\ color' = [color EXCEPT ![n0] = "Black"]
        /\ \A i : i \in (1..Len(order))' <=> i \in 1..Len(order) \/ i = Len(order) + 1
        /\ \A i \in 1..Len(order) : order'[i] = order[i]
        /\ order'[Len(order) + 1] = n0
    <3>1. Len(link_stack') = Len(link_stack) - 1 /\ Len(order') = Len(order) + 1
      BY <1>3, FinishFacts
    <3>2. /\ \A i : i \in Depth' <=> i \in Depth /\ i # Len(link_stack)
          /\ \A i \in Depth' : i \in 1..(Len(link_stack) - 1)
      BY <1>0, <3>1 DEF Depth
    <3>3. \A i \in Depth' : Name(i)' = Name(i)
      BY <1>3, <3>2, FinishFacts DEF Name
    <3>4. \A i : i \in (1..Len(order))' <=> i \in 1..Len(order) \/ i = Len(order) + 1
      BY <1>0, <3>1
    <3> QED BY <1>3, <3>2, <3>3, <3>4, FinishFacts
  <2> HIDE DEF n0
  <2>3. \A i \in Depth' : Name(i) # n0
    BY <2>1, <2>2 DEF ColorsInv
  <2>4. \A n \in LibraryNames : color'[n] = "Gray" => color[n] = "Gray" /\ n # n0
    BY <1>0, <2>1, <2>2
  <2>5. \A n \in LibraryNames : color'[n] = "Black" <=> color[n] = "Black" \/ n = n0
    BY <1>0, <2>1, <2>2
  <2>6. color[n0] = "Gray" /\ \A i \in 1..Len(order) : order[i] # n0
    BY <2>1 DEF ColorsInv
  <2>7. \A n \in LibraryNames : color'[n] = "Gray" => \E i \in Depth' : Name(i)' = n
    BY <2>1, <2>2, <2>4 DEF ColorsInv
  <2>8. \A i \in Depth' : color'[Name(i)'] = "Gray"
    BY <1>0, <2>1, <2>2, <2>3 DEF ColorsInv
  <2>9. \A i, j \in Depth' : i # j => Name(i)' # Name(j)'
    BY <2>2 DEF ColorsInv
  <2>10. \A n \in LibraryNames : color'[n] = "Black" => \E i \in (1..Len(order))' : order'[i] = n
    BY <2>2, <2>5 DEF ColorsInv
  <2>11. \A i \in (1..Len(order))' : color'[order'[i]] = "Black"
    BY <1>0, <2>1, <2>2, <2>5 DEF ColorsInv
  <2>12. \A i, j \in (1..Len(order))' : i # j => order'[i] # order'[j]
    BY <2>2, <2>6 DEF ColorsInv
  <2> QED BY <2>7, <2>8, <2>9, <2>10, <2>11, <2>12 DEF ColorsInv
<1>4. CASE ~EnterRoot /\ ~Descend /\ ~Finish
  <2>1. color' = color /\ order' = order /\ Depth' = Depth /\ \A i \in Depth : Name(i)' = Name(i)
    BY <1>4, QuietSteps DEF Depth, Name
  <2> QED BY <2>1 DEF ColorsInv
<1> QED BY <1>1, <1>2, <1>3, <1>4

\* Black libraries stay black, and the graph stays as it is.
LEMMA BlackStays ==
  ASSUME LinkTypeOK, ColorsInv, [LinkNext]_linkVars,
         NEW n \in LibraryNames, color[n] = "Black"
  PROVE  color'[n] = "Black"
<1>0. color \in [LibraryNames -> Colors]
  BY DEF LinkTypeOK
<1>1. CASE EnterRoot
  BY <1>0, <1>1, EnterRootFacts DEF EnterRoot
<1>2. CASE Descend
  <2>1. Dep \in LibraryNames /\ color[Dep] = "White"
    BY <1>2, TopFacts DEF Descend
  <2> QED BY <1>0, <1>2, <2>1, DescendFacts
<1>3. CASE Finish
  <2>1. Top.name \in LibraryNames
    BY <1>3, TopFacts DEF Finish, Frames
  <2> QED BY <1>0, <1>3, <2>1, FinishFacts
<1> QED BY <1>1, <1>2, <1>3, QuietSteps

\* The names in a library's list are library names.
LEMMA ListedNames ==
  ASSUME LinkTypeOK, NEW n \in DOMAIN libraries
  PROVE  /\ Len(libraries[n]) \in Nat
         /\ \A k \in 1..Len(libraries[n]) : libraries[n][k] \in LibraryNames
BY DEF LinkTypeOK, LinkLists

LEMMA StepStackInv ==
  LinkTypeOK /\ ColorsInv /\ StackInv /\ [LinkNext]_linkVars => StackInv'
<1> SUFFICES ASSUME LinkTypeOK, ColorsInv, StackInv, [LinkNext]_linkVars,
                    NEW i \in Depth'
             PROVE  /\ i < Len(link_stack') =>
                         Name(i)' \in (DOMAIN libraries)' /\ link_stack'[i].next_dep > 1
                    /\ Name(i)' \in (DOMAIN libraries)' =>
                         /\ link_stack'[i].next_dep <= Len(libraries'[Name(i)']) + 1
                         /\ \A k \in 1..(link_stack'[i].next_dep - 1) :
                              \/ color'[libraries'[Name(i)'][k]] = "Black"
                              \/ /\ i < Len(link_stack')
                                 /\ libraries'[Name(i)'][k] = link_stack'[i + 1].name
  BY DEF StackInv, Name
<1>0. /\ Len(link_stack) \in Nat /\ libraries' = libraries
      /\ \A j \in Depth : Name(j) \in LibraryNames /\ link_stack[j].next_dep \in Nat \ {0}
      /\ \A n \in LibraryNames : color[n] = "Black" => color'[n] = "Black"
  <2>1. link_stack \in Seq(Frames)
    BY DEF LinkTypeOK, Frames
  <2>2. \A j \in Depth : link_stack[j] \in Frames
    BY <2>1 DEF Depth
  <2> QED BY <2>1, <2>2, SameGraph, BlackStays DEF Frames, Name
<1> DEFINE n == Name(i)
           next == link_stack[i].next_dep
           L == Len(link_stack)
\* A frame that is untouched, and whose successor is untouched, keeps its part.
<1>1. ASSUME i \in Depth, link_stack'[i] = link_stack[i], i < L, i < Len(link_stack'),
             link_stack'[i + 1].name = Name(i + 1)
      PROVE  /\ n \in DOMAIN libraries /\ next > 1
             /\ next <= Len(libraries[n]) + 1
             /\ \A k \in 1..(next - 1) :
                  color'[libraries[n][k]] = "Black" \/ libraries[n][k] = link_stack'[i + 1].name
  <2>1. n \in DOMAIN libraries /\ next > 1 /\ next <= Len(libraries[n]) + 1
    BY <1>1 DEF StackInv
  <2>2. \A k \in 1..(next - 1) : color[libraries[n][k]] = "Black" \/ libraries[n][k] = Name(i + 1)
    BY <1>1, <2>1 DEF StackInv
  <2>3. \A k \in 1..(next - 1) : libraries[n][k] \in LibraryNames
    BY <1>0, <1>1, <2>1, ListedNames
  <2> QED BY <1>0, <1>1, <2>1, <2>2, <2>3
<1>2. CASE EnterRoot
  <2>1. i = 1 /\ Len(link_stack') = 1 /\ link_stack'[i].next_dep = 1
    <3>1. Len(link_stack') = 1
      BY <1>2, EnterRootFacts
    <3>2. i = 1
      BY <3>1 DEF Depth
    <3> QED BY <1>2, <3>1, <3>2, EnterRootFacts
  <2>2. /\ roots[next_root] \in LibraryNames /\ Name(i)' = roots[next_root]
    BY <1>2, <2>1, EnterRootFacts DEF Name
  <2>3. Name(i)' \in DOMAIN libraries => Len(libraries[Name(i)']) \in Nat
    BY <2>2, ListedNames
  <2> QED BY <1>0, <2>1, <2>3
<1>3. CASE Descend
  <2>1. /\ Len(link_stack') = L + 1 /\ Declared /\ L \in Depth
        /\ Top.next_dep \in 1..Len(Deps) /\ Dep \in LibraryNames
        /\ Top.name = Name(L) /\ Top.next_dep = link_stack[L].next_dep
    BY <1>3, TopFacts, DescendFacts DEF Descend, HasDep, Top
  <2>2. i \in 1..(L + 1)
    BY <2>1 DEF Depth
  <2>3. CASE i < L
    <3>1. i \in Depth /\ i + 1 \in Depth /\ i # L /\ i < Len(link_stack')
      BY <1>0, <2>1, <2>2, <2>3 DEF Depth
    <3>2. link_stack'[i] = link_stack[i] /\ link_stack'[i + 1].name = Name(i + 1)
      BY <1>3, <3>1, DescendFacts
    <3> QED BY <1>0, <1>1, <2>3, <3>1, <3>2 DEF Name
  <2>4. CASE i = L
    <3>1. /\ Name(i)' = n /\ link_stack'[i].next_dep = next + 1
          /\ link_stack'[i + 1].name = Dep
      BY <1>3, <2>1, <2>4, DescendFacts DEF Name
    <3>2. n \in DOMAIN libraries /\ next \in 1..Len(libraries[n]) /\ Dep = libraries[n][next]
      BY <2>1, <2>4 DEF Declared, Deps, Dep
    <3>3. \A k \in 1..(next - 1) : color[libraries[n][k]] = "Black"
      BY <2>1, <2>4, <3>2 DEF StackInv
    <3>4. \A k \in 1..Len(libraries[n]) : libraries[n][k] \in LibraryNames
      BY <3>2, ListedNames
    <3>5. Len(libraries[n]) \in Nat
      BY <3>2, ListedNames
    <3>6. \A k \in 1..(next - 1) : color'[libraries[n][k]] = "Black"
      BY <1>0, <3>2, <3>3, <3>4, <3>5
    <3>7. \A k \in 1..next : k \in 1..(next - 1) \/ k = next
      BY <3>2
    <3> QED BY <1>0, <2>1, <2>4, <3>1, <3>2, <3>5, <3>6, <3>7
  <2>5. CASE i = L + 1
    <3>1. Name(i)' = Dep /\ link_stack'[i].next_dep = 1
      BY <1>3, <2>5, DescendFacts DEF Name
    <3>2. Dep \in DOMAIN libraries => Len(libraries[Dep]) \in Nat
      BY ListedNames
    <3> QED BY <1>0, <2>1, <2>5, <3>1, <3>2
  <2> QED BY <1>0, <2>2, <2>3, <2>4, <2>5
<1>4. CASE Finish
  <2>1. /\ Len(link_stack') = L - 1 /\ L \in Depth /\ Top.name = Name(L)
        /\ Top.name \in LibraryNames /\ color' = [color EXCEPT ![Top.name] = "Black"]
    BY <1>4, TopFacts, FinishFacts DEF Finish, Frames
  <2>2. i \in 1..(L - 1) /\ i \in Depth /\ link_stack'[i] = link_stack[i]
    <3>1. i \in 1..(L - 1)
      BY <2>1 DEF Depth
    <3>2. i \in Depth
      BY <1>0, <3>1 DEF Depth
    <3> QED BY <1>4, <3>1, <3>2, FinishFacts
  <2>3. CASE i < L - 1
    <3>1. link_stack'[i + 1] = link_stack[i + 1]
      BY <1>0, <1>4, <2>2, <2>3, FinishFacts
    <3> QED BY <1>0, <1>1, <2>1, <2>2, <2>3, <3>1 DEF Name
  <2>4. CASE i = L - 1
    <3>1. n \in DOMAIN libraries /\ next > 1 /\ next <= Len(libraries[n]) + 1
      BY <1>0, <2>2, <2>4 DEF StackInv
    <3>2. \A k \in 1..(next - 1) : color[libraries[n][k]] = "Black" \/ libraries[n][k] = Top.name
      <4>1. i + 1 = L /\ Name(i + 1) = Top.name
        BY <1>0, <2>1, <2>4
      <4> QED BY <2>2, <3>1, <4>1 DEF StackInv
    <3>3. \A k \in 1..(next - 1) : libraries[n][k] \in LibraryNames
      BY <1>0, <2>2, <3>1, ListedNames
    <3>4. color'[Top.name] = "Black"
      BY <2>1 DEF LinkTypeOK
    <3>5. \A k \in 1..(next - 1) : color'[libraries[n][k]] = "Black"
      BY <1>0, <3>2, <3>3, <3>4
    <3> QED BY <1>0, <2>1, <2>2, <2>4, <3>1, <3>5 DEF Name
  <2> QED BY <1>0, <2>2, <2>3, <2>4
<1>5. CASE SkipDep
  <2>1. /\ Declared /\ L \in Depth /\ color' = color
        /\ Top.next_dep \in 1..Len(Deps) /\ color[Dep] = "Black"
        /\ Top.name = Name(L) /\ Top.next_dep = link_stack[L].next_dep
    BY <1>5, TopFacts DEF SkipDep, HasDep, Top
  <2>2. Len(link_stack') = L /\ i \in Depth /\ \A j \in Depth : link_stack'[j].name = Name(j)
    BY <1>5, AdvancedFacts DEF SkipDep, Depth
  <2>3. CASE i < L
    <3>1. link_stack'[i] = link_stack[i] /\ i + 1 \in Depth
      BY <1>0, <1>5, <2>2, <2>3, AdvancedFacts DEF SkipDep, Depth
    <3> QED BY <1>0, <1>1, <2>2, <2>3, <3>1 DEF Name
  <2>4. CASE i = L
    <3>1. link_stack'[i].next_dep = next + 1
      BY <1>5, <2>1, <2>4, AdvancedFacts DEF SkipDep
    <3>2. n \in DOMAIN libraries /\ next \in 1..Len(libraries[n]) /\ Dep = libraries[n][next]
      BY <2>1, <2>4 DEF Declared, Deps, Dep
    <3>3. \A k \in 1..(next - 1) : color[libraries[n][k]] = "Black"
      BY <2>1, <2>4, <3>2 DEF StackInv
    <3>4. \A k \in 1..next : k \in 1..(next - 1) \/ k = next
      BY <3>2
    <3>5. Len(libraries[n]) \in Nat
      BY <3>2, ListedNames
    <3>6. Name(i)' = n
      BY <2>2 DEF Name
    <3> QED BY <1>0, <2>1, <2>2, <2>4, <3>1, <3>2, <3>3, <3>4, <3>5, <3>6
  <2> QED BY <1>0, <2>2, <2>3, <2>4 DEF Depth
<1>6. CASE ~EnterRoot /\ ~Descend /\ ~Finish /\ ~SkipDep
  <2>1. color' = color /\ link_stack' = link_stack
    BY <1>6, QuietSteps
  <2> QED BY <1>0, <2>1 DEF StackInv, Depth, Name
<1> QED BY <1>2, <1>3, <1>4, <1>5, <1>6

LEMMA StepPathInv ==
  LinkTypeOK /\ PathInv /\ [LinkNext]_linkVars => PathInv'
<1> SUFFICES ASSUME LinkTypeOK, PathInv, [LinkNext]_linkVars,
                    NEW i \in Depth', NEW j \in Depth', i < j
             PROVE  Reaches(Name(i)', Name(j)')
  BY SameGraph DEF PathInv
<1>0. Len(link_stack) \in Nat
  BY DEF LinkTypeOK
<1>1. CASE EnterRoot
  <2>1. Len(link_stack') = 1
    BY <1>1, EnterRootFacts
  <2> QED BY <2>1 DEF Depth
<1>2. CASE Descend
  <2>1. /\ Len(link_stack') = Len(link_stack) + 1 /\ Dep \in LinkedBy(Top.name)
        /\ Top.name = Name(Len(link_stack)) /\ Len(link_stack) \in Depth
    BY <1>2, TopFacts, DescendFacts DEF Descend
  <2>2. i \in Depth /\ Name(i)' = Name(i) /\ (j \in Depth \/ j = Len(link_stack) + 1)
    <3>1. i \in Depth /\ (j \in Depth \/ j = Len(link_stack) + 1)
      BY <1>0, <2>1 DEF Depth
    <3> QED BY <1>2, <3>1, DescendFacts DEF Name
  <2>3. CASE j \in Depth
    <3>1. Name(j)' = Name(j)
      BY <1>2, <2>3, DescendFacts DEF Name
    <3> QED BY <2>2, <2>3, <3>1 DEF PathInv
  <2>4. CASE j = Len(link_stack) + 1
    <3>1. Name(j)' = Dep
      BY <1>2, <2>4, DescendFacts DEF Name
    <3>2. i = Len(link_stack) \/ Reaches(Name(i), Top.name)
      BY <1>0, <2>1, <2>2, <2>4 DEF PathInv, Depth
    <3>3. Reaches(Name(i), Dep)
      BY <2>1, <3>2 DEF Reaches
    <3> QED BY <2>2, <3>1, <3>3
  <2> QED BY <2>2, <2>3, <2>4
<1>3. CASE Finish
  <2>1. Len(link_stack') = Len(link_stack) - 1
    BY <1>3, FinishFacts
  <2>2. /\ i \in 1..(Len(link_stack) - 1) /\ j \in 1..(Len(link_stack) - 1)
        /\ i \in Depth /\ j \in Depth
    BY <1>0, <2>1 DEF Depth
  <2>3. Name(i)' = Name(i) /\ Name(j)' = Name(j)
    BY <1>3, <2>2, FinishFacts DEF Name
  <2> QED BY <2>2, <2>3 DEF PathInv
<1>4. CASE ~EnterRoot /\ ~Descend /\ ~Finish
  <2>1. /\ i \in Depth /\ j \in Depth /\ Name(i)' = Name(i) /\ Name(j)' = Name(j)
    BY <1>4, QuietSteps DEF Depth, Name
  <2> QED BY <2>1 DEF PathInv
<1> QED BY <1>1, <1>2, <1>3, <1>4

LEMMA StepOrderInv ==
  LinkTypeOK /\ ColorsInv /\ StackInv /\ OrderInv /\ [LinkNext]_linkVars => OrderInv'
<1> SUFFICES ASSUME LinkTypeOK, ColorsInv, StackInv, OrderInv, [LinkNext]_linkVars
             PROVE  OrderInv'
  OBVIOUS
<1>0. Len(order) \in Nat /\ libraries' = libraries /\ \A n : LinkedBy(n)' = LinkedBy(n)
  BY SameGraph DEF LinkTypeOK, LinkLists
<1>1. CASE Finish
  <2> SUFFICES ASSUME NEW i \in 1..Len(order')
               PROVE  /\ order'[i] \in DOMAIN libraries
                      /\ \A d \in LinkedBy(order'[i]) : \E j \in 1..(i - 1) : order'[j] = d
    BY <1>0 DEF OrderInv
  <2>1. /\ Len(order') = Len(order) + 1
        /\ \A j \in 1..Len(order) : order'[j] = order[j]
        /\ order'[Len(order) + 1] = Top.name
    BY <1>1, FinishFacts
  <2>2. CASE i \in 1..Len(order)
    <3>1. \A j \in 1..(i - 1) : j \in 1..Len(order) /\ order'[j] = order[j]
      BY <1>0, <2>1, <2>2
    <3>2. order'[i] = order[i]
      BY <2>1, <2>2
    <3>3. /\ order[i] \in DOMAIN libraries
          /\ \A d \in LinkedBy(order[i]) : \E j \in 1..(i - 1) : order[j] = d
      BY <2>2 DEF OrderInv
    <3> QED BY <3>1, <3>2, <3>3
  <2>3. CASE i = Len(order) + 1
    <3>1. /\ Top.name \in DOMAIN libraries /\ Deps = libraries[Top.name]
          /\ Len(link_stack) \in Depth /\ Top.name = Name(Len(link_stack))
          /\ Top.next_dep = link_stack[Len(link_stack)].next_dep /\ Top.next_dep \in Nat
          /\ Top.next_dep > Len(Deps)
      <4>1. Declared /\ ~HasDep /\ Walking
        BY <1>1 DEF Finish
      <4>2. Top \in Frames
        BY <4>1, TopFacts
      <4>3. Top.next_dep \in Nat
        BY <4>2 DEF Frames
      <4>4. Len(Deps) \in Nat /\ ~(Top.next_dep <= Len(Deps))
        BY <4>1, ListedNames DEF Declared, HasDep, Deps
      <4> QED BY <4>1, <4>3, <4>4, TopFacts DEF Declared, Deps, Top
    <3>2. \A k \in 1..(Top.next_dep - 1) : color[Deps[k]] = "Black"
      BY <3>1 DEF StackInv
    <3>3. /\ Len(Deps) \in Nat
          /\ \A k \in 1..Len(Deps) : Deps[k] \in LibraryNames /\ k \in 1..(Top.next_dep - 1)
      BY <3>1, ListedNames
    <3>4. \A d \in LinkedBy(Top.name) : d \in LibraryNames /\ color[d] = "Black"
      BY <3>1, <3>2, <3>3 DEF LinkedBy, Elems
    <3>5. \A d \in LinkedBy(Top.name) : \E j \in 1..Len(order) : order[j] = d
      BY <3>4 DEF ColorsInv
    <3> QED BY <1>0, <2>1, <2>3, <3>1, <3>5
  <2> QED BY <1>0, <2>1, <2>2, <2>3
<1>2. CASE ~Finish
  <2>1. order' = order
    BY <1>2 DEF LinkNext, linkVars, SkipRoot, EnterRoot, UnknownLibrary, SkipDep, CycleFound,
                Descend, ReturnOrder
  <2>2. \A i \in 1..Len(order) : LinkedBy(order[i])' = LinkedBy(order[i])
    BY <1>0, <2>1 DEF LinkedBy, Elems
  <2>3. ASSUME NEW i \in (1..Len(order))'
        PROVE  /\ order'[i] \in (DOMAIN libraries)'
               /\ \A d \in LinkedBy(order[i])' : \E j \in 1..(i - 1) : order'[j] = d
    BY <1>0, <2>1, <2>2, <2>3 DEF OrderInv
  <2> QED BY <2>3 DEF OrderInv
<1> QED BY <1>1, <1>2

LEMMA StepRootsInv ==
  LinkTypeOK /\ ColorsInv /\ RootsInv /\ [LinkNext]_linkVars => RootsInv'
<1> SUFFICES ASSUME LinkTypeOK, ColorsInv, RootsInv, [LinkNext]_linkVars,
                    NEW i \in 1..(next_root' - 1)
             PROVE  \/ color'[roots[i]] = "Black"
                    \/ link_stack' # <<>> /\ roots[i] = Name(1)'
  BY SameGraph DEF RootsInv
<1>0. /\ roots \in Seq(LibraryNames) /\ next_root \in 1..(Len(roots) + 1)
      /\ link_stack \in Seq(Frames) /\ Len(roots) \in Nat
  BY DEF LinkTypeOK, LinkLists, Frames
<1>1. ASSUME NEW r \in 1..(next_root - 1)
      PROVE  /\ roots[r] \in LibraryNames
             /\ color[roots[r]] = "Black" => color'[roots[r]] = "Black"
  <2>1. r \in 1..Len(roots)
    BY <1>0
  <2>2. roots[r] \in LibraryNames
    BY <1>0, <2>1
  <2> QED BY <2>2, BlackStays
<1>2. CASE SkipRoot
  <2>1. /\ next_root' = next_root + 1 /\ color' = color /\ color[roots[next_root]] = "Black"
        /\ link_stack = <<>>
    BY <1>2 DEF SkipRoot, Between
  <2>2. i = next_root \/ i \in 1..(next_root - 1)
    BY <1>0, <2>1
  <2> QED BY <2>1, <2>2 DEF RootsInv
<1>3. CASE EnterRoot
  <2>1. next_root' = next_root + 1 /\ link_stack = <<>>
    BY <1>3 DEF EnterRoot, Between
  <2>2. i = next_root \/ i \in 1..(next_root - 1)
    BY <1>0, <2>1
  <2>3. Len(link_stack') = 1 /\ Name(1)' = roots[next_root]
    BY <1>3, EnterRootFacts DEF Name
  <2>4. link_stack' # <<>>
    BY <2>3
  <2> QED BY <1>1, <2>1, <2>2, <2>3, <2>4 DEF RootsInv
<1>4. CASE Descend
  <2>1. next_root' = next_root /\ Len(link_stack') = Len(link_stack) + 1 /\ 1 \in Depth
    BY <1>0, <1>4, TopFacts, DescendFacts DEF Descend, Depth
  <2>2. Name(1)' = Name(1) /\ link_stack' # <<>>
    BY <1>0, <1>4, <2>1, DescendFacts DEF Name
  <2> QED BY <1>1, <2>1, <2>2 DEF RootsInv
<1>5. CASE Finish
  <2>1. /\ next_root' = next_root /\ Len(link_stack') = Len(link_stack) - 1
        /\ Len(link_stack) \in Depth /\ Top.name = Name(Len(link_stack))
        /\ Top.name \in LibraryNames /\ color' = [color EXCEPT ![Top.name] = "Black"]
    BY <1>5, TopFacts, FinishFacts DEF Finish, Frames
  <2>2. color'[Top.name] = "Black"
    BY <2>1 DEF LinkTypeOK
  <2>3. CASE Len(link_stack) = 1
    BY <1>1, <2>1, <2>2, <2>3 DEF RootsInv
  <2>4. CASE Len(link_stack) # 1
    <3>1. 1 \in 1..(Len(link_stack) - 1)
      BY <1>0, <2>1, <2>4 DEF Depth
    <3>2. Name(1)' = Name(1) /\ link_stack' # <<>>
      BY <1>5, <2>1, <3>1, FinishFacts DEF Name
    <3> QED BY <1>1, <2>1, <3>2 DEF RootsInv
  <2> QED BY <2>3, <2>4
<1>6. CASE ~SkipRoot /\ ~EnterRoot /\ ~Descend /\ ~Finish
  <2>1. next_root' = next_root
    BY <1>6 DEF LinkNext, linkVars, UnknownLibrary, SkipDep, CycleFound, ReturnOrder
  <2>2. /\ color' = color /\ Len(link_stack') = Len(link_stack)
        /\ \A j \in Depth : link_stack'[j].name = Name(j)
    BY <1>6, QuietSteps
  <2>3. CASE link_stack = <<>>
    BY <2>1, <2>2, <2>3 DEF RootsInv
  <2>4. CASE link_stack # <<>>
    <3>1. 1 \in Depth
      BY <1>0, <2>4 DEF Depth
    <3>2. link_stack' # <<>> /\ Name(1)' = Name(1)
      BY <1>0, <2>2, <2>4, <3>1 DEF Name, Depth
    <3> QED BY <2>1, <2>2, <3>2 DEF RootsInv
  <2> QED BY <2>3, <2>4
<1> QED BY <1>2, <1>3, <1>4, <1>5, <1>6

LEMMA StepNeededInv ==
  LinkTypeOK /\ ColorsInv /\ NeededInv /\ [LinkNext]_linkVars => NeededInv'
<1> SUFFICES ASSUME LinkTypeOK, ColorsInv, NeededInv, [LinkNext]_linkVars,
                    NEW n \in LibraryNames, color'[n] # "White"
             PROVE  Needed(n)
  BY SameGraph DEF NeededInv
<1>0. color \in [LibraryNames -> Colors]
  BY DEF LinkTypeOK
<1>1. CASE EnterRoot
  <2>1. n = roots[next_root] \/ color[n] # "White"
    BY <1>0, <1>1, EnterRootFacts
  <2>2. roots[next_root] \in Elems(roots)
    BY <1>1 DEF EnterRoot, Elems, LinkTypeOK, LinkLists
  <2>3. Needed(roots[next_root])
    BY <2>2 DEF Needed, Closed
  <2> QED BY <2>1, <2>3 DEF NeededInv
<1>2. CASE Descend
  <2>1. /\ Dep \in LibraryNames /\ Dep \in LinkedBy(Top.name) /\ Top.name \in LibraryNames
        /\ Len(link_stack) \in Depth /\ Top.name = Name(Len(link_stack))
    BY <1>2, TopFacts DEF Descend, Frames
  <2>2. color[Top.name] = "Gray"
    BY <2>1 DEF ColorsInv
  <2>3. Needed(Dep)
    BY <2>1, <2>2, NeededDep DEF NeededInv
  <2>4. n = Dep \/ color[n] # "White"
    BY <1>0, <1>2, <2>1, DescendFacts
  <2> QED BY <2>3, <2>4 DEF NeededInv
<1>3. CASE Finish
  <2>1. /\ Top.name \in LibraryNames
        /\ Len(link_stack) \in Depth /\ Top.name = Name(Len(link_stack))
    BY <1>3, TopFacts DEF Finish, Frames
  <2>2. color[Top.name] = "Gray"
    BY <2>1 DEF ColorsInv
  <2>3. n = Top.name \/ color[n] # "White"
    BY <1>0, <1>3, <2>1, FinishFacts
  <2> QED BY <2>2, <2>3 DEF NeededInv
<1> QED BY <1>1, <1>2, <1>3, QuietSteps DEF NeededInv

LEMMA StepOutcomeInv ==
  LinkTypeOK /\ ColorsInv /\ OutcomeInv /\ [LinkNext]_linkVars => OutcomeInv'
<1> SUFFICES ASSUME LinkTypeOK, ColorsInv, OutcomeInv, [LinkNext]_linkVars
             PROVE  OutcomeInv'
  OBVIOUS
<1>0. libraries' = libraries /\ roots' = roots /\ \A n : LinkedBy(n)' = LinkedBy(n)
  BY SameGraph
<1>1. CASE SkipRoot \/ EnterRoot \/ SkipDep \/ Descend \/ Finish
  BY <1>1 DEF SkipRoot, EnterRoot, SkipDep, Descend, Finish, Between, Walking, OutcomeInv
<1>2. CASE UnknownLibrary
  BY <1>0, <1>2 DEF UnknownLibrary, Walking, Declared, Top, OutcomeInv
<1>3. CASE CycleFound
  <2>1. Dep \in LinkedBy(Top.name) /\ Dep \in LibraryNames /\ color[Dep] = "Gray"
    BY <1>3, TopFacts DEF CycleFound
  <2>2. \E i \in Depth : Name(i) = Dep
    BY <2>1 DEF ColorsInv
  <2>3. /\ link_stack' = link_stack /\ link_stack # <<>> /\ culprit' = Dep /\ outcome' = "cycle"
    BY <1>3 DEF CycleFound, Walking
  <2>4. Depth' = Depth /\ Top' = Top /\ \A i \in Depth : Name(i)' = Name(i)
    BY <2>3 DEF Depth, Top, Name
  <2> QED BY <1>0, <2>1, <2>2, <2>3, <2>4 DEF OutcomeInv
<1>4. CASE ReturnOrder
  <2>1. next_root = Len(roots) + 1
    BY <1>4 DEF ReturnOrder, LinkTypeOK, LinkLists
  <2> QED BY <1>0, <1>4, <2>1 DEF ReturnOrder, Between, OutcomeInv
<1>5. CASE UNCHANGED linkVars
  <2>1. UNCHANGED <<libraries, roots, next_root, link_stack, outcome, culprit>>
    BY <1>5 DEF linkVars
  <2>2. Depth' = Depth /\ Top' = Top /\ Declared' = Declared /\ \A i : Name(i)' = Name(i)
    BY <2>1 DEF Depth, Top, Declared, Name
  <2> QED BY <1>0, <2>1, <2>2 DEF OutcomeInv
<1> QED BY <1>1, <1>2, <1>3, <1>4, <1>5 DEF LinkNext

\* LinkInv is kept by every step.
LEMMA StepLinkInv == LinkInv /\ [LinkNext]_linkVars => LinkInv'
BY StepTypeOK, StepColorsInv, StepStackInv, StepPathInv, StepOrderInv, StepRootsInv,
   StepNeededInv, StepOutcomeInv DEF LinkInv

------------------------------------------------------------------------------
(* What follows from the invariant *)

\* When the walk is over, every root is in the order.
LEMMA RootsFinished ==
  ASSUME LinkInv, outcome = "resolved"
  PROVE  Elems(roots) \subseteq Elems(order)
<1>1. link_stack = <<>> /\ next_root = Len(roots) + 1
  BY DEF LinkInv, OutcomeInv
<1>2. roots \in Seq(LibraryNames)
  BY DEF LinkInv, LinkTypeOK, LinkLists
<1>3. \A i \in 1..Len(roots) : roots[i] \in LibraryNames /\ color[roots[i]] = "Black"
  BY <1>1, <1>2 DEF LinkInv, RootsInv
<1> QED BY <1>3 DEF LinkInv, ColorsInv, Elems

\* The order holds exactly the libraries the executable needs.
LEMMA OrderIsNeeded ==
  ASSUME LinkInv, outcome = "resolved"
  PROVE  Elems(order) = {n \in LibraryNames : Needed(n)}
<1>1. Elems(order) \subseteq LibraryNames
  BY DEF LinkInv, LinkTypeOK, LinkLists, Elems
<1>2. ASSUME NEW n \in Elems(order) PROVE Needed(n)
  <2>1. color[n] = "Black"
    BY <1>2 DEF LinkInv, ColorsInv, Elems
  <2> QED BY <1>1, <1>2, <2>1 DEF LinkInv, NeededInv
<1>3. Closed(Elems(order))
  <2>1. ASSUME NEW n \in Elems(order), NEW d \in LinkedBy(n) PROVE d \in Elems(order)
    <3>1. PICK i \in 1..Len(order) : order[i] = n
      BY <2>1 DEF Elems
    <3>2. PICK j \in 1..(i - 1) : order[j] = d
      BY <2>1, <3>1 DEF LinkInv, OrderInv
    <3>3. Len(order) \in Nat
      BY DEF LinkInv, LinkTypeOK, LinkLists
    <3>4. j \in 1..Len(order)
      BY <3>1, <3>2, <3>3
    <3> QED BY <3>2, <3>4 DEF Elems
  <2> QED BY <2>1, RootsFinished DEF Closed
<1>4. ASSUME NEW n \in LibraryNames, Needed(n) PROVE n \in Elems(order)
  BY <1>1, <1>3, <1>4 DEF Needed
<1> QED BY <1>1, <1>2, <1>4

LEMMA InvLinkOrder == LinkInv => LinkOrder
<1> SUFFICES ASSUME LinkInv, outcome = "resolved"
             PROVE  /\ Elems(LinkSet) = {n \in LibraryNames : Needed(n)}
                    /\ Elems(LinkSet) \subseteq DOMAIN libraries
                    /\ \A i, j \in 1..Len(LinkSet) :
                         /\ i # j => LinkSet[i] # LinkSet[j]
                         /\ LinkSet[j] \in LinkedBy(LinkSet[i]) => i < j
  BY DEF LinkOrder
<1> DEFINE L == Len(order)
           mirror(i) == L - i + 1
<1>1. L \in Nat
  BY DEF LinkInv, LinkTypeOK, LinkLists
<1>2. /\ Len(LinkSet) = L
      /\ \A i \in 1..L : mirror(i) \in 1..L /\ LinkSet[i] = order[mirror(i)]
  BY <1>1 DEF LinkSet, Reverse
<1>3. Elems(LinkSet) = Elems(order)
  <2>1. ASSUME NEW i \in 1..L PROVE order[i] \in Elems(LinkSet)
    <3>1. mirror(i) \in 1..L /\ mirror(mirror(i)) = i
      BY <1>1
    <3> QED BY <1>2, <3>1 DEF Elems
  <2>2. \A i \in 1..L : LinkSet[i] \in Elems(order)
    BY <1>2 DEF Elems
  <2> QED BY <1>2, <2>1, <2>2 DEF Elems
<1>4. Elems(order) \subseteq DOMAIN libraries
  BY DEF LinkInv, OrderInv, Elems
<1>5. ASSUME NEW i \in 1..L, NEW j \in 1..L, i # j PROVE LinkSet[i] # LinkSet[j]
  <2>1. mirror(i) # mirror(j) /\ mirror(i) \in 1..L /\ mirror(j) \in 1..L
    BY <1>1, <1>2, <1>5
  <2>2. LinkSet[i] = order[mirror(i)] /\ LinkSet[j] = order[mirror(j)]
    BY <1>2
  <2> HIDE DEF mirror
  <2> QED BY <2>1, <2>2 DEF LinkInv, ColorsInv
<1>6. ASSUME NEW i \in 1..L, NEW j \in 1..L, LinkSet[j] \in LinkedBy(LinkSet[i]) PROVE i < j
  <2>1. PICK k \in 1..(mirror(i) - 1) : order[k] = LinkSet[j]
    BY <1>2, <1>6 DEF LinkInv, OrderInv
  <2>2. k \in 1..L /\ mirror(j) \in 1..L /\ order[mirror(j)] = order[k]
    BY <1>1, <1>2, <2>1
  <2>3. k = mirror(j)
    BY <2>2 DEF LinkInv, ColorsInv
  <2> QED BY <1>1, <2>1, <2>3
<1> QED BY <1>2, <1>3, <1>4, <1>5, <1>6, OrderIsNeeded

\* A library on the stack is needed.
LEMMA StackNeeded ==
  ASSUME LinkInv, NEW i \in Depth
  PROVE  Name(i) \in LibraryNames /\ Needed(Name(i))
<1>1. link_stack[i] \in Frames
  <2>1. link_stack \in Seq(Frames)
    BY DEF LinkInv, LinkTypeOK, Frames
  <2> QED BY <2>1 DEF Depth
<1>2. Name(i) \in LibraryNames /\ color[Name(i)] = "Gray"
  BY <1>1 DEF Frames, Name, LinkInv, ColorsInv
<1> QED BY <1>2 DEF LinkInv, NeededInv

LEMMA InvLinkErrors == LinkInv => LinkErrors
<1> SUFFICES ASSUME LinkInv PROVE LinkErrors
  OBVIOUS
<1>0. link_stack # <<>> => Len(link_stack) \in Depth /\ Top.name = Name(Len(link_stack))
  BY DEF LinkInv, LinkTypeOK, Depth, Top, Name
<1>1. ASSUME outcome = "unknown library"
      PROVE  Needed(culprit) /\ culprit \notin DOMAIN libraries
  BY <1>0, <1>1, StackNeeded DEF LinkInv, OutcomeInv, Declared
<1>2. ASSUME outcome = "cycle" PROVE Needed(culprit) /\ OnCycle(culprit)
  <2>1. PICK i \in Depth : culprit = Name(i)
    BY <1>2 DEF LinkInv, OutcomeInv
  <2>2. link_stack # <<>> /\ culprit \in LinkedBy(Top.name)
    BY <1>2 DEF LinkInv, OutcomeInv
  <2>3. Name(i) = Top.name \/ Reaches(Name(i), Top.name)
    <3>1. i = Len(link_stack) \/ i < Len(link_stack)
      BY DEF Depth, LinkInv, LinkTypeOK
    <3> QED BY <1>0, <2>2, <3>1 DEF LinkInv, PathInv
  <2>4. Reaches(culprit, culprit)
    BY <2>1, <2>2, <2>3 DEF Reaches
  <2> QED BY <2>1, <2>4, StackNeeded DEF OnCycle
<1> QED BY <1>1, <1>2 DEF LinkErrors

------------------------------------------------------------------------------
(* The flags *)

FlagLists   == Seq(STRING)
Distinct(s) == \A i, j \in 1..Len(s) : i < j => s[i] # s[j]

\* What the inner loop computes, turn by turn.
LEMMA AddFlagsLoop ==
  ASSUME NEW out \in FlagLists, NEW flags \in FlagLists
  PROVE  \E added \in [0..Len(flags) -> FlagLists] :
           /\ added[0] = out
           /\ \A j \in 1..Len(flags) : added[j] = AddFlag(added[j - 1], flags[j])
           /\ AddFlags(out, flags) = added[Len(flags)]
<1> DEFINE G == [p \in (1..Len(flags)) \X FlagLists |-> AddFlag(p[2], flags[p[1]])]
           Is(f) == f = [j \in 0..Len(flags) |->
                           IF j = 0 THEN out ELSE AddFlag(f[j - 1], flags[j])]
<1>1. Len(flags) \in Nat
  BY DEF FlagLists
<1>2. G \in [(1..Len(flags)) \X FlagLists -> FlagLists]
  <2>1. \A p \in (1..Len(flags)) \X FlagLists : p[2] \in FlagLists /\ flags[p[1]] \in STRING
    BY DEF FlagLists
  <2>2. \A p \in (1..Len(flags)) \X FlagLists : AddFlag(p[2], flags[p[1]]) \in FlagLists
    <3>1. \A l \in FlagLists, e \in STRING : Append(l, e) \in FlagLists
      BY AppendFacts DEF FlagLists
    <3> QED BY <2>1, <3>1 DEF AddFlag
  <2> QED BY <2>2
<1>3. PICK f : Loops(f, Len(flags), FlagLists, out, G)
  <2> HIDE DEF G
  <2> QED BY <1>1, <1>2, LoopExists
<1>4. /\ f \in [0..Len(flags) -> FlagLists]
      /\ f[0] = out
      /\ \A j \in 1..Len(flags) : f[j] = AddFlag(f[j - 1], flags[j])
  <2>1. /\ f \in [0..Len(flags) -> FlagLists]
        /\ f[0] = out
        /\ \A j \in 1..Len(flags) : f[j] = G[<<j, f[j - 1]>>]
    BY <1>3 DEF Loops
  <2>2. ASSUME NEW j \in 1..Len(flags) PROVE f[j] = AddFlag(f[j - 1], flags[j])
    <3>1. j - 1 \in 0..Len(flags)
      BY <1>1
    <3>2. f[j - 1] \in FlagLists
      BY <2>1, <3>1
    <3> QED BY <2>1, <3>2
  <2> QED BY <2>1, <2>2
<1>5. Is(f)
  <2>1. \A j \in 0..Len(flags) : f[j] = IF j = 0 THEN out ELSE AddFlag(f[j - 1], flags[j])
    BY <1>1, <1>4
  <2> QED BY <1>4, <2>1
<1> DEFINE g == CHOOSE h : Is(h)
<1>6. Is(g)
  BY <1>5
<1>7. AddFlags(out, flags) = g[Len(flags)]
  BY DEF AddFlags
<1> DEFINE T == {k \in Nat : k \in 0..Len(flags) => g[k] = f[k]}
<1> HIDE DEF g
<1>8. 0 \in T
  BY <1>1, <1>4, <1>6
<1>9. ASSUME NEW k \in Nat, k \in T PROVE k + 1 \in T
  <2> SUFFICES ASSUME k + 1 \in 0..Len(flags) PROVE g[k + 1] = f[k + 1]
    OBVIOUS
  <2>1. k \in 0..Len(flags) /\ (k + 1) - 1 = k /\ k + 1 # 0
    BY <1>1
  <2>2. g[k] = f[k]
    BY <1>9, <2>1
  <2>3. g[k + 1] = AddFlag(g[k], flags[k + 1])
    BY <1>6, <2>1
  <2>4. f[k + 1] = AddFlag(f[k], flags[k + 1])
    BY <1>4, <2>1
  <2> QED BY <2>2, <2>3, <2>4
<1> HIDE DEF T
<1>10. \A k \in Nat : k \in T
  BY <1>8, <1>9, EveryNumber
<1>11. g[Len(flags)] = f[Len(flags)]
  BY <1>1, <1>10 DEF T
<1> QED BY <1>4, <1>7, <1>11

\* Each turn adds the flag, unless it is there, and keeps what there is.
LEMMA AddFlagFacts ==
  ASSUME NEW out \in FlagLists, NEW f \in STRING
  PROVE  LET new == AddFlag(out, f) IN
         /\ new \in FlagLists
         /\ Len(out) <= Len(new)
         /\ \A k \in 1..Len(out) : new[k] = out[k]
         /\ \A k \in (Len(out) + 1)..Len(new) : new[k] = f
         /\ Elems(new) = Elems(out) \cup {f}
         /\ Distinct(out) => Distinct(new)
<1> DEFINE new == AddFlag(out, f)
<1>0. Len(out) \in Nat
  BY DEF FlagLists
<1>1. CASE f \in Elems(out)
  <2>1. new = out
    BY <1>1 DEF AddFlag
  <2> HIDE DEF new
  <2>2. \A k \in (Len(out) + 1)..Len(out) : FALSE
    BY <1>0
  <2>3. Elems(new) = Elems(out) \cup {f}
    BY <1>1, <2>1
  <2>4. \A k \in (Len(out) + 1)..Len(new) : new[k] = f
    BY <2>1, <2>2
  <2>5. /\ new \in FlagLists /\ Len(out) <= Len(new)
        /\ \A k \in 1..Len(out) : new[k] = out[k]
        /\ Distinct(out) => Distinct(new)
    BY <1>0, <2>1
  <2> QED BY <2>3, <2>4, <2>5 DEF new
<1>2. CASE f \notin Elems(out)
  <2>1. new = Append(out, f)
    BY <1>2 DEF AddFlag
  <2> HIDE DEF new
  <2>2. /\ new \in FlagLists
        /\ Len(new) = Len(out) + 1
        /\ \A k \in 1..Len(out) : new[k] = out[k]
        /\ new[Len(out) + 1] = f
    <3>1. /\ Append(out, f) \in Seq(STRING)
          /\ Len(Append(out, f)) = Len(out) + 1
          /\ \A k \in 1..Len(out) : Append(out, f)[k] = out[k]
          /\ Append(out, f)[Len(out) + 1] = f
      <4>1. out \in Seq(STRING)
        BY DEF FlagLists
      <4> QED BY <4>1, AppendFacts
    <3> QED BY <2>1, <3>1 DEF FlagLists
  <2>3. \A k \in (Len(out) + 1)..Len(new) : new[k] = f
    <3>1. \A k \in (Len(out) + 1)..(Len(out) + 1) : k = Len(out) + 1
      BY <1>0
    <3> QED BY <2>2, <3>1
  <2>4. Elems(new) = Elems(out) \cup {f}
    <3>1. \A k \in 1..Len(new) : k \in 1..Len(out) \/ k = Len(out) + 1
      BY <1>0, <2>2
    <3>2. 1..Len(out) \subseteq 1..Len(new) /\ Len(out) + 1 \in 1..Len(new)
      BY <1>0, <2>2
    <3> QED BY <3>1, <3>2, <2>2 DEF Elems
  <2>5. ASSUME Distinct(out) PROVE Distinct(new)
    <3> SUFFICES ASSUME NEW k \in 1..Len(new), NEW l \in 1..Len(new), k < l
                 PROVE  new[k] # new[l]
      BY DEF Distinct
    <3>1. k \in 1..Len(out) /\ new[k] = out[k]
      BY <1>0, <2>2
    <3>2. CASE l \in 1..Len(out)
      BY <2>2, <2>5, <3>1, <3>2 DEF Distinct
    <3>3. CASE l = Len(out) + 1
      BY <1>2, <2>2, <3>1, <3>3 DEF Elems
    <3> QED BY <1>0, <2>2, <3>2, <3>3
  <2>6. Len(out) <= Len(new)
    BY <1>0, <2>2
  <2> QED BY <2>2, <2>3, <2>4, <2>5, <2>6 DEF new
<1> QED BY <1>1, <1>2

\* The flags of one more library are added, but for those that are there.
LEMMA AddFlagsFacts ==
  ASSUME NEW out \in FlagLists, NEW flags \in FlagLists
  PROVE  LET new == AddFlags(out, flags) IN
         /\ new \in FlagLists
         /\ Len(out) <= Len(new)
         /\ \A k \in 1..Len(out) : new[k] = out[k]
         /\ \A k \in (Len(out) + 1)..Len(new) : new[k] \in Elems(flags)
         /\ Elems(new) = Elems(out) \cup Elems(flags)
         /\ Distinct(out) => Distinct(new)
<1> DEFINE Good(l, j) ==
             /\ l \in FlagLists
             /\ Len(out) <= Len(l)
             /\ \A k \in 1..Len(out) : l[k] = out[k]
             /\ \A k \in (Len(out) + 1)..Len(l) : l[k] \in Elems(flags)
             /\ Elems(l) = Elems(out) \cup {flags[k] : k \in 1..j}
             /\ Distinct(out) => Distinct(l)
<1>1. Len(flags) \in Nat /\ Len(out) \in Nat
  BY DEF FlagLists
<1>2. PICK added \in [0..Len(flags) -> FlagLists] :
        /\ added[0] = out
        /\ \A j \in 1..Len(flags) : added[j] = AddFlag(added[j - 1], flags[j])
        /\ AddFlags(out, flags) = added[Len(flags)]
  BY AddFlagsLoop
<1> DEFINE T == {j \in Nat : j \in 0..Len(flags) => Good(added[j], j)}
<1>3. 0 \in T
  BY <1>1, <1>2
<1>4. ASSUME NEW j \in Nat, j \in T PROVE j + 1 \in T
  <2> SUFFICES ASSUME j + 1 \in 0..Len(flags) PROVE Good(added[j + 1], j + 1)
    OBVIOUS
  <2>1. j \in 0..Len(flags) /\ j + 1 \in 1..Len(flags) /\ (j + 1) - 1 = j
    BY <1>1
  <2> DEFINE old == added[j]
             f   == flags[j + 1]
             new == added[j + 1]
  <2>2. Good(old, j)
    BY <1>4, <2>1
  <2>3. f \in STRING /\ new = AddFlag(old, f)
    BY <1>2, <2>1 DEF FlagLists
  <2> HIDE DEF old, f, new
  <2>4. /\ new \in FlagLists
        /\ Len(old) <= Len(new)
        /\ \A k \in 1..Len(old) : new[k] = old[k]
        /\ \A k \in (Len(old) + 1)..Len(new) : new[k] = f
        /\ Elems(new) = Elems(old) \cup {f}
        /\ Distinct(old) => Distinct(new)
    BY <2>2, <2>3, AddFlagFacts
  <2>5. Len(old) \in Nat /\ Len(new) \in Nat
    BY <2>2, <2>4 DEF FlagLists
  <2>6. Len(out) <= Len(new)
    BY <1>1, <2>2, <2>4, <2>5
  <2>7. \A k \in 1..Len(out) : new[k] = out[k]
    BY <1>1, <2>2, <2>4, <2>5
  <2>8. f \in Elems(flags)
    BY <2>1 DEF f, Elems
  <2>9. \A k \in (Len(out) + 1)..Len(new) : new[k] \in Elems(flags)
    <3> SUFFICES ASSUME NEW k \in (Len(out) + 1)..Len(new) PROVE new[k] \in Elems(flags)
      OBVIOUS
    <3>1. CASE k <= Len(old)
      <4>1. k \in 1..Len(old) /\ k \in (Len(out) + 1)..Len(old)
        BY <1>1, <2>5, <3>1
      <4> QED BY <4>1, <2>2, <2>4
    <3>2. CASE k > Len(old)
      <4>1. k \in (Len(old) + 1)..Len(new)
        BY <1>1, <2>5, <3>2
      <4> QED BY <4>1, <2>4, <2>8
    <3> QED BY <1>1, <2>5, <3>1, <3>2
  <2>10. Elems(new) = Elems(out) \cup {flags[k] : k \in 1..(j + 1)}
    <3>1. {flags[k] : k \in 1..(j + 1)} = {flags[k] : k \in 1..j} \cup {f}
      <4>1. \A k \in 1..(j + 1) : k \in 1..j \/ k = j + 1
        OBVIOUS
      <4>2. 1..j \subseteq 1..(j + 1) /\ j + 1 \in 1..(j + 1)
        OBVIOUS
      <4> QED BY <4>1, <4>2 DEF f
    <3> QED BY <2>2, <2>4, <3>1
  <2>11. Distinct(out) => Distinct(new)
    BY <2>2, <2>4
  <2> QED BY <2>4, <2>6, <2>7, <2>9, <2>10, <2>11 DEF new
<1> HIDE DEF T
<1>5. \A j \in Nat : j \in T
  BY <1>3, <1>4, EveryNumber
<1> HIDE DEF Good
<1>6. Good(added[Len(flags)], Len(flags))
  <2>1. Len(flags) \in 0..Len(flags) /\ Len(flags) \in T
    BY <1>1, <1>5
  <2> QED BY <2>1 DEF T
<1> DEFINE new == AddFlags(out, flags)
<1>7. Good(new, Len(flags))
  BY <1>2, <1>6
<1> HIDE DEF new
<1>8. Elems(flags) = {flags[k] : k \in 1..Len(flags)}
  BY DEF Elems
<1> QED BY <1>7, <1>8 DEF new, Good

\* What the outer loop computes, library by library.
LEMMA JoinFlagsLoop ==
  ASSUME NEW names \in Seq(LibraryNames)
  PROVE  \E joined \in [0..Len(names) -> FlagLists] :
           /\ joined[0] = <<>>
           /\ \A i \in 1..Len(names) : joined[i] = AddFlags(joined[i - 1], link_flags[names[i]])
           /\ AggregateLinkFlags(names) = joined[Len(names)]
<1> DEFINE G == [p \in (1..Len(names)) \X FlagLists |-> AddFlags(p[2], link_flags[names[p[1]]])]
           Is(f) == f = [i \in 0..Len(names) |->
                           IF i = 0 THEN <<>> ELSE AddFlags(f[i - 1], link_flags[names[i]])]
<1>1. Len(names) \in Nat /\ <<>> \in FlagLists
  BY DEF FlagLists
<1>2. G \in [(1..Len(names)) \X FlagLists -> FlagLists]
  <2>1. \A p \in (1..Len(names)) \X FlagLists :
          p[2] \in FlagLists /\ link_flags[names[p[1]]] \in FlagLists
    BY LinkFlagsAssumption DEF LinkFlagsAssumption, FlagLists
  <2>2. \A p \in (1..Len(names)) \X FlagLists :
          AddFlags(p[2], link_flags[names[p[1]]]) \in FlagLists
    BY <2>1, AddFlagsFacts
  <2> QED BY <2>2
<1>3. PICK f : Loops(f, Len(names), FlagLists, <<>>, G)
  <2> HIDE DEF G
  <2> QED BY <1>1, <1>2, LoopExists
<1>4. /\ f \in [0..Len(names) -> FlagLists]
      /\ f[0] = <<>>
      /\ \A i \in 1..Len(names) : f[i] = AddFlags(f[i - 1], link_flags[names[i]])
  <2>1. /\ f \in [0..Len(names) -> FlagLists]
        /\ f[0] = <<>>
        /\ \A i \in 1..Len(names) : f[i] = G[<<i, f[i - 1]>>]
    BY <1>3 DEF Loops
  <2>2. ASSUME NEW i \in 1..Len(names) PROVE f[i] = AddFlags(f[i - 1], link_flags[names[i]])
    <3>1. i - 1 \in 0..Len(names)
      BY <1>1
    <3>2. f[i - 1] \in FlagLists
      BY <2>1, <3>1
    <3> QED BY <2>1, <3>2
  <2> QED BY <2>1, <2>2
<1>5. Is(f)
  <2>1. \A i \in 0..Len(names) :
          f[i] = IF i = 0 THEN <<>> ELSE AddFlags(f[i - 1], link_flags[names[i]])
    BY <1>1, <1>4
  <2> QED BY <1>4, <2>1
<1> DEFINE g == CHOOSE h : Is(h)
<1>6. Is(g)
  BY <1>5
<1>7. AggregateLinkFlags(names) = g[Len(names)]
  BY DEF AggregateLinkFlags
<1> DEFINE T == {k \in Nat : k \in 0..Len(names) => g[k] = f[k]}
<1> HIDE DEF g
<1>8. 0 \in T
  BY <1>1, <1>4, <1>6
<1>9. ASSUME NEW k \in Nat, k \in T PROVE k + 1 \in T
  <2> SUFFICES ASSUME k + 1 \in 0..Len(names) PROVE g[k + 1] = f[k + 1]
    OBVIOUS
  <2>1. k \in 0..Len(names) /\ (k + 1) - 1 = k /\ k + 1 # 0
    BY <1>1
  <2>2. g[k] = f[k]
    BY <1>9, <2>1
  <2>3. g[k + 1] = AddFlags(g[k], link_flags[names[k + 1]])
    BY <1>6, <2>1
  <2>4. f[k + 1] = AddFlags(f[k], link_flags[names[k + 1]])
    BY <1>4, <2>1
  <2> QED BY <2>2, <2>3, <2>4
<1> HIDE DEF T
<1>10. \A k \in Nat : k \in T
  BY <1>8, <1>9, EveryNumber
<1>11. g[Len(names)] = f[Len(names)]
  BY <1>1, <1>10 DEF T
<1> QED BY <1>4, <1>7, <1>11

\* The flags of the libraries, each once, in the order of their first use.
LEMMA FirstUseOrder ==
  ASSUME NEW names \in Seq(LibraryNames)
  PROVE  LET flags == AggregateLinkFlags(names)
             Uses(f) == {i \in 1..Len(names) : f \in Elems(link_flags[names[i]])}
         IN  /\ Elems(flags) = UNION {Elems(link_flags[n]) : n \in Elems(names)}
             /\ \A i, j \in 1..Len(flags) :
                  i < j => /\ flags[i] # flags[j]
                           /\ \E u \in Uses(flags[i]) : \A w \in Uses(flags[j]) : u <= w
<1> DEFINE Of(i) == Elems(link_flags[names[i]])
           Good(l, n) ==
             /\ l \in FlagLists
             /\ Distinct(l)
             /\ Elems(l) = UNION {Of(i) : i \in 1..n}
             /\ \A a, b \in 1..Len(l) :
                  a < b => \E u \in 1..n : /\ l[a] \in Of(u)
                                           /\ \A w \in 1..n : l[b] \in Of(w) => u <= w
<1>1. Len(names) \in Nat
  OBVIOUS
<1>2. PICK joined \in [0..Len(names) -> FlagLists] :
        /\ joined[0] = <<>>
        /\ \A i \in 1..Len(names) : joined[i] = AddFlags(joined[i - 1], link_flags[names[i]])
        /\ AggregateLinkFlags(names) = joined[Len(names)]
  BY JoinFlagsLoop
<1> DEFINE T == {n \in Nat : n \in 0..Len(names) => Good(joined[n], n)}
<1>3. 0 \in T
  BY <1>2 DEF Distinct, Elems, FlagLists
<1>4. ASSUME NEW n \in Nat, n \in T PROVE n + 1 \in T
  <2> SUFFICES ASSUME n + 1 \in 0..Len(names) PROVE Good(joined[n + 1], n + 1)
    OBVIOUS
  <2>1. n \in 0..Len(names) /\ n + 1 \in 1..Len(names) /\ (n + 1) - 1 = n
    BY <1>1
  <2> DEFINE old == joined[n]
             own == link_flags[names[n + 1]]
             new == joined[n + 1]
  <2>2. Good(old, n)
    BY <1>4, <2>1
  <2>3. own \in FlagLists /\ new = AddFlags(old, own)
    BY <1>2, <2>1, LinkFlagsAssumption DEF FlagLists, LinkFlagsAssumption
  <2>4. Elems(own) = Of(n + 1)
    OBVIOUS
  <2> HIDE DEF old, own, new, Of
  <2>5. /\ new \in FlagLists
        /\ Len(old) <= Len(new)
        /\ \A k \in 1..Len(old) : new[k] = old[k]
        /\ \A k \in (Len(old) + 1)..Len(new) : new[k] \in Of(n + 1)
        /\ Elems(new) = Elems(old) \cup Of(n + 1)
        /\ Distinct(new)
    BY <2>2, <2>3, <2>4, AddFlagsFacts
  <2>6. Len(old) \in Nat /\ Len(new) \in Nat
    BY <2>2, <2>5 DEF FlagLists
  <2>7. /\ 1..n \subseteq 1..(n + 1) /\ n + 1 \in 1..(n + 1)
        /\ \A i \in 1..(n + 1) : i \in 1..n \/ i = n + 1
    OBVIOUS
  <2>8. Elems(new) = UNION {Of(i) : i \in 1..(n + 1)}
    <3>1. UNION {Of(i) : i \in 1..(n + 1)} = (UNION {Of(i) : i \in 1..n}) \cup Of(n + 1)
      BY <2>7
    <3> QED BY <2>2, <2>5, <3>1
  <2>9. ASSUME NEW a \in 1..Len(new), NEW b \in 1..Len(new), a < b
        PROVE  \E u \in 1..(n + 1) :
                 /\ new[a] \in Of(u)
                 /\ \A w \in 1..(n + 1) : new[b] \in Of(w) => u <= w
    <3>1. CASE b \in 1..Len(old)
      <4>1. a \in 1..Len(old) /\ new[a] = old[a] /\ new[b] = old[b]
        BY <2>5, <2>6, <2>9, <3>1
      <4>2. PICK u \in 1..n : /\ old[a] \in Of(u)
                              /\ \A w \in 1..n : old[b] \in Of(w) => u <= w
        BY <2>2, <2>9, <3>1, <4>1
      <4>3. u <= n + 1 /\ u \in 1..(n + 1)
        OBVIOUS
      <4> QED BY <2>7, <4>1, <4>2, <4>3
    <3>2. CASE b \notin 1..Len(old)
      <4>1. b \in (Len(old) + 1)..Len(new)
        BY <2>6, <3>2
      <4>2. ASSUME NEW w \in 1..n PROVE new[b] \notin Of(w)
        <5> SUFFICES ASSUME new[b] \in Of(w) PROVE FALSE
          OBVIOUS
        <5>1. new[b] \in Elems(old)
          BY <2>2, <4>2
        <5>2. PICK k \in 1..Len(old) : new[b] = old[k]
          BY <5>1 DEF Elems
        <5>3. k \in 1..Len(new) /\ k < b /\ new[k] = new[b]
          BY <2>5, <2>6, <4>1, <5>2
        <5> QED BY <2>5, <5>3 DEF Distinct
      <4>3. CASE a \in 1..Len(old)
        <5>1. new[a] \in Elems(old)
          BY <2>5, <4>3 DEF Elems
        <5>2. PICK u \in 1..n : new[a] \in Of(u)
          BY <2>2, <5>1
        <5>3. u <= n + 1 /\ u \in 1..(n + 1)
          OBVIOUS
        <5> QED BY <2>7, <4>2, <5>2, <5>3
      <4>4. CASE a \notin 1..Len(old)
        <5>1. a \in (Len(old) + 1)..Len(new)
          BY <2>6, <4>4
        <5>2. new[a] \in Of(n + 1)
          BY <2>5, <5>1
        <5> QED BY <2>7, <4>2, <5>2
      <4> QED BY <4>3, <4>4
    <3> QED BY <3>1, <3>2
  <2> QED BY <2>5, <2>8, <2>9 DEF new
<1> HIDE DEF T
<1>5. \A n \in Nat : n \in T
  BY <1>3, <1>4, EveryNumber
<1> HIDE DEF Good
<1>6. Good(joined[Len(names)], Len(names))
  <2>1. Len(names) \in 0..Len(names) /\ Len(names) \in T
    BY <1>1, <1>5
  <2> QED BY <2>1 DEF T
<1> DEFINE flags == AggregateLinkFlags(names)
           Uses(f) == {i \in 1..Len(names) : f \in Elems(link_flags[names[i]])}
<1>7. Good(flags, Len(names))
  BY <1>2, <1>6
<1> HIDE DEF flags
<1>8. Elems(flags) = UNION {Elems(link_flags[n]) : n \in Elems(names)}
  <2>1. Elems(flags) = UNION {Of(i) : i \in 1..Len(names)}
    BY <1>7 DEF Good
  <2>2. ASSUME NEW f, f \in UNION {Of(i) : i \in 1..Len(names)}
        PROVE  f \in UNION {Elems(link_flags[n]) : n \in Elems(names)}
    <3>1. PICK i \in 1..Len(names) : f \in Elems(link_flags[names[i]])
      BY <2>2
    <3>2. names[i] \in Elems(names)
      BY DEF Elems
    <3> QED BY <3>1, <3>2
  <2>3. ASSUME NEW f, f \in UNION {Elems(link_flags[n]) : n \in Elems(names)}
        PROVE  f \in UNION {Of(i) : i \in 1..Len(names)}
    <3>1. PICK n \in Elems(names) : f \in Elems(link_flags[n])
      BY <2>3
    <3>2. PICK i \in 1..Len(names) : n = names[i]
      BY DEF Elems
    <3> QED BY <3>1, <3>2
  <2> QED BY <2>1, <2>2, <2>3
<1>9. ASSUME NEW i \in 1..Len(flags), NEW j \in 1..Len(flags), i < j
      PROVE  /\ flags[i] # flags[j]
             /\ \E u \in Uses(flags[i]) : \A w \in Uses(flags[j]) : u <= w
  <2>1. flags[i] # flags[j]
    BY <1>7, <1>9 DEF Good, Distinct
  <2>2. PICK u \in 1..Len(names) :
          /\ flags[i] \in Of(u)
          /\ \A w \in 1..Len(names) : flags[j] \in Of(w) => u <= w
    BY <1>7, <1>9 DEF Good
  <2> QED BY <2>1, <2>2
<1> QED BY <1>8, <1>9 DEF flags

\* The link set is a list of libraries.
LEMMA LinkSetType == ASSUME LinkTypeOK PROVE LinkSet \in Seq(LibraryNames)
<1>1. order \in Seq(LibraryNames) /\ Len(order) \in Nat
  BY DEF LinkTypeOK, LinkLists
<1>2. \A i \in 1..Len(order) : (Len(order) - i) + 1 \in 1..Len(order)
  BY <1>1
<1> QED BY <1>1, <1>2 DEF LinkSet, Reverse

------------------------------------------------------------------------------
\* The colors, the stack, the order and the outcome of the walk fit together at
\* every turn of its loops, for every configuration and list of roots.
THEOREM LinkInvariance == LinkSpec => []LinkInv
<1>1. LinkInit => LinkInv
  BY InitLinkInv
<1>2. LinkInv /\ [LinkNext]_linkVars => LinkInv'
  BY StepLinkInv
<1> QED BY <1>1, <1>2, PTL DEF LinkSpec

\* resolve_link_set returns the least closed set of libraries, each named once
\* and before those it links, whatever the configuration.
THEOREM LinkOrderCorrect == LinkSpec => []LinkOrder
<1>1. LinkInv => LinkOrder
  BY InvLinkOrder
<1> QED BY <1>1, LinkInvariance, PTL

\* An unknown library it reports is needed and undeclared; a cycle it reports is
\* one, and the executable needs it.
THEOREM LinkErrorsCorrect == LinkSpec => []LinkErrors
<1>1. LinkInv => LinkErrors
  BY InvLinkErrors
<1> QED BY <1>1, LinkInvariance, PTL

\* The linker is handed the flags of the libraries that are linked, each once
\* and in the order of their first use, whatever the libraries' flags are.
THEOREM FlagsCorrect == LinkSpec => []FlagsInFirstUseOrder
<1>1. LinkInv => FlagsInFirstUseOrder
  <2>1. LinkInv => LinkSet \in Seq(LibraryNames)
    BY LinkSetType DEF LinkInv
  <2> QED BY <2>1, FirstUseOrder DEF FlagsInFirstUseOrder
<1> QED BY <1>1, LinkInvariance, PTL

------------------------------------------------------------------------------
(* The walk comes to an end *)

\* The libraries named, which are finitely many.
Mentioned == Elems(roots) \cup UNION {Elems(libraries[n]) : n \in DOMAIN libraries}
Whites    == {n \in Mentioned : color[n] = "White"}

DepsAhead == IF link_stack # <<>> /\ Declared THEN (Len(Deps) + 1) - Top.next_dep ELSE 0

\* The turns of the loop over the roots, of which the last is the return.
RootsAhead == ((Len(roots) + 1) - next_root) + IF outcome = "none" THEN 1 ELSE 0

\* What every turn makes lower: libraries to enter, roots to pass and the answer to
\* give, frames to leave, dependencies of the top frame to pass.
LinkMeasure == <<Cardinality(Whites), RootsAhead, Len(link_stack), DepsAhead>>

FiniteLibraries == IsFiniteSet(DOMAIN libraries)

LEMMA MentionedFinite ==
  ASSUME LinkTypeOK, FiniteLibraries
  PROVE  IsFiniteSet(Mentioned) /\ Mentioned \subseteq LibraryNames
<1>1. ASSUME NEW s \in Seq(LibraryNames)
      PROVE  IsFiniteSet(Elems(s)) /\ Elems(s) \subseteq LibraryNames
  <2>1. Len(s) \in Nat /\ \A i \in 1..Len(s) : s[i] \in LibraryNames
    OBVIOUS
  <2>2. IsFiniteSet(1..Len(s))
    BY <2>1, FS_Interval
  <2> QED BY <2>1, <2>2, FiniteImage DEF Elems
<1> DEFINE f == [n \in DOMAIN libraries |-> Elems(libraries[n])]
<1>2. /\ \A n \in DOMAIN libraries : libraries[n] \in Seq(LibraryNames)
      /\ roots \in Seq(LibraryNames)
  BY DEF LinkTypeOK, LinkLists
<1>3. \A n \in DOMAIN libraries : IsFiniteSet(f[n]) /\ f[n] \subseteq LibraryNames
  BY <1>1, <1>2
<1>4. {f[n] : n \in DOMAIN libraries} = {Elems(libraries[n]) : n \in DOMAIN libraries}
  OBVIOUS
<1> HIDE DEF f
<1>5. IsFiniteSet(UNION {f[n] : n \in DOMAIN libraries})
  BY <1>3, FiniteUnion DEF FiniteLibraries
<1>6. IsFiniteSet(Elems(roots)) /\ Elems(roots) \subseteq LibraryNames
  BY <1>1, <1>2
<1>7. Mentioned = Elems(roots) \cup UNION {f[n] : n \in DOMAIN libraries}
  BY <1>4 DEF Mentioned
<1> QED BY <1>3, <1>5, <1>6, <1>7, FS_Union

\* The measure consists of numbers.
LEMMA MeasureType ==
  ASSUME LinkTypeOK, StackInv, FiniteLibraries
  PROVE  /\ LinkMeasure \in [1..4 -> Nat]
         /\ IsFiniteSet(Whites) /\ DepsAhead \in Nat
         /\ Len(link_stack) \in Nat /\ RootsAhead \in Nat
<1>1. IsFiniteSet(Whites) /\ Cardinality(Whites) \in Nat
  <2>1. Whites \subseteq Mentioned
    BY DEF Whites
  <2> QED BY <2>1, MentionedFinite, FS_Subset, FS_CardinalityType
<1>2. RootsAhead \in Nat
  <2>1. Len(roots) \in Nat /\ next_root \in 1..(Len(roots) + 1)
    BY DEF LinkTypeOK, LinkLists
  <2> QED BY <2>1 DEF RootsAhead
<1>3. link_stack \in Seq(Frames) /\ Len(link_stack) \in Nat
  BY DEF LinkTypeOK, Frames
<1>4. DepsAhead \in Nat
  <2>1. CASE link_stack # <<>> /\ Declared
    <3>1. Len(link_stack) \in Depth /\ Top \in Frames /\ Name(Len(link_stack)) \in DOMAIN libraries
      BY <1>3, <2>1 DEF Depth, Top, Name, Declared
    <3>2. Deps \in Seq(LibraryNames)
      BY <2>1 DEF Deps, Declared, LinkTypeOK, LinkLists
    <3>3. Top.next_dep <= Len(Deps) + 1
      BY <3>1 DEF StackInv, Top, Deps, Name
    <3>4. Top.next_dep \in Nat /\ Len(Deps) \in Nat
      BY <3>1, <3>2 DEF Frames
    <3>5. (Len(Deps) + 1) - Top.next_dep \in Nat
      BY <3>3, <3>4
    <3> QED BY <2>1, <3>5 DEF DepsAhead
  <2>2. CASE ~(link_stack # <<>> /\ Declared)
    BY <2>2 DEF DepsAhead
  <2> QED BY <2>1, <2>2
<1> DEFINE c == Cardinality(Whites)
           l == Len(link_stack)
<1>5. c \in Nat /\ l \in Nat
  BY <1>1, <1>3
<1>6. LinkMeasure = <<c, RootsAhead, l, DepsAhead>>
  BY DEF LinkMeasure
<1> HIDE DEF c, l
<1>7. <<c, RootsAhead, l, DepsAhead>> \in [1..4 -> Nat]
  BY <1>2, <1>4, <1>5
<1> QED BY <1>1, <1>2, <1>3, <1>4, <1>6, <1>7

\* Coloring a library that was white makes the white ones fewer, and coloring one
\* that was not leaves them.
LEMMA WhitesFacts ==
  ASSUME LinkTypeOK, FiniteLibraries, libraries' = libraries, roots' = roots,
         NEW n \in LibraryNames, NEW c \in {"Gray", "Black"}, color' = [color EXCEPT ![n] = c]
  PROVE  /\ color[n] # "White" => Whites' = Whites
         /\ color[n] = "White" /\ n \in Mentioned => Cardinality(Whites') < Cardinality(Whites)
<1>1. Mentioned' = Mentioned
  BY DEF Mentioned, Elems
<1>2. Mentioned \subseteq LibraryNames /\ IsFiniteSet(Mentioned)
  BY MentionedFinite
<1>3. Whites' = Whites \ {n}
  BY <1>1, <1>2 DEF Whites, LinkTypeOK
<1>4. IsFiniteSet(Whites)
  <2>1. Whites \subseteq Mentioned
    BY DEF Whites
  <2> QED BY <1>2, <2>1, FS_Subset
<1>5. CASE color[n] = "White" /\ n \in Mentioned
  <2>1. n \in Whites
    BY <1>5 DEF Whites
  <2>2. Cardinality(Whites') = Cardinality(Whites) - 1 /\ Cardinality(Whites) \in Nat
    BY <1>3, <1>4, <2>1, FS_RemoveElement, FS_CardinalityType
  <2> QED BY <1>5, <2>2
<1>6. CASE color[n] # "White"
  <2>1. n \notin Whites
    BY <1>6 DEF Whites
  <2> QED BY <1>3, <1>6, <2>1
<1> QED BY <1>5, <1>6

LEMMA TurnDescends ==
  ASSUME LinkInv, FiniteLibraries, LinkNext
  PROVE  Lower(LinkMeasure', LinkMeasure)
<1> DEFINE whites == Cardinality(Whites)
           depth == Len(link_stack)
<1>1. LinkTypeOK /\ ColorsInv /\ StackInv
  BY DEF LinkInv
<1>2. libraries' = libraries /\ roots' = roots
  BY SameGraph
<1>3. /\ whites \in Nat /\ RootsAhead \in Nat /\ depth \in Nat /\ DepsAhead \in Nat
      /\ Len(roots) \in Nat /\ next_root \in Nat
  BY <1>1, MeasureType, FS_CardinalityType DEF LinkTypeOK, LinkLists
<1>4. color' = color => whites' = whites
  BY <1>2 DEF Whites, Mentioned, Elems
<1>5. link_stack' = link_stack => depth' = depth /\ DepsAhead' = DepsAhead
  BY <1>2 DEF DepsAhead, Declared, Deps, Top
<1>6. next_root' = next_root /\ outcome' = outcome => RootsAhead' = RootsAhead
  BY <1>2 DEF RootsAhead
<1>7. next_root' = next_root + 1 /\ outcome' = outcome => RootsAhead' < RootsAhead
  BY <1>2, <1>3 DEF RootsAhead
<1>8. ASSUME color' = color, link_stack' = link_stack, next_root' = next_root,
             outcome = "none", outcome' # "none"
      PROVE  Lower(LinkMeasure', LinkMeasure)
  <2>1. RootsAhead' < RootsAhead
    BY <1>2, <1>3, <1>8 DEF RootsAhead
  <2> HIDE DEF whites, depth
  <2>2. Lower(<<whites', RootsAhead', depth', DepsAhead'>>,
              <<whites, RootsAhead, depth, DepsAhead>>)
    BY <1>4, <1>5, <1>6, <1>8, <2>1, LowerFour
  <2> QED BY <2>2 DEF LinkMeasure, whites, depth
<1>9. CASE SkipRoot
  <2>1. whites' = whites /\ RootsAhead' < RootsAhead
    BY <1>4, <1>7, <1>9 DEF SkipRoot
  <2> HIDE DEF whites, depth
  <2>2. Lower(<<whites', RootsAhead', depth', DepsAhead'>>,
              <<whites, RootsAhead, depth, DepsAhead>>)
    BY <2>1, LowerFour
  <2> QED BY <2>2 DEF LinkMeasure, whites, depth
<1>10. CASE EnterRoot
  <2> DEFINE r == roots[next_root]
  <2>1. r \in LibraryNames /\ color' = [color EXCEPT ![r] = "Gray"]
    BY <1>1, <1>10, EnterRootFacts
  <2>2. r \in Mentioned
    <3>1. next_root \in 1..Len(roots)
      BY <1>1, <1>3, <1>10 DEF EnterRoot, LinkTypeOK
    <3> QED BY <3>1 DEF Mentioned, Elems
  <2>3. color[r] = "White"
    <3>1. link_stack = <<>> /\ color[r] # "Black"
      BY <1>10 DEF EnterRoot, Between
    <3>2. color[r] # "Gray"
      BY <1>1, <2>1, <3>1 DEF ColorsInv, Depth
    <3>3. color[r] \in Colors
      BY <1>1, <2>1 DEF LinkTypeOK
    <3> QED BY <3>1, <3>2, <3>3 DEF Colors
  <2> HIDE DEF r
  <2>4. whites' < whites
    BY <1>1, <1>2, <2>1, <2>2, <2>3, WhitesFacts
  <2> HIDE DEF whites, depth
  <2>5. Lower(<<whites', RootsAhead', depth', DepsAhead'>>,
              <<whites, RootsAhead, depth, DepsAhead>>)
    BY <2>4, LowerFour
  <2> QED BY <2>5 DEF LinkMeasure, whites, depth
<1>11. CASE UnknownLibrary
  BY <1>8, <1>11 DEF UnknownLibrary, Walking
<1>12. CASE SkipDep
  <2>1. Walking /\ HasDep /\ link_stack' = Advanced
    BY <1>12 DEF SkipDep
  <2>2. /\ depth' = depth /\ depth \in Depth /\ Top \in Frames /\ Top' \in Frames
        /\ Top'.name = Top.name /\ Top'.next_dep = Top.next_dep + 1
    <3>1. /\ Len(Advanced) = Len(link_stack) /\ Advanced \in Seq(Frames)
          /\ Len(link_stack) \in Depth /\ Top.name = Name(Len(link_stack)) /\ Top \in Frames
          /\ Advanced[Len(link_stack)].name = Name(Len(link_stack))
          /\ Advanced[Len(link_stack)].next_dep = Top.next_dep + 1
      BY <1>1, <2>1, AdvancedFacts, TopFacts
    <3>2. Top' = Advanced[Len(link_stack)]
      BY <2>1, <3>1 DEF Top
    <3>3. Top' \in Frames
      BY <3>1, <3>2 DEF Depth
    <3> QED BY <2>1, <3>1, <3>2, <3>3
  <2>3. DepsAhead' < DepsAhead
    <3>1. link_stack # <<>> /\ link_stack' # <<>> /\ Declared /\ Declared'
      BY <1>2, <1>3, <2>1, <2>2 DEF Walking, HasDep, Declared, Depth
    <3>2. Deps' = Deps /\ Len(Deps) \in Nat
      BY <1>1, <1>2, <2>2, <3>1 DEF Deps, Declared, LinkTypeOK, LinkLists
    <3>3. Top.next_dep \in Nat /\ Top'.next_dep = Top.next_dep + 1
      BY <2>2 DEF Frames
    <3>4. DepsAhead = (Len(Deps) + 1) - Top.next_dep
      BY <3>1 DEF DepsAhead
    <3>5. DepsAhead' = (Len(Deps) + 1) - (Top.next_dep + 1)
      BY <2>2, <3>1, <3>2 DEF DepsAhead
    <3> QED BY <3>2, <3>3, <3>4, <3>5
  <2>4. whites' = whites /\ RootsAhead' = RootsAhead
    BY <1>4, <1>6, <1>12 DEF SkipDep
  <2>5. depth' = depth
    BY <2>2
  <2> HIDE DEF whites, depth
  <2>6. Lower(<<whites', RootsAhead', depth', DepsAhead'>>,
              <<whites, RootsAhead, depth, DepsAhead>>)
    BY <2>3, <2>4, <2>5, LowerFour
  <2> QED BY <2>6 DEF LinkMeasure, whites, depth
<1>13. CASE CycleFound
  BY <1>8, <1>13 DEF CycleFound, Walking
<1>14. CASE Descend
  <2>1. /\ Dep \in LibraryNames /\ Dep \in LinkedBy(Top.name) /\ color[Dep] = "White"
        /\ color' = [color EXCEPT ![Dep] = "Gray"]
    BY <1>1, <1>14, TopFacts, DescendFacts DEF Descend
  <2>2. Dep \in Mentioned
    BY <2>1 DEF LinkedBy, Mentioned
  <2>3. whites' < whites
    BY <1>1, <1>2, <2>1, <2>2, WhitesFacts
  <2> HIDE DEF whites, depth
  <2>4. Lower(<<whites', RootsAhead', depth', DepsAhead'>>,
              <<whites, RootsAhead, depth, DepsAhead>>)
    BY <2>3, LowerFour
  <2> QED BY <2>4 DEF LinkMeasure, whites, depth
<1>15. CASE Finish
  <2>1. /\ Top.name \in LibraryNames /\ color[Top.name] = "Gray"
        /\ color' = [color EXCEPT ![Top.name] = "Black"]
        /\ depth' = depth - 1
    <3>1. Walking
      BY <1>15 DEF Finish
    <3>2. Len(link_stack) \in Depth /\ Top \in Frames /\ Top.name = Name(Len(link_stack))
      BY <1>1, <3>1, TopFacts
    <3> QED BY <1>1, <1>15, <3>2, FinishFacts DEF ColorsInv, Frames
  <2>2. Whites' = Whites
    BY <1>1, <1>2, <2>1, WhitesFacts
  <2>3. whites' = whites /\ RootsAhead' = RootsAhead /\ depth' < depth
    BY <1>3, <1>6, <1>15, <2>1, <2>2 DEF Finish
  <2> HIDE DEF whites, depth
  <2>4. Lower(<<whites', RootsAhead', depth', DepsAhead'>>,
              <<whites, RootsAhead, depth, DepsAhead>>)
    BY <2>3, LowerFour
  <2> QED BY <2>4 DEF LinkMeasure, whites, depth
<1>16. CASE ReturnOrder
  BY <1>8, <1>16 DEF ReturnOrder, Between
<1> QED BY <1>9, <1>10, <1>11, <1>12, <1>13, <1>14, <1>15, <1>16 DEF LinkNext

\* Every turn of the walk lowers a list of four numbers, so it has no endless run
\* (DescentEnds) over any graph of libraries, with whatever cycles.
THEOREM LinkWalkDescends ==
  LinkSpec => /\ [](LinkMeasure \in [1..4 -> Nat])
              /\ [][Lower(LinkMeasure', LinkMeasure)]_linkVars
<1>1. LinkInit => FiniteLibraries
  BY FiniteConfiguration DEF LinkInit, FiniteLibraries
<1>2. FiniteLibraries /\ [LinkNext]_linkVars => FiniteLibraries'
  BY SameGraph DEF FiniteLibraries
<1>3. LinkInv /\ FiniteLibraries => LinkMeasure \in [1..4 -> Nat]
  BY MeasureType DEF LinkInv
<1>4. LinkInv /\ FiniteLibraries /\ [LinkNext]_linkVars => [Lower(LinkMeasure', LinkMeasure)]_linkVars
  BY TurnDescends
<1> QED BY <1>1, <1>2, <1>3, <1>4, LinkInvariance, PTL DEF LinkSpec
==============================================================================
