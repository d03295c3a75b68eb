--------------------------- MODULE LockWalkProofs ----------------------------
(***************************************************************************)
(* Proofs about LockWalk, for every set of packages, however deep, every   *)
(* manifest and every list of frameworks: what a lockfile holds and which  *)
(* projects are refused.                                                   *)
(***************************************************************************)
EXTENDS LockWalk, Induction, FiniteSetTheorems, SequenceTheorems, TLAPS

------------------------------------------------------------------------------
(* Trees *)

LEMMA InfoFacts ==
  ASSUME NEW info \in Infos
  PROVE  info.name \in PackageNames /\ info.dependencies \in Seq(Infos)
<1>1. PICK k \in 1..Len(Nested) : info \in Nested[k]
  BY DEF Infos
<1>2. info.dependencies \in Seq(UNION {Nested[j] : j \in 1..(k - 1)})
  BY <1>1, NestedAssumption DEF NestedAssumption
<1>3. Len(Nested) \in Nat
  BY NestedAssumption DEF NestedAssumption
<1>4. UNION {Nested[j] : j \in 1..(k - 1)} \subseteq Infos
  BY <1>3 DEF Infos
<1> QED BY <1>1, <1>2, <1>4, NestedAssumption DEF NestedAssumption

\* The recursion of Beneath has a solution: the nodes found in ever more turns.
LEMMA BeneathDefined ==
  \A info \in Infos : Beneath[info] = {info} \cup Under(info)
<1> DEFINE D == [Infos -> SUBSET Infos]
           d == [info \in Infos |-> {}]
           Down(f, info) == {info} \cup UNION {f[info.dependencies[i]] : i \in DOMAIN info.dependencies}
           G == [p \in Nat \X D |-> [info \in Infos |-> Down(p[2], info)]]
           Is(f) == f = [info \in Infos |-> Down(f, info)]
<1>1. d \in D
  OBVIOUS
<1>2. \A f \in D, info \in Infos : Down(f, info) \in SUBSET Infos
  <2> SUFFICES ASSUME NEW f \in D, NEW info \in Infos, NEW x \in Down(f, info)
               PROVE  x \in Infos
    OBVIOUS
  <2>1. CASE x = info
    BY <2>1
  <2>2. CASE x # info
    <3>1. PICK i \in DOMAIN info.dependencies : x \in f[info.dependencies[i]]
      BY <2>2
    <3>2. info.dependencies[i] \in Infos
      BY InfoFacts
    <3> QED BY <3>1, <3>2
  <2> QED BY <2>1, <2>2
<1>3. G \in [Nat \X D -> D]
  <2> HIDE DEF Down
  <2> QED BY <1>2
<1>4. PICK f : Iterates(f, D, d, G)
  <2> HIDE DEF D, d, G
  <2> QED BY <1>1, <1>3, IterationExists
<1>5. f \in [Nat -> D] /\ f[0] = d
  BY <1>4 DEF Iterates
<1>6. ASSUME NEW n \in Nat PROVE \A info \in Infos : f[n + 1][info] = Down(f[n], info)
  <2> HIDE DEF Down, D
  <2>1. f[n] \in D /\ f[n + 1] = G[<<n + 1, f[n]>>] /\ n + 1 \in Nat
    <3> HIDE DEF G
    <3> QED BY <1>4 DEF Iterates
  <2>2. f[n + 1] = [info \in Infos |-> Down(f[n], info)]
    BY <2>1
  <2> QED BY <2>2
<1> DEFINE B == [info \in Infos |-> {x \in Infos : \E n \in Nat : x \in f[n][info]}]
<1>7. ASSUME NEW info \in Infos PROVE B[info] = Down(B, info)
  <2>0. info.dependencies \in Seq(Infos)
    BY InfoFacts
  <2>1. ASSUME NEW x \in B[info] PROVE x \in Down(B, info)
    <3>1. PICK n \in Nat : x \in f[n][info]
      OBVIOUS
    <3>2. n # 0
      BY <1>5, <3>1
    <3>3. n - 1 \in Nat /\ (n - 1) + 1 = n
      BY <3>2
    <3>4. x \in Down(f[n - 1], info)
      BY <1>6, <3>1, <3>3
    <3>5. CASE x = info
      BY <3>5
    <3>6. CASE x # info
      <4>1. PICK i \in DOMAIN info.dependencies : x \in f[n - 1][info.dependencies[i]]
        BY <3>4, <3>6
      <4>2. info.dependencies[i] \in Infos
        BY <2>0
      <4>3. x \in B[info.dependencies[i]]
        BY <3>3, <4>1, <4>2
      <4> HIDE DEF B
      <4> QED BY <4>3
    <3> QED BY <3>5, <3>6
  <2>2. ASSUME NEW x \in Down(B, info) PROVE x \in B[info]
    <3>1. CASE x = info
      <4>1. f[0 + 1][info] = Down(f[0], info)
        BY <1>6
      <4>2. x \in f[1][info]
        BY <3>1, <4>1
      <4> QED BY <3>1, <4>2
    <3>2. CASE x # info
      <4>1. PICK i \in DOMAIN info.dependencies : x \in B[info.dependencies[i]]
        BY <2>2, <3>2
      <4>2. info.dependencies[i] \in Infos
        BY <2>0
      <4>3. PICK n \in Nat : x \in f[n][info.dependencies[i]]
        BY <4>1, <4>2
      <4>4. x \in Down(f[n], info)
        BY <4>3
      <4>5. x \in f[n + 1][info] /\ n + 1 \in Nat
        <5> HIDE DEF Down
        <5> QED BY <1>6, <4>4
      <4>6. x \in Infos
        BY <4>1, <4>2
      <4> QED BY <4>5, <4>6
    <3> QED BY <3>1, <3>2
  <2> HIDE DEF B, Down
  <2> QED BY <2>1, <2>2
<1>8. Is(B)
  <2> HIDE DEF Down
  <2>1. B \in [Infos -> SUBSET Infos]
    OBVIOUS
  <2> HIDE DEF B
  <2> QED BY <1>7, <2>1
<1>9. Beneath = CHOOSE g : Is(g)
  BY DEF Beneath
<1> HIDE DEF B
<1>10. Is(Beneath)
  <2> HIDE DEF Is
  <2> QED BY <1>8, <1>9
<1> QED BY <1>10 DEF Under

\* Nodes are trees, and what a node of a tree depends on are nodes of it.
LEMMA BeneathFacts ==
  \A info \in Infos :
    /\ info \in Beneath[info]
    /\ Beneath[info] \subseteq Infos
    /\ \A t \in Beneath[info] : \A i \in DOMAIN t.dependencies :
         Beneath[t.dependencies[i]] \subseteq Beneath[info]
<1> DEFINE Good(info) ==
             /\ Beneath[info] \subseteq Infos
             /\ \A t \in Beneath[info] : \A i \in DOMAIN t.dependencies :
                  Beneath[t.dependencies[i]] \subseteq Beneath[info]
           T == {k \in Nat : \A j \in 1..Len(Nested) : j <= k => \A info \in Nested[j] : Good(info)}
<1>0. Len(Nested) \in Nat /\ \A j \in 1..Len(Nested) : Nested[j] \subseteq Infos
  BY NestedAssumption DEF NestedAssumption
<1>1. 0 \in T
  BY <1>0
<1>2. ASSUME NEW k \in Nat, k \in T PROVE k + 1 \in T
  <2> SUFFICES ASSUME NEW j \in 1..Len(Nested), j <= k + 1, NEW info \in Nested[j]
               PROVE  Good(info)
    OBVIOUS
  <2>1. info \in Infos
    BY <1>0
  <2>2. info.dependencies \in Seq(UNION {Nested[l] : l \in 1..(j - 1)})
    BY NestedAssumption DEF NestedAssumption
  <2>3. ASSUME NEW i \in DOMAIN info.dependencies
        PROVE  Good(info.dependencies[i]) /\ info.dependencies[i] \in Infos
    <3>1. PICK l \in 1..(j - 1) : info.dependencies[i] \in Nested[l]
      BY <2>2
    <3>2. l \in 1..Len(Nested) /\ l <= k
      BY <1>0, <1>2
    <3> HIDE DEF Good
    <3> QED BY <1>0, <1>2, <3>1, <3>2
  <2>4. Beneath[info] = {info} \cup UNION {Beneath[info.dependencies[i]] : i \in DOMAIN info.dependencies}
    BY <2>1, BeneathDefined DEF Under
  <2>5. Beneath[info] \subseteq Infos
    BY <2>1, <2>3, <2>4
  <2>6. ASSUME NEW t \in Beneath[info], NEW i \in DOMAIN t.dependencies
        PROVE  Beneath[t.dependencies[i]] \subseteq Beneath[info]
    <3>1. CASE t = info
      BY <2>4, <2>6, <3>1
    <3>2. CASE t # info
      <4>1. PICK l \in DOMAIN info.dependencies : t \in Beneath[info.dependencies[l]]
        BY <2>4, <3>2
      <4>2. Beneath[t.dependencies[i]] \subseteq Beneath[info.dependencies[l]]
        BY <2>3, <2>6, <4>1
      <4> QED BY <2>4, <4>2
    <3> QED BY <3>1, <3>2
  <2> QED BY <2>5, <2>6
<1> HIDE DEF T
<1>3. \A k \in Nat : k \in T
  BY <1>1, <1>2, EveryNumber
<1>4. ASSUME NEW info \in Infos PROVE Good(info)
  <2>1. PICK j \in 1..Len(Nested) : info \in Nested[j]
    BY DEF Infos
  <2>2. j \in T
    BY <1>0, <1>3
  <2> HIDE DEF Good
  <2> QED BY <1>0, <2>1, <2>2 DEF T
<1> QED BY <1>4, BeneathDefined

\* The nodes under one that is under a tree are under it.
LEMMA UnderFacts ==
  ASSUME NEW info \in Infos
  PROVE  /\ Under(info) \subseteq Infos /\ Under(info) \subseteq Beneath[info]
         /\ \A i \in DOMAIN info.dependencies : info.dependencies[i] \in Under(info)
         /\ \A t \in Under(info) : Under(t) \subseteq Under(info)
<1>1. info.dependencies \in Seq(Infos)
  BY InfoFacts
<1>2. Under(info) \subseteq Infos
  BY <1>1, BeneathFacts DEF Under
<1>3. Under(info) \subseteq Beneath[info]
  BY BeneathDefined
<1>4. \A i \in DOMAIN info.dependencies : info.dependencies[i] \in Under(info)
  BY <1>1, BeneathFacts DEF Under
<1>5. ASSUME NEW t \in Under(info), NEW x \in Under(t) PROVE x \in Under(info)
  <2>1. PICK i \in DOMAIN info.dependencies : t \in Beneath[info.dependencies[i]]
    BY DEF Under
  <2>2. PICK k \in DOMAIN t.dependencies : x \in Beneath[t.dependencies[k]]
    BY DEF Under
  <2>3. Beneath[t.dependencies[k]] \subseteq Beneath[info.dependencies[i]]
    BY <1>1, <2>1, BeneathFacts
  <2> QED BY <2>2, <2>3 DEF Under
<1> QED BY <1>2, <1>3, <1>4, <1>5

------------------------------------------------------------------------------
(* The manifest *)

WalkFrames == [info : DeclaredInfos, expanded : BOOLEAN]
WalkEntries == [name : PackageNames, dependencies : Seq(PackageNames)]

\* The roots are trees, and what is declared are trees, closed under Under.
LEMMA RootsFacts ==
  ASSUME packages \in Seq(Infos), frameworks \in FrameworkLists
  PROVE  /\ Roots \in Seq(Seq(RootInfos))
         /\ RootInfos \subseteq DeclaredInfos
         /\ DeclaredInfos \subseteq Infos
         /\ \A t \in DeclaredInfos : Under(t) \subseteq DeclaredInfos
<1> DEFINE P == [i \in DOMAIN packages |-> <<packages[i]>>]
           F == [i \in DOMAIN frameworks |-> FrameworkPackage(frameworks[i])]
<1>1. P \in Seq(Seq(Infos))
  <2>1. packages \in Seq(Infos)
    OBVIOUS
  <2>2. DOMAIN packages = 1..Len(packages) /\ Len(packages) \in Nat
    BY <2>1
  <2>3. \A i \in DOMAIN packages : <<packages[i]>> \in Seq(Infos)
    BY <2>1
  <2> QED BY <2>2, <2>3
<1>2. F \in Seq(Seq(Infos))
  <2>1. frameworks \in Seq([name : PackageNames, package : Seq(Infos), default : Seq(Infos)])
    BY ManifestsAssumption DEF ManifestsAssumption
  <2>2. DOMAIN frameworks = 1..Len(frameworks) /\ Len(frameworks) \in Nat
    BY <2>1
  <2>3. \A i \in DOMAIN frameworks : FrameworkPackage(frameworks[i]) \in Seq(Infos)
    <3>1. \A i \in DOMAIN frameworks :
            frameworks[i].package \in Seq(Infos) /\ frameworks[i].default \in Seq(Infos)
      <4> DEFINE R == [name : PackageNames, package : Seq(Infos), default : Seq(Infos)]
      <4>1. \A f \in R : f.package \in Seq(Infos) /\ f.default \in Seq(Infos)
        OBVIOUS
      <4>2. frameworks \in Seq(R)
        BY <2>1
      <4> HIDE DEF R
      <4>3. \A i \in DOMAIN frameworks : frameworks[i] \in R
        BY <4>2
      <4> QED BY <4>1, <4>3
    <3> QED BY <3>1 DEF FrameworkPackage
  <2> QED BY <2>2, <2>3
<1>3. Roots = P \o F
  BY DEF Roots
<1> HIDE DEF P, F
<1>4. Roots \in Seq(Seq(Infos))
  BY <1>1, <1>2, <1>3
<1>5. RootInfos \subseteq Infos
  BY <1>4 DEF RootInfos, ToSet
<1>6. Roots \in Seq(Seq(RootInfos))
  <2>1. ASSUME NEW i \in DOMAIN Roots PROVE Roots[i] \in Seq(RootInfos)
    <3>1. Roots[i] \in Seq(Infos)
      BY <1>4
    <3>2. \A k \in DOMAIN Roots[i] : Roots[i][k] \in RootInfos
      BY DEF RootInfos, ToSet
    <3> QED BY <3>1, <3>2
  <2> QED BY <1>4, <2>1
<1>7. RootInfos \subseteq DeclaredInfos
  BY <1>5, BeneathFacts DEF DeclaredInfos
<1>8. DeclaredInfos \subseteq Infos
  BY <1>5, BeneathFacts DEF DeclaredInfos
<1>9. ASSUME NEW t \in DeclaredInfos, NEW x \in Under(t) PROVE x \in DeclaredInfos
  <2>1. PICK info \in RootInfos : t \in Beneath[info]
    BY DEF DeclaredInfos
  <2>2. PICK i \in DOMAIN t.dependencies : x \in Beneath[t.dependencies[i]]
    BY DEF Under
  <2>3. x \in Beneath[info]
    BY <1>5, <2>1, <2>2, BeneathFacts
  <2> QED BY <2>3 DEF DeclaredInfos
<1> QED BY <1>6, <1>7, <1>8, <1>9

------------------------------------------------------------------------------
(* What the steps do to the stack *)

\* The parts of the invariant but the two that follow from the others.
WalkInv == /\ LockTypeOK /\ OnPathInv /\ AncestryInv /\ DependenciesInv
           /\ WalkRootsInv /\ EntriesInv

\* A stack without its top frame.
LEMMA PopFacts ==
  ASSUME NEW S, NEW s \in Seq(S), s # <<>>
  PROVE  /\ Front(s) \in Seq(S)
         /\ Len(Front(s)) = Len(s) - 1
         /\ \A i \in 1..(Len(s) - 1) : Front(s)[i] = s[i]
         /\ Len(s) \in 1..Len(s) /\ Last(s) = s[Len(s)] /\ s[Len(s)] \in S
<1>1. Len(s) \in Nat /\ Len(s) # 0
  OBVIOUS
<1> DEFINE n == Len(s) - 1
<1>2. n \in Int /\ 1 \in Int /\ \A i \in 1..n : s[i] \in S
  BY <1>1
<1> HIDE DEF n
<1>3. /\ SubSeq(s, 1, n) \in Seq(S)
      /\ Len(SubSeq(s, 1, n)) = IF 1 <= n THEN n - 1 + 1 ELSE 0
      /\ \A i \in 1..(n - 1 + 1) : SubSeq(s, 1, n)[i] = s[1 + i - 1]
  BY <1>2, SubSeqProperties
<1>4. n \in Nat /\ n - 1 + 1 = n /\ \A i \in 1..n : 1 + i - 1 = i
  BY <1>1 DEF n
<1>5. Len(s) \in 1..Len(s) /\ Last(s) = s[Len(s)] /\ s[Len(s)] \in S
  BY <1>1 DEF Last
<1> QED BY <1>3, <1>4, <1>5 DEF Front, n

\* Expanding the top frame keeps the frames below it, and puts its dependencies
\* above it, each of them.
LEMMA ExpandFacts ==
  ASSUME LockTypeOK, NEW n, Expand(n)
  PROVE  LET top  == Len(frames)
             deps == frames[top].info.dependencies
         IN  /\ frames # <<>> /\ top \in Nat \ {0}
             /\ frames[top] \in WalkFrames /\ ~frames[top].expanded /\ frames[top].info.name = n
             /\ deps \in Seq(Infos)
             /\ frames' \in Seq(WalkFrames)
             /\ Len(frames') = top + Len(deps)
             /\ \A i \in 1..(top - 1) : frames'[i] = frames[i]
             /\ frames'[top] = [info |-> frames[top].info, expanded |-> TRUE]
             /\ \A k \in 1..Len(deps) : frames'[top + k] = Frame(deps[(Len(deps) - k) + 1])
<1> DEFINE top  == Len(frames)
           info == frames[top].info
           deps == info.dependencies
           low  == Append(Front(frames), [info |-> Current.info, expanded |-> TRUE])
           high == [i \in DOMAIN deps |-> Frame(Reverse(deps)[i])]
<1>1. frames # <<>> /\ frames \in Seq(WalkFrames)
  BY DEF Expand, AtEntrance, LockTypeOK, WalkFrames
<1>2. /\ Front(frames) \in Seq(WalkFrames)
      /\ Len(Front(frames)) = top - 1
      /\ \A i \in 1..(top - 1) : Front(frames)[i] = frames[i]
      /\ top \in 1..top /\ Current = frames[top] /\ frames[top] \in WalkFrames
  BY <1>1, PopFacts DEF Current
<1>3. top \in Nat \ {0}
  BY <1>1
<1>4. ~frames[top].expanded /\ info.name = n
  BY <1>2 DEF Expand, AtEntrance
<1>5. /\ DeclaredInfos \subseteq Infos /\ info \in DeclaredInfos
      /\ \A t \in DeclaredInfos : Under(t) \subseteq DeclaredInfos
  BY <1>2, RootsFacts DEF LockTypeOK, WalkFrames
<1>6. deps \in Seq(Infos) /\ \A k \in DOMAIN deps : deps[k] \in DeclaredInfos
  BY <1>5, InfoFacts, UnderFacts
<1>7. [info |-> Current.info, expanded |-> TRUE] = [info |-> info, expanded |-> TRUE]
  BY <1>2
<1>8. [info |-> info, expanded |-> TRUE] \in WalkFrames
  BY <1>5 DEF WalkFrames
<1>9. /\ low \in Seq(WalkFrames) /\ Len(low) = top
      /\ \A i \in 1..(top - 1) : low[i] = frames[i]
      /\ low[top] = [info |-> info, expanded |-> TRUE]
  BY <1>2, <1>3, <1>7, <1>8
<1>10. Len(deps) \in Nat /\ DOMAIN deps = 1..Len(deps)
  BY <1>6
<1>11. \A k \in 1..Len(deps) : /\ (Len(deps) - k) + 1 \in 1..Len(deps)
                               /\ high[k] = Frame(deps[(Len(deps) - k) + 1])
  BY <1>10 DEF Reverse
<1>12. \A k \in 1..Len(deps) : high[k] \in WalkFrames
  BY <1>6, <1>10, <1>11 DEF Frame, WalkFrames
<1>13. high \in Seq(WalkFrames) /\ Len(high) = Len(deps)
  <2>1. high = [i \in 1..Len(deps) |-> high[i]]
    BY <1>10
  <2> HIDE DEF high
  <2> QED BY <2>1, <1>10, <1>12
<1>14. frames' = low \o high
  BY <1>2 DEF Expand
<1> HIDE DEF low, high
<1>15. /\ frames' \in Seq(WalkFrames)
       /\ Len(frames') = top + Len(deps)
       /\ \A i \in 1..top : frames'[i] = low[i]
       /\ \A k \in 1..Len(deps) : frames'[top + k] = high[k]
  <2>1. Len(low) = top /\ top \in Nat
    BY <1>3, <1>9
  <2> HIDE DEF top, deps
  <2>2. low \o high \in Seq(WalkFrames) /\ Len(low \o high) = Len(low) + Len(high)
    BY <1>9, <1>13, ConcatProperties
  <2>3. \A i \in 1..Len(low \o high) :
          (low \o high)[i] = IF i <= Len(low) THEN low[i] ELSE high[i - Len(low)]
    BY <1>9, <1>13, ConcatProperties
  <2>4. \A i \in 1..top : frames'[i] = low[i]
    BY <1>10, <1>13, <1>14, <2>1, <2>2, <2>3
  <2>5. ASSUME NEW k \in 1..Len(deps) PROVE frames'[top + k] = high[k]
    <3>1. top + k \in 1..(top + Len(deps)) /\ ~(top + k <= top) /\ (top + k) - top = k
      BY <1>10, <2>1
    <3> QED BY <1>13, <1>14, <2>1, <2>2, <2>3, <3>1
  <2> QED BY <1>13, <1>14, <2>1, <2>2, <2>4, <2>5
<1>16. \A i \in 1..(top - 1) : i \in 1..top
  BY <1>3
<1> QED BY <1>1, <1>2, <1>3, <1>4, <1>6, <1>9, <1>11, <1>15, <1>16

LEMMA SameManifest ==
  ASSUME UNCHANGED <<packages, frameworks>>
  PROVE  Roots' = Roots /\ RootInfos' = RootInfos /\ DeclaredInfos' = DeclaredInfos
<1>1. Roots' = Roots
  BY DEF Roots
<1>2. RootInfos' = RootInfos
  BY <1>1 DEF RootInfos
<1> QED BY <1>1, <1>2 DEF DeclaredInfos

\* What the frames are, in the terms of the parts of the invariant.
LEMMA FramesFacts ==
  ASSUME LockTypeOK
  PROVE  /\ frames \in Seq(WalkFrames) /\ Len(frames) \in Nat /\ DOMAIN frames = Position
         /\ DeclaredInfos \subseteq Infos
         /\ \A i \in Position : /\ frames[i].info \in DeclaredInfos /\ frames[i].info \in Infos
                                /\ NameAt(i) \in PackageNames /\ Expanded(i) \in BOOLEAN
<1>1. frames \in Seq(WalkFrames)
  BY DEF LockTypeOK, WalkFrames
<1>2. DeclaredInfos \subseteq Infos
  BY RootsFacts DEF LockTypeOK
<1>3. \A i \in Position : frames[i].info \in DeclaredInfos /\ frames[i].expanded \in BOOLEAN
  <2>1. \A i \in Position : frames[i] \in WalkFrames
    BY <1>1 DEF Position
  <2> QED BY <2>1 DEF WalkFrames
<1> QED BY <1>1, <1>2, <1>3, InfoFacts DEF Position, NameAt, Expanded

\* The stack without its top frame.
LEMMA PoppedFacts ==
  ASSUME LockTypeOK, frames # <<>>, frames' = Front(frames)
  PROVE  LET top == Len(frames) IN
         /\ top \in Position /\ top \in Nat \ {0} /\ Current = frames[top]
         /\ frames' \in Seq(WalkFrames) /\ Len(frames') = top - 1
         /\ Position' = 1..(top - 1)
         /\ \A i \in Position : i = top \/ i \in Position'
         /\ \A i \in Position' :
              /\ i \in Position /\ i # top /\ frames'[i] = frames[i]
              /\ NameAt(i)' = NameAt(i) /\ Expanded(i)' = Expanded(i)
<1>1. frames \in Seq(WalkFrames)
  BY DEF LockTypeOK, WalkFrames
<1>2. /\ frames' \in Seq(WalkFrames)
      /\ Len(frames') = Len(frames) - 1
      /\ \A i \in 1..(Len(frames) - 1) : frames'[i] = frames[i]
      /\ Len(frames) \in 1..Len(frames) /\ Current = frames[Len(frames)]
  BY <1>1, PopFacts DEF Current
<1>3. Position' = 1..(Len(frames) - 1)
  BY <1>2 DEF Position
<1>4. \A i \in Position' : NameAt(i)' = NameAt(i) /\ Expanded(i)' = Expanded(i)
  BY <1>2, <1>3 DEF NameAt, Expanded
<1> QED BY <1>2, <1>3, <1>4 DEF Position

------------------------------------------------------------------------------
(* Initially, and step by step *)

LEMMA LockInitially == LockInit => WalkInv
<1> SUFFICES ASSUME LockInit PROVE WalkInv
  OBVIOUS
<1> USE DEF LockInit
<1>1. LockTypeOK
  <2>0. packages \in Seq(Infos)
    BY ManifestsAssumption DEF ManifestsAssumption
  <2>1. Roots \in Seq(Seq(RootInfos))
    BY <2>0, RootsFacts
  <2> QED BY <2>0, <2>1 DEF LockTypeOK
<1>2. Position = {} /\ DOMAIN entries = {}
  BY DEF Position
<1>3. OnPathInv /\ AncestryInv /\ DependenciesInv
  BY <1>2 DEF OnPathInv, AncestryInv, DependenciesInv
<1>4. WalkRootsInv
  BY DEF WalkRootsInv, RootInfos
<1>5. EntriesInv
  BY <1>2 DEF EntriesInv, Locked
<1> QED BY <1>1, <1>3, <1>4, <1>5 DEF WalkInv

\* The next root is on the stack, alone and not expanded.
LEMMA WalkNextStep == WalkInv /\ WalkNext => WalkInv'
<1> SUFFICES ASSUME WalkInv, WalkNext PROVE WalkInv'
  OBVIOUS
<1>1. LockTypeOK /\ UNCHANGED <<packages, frameworks, done, path, entries, answer, offender>>
  BY DEF WalkInv, WalkNext
<1>2. Roots' = Roots /\ RootInfos' = RootInfos /\ DeclaredInfos' = DeclaredInfos
  BY <1>1, SameManifest
<1> DEFINE root == Head(todo)
<1>3. /\ todo \in Seq(Seq(RootInfos)) /\ todo # <<>> /\ frames = <<>>
      /\ todo' = Tail(todo) /\ frames' = [i \in DOMAIN root |-> Frame(root[i])]
  BY <1>1 DEF WalkNext, LockTypeOK
<1>4. /\ root \in Seq(RootInfos) /\ root = todo[1] /\ Len(todo) \in Nat \ {0}
      /\ todo' \in Seq(Seq(RootInfos)) /\ Len(todo') = Len(todo) - 1
      /\ \A i \in 1..(Len(todo) - 1) : todo'[i] = todo[i + 1]
  BY <1>3
<1> HIDE DEF root
<1>5. DOMAIN root = 1..Len(root) /\ Len(root) \in Nat /\ \A i \in DOMAIN root : root[i] \in RootInfos
  BY <1>4
<1>6. RootInfos \subseteq DeclaredInfos
  BY <1>1, RootsFacts DEF LockTypeOK
<1>7. /\ frames' \in Seq(WalkFrames) /\ Position' = DOMAIN root
      /\ \A i \in DOMAIN root : /\ frames'[i] = Frame(root[i])
                                /\ NameAt(i)' = root[i].name /\ ~Expanded(i)'
  <2>1. \A i \in DOMAIN root : frames'[i] = Frame(root[i]) /\ Frame(root[i]) \in WalkFrames
    BY <1>3, <1>5, <1>6 DEF Frame, WalkFrames
  <2>2. frames' \in Seq(WalkFrames) /\ Len(frames') = Len(root)
    <3>1. frames' = [i \in 1..Len(root) |-> frames'[i]]
      BY <1>3, <1>5
    <3> QED BY <3>1, <2>1, <1>5
  <2>3. \A i \in DOMAIN root : NameAt(i)' = root[i].name /\ ~Expanded(i)'
    <3>1. ASSUME NEW i \in DOMAIN root
          PROVE  frames'[i].info = root[i] /\ frames'[i].expanded = FALSE
      <4>1. frames'[i] = Frame(root[i])
        BY <2>1
      <4> QED BY <4>1 DEF Frame
    <3> QED BY <3>1 DEF NameAt, Expanded
  <2> QED BY <2>1, <2>2, <2>3, <1>5 DEF Position
<1>8. LockTypeOK'
  BY <1>1, <1>2, <1>4, <1>7 DEF LockTypeOK, WalkFrames
<1>9. OnPathInv'
  <2>1. path = {}
    BY <1>3 DEF WalkInv, OnPathInv, Position
  <2> QED BY <1>1, <1>7, <2>1 DEF OnPathInv
<1>10. AncestryInv' /\ DependenciesInv'
  BY <1>7 DEF AncestryInv, DependenciesInv
<1>11. WalkRootsInv'
  <2> SUFFICES ASSUME NEW info \in RootInfos
               PROVE  \/ info.name \in done
                      \/ \E j \in Position' : NameAt(j)' = info.name
                      \/ \E i \in DOMAIN todo' : info \in ToSet(todo'[i])
    BY <1>1, <1>2 DEF WalkRootsInv
  <2>1. Position = {}
    BY <1>3 DEF Position
  <2>2. CASE info.name \in done
    BY <2>2
  <2>3. ASSUME NEW i \in DOMAIN todo, info \in ToSet(todo[i])
        PROVE  \/ \E j \in Position' : NameAt(j)' = info.name
               \/ \E k \in DOMAIN todo' : info \in ToSet(todo'[k])
    <3>1. DOMAIN todo = 1..Len(todo) /\ DOMAIN todo' = 1..(Len(todo) - 1)
      BY <1>3, <1>4
    <3>2. CASE i = 1
      <4>1. PICK k \in DOMAIN root : info = root[k]
        BY <1>4, <2>3, <3>2 DEF ToSet
      <4> QED BY <4>1, <1>7
    <3>3. CASE i # 1
      <4>1. i - 1 \in 1..(Len(todo) - 1) /\ (i - 1) + 1 = i
        BY <1>4, <3>1, <3>3
      <4>2. info \in ToSet(todo'[i - 1])
        BY <1>4, <2>3, <4>1
      <4> QED BY <3>1, <4>1, <4>2
    <3> QED BY <3>2, <3>3
  <2> QED BY <2>1, <2>2, <2>3 DEF WalkInv, WalkRootsInv
<1>12. EntriesInv'
  BY <1>1, <1>2 DEF WalkInv, EntriesInv, Locked
<1> QED BY <1>8, <1>9, <1>10, <1>11, <1>12 DEF WalkInv

\* A name that is done leaves the stack.
LEMMA SkipDoneStep == ASSUME WalkInv, NEW n, SkipDone(n) PROVE WalkInv'
<1>1. LockTypeOK /\ UNCHANGED <<packages, frameworks, todo, done, path, entries, answer, offender>>
  BY DEF WalkInv, SkipDone
<1>2. Roots' = Roots /\ RootInfos' = RootInfos /\ DeclaredInfos' = DeclaredInfos
  BY <1>1, SameManifest
<1> DEFINE top == Len(frames)
<1>3. /\ top \in Position /\ Current = frames[top] /\ frames' \in Seq(WalkFrames)
      /\ \A i \in Position : i = top \/ i \in Position'
      /\ \A i \in Position' : /\ i \in Position /\ i # top /\ frames'[i] = frames[i]
                              /\ NameAt(i)' = NameAt(i) /\ Expanded(i)' = Expanded(i)
  BY <1>1, PoppedFacts DEF SkipDone, AtEntrance
<1> HIDE DEF top
<1>4. ~Expanded(top) /\ NameAt(top) = n /\ n \in done
  BY <1>3 DEF SkipDone, AtEntrance, Expanded, NameAt
<1>5. LockTypeOK'
  BY <1>1, <1>2, <1>3 DEF LockTypeOK, WalkFrames
<1>6. OnPathInv'
  <2>1. {NameAt(i)' : i \in {j \in Position' : Expanded(j)'}}
          = {NameAt(i) : i \in {j \in Position : Expanded(j)}}
    BY <1>3, <1>4
  <2> QED BY <2>1, <1>1, <1>3 DEF WalkInv, OnPathInv
<1>7. AncestryInv'
  BY <1>3 DEF WalkInv, AncestryInv
<1>8. DependenciesInv'
  <2> SUFFICES ASSUME NEW i \in Position', Expanded(i)',
                      NEW k \in DOMAIN frames'[i].info.dependencies
               PROVE  LET m == frames'[i].info.dependencies[k].name
                      IN  m \in done \/ \E j \in Position' : i < j /\ NameAt(j)' = m
    BY <1>1 DEF DependenciesInv
  <2>1. i \in Position /\ Expanded(i) /\ frames'[i] = frames[i]
    BY <1>3
  <2> DEFINE m == frames[i].info.dependencies[k].name
  <2>2. m \in done \/ \E j \in Position : i < j /\ NameAt(j) = m
    BY <2>1 DEF WalkInv, DependenciesInv
  <2> QED BY <2>1, <2>2, <1>3, <1>4
<1>9. WalkRootsInv'
  BY <1>1, <1>2, <1>3, <1>4 DEF WalkInv, WalkRootsInv
<1>10. EntriesInv'
  BY <1>1, <1>2 DEF WalkInv, EntriesInv, Locked
<1> QED BY <1>5, <1>6, <1>7, <1>8, <1>9, <1>10 DEF WalkInv

\* A name on the path is refused, and is that of a package that needs itself.
LEMMA RefuseCycleStep ==
  ASSUME WalkInv, NEW n \in PackageNames, RefuseCycle(n)
  PROVE  /\ WalkInv'
         /\ \E t \in DeclaredInfos :
              t.name = n /\ \E u \in Under(t) : u.name = n
<1>1. LockTypeOK /\ UNCHANGED <<packages, frameworks, todo, done, path, frames, entries>>
      /\ answer' = "cycle" /\ offender' = n /\ answer = "none"
  BY DEF WalkInv, RefuseCycle, AtEntrance
<1>2. Roots' = Roots /\ RootInfos' = RootInfos /\ DeclaredInfos' = DeclaredInfos
  BY <1>1, SameManifest
<1>3. LockTypeOK'
  BY <1>1, <1>2 DEF LockTypeOK
<1>4. OnPathInv' /\ AncestryInv' /\ DependenciesInv' /\ WalkRootsInv'
  BY <1>1, <1>2 DEF WalkInv, OnPathInv, AncestryInv, DependenciesInv, WalkRootsInv,
                    Position, NameAt, Expanded
<1>5. EntriesInv'
  BY <1>1, <1>2 DEF WalkInv, EntriesInv, Locked
<1> DEFINE top == Len(frames)
<1>6. top \in Position /\ Current = frames[top]
  <2>1. frames \in Seq(WalkFrames) /\ frames # <<>>
    BY <1>1, FramesFacts DEF RefuseCycle, AtEntrance
  <2> QED BY <2>1, PopFacts DEF Current, Position
<1>7. ~Expanded(top) /\ NameAt(top) = n /\ n \in path
  BY <1>6 DEF RefuseCycle, AtEntrance, Expanded, NameAt
<1>8. PICK i \in Position : Expanded(i) /\ NameAt(i) = n
  BY <1>7 DEF WalkInv, OnPathInv
<1>9. i < top
  <2>1. i \in 1..top /\ i # top /\ top \in Nat
    BY <1>1, <1>7, <1>8, FramesFacts DEF Position
  <2> QED BY <2>1
<1>10. frames[top].info \in Under(frames[i].info)
  BY <1>6, <1>8, <1>9 DEF WalkInv, AncestryInv
<1>11. frames[i].info \in DeclaredInfos
  BY <1>1, <1>8, FramesFacts
<1> QED BY <1>3, <1>4, <1>5, <1>7, <1>8, <1>10, <1>11 DEF WalkInv, NameAt

\* The top frame is expanded, and what it asks for is above it.
LEMMA ExpandStep == ASSUME WalkInv, NEW n \in PackageNames, Expand(n) PROVE WalkInv'
<1>1. LockTypeOK /\ UNCHANGED <<packages, frameworks, todo, done, entries, answer, offender>>
      /\ path' = path \cup {n} /\ n \notin done /\ n \notin path
  BY DEF WalkInv, Expand
<1>2. Roots' = Roots /\ RootInfos' = RootInfos /\ DeclaredInfos' = DeclaredInfos
  BY <1>1, SameManifest
<1>0. PICK top : top = Len(frames)
  OBVIOUS
<1> DEFINE info == frames[top].info
           deps == info.dependencies
<1>3. /\ top \in Nat \ {0}
      /\ frames[top] \in WalkFrames /\ ~frames[top].expanded /\ info.name = n
      /\ deps \in Seq(Infos)
      /\ frames' \in Seq(WalkFrames)
      /\ Len(frames') = top + Len(deps)
      /\ \A i \in 1..(top - 1) : frames'[i] = frames[i]
      /\ frames'[top] = [info |-> info, expanded |-> TRUE]
      /\ \A k \in 1..Len(deps) : frames'[top + k] = Frame(deps[(Len(deps) - k) + 1])
  BY <1>0, <1>1, ExpandFacts
<1> DEFINE many == Len(deps)
<1>4. many \in Nat /\ DOMAIN deps = 1..many
  BY <1>3
<1>5. Position = 1..top /\ Position' = 1..(top + many)
  BY <1>0, <1>3 DEF Position
<1>5a. top \in Nat \ {0} /\ many \in Nat
  BY <1>3, <1>4
<1>6. info \in DeclaredInfos /\ info \in Infos
  BY <1>1, <1>3, <1>5, FramesFacts
<1> HIDE DEF many
<1>7. \A i \in Position' : i \in 1..(top - 1) \/ i = top \/ (i - top \in 1..many /\ i = top + (i - top))
  BY <1>5, <1>5a
<1>8. top \in Position /\ top \in Position' /\ \A i \in 1..(top - 1) : i \in Position /\ i \in Position' /\ i # top
  BY <1>5, <1>5a
<1>9. \A i \in Position : i \in 1..(top - 1) \/ i = top
  BY <1>5, <1>5a
<1>10. \A i \in 1..(top - 1) : frames'[i] = frames[i] /\ NameAt(i)' = NameAt(i) /\ Expanded(i)' = Expanded(i)
  BY <1>3 DEF NameAt, Expanded
<1>11. NameAt(top)' = n /\ Expanded(top)' /\ NameAt(top) = n /\ ~Expanded(top) /\ frames'[top].info = info
  BY <1>3 DEF NameAt, Expanded
<1>12. ASSUME NEW k \in 1..many
       PROVE  /\ (many - k) + 1 \in 1..many /\ top + k \in Position' /\ top < top + k
              /\ frames'[top + k].info = deps[(many - k) + 1]
              /\ frames'[top + k].expanded = FALSE
              /\ (many - ((many - k) + 1)) + 1 = k
  <2>1. frames'[top + k] = Frame(deps[(many - k) + 1])
    BY <1>3 DEF many
  <2>2. /\ (many - k) + 1 \in 1..many /\ top + k \in Position' /\ top < top + k
        /\ (many - ((many - k) + 1)) + 1 = k
    BY <1>5, <1>5a
  <2> QED BY <2>1, <2>2 DEF Frame
<1>13. \A i \in Position' : Expanded(i)' => i = top \/ (i \in 1..(top - 1) /\ Expanded(i))
  BY <1>7, <1>10, <1>12 DEF Expanded
<1> HIDE DEF info, deps
<1>14. LockTypeOK'
  BY <1>1, <1>2, <1>3 DEF LockTypeOK, WalkFrames
<1>15. OnPathInv'
  <2>1. \A i \in 1..(top - 1) : Expanded(i) => NameAt(i) # n
    BY <1>1, <1>8 DEF WalkInv, OnPathInv
  <2>2. path' = {NameAt(i)' : i \in {j \in Position' : Expanded(j)'}}
    <3>1. ASSUME NEW m \in path' PROVE \E i \in Position' : Expanded(i)' /\ NameAt(i)' = m
      <4>1. CASE m = n
        BY <4>1, <1>8, <1>11
      <4>2. CASE m \in path
        <5>1. PICK i \in Position : Expanded(i) /\ NameAt(i) = m
          BY <4>2 DEF WalkInv, OnPathInv
        <5>2. i \in 1..(top - 1)
          BY <5>1, <1>9, <1>11
        <5> QED BY <5>1, <5>2, <1>8, <1>10
      <4> QED BY <4>1, <4>2, <1>1
    <3>2. ASSUME NEW i \in Position', Expanded(i)' PROVE NameAt(i)' \in path'
      <4>1. CASE i = top
        BY <4>1, <1>1, <1>11
      <4>2. CASE i \in 1..(top - 1) /\ Expanded(i)
        <5>1. NameAt(i) \in path
          BY <4>2, <1>8 DEF WalkInv, OnPathInv
        <5> QED BY <5>1, <4>2, <1>1, <1>10
      <4> QED BY <3>2, <4>1, <4>2, <1>13
    <3> QED BY <3>1, <3>2
  <2>3. ASSUME NEW i \in Position', NEW j \in Position', Expanded(i)', Expanded(j)', i # j
        PROVE  NameAt(i)' # NameAt(j)'
    <3>1. CASE i = top
      BY <2>1, <2>3, <3>1, <1>10, <1>11, <1>13
    <3>2. CASE j = top
      BY <2>1, <2>3, <3>2, <1>10, <1>11, <1>13
    <3>3. CASE i # top /\ j # top
      <4>1. i \in Position /\ j \in Position /\ Expanded(i) /\ Expanded(j)
        BY <2>3, <3>3, <1>8, <1>13
      <4>2. NameAt(i) # NameAt(j)
        BY <2>3, <4>1 DEF WalkInv, OnPathInv
      <4> QED BY <2>3, <3>3, <4>2, <1>10, <1>13
    <3> QED BY <3>1, <3>2, <3>3
  <2>4. path' \cap done' = {}
    BY <1>1 DEF WalkInv, OnPathInv
  <2> QED BY <2>2, <2>3, <2>4 DEF OnPathInv
<1>16. AncestryInv'
  <2> SUFFICES ASSUME NEW i \in Position', NEW j \in Position', i < j, Expanded(i)'
               PROVE  frames'[j].info \in Under(frames'[i].info)
    BY DEF AncestryInv
  <2>1. \A k \in 1..many : deps[(many - k) + 1] \in Under(info)
    BY <1>4, <1>6, <1>12, UnderFacts DEF deps
  <2>2. CASE i = top
    <3>1. j - top \in 1..many /\ j = top + (j - top)
      BY <2>2, <1>3, <1>7
    <3> QED BY <2>1, <2>2, <3>1, <1>11, <1>12
  <2>3. CASE i \in 1..(top - 1) /\ Expanded(i)
    <3>1. frames'[i] = frames[i] /\ i \in Position /\ i < top /\ frames[i].info \in Infos
      BY <2>3, <1>1, <1>3, <1>8, <1>10, FramesFacts
    <3>2. info \in Under(frames[i].info)
      BY <2>3, <3>1, <1>8 DEF WalkInv, AncestryInv, info
    <3>3. CASE j \in 1..(top - 1)
      BY <2>3, <3>1, <3>3, <1>8, <1>10 DEF WalkInv, AncestryInv
    <3>4. CASE j = top
      BY <3>1, <3>2, <3>4, <1>11
    <3>5. CASE j - top \in 1..many /\ j = top + (j - top)
      <4>1. Under(info) \subseteq Under(frames[i].info)
        BY <3>1, <3>2, UnderFacts
      <4> QED BY <2>1, <3>1, <3>5, <4>1, <1>12
    <3> QED BY <3>3, <3>4, <3>5, <1>7
  <2> QED BY <2>2, <2>3, <1>13
<1>17. \A i \in Position : i \in Position' /\ NameAt(i)' = NameAt(i)
  BY <1>8, <1>9, <1>10, <1>11
<1>18. DependenciesInv'
  <2> SUFFICES ASSUME NEW i \in Position', Expanded(i)',
                      NEW k \in DOMAIN frames'[i].info.dependencies
               PROVE  LET m == frames'[i].info.dependencies[k].name
                      IN  m \in done \/ \E j \in Position' : i < j /\ NameAt(j)' = m
    BY <1>1 DEF DependenciesInv
  <2>1. CASE i = top
    <3>1. k \in 1..many /\ frames'[i].info.dependencies[k] = deps[k]
      BY <2>1, <1>4, <1>11 DEF deps
    <3> DEFINE l == (many - k) + 1
    <3>2. l \in 1..many /\ (many - l) + 1 = k
      BY <3>1, <1>12
    <3>3. top + l \in Position' /\ top < top + l /\ frames'[top + l].info = deps[k]
      BY <3>2, <1>12
    <3> QED BY <2>1, <3>1, <3>3 DEF NameAt
  <2>2. CASE i \in 1..(top - 1) /\ Expanded(i)
    <3>1. frames'[i] = frames[i] /\ i \in Position
      BY <2>2, <1>8, <1>10
    <3> DEFINE m == frames[i].info.dependencies[k].name
    <3>2. m \in done \/ \E j \in Position : i < j /\ NameAt(j) = m
      BY <2>2, <3>1 DEF WalkInv, DependenciesInv
    <3> QED BY <3>1, <3>2, <1>17
  <2> QED BY <2>1, <2>2, <1>13
<1>19. WalkRootsInv'
  BY <1>1, <1>2, <1>17 DEF WalkInv, WalkRootsInv
<1>20. EntriesInv'
  BY <1>1, <1>2 DEF WalkInv, EntriesInv, Locked
<1> QED BY <1>14, <1>15, <1>16, <1>18, <1>19, <1>20 DEF WalkInv

\* A package is emitted when what it asks for has been.
LEMMA EmitStep == WalkInv /\ Emit => WalkInv'
<1> SUFFICES ASSUME WalkInv, Emit PROVE WalkInv'
  OBVIOUS
<1>1. LockTypeOK /\ UNCHANGED <<packages, frameworks, todo, answer, offender>>
  BY DEF WalkInv, Emit
<1>2. Roots' = Roots /\ RootInfos' = RootInfos /\ DeclaredInfos' = DeclaredInfos
  BY <1>1, SameManifest
<1>0. PICK top : top = Len(frames)
  OBVIOUS
<1>3. /\ top \in Position /\ top \in Nat \ {0} /\ Current = frames[top] /\ frames' \in Seq(WalkFrames)
      /\ \A i \in Position : i = top \/ i \in Position'
      /\ \A i \in Position' : /\ i \in Position /\ i # top /\ frames'[i] = frames[i]
                              /\ NameAt(i)' = NameAt(i) /\ Expanded(i)' = Expanded(i)
  BY <1>0, <1>1, PoppedFacts DEF Emit
<1> DEFINE info == frames[top].info
           n    == info.name
           new  == [name |-> n, dependencies |-> DependencyNames(info)]
<1>4. /\ Expanded(top) /\ NameAt(top) = n
      /\ path' = path \ {n} /\ done' = done \cup {n} /\ entries' = Append(entries, new)
  BY <1>3 DEF Emit, Expanded, NameAt
<1>5. info \in DeclaredInfos /\ info \in Infos /\ n \in PackageNames
  BY <1>1, <1>3, FramesFacts, InfoFacts
<1>6. n \in path /\ n \notin done
  BY <1>3, <1>4 DEF WalkInv, OnPathInv
<1>7. /\ DependencyNames(info) \in Seq(PackageNames)
      /\ DOMAIN DependencyNames(info) = DOMAIN info.dependencies
      /\ \A k \in DOMAIN info.dependencies : DependencyNames(info)[k] = info.dependencies[k].name
  <2>1. info.dependencies \in Seq(Infos)
    BY <1>5, InfoFacts
  <2>2. DOMAIN info.dependencies = 1..Len(info.dependencies) /\ Len(info.dependencies) \in Nat
    BY <2>1
  <2>3. \A k \in DOMAIN info.dependencies : info.dependencies[k].name \in PackageNames
    BY <2>1, InfoFacts
  <2> HIDE DEF info
  <2> QED BY <2>2, <2>3 DEF DependencyNames
<1> HIDE DEF info
<1>8. \A k \in DOMAIN info.dependencies : info.dependencies[k].name \in done
  <2> SUFFICES ASSUME NEW k \in DOMAIN info.dependencies,
                      NEW j \in Position, top < j
               PROVE  FALSE
    BY <1>3, <1>4 DEF WalkInv, DependenciesInv, info
  <2>1. j \in 1..top
    BY <1>0 DEF Position
  <2> QED BY <2>1, <1>3
<1> HIDE DEF n
<1>9. /\ entries \in Seq([name : done, dependencies : Seq(PackageNames)])
      /\ Len(entries) \in Nat /\ DOMAIN entries = 1..Len(entries)
  BY <1>1 DEF LockTypeOK
<1>10. entries \in Seq([name : done', dependencies : Seq(PackageNames)])
  <2> DEFINE A == [name : done, dependencies : Seq(PackageNames)]
             B == [name : done', dependencies : Seq(PackageNames)]
  <2>1. A \subseteq B
    BY <1>4
  <2>2. entries \in Seq(A)
    BY <1>9
  <2> HIDE DEF A, B
  <2>3. entries \in Seq(B)
    BY <2>1, <2>2
  <2> QED BY <2>3 DEF B
<1>11. new \in [name : done', dependencies : Seq(PackageNames)]
  BY <1>4, <1>7
<1>12. /\ entries' \in Seq([name : done', dependencies : Seq(PackageNames)])
       /\ Len(entries') = Len(entries) + 1 /\ DOMAIN entries' = 1..(Len(entries) + 1)
       /\ \A i \in 1..Len(entries) : entries'[i] = entries[i]
       /\ entries'[Len(entries) + 1] = new
  <2> HIDE DEF new
  <2> QED BY <1>4, <1>9, <1>10, <1>11
<1>13. LockTypeOK'
  <2>1. done' \subseteq PackageNames /\ path' \subseteq PackageNames
    BY <1>1, <1>4, <1>5 DEF LockTypeOK
  <2> QED BY <2>1, <1>1, <1>2, <1>3, <1>12 DEF LockTypeOK, WalkFrames
<1>14. OnPathInv'
  <2>1. ASSUME NEW i \in Position', Expanded(i)'
        PROVE  NameAt(i)' \in path'
    <3>1. i \in Position /\ i # top /\ Expanded(i) /\ NameAt(i)' = NameAt(i)
      BY <1>3, <2>1
    <3>2. NameAt(i) \in path /\ NameAt(i) # NameAt(top)
      BY <3>1, <1>3, <1>4 DEF WalkInv, OnPathInv
    <3> QED BY <3>1, <3>2, <1>4
  <2>2. ASSUME NEW m \in path' PROVE \E i \in Position' : Expanded(i)' /\ NameAt(i)' = m
    <3>1. PICK i \in Position : Expanded(i) /\ NameAt(i) = m
      BY <1>4, <2>2 DEF WalkInv, OnPathInv
    <3>2. i # top
      BY <1>4, <2>2, <3>1
    <3> QED BY <3>1, <3>2, <1>3
  <2>3. path' = {NameAt(i)' : i \in {j \in Position' : Expanded(j)'}}
    BY <2>1, <2>2
  <2>4. \A i, j \in Position' : Expanded(i)' /\ Expanded(j)' /\ i # j => NameAt(i)' # NameAt(j)'
    BY <1>3 DEF WalkInv, OnPathInv
  <2>5. path' \cap done' = {}
    BY <1>4 DEF WalkInv, OnPathInv
  <2> QED BY <2>3, <2>4, <2>5 DEF OnPathInv
<1>15. AncestryInv'
  BY <1>3 DEF WalkInv, AncestryInv
<1>16. DependenciesInv'
  <2> SUFFICES ASSUME NEW i \in Position', Expanded(i)',
                      NEW k \in DOMAIN frames'[i].info.dependencies
               PROVE  LET m == frames'[i].info.dependencies[k].name
                      IN  m \in done' \/ \E j \in Position' : i < j /\ NameAt(j)' = m
    BY DEF DependenciesInv
  <2>1. i \in Position /\ Expanded(i) /\ frames'[i] = frames[i]
    BY <1>3
  <2> DEFINE m == frames[i].info.dependencies[k].name
  <2>2. m \in done \/ \E j \in Position : i < j /\ NameAt(j) = m
    BY <2>1 DEF WalkInv, DependenciesInv
  <2> QED BY <2>1, <2>2, <1>3, <1>4
<1>17. WalkRootsInv'
  BY <1>1, <1>2, <1>3, <1>4 DEF WalkInv, WalkRootsInv
<1>18. EntriesInv'
  <2>1. \A i \in 1..(Len(entries) + 1) : i \in 1..Len(entries) \/ i = Len(entries) + 1
    BY <1>9
  <2>2. 1..Len(entries) \subseteq 1..(Len(entries) + 1) /\ Len(entries) + 1 \in 1..(Len(entries) + 1)
    BY <1>9
  <2>3. new.name = n /\ new.dependencies = DependencyNames(info)
    OBVIOUS
  <2> HIDE DEF new
  <2>4. done = {entries[i].name : i \in 1..Len(entries)}
    BY <1>9 DEF WalkInv, EntriesInv, Locked
  <2>5. done' = Locked'
    BY <1>4, <1>12, <2>1, <2>2, <2>3, <2>4 DEF Locked
  <2>6. ASSUME NEW i \in DOMAIN entries', NEW j \in DOMAIN entries', i # j
        PROVE  entries'[i].name # entries'[j].name
    <3>1. \A k \in 1..Len(entries) : entries[k].name # n
      BY <1>6, <2>4
    <3>2. \A k, l \in 1..Len(entries) : k # l => entries[k].name # entries[l].name
      BY <1>9 DEF WalkInv, EntriesInv
    <3> QED BY <2>1, <2>3, <2>6, <3>1, <3>2, <1>12
  <2>7. ASSUME NEW i \in DOMAIN entries'
        PROVE  \E t \in DeclaredInfos : /\ t.name = entries'[i].name
                                        /\ DependencyNames(t) = entries'[i].dependencies
    <3>1. CASE i \in 1..Len(entries)
      BY <3>1, <1>9, <1>12 DEF WalkInv, EntriesInv
    <3>2. CASE i = Len(entries) + 1
      BY <3>2, <1>5, <1>12, <2>3 DEF n
    <3> QED BY <3>1, <3>2, <2>1, <1>12
  <2>8. ASSUME NEW i \in DOMAIN entries'
        PROVE  ToSet(entries'[i].dependencies) \subseteq {entries'[j].name : j \in 1..(i - 1)}
    <3>1. CASE i \in 1..Len(entries)
      <4>1. ToSet(entries[i].dependencies) \subseteq {entries[j].name : j \in 1..(i - 1)}
        BY <3>1, <1>9 DEF WalkInv, EntriesInv, Emit
      <4>2. \A j \in 1..(i - 1) : entries'[j] = entries[j]
        BY <3>1, <1>9, <1>12
      <4> QED BY <3>1, <4>1, <4>2, <1>12
    <3>2. CASE i = Len(entries) + 1
      <4>1. ToSet(new.dependencies) \subseteq done
        BY <1>7, <1>8, <2>3 DEF ToSet
      <4>2. 1..(i - 1) = 1..Len(entries)
        BY <3>2, <1>9
      <4>3. done = {entries'[j].name : j \in 1..(i - 1)}
        BY <4>2, <2>4, <1>12
      <4> QED BY <3>2, <4>1, <4>3, <1>12
    <3> QED BY <3>1, <3>2, <2>1, <1>12
  <2> QED BY <2>5, <2>6, <2>7, <2>8, <1>2 DEF EntriesInv
<1> QED BY <1>13, <1>14, <1>15, <1>16, <1>17, <1>18 DEF WalkInv

\* Sorting keeps the entries, and makes of them what a lockfile must be.
LEMMA ReturnStep == WalkInv /\ ReturnEntries => WalkInv' /\ LockComplete'
<1> SUFFICES ASSUME WalkInv, ReturnEntries PROVE WalkInv' /\ LockComplete'
  OBVIOUS
<1>1. LockTypeOK /\ UNCHANGED <<packages, frameworks, todo, done, path, frames, offender>>
      /\ answer = "none" /\ answer' = "locked" /\ frames = <<>> /\ todo = <<>>
  BY DEF WalkInv, ReturnEntries
<1>2. Roots' = Roots /\ RootInfos' = RootInfos /\ DeclaredInfos' = DeclaredInfos
  BY <1>1, SameManifest
<1>3. PICK at \in Bijection(DOMAIN entries, DOMAIN entries) :
        /\ \A i, j \in DOMAIN entries : i < j => ~(entries[at[j]].name < entries[at[i]].name)
        /\ entries' = [i \in DOMAIN entries |-> entries[at[i]]]
  BY DEF ReturnEntries
<1> DEFINE Slots == DOMAIN entries
<1>4. /\ entries \in Seq([name : done, dependencies : Seq(PackageNames)])
      /\ Len(entries) \in Nat /\ Slots = 1..Len(entries)
  BY <1>1 DEF LockTypeOK
<1>5. /\ at \in [Slots -> Slots]
      /\ \A i, j \in Slots : at[i] = at[j] => i = j
      /\ \A k \in Slots : \E i \in Slots : at[i] = k
  BY DEF Bijection, Injection, Surjection, IsInjective
<1>6. \A i \in Slots : /\ entries[i] \in [name : done, dependencies : Seq(PackageNames)]
                       /\ entries[i].name \in Nat
  <2>1. done \subseteq Nat
    BY <1>1, NestedAssumption DEF LockTypeOK, NestedAssumption
  <2>2. \A i \in Slots : entries[i] \in [name : done, dependencies : Seq(PackageNames)]
    <3> DEFINE A == [name : done, dependencies : Seq(PackageNames)]
    <3>1. entries \in Seq(A)
      BY <1>4
    <3> HIDE DEF A
    <3>2. \A i \in Slots : entries[i] \in A
      BY <1>4, <3>1
    <3> QED BY <3>2 DEF A
  <2> QED BY <2>1, <2>2
<1>7. \A i, j \in Slots : i # j => entries[i].name # entries[j].name
  BY DEF WalkInv, EntriesInv
<1>8. \A i \in Slots : ToSet(entries[i].dependencies) \subseteq {entries[j].name : j \in 1..(i - 1)}
  BY <1>1 DEF WalkInv, EntriesInv
<1>9. DOMAIN entries' = Slots /\ \A i \in Slots : entries'[i] = entries[at[i]] /\ at[i] \in Slots
  BY <1>3, <1>5
<1>10. entries' \in Seq([name : done, dependencies : Seq(PackageNames)])
  <2> DEFINE A == [name : done, dependencies : Seq(PackageNames)]
             n == Len(entries)
  <2>1. entries' = [i \in 1..n |-> entries'[i]]
    BY <1>3, <1>4
  <2>2. \A i \in 1..n : entries'[i] \in A
    BY <1>4, <1>6, <1>9
  <2>3. n \in Nat
    BY <1>4
  <2> HIDE DEF A, n
  <2>4. entries' \in Seq(A)
    BY <2>1, <2>2, <2>3
  <2> QED BY <2>4 DEF A
<1>11. Locked' = Locked /\ done = Locked
  <2>1. \A i \in Slots : entries'[i].name \in Locked
    BY <1>9 DEF Locked
  <2>2. ASSUME NEW k \in Slots PROVE entries[k].name \in Locked'
    <3>1. PICK i \in Slots : at[i] = k
      BY <1>5
    <3>2. i \in DOMAIN entries' /\ entries'[i].name = entries[k].name
      BY <1>9, <3>1
    <3> QED BY <3>2 DEF Locked
  <2>3. Locked' = Locked
    <3>1. Locked' = {entries'[i].name : i \in Slots}
      BY <1>9 DEF Locked
    <3>2. Locked = {entries[i].name : i \in Slots}
      BY DEF Locked
    <3> QED BY <2>1, <2>2, <3>1, <3>2
  <2> QED BY <2>3 DEF WalkInv, EntriesInv
<1>12. LockTypeOK'
  BY <1>1, <1>2, <1>10 DEF LockTypeOK
<1>13. OnPathInv' /\ AncestryInv' /\ DependenciesInv' /\ WalkRootsInv'
  BY <1>1, <1>2 DEF WalkInv, OnPathInv, AncestryInv, DependenciesInv, WalkRootsInv,
                    Position, NameAt, Expanded
<1>14. \A i, j \in Slots : i # j => entries'[i].name # entries'[j].name
  BY <1>5, <1>7, <1>9
<1>15. \A i \in Slots : \E t \in DeclaredInfos : /\ t.name = entries'[i].name
                                                /\ DependencyNames(t) = entries'[i].dependencies
  BY <1>9 DEF WalkInv, EntriesInv
<1>16. EntriesInv'
  BY <1>1, <1>2, <1>9, <1>11, <1>14, <1>15 DEF EntriesInv
<1>17. ASSUME NEW i \in Slots, NEW j \in Slots, i < j
       PROVE  entries'[i].name < entries'[j].name
  <2>1. ~(entries'[j].name < entries'[i].name)
    BY <1>3, <1>9, <1>17
  <2>2. entries'[i].name \in Nat /\ entries'[j].name \in Nat
    BY <1>6, <1>9
  <2>3. i # j
    BY <1>4, <1>17
  <2> QED BY <2>1, <2>2, <2>3, <1>14
<1>18. {t.name : t \in RootInfos} \subseteq Locked'
  <2>1. Position = {} /\ DOMAIN todo = {}
    BY <1>1 DEF Position
  <2> QED BY <2>1, <1>11 DEF WalkInv, WalkRootsInv
<1>19. ASSUME NEW i \in Slots PROVE ToSet(entries'[i].dependencies) \subseteq Locked'
  <2>1. at[i] \in Slots /\ \A j \in 1..(at[i] - 1) : j \in Slots
    BY <1>4, <1>9
  <2>2. ToSet(entries[at[i]].dependencies) \subseteq Locked
    BY <2>1, <1>8 DEF Locked
  <2> QED BY <2>2, <1>9, <1>11
<1>20. ASSUME NEW S \in (SUBSET Slots) \ {{}}
       PROVE  \E i \in S : \A j \in S : ~Contains(entries'[i].dependencies, entries'[j].name)
  <2>1. \A i \in S : at[i] \in Nat
    <3>1. \A i \in S : at[i] \in 1..Len(entries)
      BY <1>4, <1>5
    <3> QED BY <3>1
  <2>2. PICK i \in S : \A j \in S : at[i] <= at[j]
    BY <2>1, LeastMeasure
  <2>3. ASSUME NEW j \in S, Contains(entries'[i].dependencies, entries'[j].name)
        PROVE  FALSE
    <3>1. i \in Slots /\ j \in Slots /\ at[i] \in Slots /\ at[j] \in Slots
      BY <1>9
    <3>2. PICK k \in 1..Len(entries'[i].dependencies) : entries'[i].dependencies[k] = entries'[j].name
      BY <2>3 DEF Contains
    <3>3. entries[at[i]].dependencies \in Seq(PackageNames)
      BY <1>6, <3>1
    <3>4. k \in DOMAIN entries[at[i]].dependencies
      BY <1>9, <3>1, <3>2, <3>3
    <3>5. entries[at[j]].name \in ToSet(entries[at[i]].dependencies)
      BY <1>9, <3>1, <3>2, <3>4 DEF ToSet
    <3>6. PICK l \in 1..(at[i] - 1) : entries[l].name = entries[at[j]].name
      BY <1>8, <3>1, <3>5
    <3>7. l \in Slots /\ l < at[i]
      BY <1>4, <3>1, <3>6
    <3>8. l = at[j]
      BY <1>7, <3>1, <3>6, <3>7
    <3>9. at[i] <= at[j] /\ at[i] \in Nat
      BY <2>1, <2>2
    <3> QED BY <3>7, <3>8, <3>9
  <2> QED BY <2>3
<1>21. LockComplete'
  BY <1>2, <1>9, <1>15, <1>17, <1>18, <1>19, <1>20 DEF LockComplete
<1> QED BY <1>12, <1>13, <1>16, <1>21 DEF WalkInv

LEMMA LockStep == LockInv /\ [LockNext]_lockVars => LockInv'
<1> SUFFICES ASSUME LockInv, [LockNext]_lockVars PROVE LockInv'
  OBVIOUS
<1>0. WalkInv /\ LockTypeOK
  BY DEF LockInv, WalkInv
<1>1. CASE WalkNext
  BY <1>0, <1>1, WalkNextStep DEF WalkNext, LockComplete, LockErrors, LockInv, WalkInv
<1>2. ASSUME NEW n \in PackageNames, SkipDone(n) PROVE LockInv'
  BY <1>0, <1>2, SkipDoneStep
     DEF SkipDone, AtEntrance, LockComplete, LockErrors, LockInv, WalkInv
<1>3. ASSUME NEW n \in PackageNames, RefuseCycle(n) PROVE LockInv'
  <2>1. WalkInv' /\ \E t \in DeclaredInfos : t.name = n /\ \E u \in Under(t) : u.name = n
    BY <1>0, <1>3, RefuseCycleStep
  <2>2. DeclaredInfos' = DeclaredInfos /\ answer' = "cycle" /\ offender' = n
    BY <1>3, SameManifest DEF RefuseCycle
  <2> QED BY <2>1, <2>2 DEF LockComplete, LockErrors, LockInv, WalkInv
<1>4. ASSUME NEW n \in PackageNames, Expand(n) PROVE LockInv'
  BY <1>0, <1>4, ExpandStep
     DEF Expand, AtEntrance, LockComplete, LockErrors, LockInv, WalkInv
<1>5. CASE Emit
  BY <1>0, <1>5, EmitStep DEF Emit, LockComplete, LockErrors, LockInv, WalkInv
<1>6. CASE ReturnEntries
  BY <1>0, <1>6, ReturnStep DEF ReturnEntries, LockErrors, LockInv, WalkInv
<1>7. CASE UNCHANGED lockVars
  <2>1. Roots' = Roots /\ RootInfos' = RootInfos /\ DeclaredInfos' = DeclaredInfos
    BY <1>7, SameManifest DEF lockVars
  <2>2. LockTypeOK'
    BY <1>7, <2>1 DEF lockVars, LockInv, LockTypeOK
  <2>3. WalkRootsInv'
    BY <1>7, <2>1 DEF lockVars, LockInv, WalkRootsInv, Position, NameAt
  <2>4. EntriesInv'
    BY <1>7, <2>1 DEF lockVars, LockInv, EntriesInv, Locked
  <2>5. OnPathInv' /\ AncestryInv' /\ DependenciesInv'
    BY <1>7 DEF lockVars, LockInv, OnPathInv, AncestryInv, DependenciesInv,
                Position, NameAt, Expanded
  <2>6. LockComplete'
    <3>1. entries' = entries /\ answer' = answer
      BY <1>7 DEF lockVars
    <3>2. Locked' = Locked
      BY <3>1 DEF Locked
    <3>3. LockComplete
      BY DEF LockInv
    <3> QED BY <2>1, <3>1, <3>2, <3>3, Zenon DEF LockComplete
  <2>7. LockErrors'
    BY <1>7, <2>1 DEF lockVars, LockInv, LockErrors
  <2> QED BY <2>2, <2>3, <2>4, <2>5, <2>6, <2>7 DEF LockInv
<1> QED BY <1>1, <1>2, <1>3, <1>4, <1>5, <1>6, <1>7 DEF LockNext

------------------------------------------------------------------------------
\* The stack, the path and what is emitted fit together at every turn of the
\* walk, whatever packages and frameworks are declared and however they nest.
THEOREM LockInvariance == LockSpec => []LockInv
<1>1. LockInit => LockInv
  BY LockInitially DEF LockInit, WalkInv, LockInv, LockComplete, LockErrors
<1> QED BY <1>1, LockStep, PTL DEF LockSpec

\* A lockfile that is returned is sorted, complete, names nothing undeclared and
\* has no cycle: whoever reads it can install dependencies first.
THEOREM LockfileComplete == LockSpec => []LockComplete
<1>1. LockInv => LockComplete
  BY DEF LockInv
<1> QED BY <1>1, LockInvariance, PTL

\* Only a project with a package that needs itself is refused.
THEOREM LockRefusals == LockSpec => []LockErrors
<1>1. LockInv => LockErrors
  BY DEF LockInv
<1> QED BY <1>1, LockInvariance, PTL

------------------------------------------------------------------------------
(* The walk comes to an end *)

\* What holds of a tree whenever it holds of the trees it depends on holds of all.
LEMMA EveryTree ==
  ASSUME NEW G,
         \A info \in Infos : (\A i \in DOMAIN info.dependencies : info.dependencies[i] \in G) => info \in G
  PROVE  Infos \subseteq G
<1> DEFINE T == {k \in Nat : \A j \in 1..Len(Nested) : j <= k => Nested[j] \subseteq G}
<1>0. Len(Nested) \in Nat /\ \A j \in 1..Len(Nested) : Nested[j] \subseteq Infos
  BY NestedAssumption DEF NestedAssumption
<1>1. 0 \in T
  BY <1>0
<1>2. ASSUME NEW k \in Nat, k \in T PROVE k + 1 \in T
  <2> SUFFICES ASSUME NEW j \in 1..Len(Nested), j <= k + 1, NEW info \in Nested[j]
               PROVE  info \in G
    OBVIOUS
  <2>1. info.dependencies \in Seq(UNION {Nested[l] : l \in 1..(j - 1)})
    BY NestedAssumption DEF NestedAssumption
  <2>2. ASSUME NEW i \in DOMAIN info.dependencies PROVE info.dependencies[i] \in G
    <3>1. info.dependencies[i] \in UNION {Nested[l] : l \in 1..(j - 1)}
      BY <2>1
    <3>2. PICK l \in 1..(j - 1) : info.dependencies[i] \in Nested[l]
      BY <3>1
    <3>3. l \in 1..Len(Nested) /\ l <= k
      BY <1>0, <1>2
    <3> QED BY <1>2, <3>2, <3>3
  <2>3. info \in Infos
    BY <1>0
  <2> QED BY <2>2, <2>3
<1> HIDE DEF T
<1>3. \A k \in Nat : k \in T
  BY <1>1, <1>2, EveryNumber
<1>4. ASSUME NEW info \in Infos PROVE info \in G
  <2>1. PICK j \in 1..Len(Nested) : info \in Nested[j]
    BY DEF Infos
  <2> QED BY <1>0, <1>3, <2>1 DEF T
<1> QED BY <1>4

\* A tree has finitely many nodes.
LEMMA TreeFinite == \A info \in Infos : IsFiniteSet(Beneath[info])
<1> DEFINE G == {info \in Infos : IsFiniteSet(Beneath[info])}
<1>1. ASSUME NEW info \in Infos, \A i \in DOMAIN info.dependencies : info.dependencies[i] \in G
      PROVE  info \in G
  <2> DEFINE deps == info.dependencies
             f == [i \in DOMAIN deps |-> Beneath[deps[i]]]
  <2>1. IsFiniteSet(DOMAIN deps)
    <3>1. deps \in Seq(Infos)
      BY InfoFacts
    <3> HIDE DEF deps
    <3>2. DOMAIN deps = 1..Len(deps) /\ Len(deps) \in Nat
      BY <3>1
    <3>3. IsFiniteSet(1..Len(deps))
      BY <3>2, FS_Interval
    <3> QED BY <3>2, <3>3
  <2>2. \A i \in DOMAIN deps : IsFiniteSet(f[i])
    BY <1>1
  <2>3. {f[i] : i \in DOMAIN deps} = {Beneath[deps[i]] : i \in DOMAIN deps}
    OBVIOUS
  <2>4. IsFiniteSet(UNION {f[i] : i \in DOMAIN deps})
    <3> HIDE DEF f, deps
    <3> QED BY <2>1, <2>2, FiniteUnion
  <2>5. IsFiniteSet(Under(info))
    BY <2>3, <2>4 DEF Under
  <2>6. Beneath[info] = {info} \cup Under(info)
    BY BeneathDefined
  <2>7. IsFiniteSet({info})
    BY FS_Singleton
  <2> QED BY <2>5, <2>6, <2>7, FS_Union
<1> HIDE DEF G
<1>2. Infos \subseteq G
  BY <1>1, EveryTree
<1> QED BY <1>2 DEF G

\* The names declared anywhere that are neither locked nor being walked.
DeclaredNames == {t.name : t \in DeclaredInfos}
Unvisited     == DeclaredNames \ (done \cup path)

\* What every turn makes lower: packages to enter, roots to take up, frames to
\* leave, and the answer to give.
LockMeasure ==
  <<Cardinality(Unvisited), Len(todo), Len(frames), IF answer = "none" THEN 1 ELSE 0>>

LEMMA DeclaredFinite ==
  ASSUME LockTypeOK
  PROVE  IsFiniteSet(DeclaredNames) /\ IsFiniteSet(Unvisited) /\ Cardinality(Unvisited) \in Nat
<1>1. Roots \in Seq(Seq(RootInfos)) /\ RootInfos \subseteq DeclaredInfos /\ DeclaredInfos \subseteq Infos
  BY RootsFacts DEF LockTypeOK
<1>2. ASSUME NEW S, NEW s \in Seq(S) PROVE IsFiniteSet(DOMAIN s) /\ IsFiniteSet(ToSet(s))
  <2>1. DOMAIN s = 1..Len(s) /\ Len(s) \in Nat
    OBVIOUS
  <2>2. IsFiniteSet(DOMAIN s)
    BY <2>1, FS_Interval
  <2> QED BY <2>2, FiniteImage DEF ToSet
<1>3. IsFiniteSet(RootInfos)
  <2> DEFINE f == [i \in DOMAIN Roots |-> ToSet(Roots[i])]
  <2>1. \A i \in DOMAIN Roots : IsFiniteSet(f[i])
    BY <1>1, <1>2
  <2>2. {f[i] : i \in DOMAIN Roots} = {ToSet(Roots[i]) : i \in DOMAIN Roots}
    OBVIOUS
  <2>3. IsFiniteSet(DOMAIN Roots)
    BY <1>1, <1>2
  <2> HIDE DEF f
  <2>4. IsFiniteSet(UNION {f[i] : i \in DOMAIN Roots})
    BY <2>1, <2>3, FiniteUnion
  <2> QED BY <2>2, <2>4 DEF RootInfos
<1>4. IsFiniteSet(DeclaredInfos)
  <2> DEFINE f == [info \in RootInfos |-> Beneath[info]]
  <2>1. \A info \in RootInfos : IsFiniteSet(f[info])
    BY <1>1, TreeFinite
  <2>2. {f[info] : info \in RootInfos} = {Beneath[info] : info \in RootInfos}
    OBVIOUS
  <2> HIDE DEF f
  <2>3. IsFiniteSet(UNION {f[info] : info \in RootInfos})
    BY <1>3, <2>1, FiniteUnion
  <2> QED BY <2>2, <2>3 DEF DeclaredInfos
<1>5. IsFiniteSet(DeclaredNames)
  <2> DEFINE f == [t \in DeclaredInfos |-> t.name]
  <2>1. IsFiniteSet({f[t] : t \in DeclaredInfos})
    BY <1>4, FiniteImage
  <2>2. {f[t] : t \in DeclaredInfos} = DeclaredNames
    BY DEF DeclaredNames
  <2> QED BY <2>1, <2>2
<1>6. Unvisited \subseteq DeclaredNames
  BY DEF Unvisited
<1> QED BY <1>5, <1>6, FS_Subset, FS_CardinalityType

LEMMA LockMeasureType == ASSUME LockTypeOK PROVE LockMeasure \in [1..4 -> Nat]
<1> DEFINE c == Cardinality(Unvisited)
           t == Len(todo)
           l == Len(frames)
           o == IF answer = "none" THEN 1 ELSE 0
<1>1. c \in Nat
  BY DeclaredFinite
<1>2. t \in Nat /\ l \in Nat /\ o \in Nat
  BY DEF LockTypeOK
<1>3. LockMeasure = <<c, t, l, o>>
  BY DEF LockMeasure
<1> HIDE DEF c, t, l, o
<1>4. <<c, t, l, o>> \in [1..4 -> Nat]
  BY <1>1, <1>2
<1> QED BY <1>3, <1>4

LEMMA LockTurnDescends ==
  ASSUME LockInv, LockNext
  PROVE  Lower(LockMeasure', LockMeasure)
<1> DEFINE unvisited == Cardinality(Unvisited)
           ahead == Len(todo)
           depth == Len(frames)
           answers == IF answer = "none" THEN 1 ELSE 0
<1>1. LockTypeOK /\ OnPathInv
  BY DEF LockInv
<1>2. DeclaredNames' = DeclaredNames
  <2>1. UNCHANGED <<packages, frameworks>>
    BY DEF LockNext, WalkNext, SkipDone, RefuseCycle, Expand, Emit, ReturnEntries
  <2> QED BY <2>1, SameManifest DEF DeclaredNames
<1>3. unvisited \in Nat /\ ahead \in Nat /\ depth \in Nat
  BY <1>1, DeclaredFinite DEF LockTypeOK
<1>4. done' \cup path' = done \cup path => unvisited' = unvisited
  BY <1>2 DEF Unvisited
<1>5. CASE WalkNext
  <2>1. unvisited' = unvisited
    BY <1>4, <1>5 DEF WalkNext
  <2>2. ahead' < ahead
    <3>1. todo \in Seq(Seq(RootInfos)) /\ todo # <<>> /\ todo' = Tail(todo)
      BY <1>1, <1>5 DEF LockTypeOK, WalkNext
    <3>2. Len(todo') = Len(todo) - 1
      BY <3>1
    <3> QED BY <1>3, <3>2
  <2> HIDE DEF unvisited, ahead, depth, answers
  <2>3. Lower(<<unvisited', ahead', depth', answers'>>, <<unvisited, ahead, depth, answers>>)
    BY <2>1, <2>2, LowerFour
  <2> QED BY <2>3 DEF LockMeasure, unvisited, ahead, depth, answers
<1>6. ASSUME NEW n \in PackageNames, SkipDone(n) PROVE Lower(LockMeasure', LockMeasure)
  <2>1. unvisited' = unvisited /\ ahead' = ahead
    BY <1>4, <1>6 DEF SkipDone
  <2>2. depth' < depth
    <3>1. Len(frames') = Len(frames) - 1
      BY <1>1, <1>6, PoppedFacts DEF SkipDone, AtEntrance
    <3> QED BY <1>3, <3>1
  <2> HIDE DEF unvisited, ahead, depth, answers
  <2>3. Lower(<<unvisited', ahead', depth', answers'>>, <<unvisited, ahead, depth, answers>>)
    BY <2>1, <2>2, LowerFour
  <2> QED BY <2>3 DEF LockMeasure, unvisited, ahead, depth, answers
<1>7. ASSUME answer = "none", answer' # "none", UNCHANGED <<todo, done, path, frames>>
      PROVE  Lower(LockMeasure', LockMeasure)
  <2>1. unvisited' = unvisited /\ ahead' = ahead /\ depth' = depth /\ answers' < answers
    BY <1>4, <1>7
  <2> HIDE DEF unvisited, ahead, depth, answers
  <2>2. Lower(<<unvisited', ahead', depth', answers'>>, <<unvisited, ahead, depth, answers>>)
    BY <2>1, LowerFour
  <2> QED BY <2>2 DEF LockMeasure, unvisited, ahead, depth, answers
<1>8. ASSUME NEW n \in PackageNames, RefuseCycle(n) PROVE Lower(LockMeasure', LockMeasure)
  BY <1>7, <1>8 DEF RefuseCycle, AtEntrance
<1>9. ASSUME NEW n \in PackageNames, Expand(n) PROVE Lower(LockMeasure', LockMeasure)
  <2>1. n \in Unvisited
    <3>1. frames[Len(frames)] \in WalkFrames /\ frames[Len(frames)].info.name = n
      BY <1>1, <1>9, ExpandFacts
    <3>2. n \in DeclaredNames
      BY <3>1 DEF WalkFrames, DeclaredNames
    <3> QED BY <1>9, <3>2 DEF Expand, Unvisited
  <2>2. Unvisited' = Unvisited \ {n}
    BY <1>2, <1>9 DEF Expand, Unvisited
  <2>3. IsFiniteSet(Unvisited)
    BY <1>1, DeclaredFinite
  <2>4. unvisited' = unvisited - 1
    BY <2>1, <2>2, <2>3, FS_RemoveElement
  <2>5. unvisited' < unvisited
    BY <1>3, <2>4
  <2> HIDE DEF unvisited, ahead, depth, answers
  <2>6. Lower(<<unvisited', ahead', depth', answers'>>, <<unvisited, ahead, depth, answers>>)
    BY <2>5, LowerFour
  <2> QED BY <2>6 DEF LockMeasure, unvisited, ahead, depth, answers
<1>10. CASE Emit
  <2>1. /\ Len(frames') = Len(frames) - 1
        /\ Len(frames) \in Position /\ Current = frames[Len(frames)]
    BY <1>1, <1>10, PoppedFacts DEF Emit
  <2>2. Current.info.name \in path
    BY <1>1, <1>10, <2>1 DEF Emit, OnPathInv, NameAt, Expanded
  <2>3. done' \cup path' = done \cup path
    BY <1>10, <2>2 DEF Emit
  <2>4. unvisited' = unvisited /\ ahead' = ahead /\ depth' < depth
    BY <1>3, <1>4, <1>10, <2>1, <2>3 DEF Emit
  <2> HIDE DEF unvisited, ahead, depth, answers
  <2>5. Lower(<<unvisited', ahead', depth', answers'>>, <<unvisited, ahead, depth, answers>>)
    BY <2>4, LowerFour
  <2> QED BY <2>5 DEF LockMeasure, unvisited, ahead, depth, answers
<1>11. CASE ReturnEntries
  BY <1>7, <1>11 DEF ReturnEntries
<1> QED BY <1>5, <1>6, <1>8, <1>9, <1>10, <1>11 DEF LockNext

\* Every turn of the lockfile walk lowers a list of four numbers, so it has no
\* endless run (DescentEnds), however packages name each other.
THEOREM LockWalkDescends ==
  LockSpec => /\ [](LockMeasure \in [1..4 -> Nat])
              /\ [][Lower(LockMeasure', LockMeasure)]_lockVars
<1>1. LockInv => LockMeasure \in [1..4 -> Nat]
  BY LockMeasureType DEF LockInv
<1>2. LockInv /\ [LockNext]_lockVars => [Lower(LockMeasure', LockMeasure)]_lockVars
  BY LockTurnDescends
<1> QED BY <1>1, <1>2, LockInvariance, PTL DEF LockSpec
==============================================================================
