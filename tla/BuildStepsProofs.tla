-------------------------- MODULE BuildStepsProofs ---------------------------
(***************************************************************************)
(* Proofs about BuildSteps, for every thread pool and every configuration  *)
(* of custom build steps.                                                  *)
(***************************************************************************)
EXTENDS BuildSteps, FiniteSetTheorems, Induction, TLAPS

------------------------------------------------------------------------------
(* The dependency graph *)

\* The shape of the edges build_dependency_graph creates for one step.
LEMMA IncomingEdges ==
  ASSUME steps \in Programs, NEW i \in Steps
  PROVE  /\ IsFiniteSet(Incoming(i))
         /\ \A e \in Incoming(i) : e[1] = i /\ e[3] \in Steps
<1>1. total_steps \in Nat /\ Len(steps[i].dependencies) \in Nat
  BY ProgramsAssumption DEF BuildStepList, Steps, total_steps
<1>2. IsFiniteSet({i} \X (1..Len(steps[i].dependencies)) \X Steps)
  <2> DEFINE P == 1..Len(steps[i].dependencies)
             F == [q \in P \X Steps |-> <<i, q[1], q[2]>>]
  <2>1. IsFiniteSet(P)
    BY <1>1, FS_Interval
  <2>2. IsFiniteSet(Steps)
    BY <1>1, FS_Interval DEF Steps
  <2> HIDE DEF P
  <2>3. IsFiniteSet(P \X Steps)
    BY <2>1, <2>2, FS_Product
  <2>4. F \in Surjection(P \X Steps, {i} \X P \X Steps)
    <3>1. F \in [P \X Steps -> {i} \X P \X Steps]
      OBVIOUS
    <3>2. ASSUME NEW e \in {i} \X P \X Steps
          PROVE  \E q \in P \X Steps : F[q] = e
      <4>1. e = <<i, e[2], e[3]>> /\ <<e[2], e[3]>> \in P \X Steps
        OBVIOUS
      <4> QED BY <4>1
    <3> QED BY <3>1, <3>2 DEF Surjection
  <2> QED BY <2>3, <2>4, FS_Surjection DEF P
<1>3. Incoming(i) \in SUBSET ({i} \X (1..Len(steps[i].dependencies)) \X Steps)
  BY DEF Incoming
<1>4. IsFiniteSet(Incoming(i))
  BY <1>2, <1>3, FS_Subset
<1> QED BY <1>4 DEF Incoming

\* The dependents list of a step holds exactly the edges that name it.
LEMMA OutgoingEdges ==
  ASSUME steps \in Programs, NEW d \in Steps
  PROVE  /\ \A i \in Steps : \A e \in Incoming(i) : e[3] = d => e \in Outgoing(d)
         /\ \A e \in Outgoing(d) : /\ e \in AllEdges
                                   /\ e[1] \in Steps /\ e[3] = d
                                   /\ e \in Incoming(e[1])
BY IncomingEdges DEF Outgoing, AllEdges

\* The graph does not change while the steps run.
LEMMA GraphStable ==
  ASSUME steps' = steps
  PROVE  /\ Steps' = Steps /\ total_steps' = total_steps
         /\ \A i : Incoming(i)' = Incoming(i)
         /\ \A i : Outgoing(i)' = Outgoing(i)
         /\ \A i : Dependencies(i)' = Dependencies(i)
         /\ AllEdges' = AllEdges
<1>1. Steps' = Steps /\ total_steps' = total_steps
  BY DEF Steps, total_steps
<1>2. ASSUME NEW i PROVE Incoming(i)' = Incoming(i)
  BY <1>1 DEF Incoming, Resolve
<1>3. \A i : Outgoing(i)' = Outgoing(i)
  BY <1>1, <1>2 DEF Outgoing
<1>4. \A i : Dependencies(i)' = Dependencies(i)
  BY <1>2 DEF Dependencies
<1>5. AllEdges' = AllEdges
  BY <1>1, <1>2 DEF AllEdges
<1> QED BY <1>1, <1>2, <1>3, <1>4, <1>5

------------------------------------------------------------------------------
(* Kahn's algorithm *)

\* The rounds are what their recursive definition says.
LEMMA SortedRounds ==
  /\ Sorted[0] = {}
  /\ \A n \in Nat : Sorted[n + 1] = {i \in Steps : Dependencies(i) \subseteq Sorted[n]}
<1> DEFINE After(X) == {i \in Steps : Dependencies(i) \subseteq X}
           G == [q \in Nat \X SUBSET Steps |-> After(q[2])]
           Rounds(f) == f = [n \in Nat |-> IF n = 0 THEN {} ELSE After(f[n - 1])]
<1>1. \A n \in Nat, X \in SUBSET Steps : G[<<n, X>>] = After(X)
  OBVIOUS
<1>2. PICK f \in [Nat -> SUBSET Steps] :
        f[0] = {} /\ \A n \in Nat : f[n + 1] = G[<<n + 1, f[n]>>]
  <2> DEFINE D == SUBSET Steps
  <2>1. {} \in D /\ G \in [Nat \X D -> D]
    OBVIOUS
  <2> HIDE DEF D, G
  <2>2. PICK f : Iterates(f, D, {}, G)
    BY <2>1, IterationExists
  <2> QED BY <2>2 DEF D, Iterates
<1> HIDE DEF G
<1>3. ASSUME NEW n \in Nat PROVE f[n] = IF n = 0 THEN {} ELSE After(f[n - 1])
  <2>1. CASE n = 0
    BY <1>2, <2>1
  <2>2. CASE n # 0
    <3>1. n - 1 \in Nat /\ (n - 1) + 1 = n
      BY <2>2
    <3>2. f[n] = G[<<n, f[n - 1]>>]
      BY <1>2, <3>1
    <3>3. f[n - 1] \in SUBSET Steps
      BY <1>2, <3>1
    <3>4. f[n] = After(f[n - 1])
      BY <1>1, <3>2, <3>3
    <3> QED BY <2>2, <3>4
  <2> QED BY <2>1, <2>2
<1>4. Rounds(f)
  <2> HIDE DEF After
  <2> QED BY <1>2, <1>3
<1>5. Sorted = CHOOSE g : Rounds(g)
  BY Zenon DEF Sorted
<1>6. Rounds(Sorted)
  <2> HIDE DEF Rounds
  <2> QED BY <1>4, <1>5
<1>7. \A n \in Nat : Sorted[n] = IF n = 0 THEN {} ELSE After(Sorted[n - 1])
  <2> HIDE DEF After
  <2> QED BY <1>6
<1>8. ASSUME NEW n \in Nat PROVE Sorted[n + 1] = After(Sorted[n])
  <2>1. n + 1 \in Nat /\ n + 1 # 0 /\ (n + 1) - 1 = n
    OBVIOUS
  <2> HIDE DEF After
  <2> QED BY <1>7, <2>1
<1> QED BY <1>7, <1>8

\* A round outputs steps, and never fewer than the round before it.
LEMMA SortedGrows ==
  \A n \in Nat : Sorted[n] \subseteq Steps /\ Sorted[n] \subseteq Sorted[n + 1]
<1> DEFINE T == {n \in Nat : Sorted[n] \subseteq Steps /\ Sorted[n] \subseteq Sorted[n + 1]}
<1>1. 0 \in T
  BY SortedRounds
<1>2. ASSUME NEW n \in Nat, n \in T PROVE n + 1 \in T
  <2>1. Sorted[n + 1] = {i \in Steps : Dependencies(i) \subseteq Sorted[n]}
    BY SortedRounds
  <2>2. Sorted[(n + 1) + 1] = {i \in Steps : Dependencies(i) \subseteq Sorted[n + 1]}
    BY SortedRounds
  <2>3. Sorted[n] \subseteq Sorted[n + 1]
    BY <1>2
  <2> QED BY <2>1, <2>2, <2>3
<1> HIDE DEF T
<1>3. \A n \in Nat : n \in T
  BY <1>1, <1>2, EveryNumber
<1> QED BY <1>3 DEF T

\* After as many rounds as there are steps, another round outputs nothing new.
LEMMA SortedStops ==
  ASSUME total_steps \in Nat
  PROVE  Sorted[total_steps + 1] = Sorted[total_steps]
<1> DEFINE T == {n \in Nat : \/ Sorted[n + 1] = Sorted[n]
                             \/ Cardinality(Sorted[n]) >= n}
<1>1. IsFiniteSet(Steps) /\ Cardinality(Steps) = total_steps
  BY FS_Interval DEF Steps
<1>2. \A n \in Nat : /\ IsFiniteSet(Sorted[n])
                     /\ Cardinality(Sorted[n]) \in Nat
                     /\ Cardinality(Sorted[n]) <= total_steps
                     /\ Cardinality(Sorted[n]) = total_steps => Sorted[n] = Steps
  BY <1>1, SortedGrows, FS_Subset, FS_CardinalityType
<1>3. 0 \in T
  BY <1>2
<1>4. ASSUME NEW n \in Nat, n \in T PROVE n + 1 \in T
  <2>1. CASE Sorted[n + 1] = Sorted[n]
    <3>1. Sorted[(n + 1) + 1] = {i \in Steps : Dependencies(i) \subseteq Sorted[n + 1]}
      BY SortedRounds
    <3>2. Sorted[n + 1] = {i \in Steps : Dependencies(i) \subseteq Sorted[n]}
      BY SortedRounds
    <3>3. Sorted[(n + 1) + 1] = Sorted[n + 1]
      BY <2>1, <3>1, <3>2
    <3> QED BY <3>3
  <2>2. CASE Sorted[n + 1] # Sorted[n]
    <3>1. Cardinality(Sorted[n]) >= n
      BY <1>4, <2>2
    <3>2. Sorted[n] \subseteq Sorted[n + 1]
      BY SortedGrows
    <3>3. Cardinality(Sorted[n]) < Cardinality(Sorted[n + 1])
      <4>1. IsFiniteSet(Sorted[n + 1])
        BY <1>2
      <4>2. /\ Cardinality(Sorted[n]) <= Cardinality(Sorted[n + 1])
            /\ Cardinality(Sorted[n]) = Cardinality(Sorted[n + 1]) => Sorted[n] = Sorted[n + 1]
        BY <3>2, <4>1, FS_Subset
      <4> QED BY <1>2, <2>2, <4>2
    <3>4. Cardinality(Sorted[n + 1]) >= n + 1
      BY <1>2, <3>1, <3>3
    <3> QED BY <3>4
  <2> QED BY <2>1, <2>2
<1> HIDE DEF T
<1>5. total_steps \in T
  BY <1>3, <1>4, EveryNumber
<1>6. CASE Sorted[total_steps + 1] = Sorted[total_steps]
  BY <1>6
<1>7. CASE Cardinality(Sorted[total_steps]) >= total_steps
  <2>1. Sorted[total_steps] = Steps
    BY <1>2, <1>7
  <2> QED BY <2>1, SortedGrows
<1> QED BY <1>5, <1>6, <1>7 DEF T

\* What a step reaches holds its dependencies and is closed under them.
LEMMA DependsOnClosed ==
  ASSUME NEW i \in Steps
  PROVE  /\ Dependencies(i) \subseteq DependsOn(i)
         /\ \A d \in DependsOn(i) : Dependencies(d) \subseteq DependsOn(i)
         /\ DependsOn(i) \subseteq Steps
<1>1. \A j : Dependencies(j) \subseteq Steps
  BY DEF Dependencies, Incoming
<1> QED BY <1>1 DEF DependsOn

\* A dependency reaches no more than the step that names it.
LEMMA DependsOnTransitive ==
  ASSUME NEW i \in Steps, NEW d \in Dependencies(i)
  PROVE  d \in Steps /\ DependsOn(d) \subseteq DependsOn(i)
<1>1. d \in DependsOn(i) /\ d \in Steps
  BY DependsOnClosed
<1>2. Dependencies(d) \subseteq DependsOn(i)
  BY <1>1, DependsOnClosed
<1>3. DependsOn(i) \in SUBSET Steps /\ \A j \in DependsOn(i) : Dependencies(j) \subseteq DependsOn(i)
  BY DependsOnClosed
<1> QED BY <1>1, <1>2, <1>3 DEF DependsOn

\* A step that some round outputs does not reach itself.
LEMMA SortedIsAcyclic ==
  ASSUME NEW i \in Steps, NEW m \in Nat, i \in Sorted[m]
  PROVE  i \notin DependsOn(i)
<1>1. PICK n \in {k \in Nat : i \in Sorted[k]} : \A k \in {l \in Nat : i \in Sorted[l]} : n <= k
  <2>1. {k \in Nat : i \in Sorted[k]} # {} /\ {k \in Nat : i \in Sorted[k]} \subseteq Nat
    OBVIOUS
  <2> QED BY <2>1, LeastNumber
<1>2. n # 0
  BY <1>1, SortedRounds
<1>3. n - 1 \in Nat /\ (n - 1) + 1 = n
  BY <1>1, <1>2
<1>4. i \notin Sorted[n - 1]
  BY <1>1, <1>3
<1>5. Dependencies(i) \subseteq Sorted[n - 1]
  BY <1>1, <1>3, SortedRounds
<1>6. ASSUME NEW j \in Sorted[n - 1] PROVE Dependencies(j) \subseteq Sorted[n - 1]
  BY <1>3, SortedGrows, SortedRounds
<1>7. Sorted[n - 1] \in SUBSET Steps
  BY <1>3, SortedGrows
<1> QED BY <1>4, <1>5, <1>6, <1>7 DEF DependsOn

\* The topological sort is incomplete exactly when some step reaches itself.
THEOREM CycleDetection ==
  ASSUME total_steps \in Nat
  PROVE  CycleDetected <=> HasCycle
<1>1. ASSUME Sorted[total_steps] = Steps PROVE ~HasCycle
  BY <1>1, SortedIsAcyclic DEF HasCycle
<1>2. ASSUME Sorted[total_steps] # Steps PROVE HasCycle
  <2> DEFINE U == Steps \ Sorted[total_steps]
             size == [i \in U |-> Cardinality(DependsOn(i))]
  <2>1. IsFiniteSet(Steps)
    BY FS_Interval DEF Steps
  <2>2. \A i \in Steps : IsFiniteSet(DependsOn(i)) /\ Cardinality(DependsOn(i)) \in Nat
    BY <2>1, DependsOnClosed, FS_Subset, FS_CardinalityType
  <2>3. U # {} /\ U \subseteq Steps
    BY <1>2, SortedGrows
  <2>4. \A i \in U : size[i] = Cardinality(DependsOn(i)) /\ size[i] \in Nat
    BY <2>2, <2>3
  <2> HIDE DEF size
  <2>5. PICK i \in U : \A j \in U : size[i] <= size[j]
    <3> HIDE DEF U
    <3> QED BY <2>3, <2>4, LeastMeasure
  <2>6. PICK d \in Dependencies(i) : d \in U
    <3>1. i \notin Sorted[total_steps + 1]
      BY SortedStops
    <3>2. ~(Dependencies(i) \subseteq Sorted[total_steps])
      BY <3>1, SortedRounds
    <3>3. Dependencies(i) \subseteq Steps
      BY DependsOnClosed
    <3> QED BY <3>2, <3>3
  <2>7. DependsOn(d) \subseteq DependsOn(i) /\ d \in DependsOn(i)
    BY DependsOnTransitive, DependsOnClosed
  <2>8. Cardinality(DependsOn(i)) <= Cardinality(DependsOn(d))
    BY <2>4, <2>5, <2>6
  <2>9. DependsOn(d) = DependsOn(i)
    <3>1. IsFiniteSet(DependsOn(i)) /\ Cardinality(DependsOn(i)) \in Nat /\ Cardinality(DependsOn(d)) \in Nat
      BY <2>2, <2>6
    <3>2. /\ Cardinality(DependsOn(d)) <= Cardinality(DependsOn(i))
          /\ Cardinality(DependsOn(d)) = Cardinality(DependsOn(i)) => DependsOn(d) = DependsOn(i)
      BY <2>7, <3>1, FS_Subset
    <3> QED BY <2>8, <3>1, <3>2
  <2> QED BY <2>6, <2>7, <2>9 DEF HasCycle
<1> QED BY <1>1, <1>2 DEF CycleDetected

------------------------------------------------------------------------------
(* The counters *)

\* Whatever an action does, the counter invariants survive when it leaves the
\* counters alone, releases no edge and counts no step.
LEMMA CountersKept ==
  ASSUME CounterInv, CompletedInv, steps' = steps,
         completed_steps' = completed_steps, remaining_deps' = remaining_deps,
         \A e \in AllEdges : Unreleased(e)' <=> Unreleased(e),
         \A i \in Steps : (status[i] \in Ended /\ ~Uncounted(i))'
                             <=> status[i] \in Ended /\ ~Uncounted(i)
  PROVE  CounterInv' /\ CompletedInv'
<1>1. Counted' = Counted
  BY GraphStable DEF Counted
<1>2. ASSUME NEW i \in Steps
      PROVE  {e \in Incoming(i) : Unreleased(e)}' = {e \in Incoming(i) : Unreleased(e)}
  BY GraphStable DEF AllEdges
<1> QED BY <1>1, <1>2, GraphStable DEF CounterInv, CompletedInv

\* In particular an action that leaves the results, the edges still to visit
\* and the threads about to count alone.
LEMMA CountersFrame ==
  ASSUME CounterInv, CompletedInv,
         steps' = steps, UNCHANGED counters, todo' = todo,
         \A w \in Workers : (pc'[w] = "count") <=> (pc[w] = "count"),
         \A w \in Workers : pc[w] = "count" => step_idx'[w] = step_idx[w]
  PROVE  CounterInv' /\ CompletedInv'
<1>1. \A i : Uncounted(i)' <=> Uncounted(i)
  BY DEF Uncounted
<1>2. \A e : Unreleased(e)' <=> Unreleased(e)
  BY DEF Unreleased, counters
<1> QED BY <1>1, <1>2, CountersKept DEF counters

------------------------------------------------------------------------------
(* The invariant holds initially *)

\* No step is started and no edge released in an initial state.
LEMMA InitInv == Init => IInv
<1> SUFFICES ASSUME Init PROVE IInv
  OBVIOUS
<1> USE DEF Init
<1>1. total_steps \in Nat /\ steps \in Programs
  BY ProgramsAssumption DEF total_steps, BuildStepList
<1>2. \A i \in Steps : Cardinality(Incoming(i)) \in Nat
  BY <1>1, IncomingEdges, FS_CardinalityType
<1>3. TypeOK
  BY <1>1, <1>2 DEF TypeOK, WorkerPc
<1>4. CounterInv
  <2>1. ASSUME NEW i \in Steps
        PROVE  {e \in Incoming(i) : Unreleased(e)} = Incoming(i)
    BY <1>1, IncomingEdges DEF Unreleased, Ended
  <2> QED BY <2>1 DEF CounterInv
<1>5. CompletedInv
  <2>1. Counted = {}
    BY DEF Counted, Ended
  <2> QED BY <2>1, FS_EmptySet DEF CompletedInv
<1>6. MutexInv
  BY WorkersAssumption DEF MutexInv
<1>7. OneOwner /\ QueueInv
  BY DEF OneOwner, QueueInv, Busy
<1>8. StatusInv /\ TodoInv /\ PushInv
  BY DEF StatusInv, TodoInv, PushInv, Busy
<1>9. StartedInv /\ SeedInv /\ PlanInv /\ WaitingInv /\ ExitInv /\ ReturnInv
  BY DEF StartedInv, SeedInv, PlanInv, WaitingInv, ExitInv, ReturnInv
<1> QED BY <1>3, <1>4, <1>5, <1>6, <1>7, <1>8, <1>9 DEF IInv

\* Returning before any thread exists preserves the invariant.
LEMMA ReturnEarlyInv ==
  ASSUME IInv, ReturnEarly
  PROVE  IInv'
<1> USE GraphStable DEF IInv, ReturnEarly, queueVars, counters, workerVars, mainVars
<1>1. TypeOK'
  BY DEF TypeOK, WorkerPc
<1>2. OneOwner'
  BY DEF TypeOK, OneOwner, Busy, PushInv, QueueInv, SeedInv, StatusInv, StartedInv
<1>3. MutexInv'
  BY WorkersAssumption DEF TypeOK, MutexInv
<1>4. StartedInv' /\ SeedInv' /\ PlanInv'
  BY DEF TypeOK, StartedInv, SeedInv, PlanInv, WorkerPc
<1>5. StatusInv'
  BY DEF TypeOK, StatusInv, Busy, OneOwner, QueueInv, StartedInv
<1>6. TodoInv'
  BY DEF TypeOK, TodoInv, Busy
<1>7. QueueInv'
  BY DEF TypeOK, QueueInv, OneOwner, PushInv, Busy, StartedInv, StatusInv
<1>8. PushInv'
  BY DEF TypeOK, PushInv, Busy, OneOwner, QueueInv, StatusInv, WaitingInv, StartedInv
<1>9. WaitingInv'
  BY DEF TypeOK, WaitingInv, StatusInv, Busy
<1>10. CounterInv' /\ CompletedInv'
  BY CountersFrame DEF StartedInv, TypeOK
<1>11. ExitInv' /\ ReturnInv'
  <2>1. CASE steps = <<>>
    BY <2>1 DEF TypeOK, ExitInv, ReturnInv, StartedInv, total_steps
  <2>2. CASE steps # <<>>
    BY <2>2 DEF TypeOK, ExitInv, ReturnInv, StartedInv
  <2> QED BY <2>1, <2>2
<1> QED BY <1>1, <1>2, <1>3, <1>4, <1>5, <1>6, <1>7, <1>8, <1>9, <1>10, <1>11

\* Accepting the graph preserves the invariant.
LEMMA AcceptGraphInv ==
  ASSUME IInv, AcceptGraph
  PROVE  IInv'
<1> USE GraphStable DEF IInv, AcceptGraph, queueVars, counters, workerVars, mainVars
<1>1. TypeOK'
  BY DEF TypeOK, WorkerPc
<1>2. OneOwner'
  BY DEF TypeOK, OneOwner, Busy, PushInv, QueueInv, SeedInv, StatusInv, StartedInv
<1>3. MutexInv'
  BY WorkersAssumption DEF TypeOK, MutexInv
<1>4. StartedInv' /\ SeedInv' /\ PlanInv'
  BY DEF TypeOK, StartedInv, SeedInv, PlanInv, WorkerPc
<1>5. StatusInv'
  BY DEF TypeOK, StatusInv, Busy, OneOwner, QueueInv, StartedInv
<1>6. TodoInv'
  BY DEF TypeOK, TodoInv, Busy
<1>7. QueueInv'
  BY DEF TypeOK, QueueInv, OneOwner, PushInv, Busy, StartedInv, StatusInv
<1>8. PushInv'
  BY DEF TypeOK, PushInv, Busy, OneOwner, QueueInv, StatusInv, WaitingInv, StartedInv
<1>9. WaitingInv'
  BY DEF TypeOK, WaitingInv, StatusInv, Busy
<1>10. CounterInv' /\ CompletedInv'
  BY CountersFrame DEF StartedInv, TypeOK
<1>11. ExitInv' /\ ReturnInv'
  BY DEF TypeOK, ExitInv, ReturnInv, StartedInv, StatusInv
<1> QED BY <1>1, <1>2, <1>3, <1>4, <1>5, <1>6, <1>7, <1>8, <1>9, <1>10, <1>11

\* Queueing the steps that wait for nothing preserves the invariant.
LEMMA SeedQueueInv ==
  ASSUME IInv, SeedQueue
  PROVE  IInv'
<1> USE GraphStable DEF IInv, SeedQueue, queueVars, counters, workerVars, mainVars
<1>1. TypeOK'
  <2>1. total_steps \in Nat
    BY ProgramsAssumption DEF TypeOK, total_steps, BuildStepList
  <2>2. seed \in 1..(total_steps + 1) /\ seed <= total_steps
    BY DEF TypeOK
  <2>3. seed \in Steps /\ seed + 1 \in 1..(total_steps + 1)
    BY <2>1, <2>2 DEF Steps
  <2>4. ready_queue' \in Seq(Steps)
    BY <2>3 DEF TypeOK
  <2> QED BY <2>3, <2>4 DEF TypeOK
<1>2. OneOwner'
  BY DEF TypeOK, OneOwner, Busy, PushInv, QueueInv, SeedInv, StatusInv, StartedInv
<1>3. MutexInv'
  BY WorkersAssumption DEF TypeOK, MutexInv
<1>4. StartedInv' /\ SeedInv' /\ PlanInv'
  <2>1. total_steps \in Nat
    BY ProgramsAssumption DEF TypeOK, total_steps, BuildStepList
  <2>2. seed \in Steps /\ ready_queue \in Seq(Steps)
    BY <2>1 DEF TypeOK, Steps
  <2>3. ASSUME NEW a \in DOMAIN ready_queue'
        PROVE  ready_queue'[a] < seed'
    BY <2>1, <2>2 DEF SeedInv, Steps
  <2> QED BY <2>3 DEF StartedInv, SeedInv, PlanInv
<1>5. StatusInv'
  BY DEF TypeOK, StatusInv, Busy, OneOwner, QueueInv, StartedInv
<1>6. TodoInv'
  BY DEF TypeOK, TodoInv, Busy
<1>7. QueueInv'
  <2>1. seed \in Steps
    BY ProgramsAssumption DEF TypeOK, Steps, total_steps, BuildStepList
  <2> QED BY <2>1 DEF TypeOK, QueueInv, StartedInv
<1>8. PushInv'
  BY DEF TypeOK, PushInv, Busy, OneOwner, QueueInv, StatusInv, WaitingInv, StartedInv
<1>9. WaitingInv'
  BY DEF TypeOK, WaitingInv, StatusInv, Busy
<1>10. CounterInv' /\ CompletedInv'
  BY CountersFrame DEF StartedInv, TypeOK
<1>11. ExitInv' /\ ReturnInv'
  BY DEF TypeOK, ExitInv, ReturnInv, StartedInv, StatusInv
<1> QED BY <1>1, <1>2, <1>3, <1>4, <1>5, <1>6, <1>7, <1>8, <1>9, <1>10, <1>11

\* Starting the threads preserves the invariant.
LEMMA StartWorkersInv ==
  ASSUME IInv, StartWorkers
  PROVE  IInv'
<1> USE GraphStable DEF IInv, StartWorkers, queueVars, counters, workerVars, mainVars
<1>1. TypeOK'
  BY DEF TypeOK, WorkerPc
<1>2. OneOwner'
  BY DEF TypeOK, OneOwner, Busy, PushInv, QueueInv, SeedInv, StatusInv, StartedInv
<1>3. MutexInv'
  BY WorkersAssumption DEF TypeOK, MutexInv
<1>4. StartedInv' /\ SeedInv' /\ PlanInv'
  BY DEF TypeOK, StartedInv, SeedInv, PlanInv, WorkerPc
<1>5. StatusInv'
  BY DEF TypeOK, StatusInv, Busy, OneOwner, QueueInv, StartedInv
<1>6. TodoInv'
  BY DEF TypeOK, TodoInv, Busy
<1>7. QueueInv'
  BY DEF TypeOK, QueueInv, OneOwner, PushInv, Busy, StartedInv, StatusInv
<1>8. PushInv'
  BY DEF TypeOK, PushInv, Busy, OneOwner, QueueInv, StatusInv, WaitingInv, StartedInv
<1>9. WaitingInv'
  BY DEF TypeOK, WaitingInv, StatusInv, Busy
<1>10. CounterInv' /\ CompletedInv'
  BY CountersFrame DEF StartedInv, TypeOK
<1>11. ExitInv' /\ ReturnInv'
  BY DEF TypeOK, ExitInv, ReturnInv, StartedInv, StatusInv
<1> QED BY <1>1, <1>2, <1>3, <1>4, <1>5, <1>6, <1>7, <1>8, <1>9, <1>10, <1>11

\* Joining the threads, all of which have exited preserves the invariant.
LEMMA JoinInv ==
  ASSUME IInv, Join
  PROVE  IInv'
<1> USE GraphStable DEF IInv, Join, queueVars, counters, workerVars, mainVars
<1>1. TypeOK'
  BY DEF TypeOK, WorkerPc
<1>2. OneOwner'
  BY DEF TypeOK, OneOwner, Busy, PushInv, QueueInv, SeedInv, StatusInv, StartedInv
<1>3. MutexInv'
  BY WorkersAssumption DEF TypeOK, MutexInv
<1>4. StartedInv' /\ SeedInv' /\ PlanInv'
  BY DEF TypeOK, StartedInv, SeedInv, PlanInv, WorkerPc
<1>5. StatusInv'
  BY DEF TypeOK, StatusInv, Busy, OneOwner, QueueInv, StartedInv
<1>6. TodoInv'
  BY DEF TypeOK, TodoInv, Busy
<1>7. QueueInv'
  BY DEF TypeOK, QueueInv, OneOwner, PushInv, Busy, StartedInv, StatusInv
<1>8. PushInv'
  BY DEF TypeOK, PushInv, Busy, OneOwner, QueueInv, StatusInv, WaitingInv, StartedInv
<1>9. WaitingInv'
  BY DEF TypeOK, WaitingInv, StatusInv, Busy
<1>10. CounterInv' /\ CompletedInv'
  BY CountersFrame DEF StartedInv, TypeOK
<1>11. ExitInv' /\ ReturnInv'
  <2>1. completed_steps = total_steps
    BY WorkersAssumption DEF ExitInv
  <2> QED BY <2>1 DEF ExitInv, ReturnInv
<1> QED BY <1>1, <1>2, <1>3, <1>4, <1>5, <1>6, <1>7, <1>8, <1>9, <1>10, <1>11

\* Taking queue_mutex preserves the invariant.
LEMMA LockQueueInv ==
  ASSUME IInv, NEW w \in Workers, LockQueue(w)
  PROVE  IInv'
<1> USE GraphStable DEF IInv, LockQueue, queueVars, counters, workerVars, mainVars
<1>1. TypeOK'
  BY DEF TypeOK, WorkerPc
<1>2. OneOwner'
  BY DEF TypeOK, OneOwner, Busy, PushInv, QueueInv, SeedInv, StatusInv, StartedInv
<1>3. MutexInv'
  BY WorkersAssumption DEF TypeOK, MutexInv
<1>4. StartedInv' /\ SeedInv' /\ PlanInv'
  BY DEF TypeOK, StartedInv, SeedInv, PlanInv, WorkerPc
<1>5. StatusInv'
  BY DEF TypeOK, StatusInv, Busy, OneOwner, QueueInv, StartedInv
<1>6. TodoInv'
  BY DEF TypeOK, TodoInv, Busy
<1>7. QueueInv'
  BY DEF TypeOK, QueueInv, OneOwner, PushInv, Busy, StartedInv, StatusInv
<1>8. PushInv'
  BY DEF TypeOK, PushInv, Busy, OneOwner, QueueInv, StatusInv, WaitingInv, StartedInv
<1>9. WaitingInv'
  BY DEF TypeOK, WaitingInv, StatusInv, Busy
<1>10. CounterInv' /\ CompletedInv'
  BY CountersFrame DEF StartedInv, TypeOK
<1>11. ExitInv' /\ ReturnInv'
  BY DEF TypeOK, ExitInv, ReturnInv, StartedInv, StatusInv
<1> QED BY <1>1, <1>2, <1>3, <1>4, <1>5, <1>6, <1>7, <1>8, <1>9, <1>10, <1>11

\* Popping a step: the head of the queue gets its only owner preserves the invariant.
LEMMA TakeStepInv ==
  ASSUME IInv, NEW w \in Workers, TakeStep(w)
  PROVE  IInv'
<1> USE GraphStable DEF IInv, TakeStep, queueVars, counters, workerVars, mainVars
<1>1. TypeOK'
  BY DEF TypeOK, WorkerPc
<1>2. OneOwner'
  <2>1. \A a \in DOMAIN ready_queue' :
          a + 1 \in DOMAIN ready_queue /\ ready_queue'[a] = ready_queue[a + 1]
    BY DEF TypeOK
  <2>2. 1 \in DOMAIN ready_queue /\ step_idx'[w] = ready_queue[1]
    BY DEF TypeOK
  <2>3. \A v \in Workers : Busy(v)' <=> v = w \/ Busy(v)
    BY DEF TypeOK, Busy
  <2>4. \A v \in Workers : v # w => step_idx'[v] = step_idx[v]
    BY DEF TypeOK
  <2>5. ASSUME NEW u \in Workers, NEW v \in Workers, u # v, Busy(u)', Busy(v)'
        PROVE  step_idx'[u] # step_idx'[v]
    BY <2>2, <2>3, <2>4, <2>5 DEF OneOwner
  <2>6. ASSUME NEW a \in DOMAIN ready_queue', NEW b \in DOMAIN ready_queue', a # b
        PROVE  ready_queue'[a] # ready_queue'[b]
    <3>1. a + 1 # b + 1
      BY <2>6 DEF TypeOK
    <3> QED BY <2>1, <3>1 DEF OneOwner
  <2>7. ASSUME NEW a \in DOMAIN ready_queue', NEW v \in Workers, Busy(v)'
        PROVE  step_idx'[v] # ready_queue'[a]
    <3>1. a + 1 # 1
      BY DEF TypeOK
    <3> QED BY <2>1, <2>2, <2>3, <2>4, <2>7, <3>1 DEF OneOwner
  <2> QED BY <2>5, <2>6, <2>7 DEF OneOwner
<1>3. MutexInv'
  BY WorkersAssumption DEF TypeOK, MutexInv
<1>4. StartedInv' /\ SeedInv' /\ PlanInv'
  BY DEF TypeOK, StartedInv, SeedInv, PlanInv, WorkerPc
<1>5. StatusInv'
  BY DEF TypeOK, StatusInv, Busy, OneOwner, QueueInv, StartedInv
<1>6. TodoInv'
  BY DEF TypeOK, TodoInv, Busy
<1>7. QueueInv'
  BY DEF TypeOK, QueueInv, OneOwner, PushInv, Busy, StartedInv, StatusInv
<1>8. PushInv'
  BY DEF TypeOK, PushInv, Busy, OneOwner, QueueInv, StatusInv, WaitingInv, StartedInv
<1>9. WaitingInv'
  BY DEF TypeOK, WaitingInv, StatusInv, Busy
<1>10. CounterInv' /\ CompletedInv'
  BY CountersFrame DEF StartedInv, TypeOK
<1>11. ExitInv' /\ ReturnInv'
  BY DEF TypeOK, ExitInv, ReturnInv, StartedInv, StatusInv
<1> QED BY <1>1, <1>2, <1>3, <1>4, <1>5, <1>6, <1>7, <1>8, <1>9, <1>10, <1>11

\* Leaving a thread: every step has been counted preserves the invariant.
LEMMA ExitWorkerInv ==
  ASSUME IInv, NEW w \in Workers, ExitWorker(w)
  PROVE  IInv'
<1> USE GraphStable DEF IInv, ExitWorker, queueVars, counters, workerVars, mainVars
<1>1. TypeOK'
  BY DEF TypeOK, WorkerPc
<1>2. OneOwner'
  BY DEF TypeOK, OneOwner, Busy, PushInv, QueueInv, SeedInv, StatusInv, StartedInv
<1>3. MutexInv'
  BY WorkersAssumption DEF TypeOK, MutexInv
<1>4. StartedInv' /\ SeedInv' /\ PlanInv'
  BY DEF TypeOK, StartedInv, SeedInv, PlanInv, WorkerPc
<1>5. StatusInv'
  BY DEF TypeOK, StatusInv, Busy, OneOwner, QueueInv, StartedInv
<1>6. TodoInv'
  BY DEF TypeOK, TodoInv, Busy
<1>7. QueueInv'
  BY DEF TypeOK, QueueInv, OneOwner, PushInv, Busy, StartedInv, StatusInv
<1>8. PushInv'
  BY DEF TypeOK, PushInv, Busy, OneOwner, QueueInv, StatusInv, WaitingInv, StartedInv
<1>9. WaitingInv'
  BY DEF TypeOK, WaitingInv, StatusInv, Busy
<1>10. CounterInv' /\ CompletedInv'
  BY CountersFrame DEF StartedInv, TypeOK
<1>11. ExitInv' /\ ReturnInv'
  BY DEF TypeOK, ExitInv, ReturnInv, StartedInv, StatusInv
<1> QED BY <1>1, <1>2, <1>3, <1>4, <1>5, <1>6, <1>7, <1>8, <1>9, <1>10, <1>11

\* Finding the wait predicate false preserves the invariant.
LEMMA DecideToWaitInv ==
  ASSUME IInv, NEW w \in Workers, DecideToWait(w)
  PROVE  IInv'
<1> USE GraphStable DEF IInv, DecideToWait, queueVars, counters, workerVars, mainVars
<1>1. TypeOK'
  BY DEF TypeOK, WorkerPc
<1>2. OneOwner'
  BY DEF TypeOK, OneOwner, Busy, PushInv, QueueInv, SeedInv, StatusInv, StartedInv
<1>3. MutexInv'
  BY WorkersAssumption DEF TypeOK, MutexInv
<1>4. StartedInv' /\ SeedInv' /\ PlanInv'
  BY DEF TypeOK, StartedInv, SeedInv, PlanInv, WorkerPc
<1>5. StatusInv'
  BY DEF TypeOK, StatusInv, Busy, OneOwner, QueueInv, StartedInv
<1>6. TodoInv'
  BY DEF TypeOK, TodoInv, Busy
<1>7. QueueInv'
  BY DEF TypeOK, QueueInv, OneOwner, PushInv, Busy, StartedInv, StatusInv
<1>8. PushInv'
  BY DEF TypeOK, PushInv, Busy, OneOwner, QueueInv, StatusInv, WaitingInv, StartedInv
<1>9. WaitingInv'
  BY DEF TypeOK, WaitingInv, StatusInv, Busy
<1>10. CounterInv' /\ CompletedInv'
  BY CountersFrame DEF StartedInv, TypeOK
<1>11. ExitInv' /\ ReturnInv'
  BY DEF TypeOK, ExitInv, ReturnInv, StartedInv, StatusInv
<1> QED BY <1>1, <1>2, <1>3, <1>4, <1>5, <1>6, <1>7, <1>8, <1>9, <1>10, <1>11

\* Releasing the mutex to sleep preserves the invariant.
LEMMA SleepInv ==
  ASSUME IInv, NEW w \in Workers, Sleep(w)
  PROVE  IInv'
<1> USE GraphStable DEF IInv, Sleep, queueVars, counters, workerVars, mainVars
<1>1. TypeOK'
  BY DEF TypeOK, WorkerPc
<1>2. OneOwner'
  BY DEF TypeOK, OneOwner, Busy, PushInv, QueueInv, SeedInv, StatusInv, StartedInv
<1>3. MutexInv'
  BY WorkersAssumption DEF TypeOK, MutexInv
<1>4. StartedInv' /\ SeedInv' /\ PlanInv'
  BY DEF TypeOK, StartedInv, SeedInv, PlanInv, WorkerPc
<1>5. StatusInv'
  BY DEF TypeOK, StatusInv, Busy, OneOwner, QueueInv, StartedInv
<1>6. TodoInv'
  BY DEF TypeOK, TodoInv, Busy
<1>7. QueueInv'
  BY DEF TypeOK, QueueInv, OneOwner, PushInv, Busy, StartedInv, StatusInv
<1>8. PushInv'
  BY DEF TypeOK, PushInv, Busy, OneOwner, QueueInv, StatusInv, WaitingInv, StartedInv
<1>9. WaitingInv'
  BY DEF TypeOK, WaitingInv, StatusInv, Busy
<1>10. CounterInv' /\ CompletedInv'
  BY CountersFrame DEF StartedInv, TypeOK
<1>11. ExitInv' /\ ReturnInv'
  BY DEF TypeOK, ExitInv, ReturnInv, StartedInv, StatusInv
<1> QED BY <1>1, <1>2, <1>3, <1>4, <1>5, <1>6, <1>7, <1>8, <1>9, <1>10, <1>11

\* A spurious wake-up preserves the invariant.
LEMMA SpuriousWakeupInv ==
  ASSUME IInv, NEW w \in Workers, SpuriousWakeup(w)
  PROVE  IInv'
<1> USE GraphStable DEF IInv, SpuriousWakeup, queueVars, counters, workerVars, mainVars
<1>1. TypeOK'
  BY DEF TypeOK, WorkerPc
<1>2. OneOwner'
  BY DEF TypeOK, OneOwner, Busy, PushInv, QueueInv, SeedInv, StatusInv, StartedInv
<1>3. MutexInv'
  BY WorkersAssumption DEF TypeOK, MutexInv
<1>4. StartedInv' /\ SeedInv' /\ PlanInv'
  BY DEF TypeOK, StartedInv, SeedInv, PlanInv, WorkerPc
<1>5. StatusInv'
  BY DEF TypeOK, StatusInv, Busy, OneOwner, QueueInv, StartedInv
<1>6. TodoInv'
  BY DEF TypeOK, TodoInv, Busy
<1>7. QueueInv'
  BY DEF TypeOK, QueueInv, OneOwner, PushInv, Busy, StartedInv, StatusInv
<1>8. PushInv'
  BY DEF TypeOK, PushInv, Busy, OneOwner, QueueInv, StatusInv, WaitingInv, StartedInv
<1>9. WaitingInv'
  BY DEF TypeOK, WaitingInv, StatusInv, Busy
<1>10. CounterInv' /\ CompletedInv'
  BY CountersFrame DEF StartedInv, TypeOK
<1>11. ExitInv' /\ ReturnInv'
  BY DEF TypeOK, ExitInv, ReturnInv, StartedInv, StatusInv
<1> QED BY <1>1, <1>2, <1>3, <1>4, <1>5, <1>6, <1>7, <1>8, <1>9, <1>10, <1>11

\* Starting a step preserves the invariant.
LEMMA BeginStepInv ==
  ASSUME IInv, NEW w \in Workers, BeginStep(w)
  PROVE  IInv'
<1> USE GraphStable DEF IInv, BeginStep, queueVars, counters, workerVars, mainVars
<1>1. TypeOK'
  BY DEF TypeOK, WorkerPc
<1>2. OneOwner'
  BY DEF TypeOK, OneOwner, Busy, PushInv, QueueInv, SeedInv, StatusInv, StartedInv
<1>3. MutexInv'
  BY WorkersAssumption DEF TypeOK, MutexInv
<1>4. StartedInv' /\ SeedInv' /\ PlanInv'
  BY DEF TypeOK, StartedInv, SeedInv, PlanInv, WorkerPc
<1>5. StatusInv'
  BY DEF TypeOK, StatusInv, Busy, OneOwner, QueueInv, StartedInv
<1>6. TodoInv'
  BY DEF TypeOK, TodoInv, Busy
<1>7. QueueInv'
  BY DEF TypeOK, QueueInv, OneOwner, PushInv, Busy, StartedInv, StatusInv
<1>8. PushInv'
  <2>1. \A v \in Workers : pc'[v] = "push" => pc[v] = "push" /\ v # w
    BY DEF TypeOK
  <2>2. \A v \in Workers : Busy(v)' <=> Busy(v)
    BY DEF Busy, TypeOK
  <2>3. \A i \in Steps : i # step_idx[w] => status'[i] = status[i]
    BY DEF TypeOK
  <2>4. \A v \in Workers : pc[v] = "push" => step_idx[w] # dependent[v]
    BY DEF PushInv, Busy
  <2> QED BY <2>1, <2>2, <2>3, <2>4 DEF PushInv
<1>9. WaitingInv'
  BY DEF TypeOK, WaitingInv, StatusInv, Busy
<1>10. CounterInv' /\ CompletedInv'
  <2>1. step_idx[w] \in Steps /\ status[step_idx[w]] = "NotStarted"
    BY DEF StatusInv, Busy
  <2>2. \A e \in AllEdges : Unreleased(e)' <=> Unreleased(e)
    BY <2>1, IncomingEdges DEF Unreleased, AllEdges, TypeOK, Ended
  <2>3. \A i \in Steps : (status[i] \in Ended /\ ~Uncounted(i))'
                           <=> status[i] \in Ended /\ ~Uncounted(i)
    BY <2>1 DEF Uncounted, TypeOK, Ended
  <2> QED BY <2>2, <2>3, CountersKept
<1>11. ExitInv' /\ ReturnInv'
  BY DEF TypeOK, ExitInv, ReturnInv, StartedInv
<1> QED BY <1>1, <1>2, <1>3, <1>4, <1>5, <1>6, <1>7, <1>8, <1>9, <1>10, <1>11

\* Ending a step: it is ended but not yet counted preserves the invariant.
LEMMA EndStepInv ==
  ASSUME IInv, NEW w \in Workers, EndStep(w)
  PROVE  IInv'
<1> USE GraphStable DEF IInv, EndStep, queueVars, counters, workerVars, mainVars
<1>1. TypeOK'
  BY DEF TypeOK, WorkerPc
<1>2. OneOwner'
  BY DEF TypeOK, OneOwner, Busy, PushInv, QueueInv, SeedInv, StatusInv, StartedInv
<1>3. MutexInv'
  BY WorkersAssumption DEF TypeOK, MutexInv
<1>4. StartedInv' /\ SeedInv' /\ PlanInv'
  BY DEF TypeOK, StartedInv, SeedInv, PlanInv, WorkerPc
<1>5. StatusInv'
  BY DEF TypeOK, StatusInv, Busy, OneOwner, QueueInv, StartedInv
<1>6. TodoInv'
  BY DEF TypeOK, TodoInv, Busy
<1>7. QueueInv'
  BY DEF TypeOK, QueueInv, OneOwner, PushInv, Busy, StartedInv, StatusInv
<1>8. PushInv'
  <2>1. \A v \in Workers : pc'[v] = "push" => pc[v] = "push" /\ v # w
    BY DEF TypeOK
  <2>2. \A v \in Workers : Busy(v)' <=> Busy(v)
    BY DEF Busy, TypeOK
  <2>3. \A i \in Steps : i # step_idx[w] => status'[i] = status[i]
    BY DEF TypeOK
  <2>4. \A v \in Workers : pc[v] = "push" => step_idx[w] # dependent[v]
    BY DEF PushInv, Busy
  <2> QED BY <2>1, <2>2, <2>3, <2>4 DEF PushInv
<1>9. WaitingInv'
  BY DEF TypeOK, WaitingInv, StatusInv, Busy
<1>10. CounterInv' /\ CompletedInv'
  <2>1. /\ step_idx[w] \in Steps /\ status[step_idx[w]] = "Running"
        /\ status'[step_idx[w]] \in Ended
    BY DEF StatusInv, Busy, TypeOK
  <2>2. \A v \in Workers : pc'[v] = "count" <=> v = w \/ pc[v] = "count"
    BY DEF TypeOK
  <2>3. \A i \in Steps : i # step_idx[w] => status'[i] = status[i]
    BY DEF TypeOK
  <2>4. ASSUME NEW e \in AllEdges PROVE Unreleased(e)' <=> Unreleased(e)
    <3>1. e[3] \in Steps
      BY IncomingEdges DEF AllEdges, TypeOK
    <3>2. CASE e[3] = step_idx[w]
      BY <2>1, <2>2, <3>2 DEF Unreleased, Ended
    <3>3. CASE e[3] # step_idx[w]
      BY <2>2, <2>3, <3>1, <3>3 DEF Unreleased
    <3> QED BY <3>2, <3>3
  <2>5. ASSUME NEW i \in Steps
        PROVE  (status[i] \in Ended /\ ~Uncounted(i))'
                  <=> status[i] \in Ended /\ ~Uncounted(i)
    <3>1. CASE i = step_idx[w]
      BY <2>1, <2>2, <3>1 DEF Uncounted, Ended
    <3>2. CASE i # step_idx[w]
      BY <2>2, <2>3, <3>2 DEF Uncounted
    <3> QED BY <3>1, <3>2
  <2> QED BY <2>4, <2>5, CountersKept
<1>11. ExitInv' /\ ReturnInv'
  BY DEF TypeOK, ExitInv, ReturnInv, StartedInv
<1> QED BY <1>1, <1>2, <1>3, <1>4, <1>5, <1>6, <1>7, <1>8, <1>9, <1>10, <1>11

\* Going back to the head of the loop preserves the invariant.
LEMMA FinishIterationInv ==
  ASSUME IInv, NEW w \in Workers, FinishIteration(w)
  PROVE  IInv'
<1> USE GraphStable DEF IInv, FinishIteration, queueVars, counters, workerVars, mainVars
<1>1. TypeOK'
  BY DEF TypeOK, WorkerPc
<1>2. OneOwner'
  BY DEF TypeOK, OneOwner, Busy, PushInv, QueueInv, SeedInv, StatusInv, StartedInv
<1>3. MutexInv'
  BY WorkersAssumption DEF TypeOK, MutexInv
<1>4. StartedInv' /\ SeedInv' /\ PlanInv'
  BY DEF TypeOK, StartedInv, SeedInv, PlanInv, WorkerPc
<1>5. StatusInv'
  BY DEF TypeOK, StatusInv, Busy, OneOwner, QueueInv, StartedInv
<1>6. TodoInv'
  BY DEF TypeOK, TodoInv, Busy
<1>7. QueueInv'
  BY DEF TypeOK, QueueInv, OneOwner, PushInv, Busy, StartedInv, StatusInv
<1>8. PushInv'
  BY DEF TypeOK, PushInv, Busy, OneOwner, QueueInv, StatusInv, WaitingInv, StartedInv
<1>9. WaitingInv'
  BY DEF TypeOK, WaitingInv, StatusInv, Busy
<1>10. CounterInv' /\ CompletedInv'
  BY CountersFrame DEF StartedInv, TypeOK
<1>11. ExitInv' /\ ReturnInv'
  BY DEF TypeOK, ExitInv, ReturnInv, StartedInv, StatusInv
<1> QED BY <1>1, <1>2, <1>3, <1>4, <1>5, <1>6, <1>7, <1>8, <1>9, <1>10, <1>11

\* Counting a step: Counted gains exactly this step preserves the invariant.
LEMMA CountStepInv ==
  ASSUME IInv, NEW w \in Workers, CountStep(w)
  PROVE  IInv'
<1> USE GraphStable DEF IInv, CountStep, queueVars, counters, workerVars, mainVars
<1> DEFINE s == step_idx[w]
<1>1. /\ s \in Steps /\ status[s] \in Ended
      /\ \A v \in Workers : v # w /\ pc[v] = "count" => step_idx[v] # s
  BY DEF StatusInv, OneOwner, Busy
<1>2. \A v \in Workers : pc'[v] = "count" <=> v # w /\ pc[v] = "count"
  BY DEF TypeOK
<1>3. \A v \in Workers : todo'[v] = IF v = w THEN Outgoing(s) ELSE todo[v]
  BY DEF TypeOK
<1>4. Counted' = Counted \cup {s} /\ s \notin Counted
  <2>1. Uncounted(s) /\ ~Uncounted(s)'
    BY <1>1, <1>2 DEF Uncounted
  <2>2. \A i \in Steps : i # s => (Uncounted(i)' <=> Uncounted(i))
    BY <1>2 DEF Uncounted
  <2> QED BY <1>1, <2>1, <2>2 DEF Counted
<1>5. total_steps \in Nat /\ IsFiniteSet(Steps) /\ Cardinality(Steps) = total_steps
  <2>1. total_steps \in Nat
    BY ProgramsAssumption DEF TypeOK, total_steps, BuildStepList
  <2> QED BY <2>1, FS_Interval DEF Steps
<1>6. CompletedInv' /\ completed_steps' \in 0..total_steps
  <2>1. Counted \in SUBSET Steps /\ Counted' \in SUBSET Steps
    BY <1>1, <1>4 DEF Counted
  <2>2. IsFiniteSet(Counted) /\ Cardinality(Counted') <= total_steps
    BY <1>5, <2>1, FS_Subset
  <2>3. Cardinality(Counted') = Cardinality(Counted) + 1
    BY <1>4, <2>2, FS_AddElement
  <2> QED BY <1>5, <2>2, <2>3 DEF CompletedInv, TypeOK
<1>7. TypeOK'
  <2>1. Outgoing(s) \in SUBSET AllEdges
    BY <1>1, OutgoingEdges DEF TypeOK
  <2>2. completed_steps + 1 \in 0..total_steps
    BY <1>6
  <2> QED BY <2>1, <2>2 DEF TypeOK, WorkerPc
<1>8. CounterInv'
  <2>1. ASSUME NEW e \in AllEdges PROVE Unreleased(e)' <=> Unreleased(e)
    <3>1. e[3] = s <=> e \in Outgoing(s)
      BY <1>1, OutgoingEdges DEF TypeOK, AllEdges
    <3>2. CASE e[3] = s
      BY <1>3, <3>1, <3>2 DEF Unreleased
    <3>3. CASE e[3] # s
      BY <1>2, <1>3, <3>1, <3>3 DEF Unreleased, TodoInv
    <3> QED BY <3>2, <3>3
  <2>2. ASSUME NEW i \in Steps
        PROVE  {e \in Incoming(i) : Unreleased(e)}' = {e \in Incoming(i) : Unreleased(e)}
    BY <2>1 DEF AllEdges
  <2> QED BY <2>2 DEF CounterInv
<1>9. OneOwner'
  BY DEF TypeOK, OneOwner, Busy
<1>10. MutexInv'
  BY DEF TypeOK, MutexInv
<1>11. StartedInv' /\ SeedInv' /\ PlanInv'
  BY DEF TypeOK, StartedInv, SeedInv, PlanInv
<1>12. StatusInv'
  BY DEF TypeOK, StatusInv, Busy
<1>13. TodoInv'
  BY <1>1, <1>3, OutgoingEdges DEF TypeOK, TodoInv
<1>14. QueueInv' /\ WaitingInv'
  BY DEF QueueInv, WaitingInv
<1>15. PushInv'
  BY DEF TypeOK, PushInv, Busy
<1>16. ExitInv' /\ ReturnInv'
  <2>1. pc[w] \notin {"lock", "exit"}
    OBVIOUS
  <2>2. main = "join"
    BY <2>1 DEF StartedInv
  <2>3. \A v \in Workers : pc[v] # "exit"
    <3>1. Counted \in SUBSET Steps /\ Counted # Steps
      BY <1>1, <1>4 DEF Counted
    <3>2. Cardinality(Counted) # total_steps
      BY <1>5, <3>1, FS_Subset
    <3> QED BY <3>2 DEF CompletedInv, ExitInv
  <2> QED BY <2>2, <2>3 DEF TypeOK, ExitInv, ReturnInv
<1> QED
  BY <1>6, <1>7, <1>8, <1>9, <1>10, <1>11, <1>12, <1>13, <1>14, <1>15, <1>16

\* Releasing an edge: the dependent's counter and its unreleased edges
\* shrink by the same edge preserves the invariant.
LEMMA ReleaseDependentInv ==
  ASSUME IInv, NEW w \in Workers, ReleaseDependent(w)
  PROVE  IInv'
<1> USE GraphStable DEF IInv, queueVars, counters, workerVars, mainVars
<1>1. PICK e \in todo[w] :
        /\ todo' = [todo EXCEPT ![w] = @ \ {e}]
        /\ remaining_deps' = [remaining_deps EXCEPT ![e[1]] = @ - 1]
        /\ dependent' = [dependent EXCEPT ![w] = e[1]]
        /\ pc' = [pc EXCEPT ![w] = IF remaining_deps[e[1]] = 1 THEN "push"
                                                              ELSE "release"]
  BY DEF ReleaseDependent, ReleaseAt
<1>2. /\ pc[w] = "release"
      /\ steps' = steps
      /\ UNCHANGED <<queueVars, step_idx, current_completed, completed_steps,
                     status, mainVars>>
  BY DEF ReleaseDependent, ReleaseAt
<1>3. /\ e \in AllEdges /\ e[1] \in Steps /\ e[3] \in Steps
      /\ e \in Incoming(e[1]) /\ e[3] = step_idx[w]
  BY IncomingEdges DEF TypeOK, AllEdges, TodoInv
<1>4. \A v \in Workers : /\ todo'[v] = IF v = w THEN todo[w] \ {e} ELSE todo[v]
                         /\ v # w => pc'[v] = pc[v]
                         /\ v # w => dependent'[v] = dependent[v]
  BY <1>1 DEF TypeOK
<1>5. pc'[w] \in {"push", "release"} /\ dependent'[w] = e[1]
  BY <1>1 DEF TypeOK
<1> DEFINE U(i) == {x \in Incoming(i) : Unreleased(x)}
<1>6. ASSUME NEW x \in AllEdges
      PROVE  Unreleased(x)' <=> Unreleased(x) /\ x # e
  <2>1. CASE x # e
    BY <1>2, <1>4, <1>5, <2>1 DEF Unreleased
  <2>2. CASE x = e
    <3>1. status[e[3]] \in Ended
      BY <1>2, <1>3 DEF StatusInv
    <3>2. ASSUME NEW v \in Workers, v # w
          PROVE  ~(pc[v] = "count" /\ step_idx[v] = e[3]) /\ e \notin todo[v]
      BY <1>2, <1>3, <3>2 DEF OneOwner, Busy, TodoInv
    <3> QED BY <1>2, <1>4, <1>5, <2>2, <3>1, <3>2 DEF Unreleased
  <2> QED BY <2>1, <2>2
<1>7. U(e[1])' = U(e[1]) \ {e} /\ e \in U(e[1])
  BY <1>2, <1>3, <1>6 DEF AllEdges, Unreleased
<1>8. \A i \in Steps : i # e[1] => U(i)' = U(i)
  <2>1. ASSUME NEW i \in Steps, i # e[1], NEW x \in Incoming(i)
        PROVE  Unreleased(x)' <=> Unreleased(x)
    <3>1. x \in AllEdges
      BY DEF AllEdges
    <3>2. x # e
      BY <2>1, IncomingEdges DEF TypeOK
    <3> QED BY <1>6, <3>1, <3>2
  <2> QED BY <1>2, <2>1
<1>9. /\ remaining_deps[e[1]] \in Nat \ {0}
      /\ Cardinality(U(e[1]) \ {e}) = remaining_deps[e[1]] - 1
  <2>1. IsFiniteSet(U(e[1]))
    <3>1. U(e[1]) \in SUBSET Incoming(e[1])
      OBVIOUS
    <3> QED BY <3>1, <1>3, IncomingEdges, FS_Subset DEF TypeOK
  <2>2. Cardinality(U(e[1]) \ {e}) = remaining_deps[e[1]] - 1
    <3>1. remaining_deps[e[1]] = Cardinality(U(e[1])) /\ e \in U(e[1])
      BY <1>3, <1>7 DEF CounterInv
    <3> HIDE DEF U
    <3> QED BY <2>1, <3>1, FS_RemoveElement
  <2>3. Cardinality(U(e[1]) \ {e}) \in Nat
    BY <2>1, FS_RemoveElement, FS_CardinalityType
  <2> QED BY <1>3, <2>2, <2>3 DEF TypeOK
<1>10. CounterInv'
  <2>1. ASSUME NEW i \in Steps PROVE remaining_deps'[i] = Cardinality(U(i)')
    <3>1. CASE i = e[1]
      BY <1>1, <1>3, <1>7, <1>9, <3>1 DEF TypeOK
    <3>2. CASE i # e[1]
      BY <1>1, <1>3, <1>8, <3>2 DEF TypeOK, CounterInv
    <3> QED BY <3>1, <3>2
  <2> QED BY <1>2, <2>1 DEF CounterInv
<1>11. CompletedInv'
  <2>1. Counted' = Counted
    BY <1>2, <1>4, <1>5 DEF Counted, Uncounted
  <2> QED BY <1>2, <2>1 DEF CompletedInv
<1>12. /\ remaining_deps' \in [Steps -> Nat]
       /\ \A i \in Steps : remaining_deps[i] = 0 => remaining_deps'[i] = 0
       /\ pc'[w] = "push" => remaining_deps'[e[1]] = 0 /\ remaining_deps[e[1]] = 1
  BY <1>1, <1>3, <1>9 DEF TypeOK
<1>13. TypeOK'
  <2>1. /\ todo' \in [Workers -> SUBSET AllEdges]
        /\ dependent' \in [Workers -> Steps \cup {0}]
        /\ pc' \in [Workers -> WorkerPc]
    BY <1>1, <1>3 DEF TypeOK, WorkerPc
  <2> QED BY <1>2, <1>12, <2>1 DEF TypeOK
<1>14. \A v \in Workers : Busy(v)' <=> Busy(v)
  BY <1>2, <1>4, <1>5 DEF Busy
<1>15. OneOwner'
  BY <1>2, <1>14 DEF OneOwner
<1>16. MutexInv'
  BY <1>2, <1>4, <1>5 DEF MutexInv
<1>17. StartedInv' /\ SeedInv' /\ PlanInv'
  BY <1>2, <1>4, <1>5 DEF StartedInv, SeedInv, PlanInv
<1>18. StatusInv'
  BY <1>2, <1>4, <1>5, <1>12, <1>14 DEF StatusInv, Busy
<1>19. TodoInv'
  BY <1>2, <1>4, <1>5 DEF TodoInv
<1>20. QueueInv' /\ WaitingInv'
  BY <1>2, <1>12 DEF QueueInv, WaitingInv, TypeOK
<1>21. PushInv'
  <2>1. ASSUME NEW v \in Workers, pc'[v] = "push", v # w
        PROVE  /\ pc[v] = "push" /\ dependent'[v] = dependent[v]
               /\ remaining_deps[dependent[v]] = 0
    BY <1>4, <2>1 DEF PushInv
  <2>2. pc'[w] = "push" =>
          /\ status[e[1]] = "NotStarted"
          /\ \A a \in DOMAIN ready_queue : ready_queue[a] # e[1]
          /\ \A v \in Workers : Busy(v) => step_idx[v] # e[1]
    BY <1>3, <1>12 DEF WaitingInv, QueueInv, StatusInv
  <2>3. ASSUME NEW v \in Workers, pc'[v] = "push", v # w
        PROVE  PushInv!(v)'
    BY <1>2, <1>4, <1>5, <1>12, <1>14, <2>1, <2>3 DEF PushInv
  <2>4. ASSUME pc'[w] = "push" PROVE PushInv!(w)'
    BY <1>2, <1>3, <1>4, <1>5, <1>12, <1>14, <2>1, <2>2, <2>4 DEF PushInv
  <2> QED BY <1>4, <2>3, <2>4 DEF PushInv
<1>22. ExitInv' /\ ReturnInv'
  BY <1>2, <1>4, <1>5 DEF ExitInv, ReturnInv
<1> QED
  BY <1>10, <1>11, <1>13, <1>15, <1>16, <1>17, <1>18, <1>19, <1>20, <1>21, <1>22

\* Pushing a step whose counter reached zero preserves the invariant.
LEMMA PushDependentInv ==
  ASSUME IInv, NEW w \in Workers, PushDependent(w)
  PROVE  IInv'
<1> USE GraphStable DEF IInv, queueVars, counters, workerVars, mainVars
<1>1. /\ pc[w] = "push" /\ steps' = steps /\ queue_mutex = NoOne
      /\ ready_queue' = Append(ready_queue, dependent[w])
      /\ UNCHANGED <<queue_mutex, step_idx, current_completed, todo, dependent,
                     counters, mainVars>>
  BY DEF PushDependent
<1>2. /\ pc' \in [Workers -> WorkerPc] /\ pc'[w] = "release"
      /\ \A v \in Workers : v # w => \/ pc'[v] = pc[v]
                                     \/ pc[v] = "asleep" /\ pc'[v] = "lock"
  BY DEF PushDependent, NotifyOne, TypeOK, WorkerPc
<1>3. \A v \in Workers : Busy(v)' <=> Busy(v)
  BY <1>1, <1>2 DEF Busy
<1>4. /\ dependent[w] \in Steps
      /\ status[dependent[w]] = "NotStarted"
      /\ remaining_deps[dependent[w]] = 0
      /\ \A a \in DOMAIN ready_queue : ready_queue[a] # dependent[w]
      /\ \A v \in Workers : Busy(v) => step_idx[v] # dependent[w]
      /\ \A v \in Workers : v # w /\ pc[v] = "push" => dependent[v] # dependent[w]
  BY <1>1 DEF PushInv
<1>5. /\ ready_queue' \in Seq(Steps)
      /\ \A a \in DOMAIN ready_queue' :
           \/ a \in DOMAIN ready_queue /\ ready_queue'[a] = ready_queue[a]
           \/ a = Len(ready_queue) + 1 /\ ready_queue'[a] = dependent[w]
  BY <1>1, <1>4 DEF TypeOK
<1>6. TypeOK'
  BY <1>1, <1>2, <1>5 DEF TypeOK
<1>7. OneOwner'
  <2>1. ASSUME NEW a \in DOMAIN ready_queue', NEW b \in DOMAIN ready_queue', a # b
        PROVE  ready_queue'[a] # ready_queue'[b]
    BY <1>4, <1>5, <2>1 DEF OneOwner
  <2>2. ASSUME NEW a \in DOMAIN ready_queue', NEW v \in Workers, Busy(v)
        PROVE  step_idx[v] # ready_queue'[a]
    BY <1>4, <1>5, <2>2 DEF OneOwner
  <2> QED BY <1>1, <1>3, <2>1, <2>2 DEF OneOwner
<1>8. MutexInv'
  BY <1>1, <1>2 DEF MutexInv
<1>9. StartedInv' /\ SeedInv' /\ PlanInv'
  <2>1. main = "join"
    BY <1>1 DEF StartedInv, TypeOK
  <2> QED BY <1>1, <2>1 DEF StartedInv, SeedInv, PlanInv
<1>10. StatusInv'
  BY <1>1, <1>2, <1>3 DEF StatusInv
<1>11. TodoInv'
  BY <1>1, <1>2 DEF TodoInv
<1>12. QueueInv' /\ WaitingInv'
  BY <1>1, <1>4, <1>5 DEF QueueInv, WaitingInv
<1>13. PushInv'
  BY <1>1, <1>2, <1>3, <1>4, <1>5 DEF PushInv
<1>14. CounterInv' /\ CompletedInv'
  BY <1>1, <1>2, CountersFrame
<1>15. ExitInv' /\ ReturnInv'
  BY <1>1, <1>2 DEF ExitInv, ReturnInv
<1> QED
  BY <1>6, <1>7, <1>8, <1>9, <1>10, <1>11, <1>12, <1>13, <1>14, <1>15

------------------------------------------------------------------------------
(* The theorems *)

\* Every step of the specification preserves the invariant.
LEMMA StepInv == IInv /\ [Next]_vars => IInv'
<1> SUFFICES ASSUME IInv, [Next]_vars PROVE IInv'
  OBVIOUS
<1>1. CASE Main
  BY <1>1, ReturnEarlyInv, AcceptGraphInv, SeedQueueInv, StartWorkersInv, JoinInv
  DEF Main
<1>2. ASSUME NEW w \in Workers, Worker(w) PROVE IInv'
  BY <1>2, LockQueueInv, TakeStepInv, ExitWorkerInv, DecideToWaitInv, SleepInv,
     BeginStepInv, EndStepInv, CountStepInv, ReleaseDependentInv,
     PushDependentInv, FinishIterationInv
  DEF Worker
<1>3. ASSUME NEW w \in Workers, SpuriousWakeup(w) PROVE IInv'
  BY <1>3, SpuriousWakeupInv
<1>4. CASE UNCHANGED vars
  <2>1. \A e : Unreleased(e)' <=> Unreleased(e)
    BY <1>4 DEF Unreleased, vars, counters, workerVars
  <2>2. \A i : Uncounted(i)' <=> Uncounted(i)
    BY <1>4 DEF Uncounted, vars, workerVars
  <2>3. \A w : Busy(w)' <=> Busy(w)
    BY <1>4 DEF Busy, vars, workerVars
  <2>4. CounterInv' /\ CompletedInv'
    BY <1>4, CountersFrame
    DEF IInv, vars, queueVars, counters, workerVars, mainVars
  <2> USE <1>4, GraphStable
      DEF IInv, vars, queueVars, counters, workerVars, mainVars
  <2>5. TypeOK'
    BY DEF TypeOK
  <2>6. OneOwner' /\ MutexInv' /\ StartedInv' /\ SeedInv' /\ PlanInv'
    BY <2>3 DEF OneOwner, MutexInv, StartedInv, SeedInv, PlanInv
  <2>7. StatusInv' /\ TodoInv' /\ QueueInv' /\ PushInv' /\ WaitingInv'
    BY <2>3 DEF StatusInv, TodoInv, QueueInv, PushInv, WaitingInv
  <2>8. ExitInv' /\ ReturnInv'
    BY DEF ExitInv, ReturnInv
  <2> QED BY <2>4, <2>5, <2>6, <2>7, <2>8
<1> QED BY <1>1, <1>2, <1>3, <1>4 DEF Next, Returned

\* The inductive invariant holds in every state of every execution.
THEOREM Invariance == Spec => []IInv
BY InitInv, StepInv, PTL DEF Spec

\* An edge that no thread has still to release comes from a step that ended.
LEMMA NoEdgeLeft ==
  ASSUME IInv, NEW i \in Steps, remaining_deps[i] = 0
  PROVE  \A d \in Dependencies(i) : status[d] \in Ended
<1>1. {e \in Incoming(i) : Unreleased(e)} \in SUBSET Incoming(i)
  OBVIOUS
<1>2. IsFiniteSet({e \in Incoming(i) : Unreleased(e)})
  BY <1>1, IncomingEdges, FS_Subset DEF IInv, TypeOK
<1>3. {e \in Incoming(i) : Unreleased(e)} = {}
  BY <1>2, FS_EmptySet DEF IInv, CounterInv
<1> QED BY <1>3 DEF Dependencies, Unreleased

\* A build step never starts before all the steps it depends on have ended,
\* for any number of threads and any dependency graph, duplicates included.
THEOREM DependencyOrder == Spec => []RunsAfterDependencies
<1>1. IInv => RunsAfterDependencies
  BY NoEdgeLeft DEF IInv, WaitingInv, RunsAfterDependencies
<1> QED BY <1>1, Invariance, PTL

\* execute_steps_parallel returns only when every step has ended, or when it
\* refused the configuration before starting any.
THEOREM ReturnIsFinal == Spec => []ReturnsAfterAllSteps
<1>1. IInv => ReturnsAfterAllSteps
  <2> SUFFICES ASSUME IInv, completed_steps = total_steps
               PROVE  \A i \in Steps : status[i] \in Ended
    BY DEF ReturnsAfterAllSteps, IInv, ReturnInv
  <2>1. total_steps \in Nat
    BY ProgramsAssumption DEF IInv, TypeOK, total_steps, BuildStepList
  <2>2. IsFiniteSet(Steps) /\ Cardinality(Steps) = total_steps
    BY <2>1, FS_Interval DEF Steps
  <2>3. Counted \in SUBSET Steps
    BY DEF Counted
  <2>4. Counted = Steps
    BY <2>2, <2>3, FS_Subset DEF IInv, CompletedInv
  <2> QED BY <2>4 DEF Counted
<1> QED BY <1>1, Invariance, PTL

\* The executor refuses a configuration before it starts anything exactly when
\* some step reaches itself: the rounds of topological_sort find every cycle,
\* and steps outside it do not hide it.
THEOREM CyclesRefused == Spec => []RefusesCycles
<1>1. Init => RefusesCycles
  BY DEF Init, RefusesCycles
<1>2. IInv /\ RefusesCycles /\ [Next]_vars => RefusesCycles'
  <2> SUFFICES ASSUME IInv, RefusesCycles, [Next]_vars
               PROVE  RefusesCycles'
    OBVIOUS
  <2>1. total_steps \in Nat
    BY ProgramsAssumption DEF IInv, TypeOK, total_steps, BuildStepList
  <2>2. steps' = steps => (HasCycle' <=> HasCycle) /\ Steps' = Steps
    BY GraphStable DEF HasCycle, DependsOn
  <2>3. CASE ReturnEarly
    BY <2>1, <2>2, <2>3, CycleDetection
    DEF ReturnEarly, RefusesCycles, counters, Steps, total_steps
  <2>4. CASE AcceptGraph
    BY <2>1, <2>2, <2>4, CycleDetection DEF AcceptGraph, RefusesCycles
  <2>5. CASE SeedQueue \/ StartWorkers
    BY <2>2, <2>5 DEF SeedQueue, StartWorkers, RefusesCycles
  <2>6. CASE Join
    <3>1. PICK w \in Workers : pc[w] = "exit"
      BY <2>6, WorkersAssumption DEF Join
    <3>2. Counted = Steps
      <4>1. IsFiniteSet(Steps) /\ Cardinality(Steps) = total_steps
        BY <2>1, FS_Interval DEF Steps
      <4>2. Counted \in SUBSET Steps /\ Cardinality(Counted) = total_steps
        BY <3>1 DEF IInv, ExitInv, CompletedInv, Counted
      <4> QED BY <4>1, <4>2, FS_Subset
    <3>3. \A i \in Steps : status[i] \in Ended
      BY <3>2 DEF Counted
    <3> QED BY <2>2, <2>6, <3>3 DEF Join, RefusesCycles, Ended, counters
  <2>7. ASSUME NEW w \in Workers, Worker(w) \/ SpuriousWakeup(w)
        PROVE  RefusesCycles'
    <3>1. main = "join"
      BY <2>7
      DEF IInv, StartedInv, Worker, LockQueue, TakeStep, ExitWorker, DecideToWait,
          Sleep, SpuriousWakeup, BeginStep, EndStep, CountStep, ReleaseDependent,
          ReleaseAt, PushDependent, FinishIteration
    <3>2. UNCHANGED mainVars
      BY <2>7
      DEF Worker, LockQueue, TakeStep, ExitWorker, DecideToWait, Sleep,
          SpuriousWakeup, BeginStep, EndStep, CountStep, ReleaseDependent,
          ReleaseAt, PushDependent, FinishIteration
    <3> QED BY <2>2, <3>1, <3>2 DEF RefusesCycles, mainVars
  <2>8. CASE UNCHANGED vars
    BY <2>2, <2>8 DEF RefusesCycles, vars, mainVars, counters
  <2> QED BY <2>3, <2>4, <2>5, <2>6, <2>7, <2>8 DEF Next, Main, Returned
<1> QED BY <1>1, <1>2, Invariance, PTL DEF Spec

\* The pool of threads implements the abstract task graph.
THEOREM Refinement == Spec => ImplementsTaskGraph
<1>1. Init => TG!Init
  BY DEF Init, TG!Init
<1>2. IInv /\ [Next]_vars => [TG!Next]_<<[i \in Steps |-> Dependencies(i)], status>>
  <2> DEFINE deps == [i \in Steps |-> Dependencies(i)]
  <2> SUFFICES ASSUME IInv, [Next]_vars
               PROVE  TG!Next \/ (deps' = deps /\ status' = status)
    OBVIOUS
  <2>1. steps' = steps => deps' = deps
    BY GraphStable
  <2>2. CASE UNCHANGED <<steps, status>>
    BY <2>1, <2>2
  <2>3. ASSUME NEW w \in Workers, BeginStep(w) PROVE TG!Next
    <3>1. step_idx[w] \in Steps /\ status[step_idx[w]] = "NotStarted"
      BY <2>3 DEF BeginStep, IInv, StatusInv, Busy
    <3>2. \A d \in Dependencies(step_idx[w]) : status[d] \in Ended
      BY <2>3, <3>1, NoEdgeLeft DEF BeginStep, IInv, StatusInv, Busy
    <3>3. TG!Start(step_idx[w])
      BY <2>1, <2>3, <3>1, <3>2 DEF TG!Start, TG!Ended, Ended, BeginStep, mainVars
    <3> QED BY <3>1, <3>3 DEF TG!Next, IInv, TypeOK
  <2>4. ASSUME NEW w \in Workers, EndStep(w) PROVE TG!Next
    <3>1. step_idx[w] \in Steps /\ status[step_idx[w]] = "Running"
      BY <2>4 DEF EndStep, IInv, StatusInv, Busy
    <3>2. TG!End(step_idx[w])
      BY <2>1, <2>4, <3>1 DEF TG!End, TG!Ended, Ended, EndStep, mainVars
    <3> QED BY <3>1, <3>2 DEF TG!Next, IInv, TypeOK
  <2> QED
    BY <2>2, <2>3, <2>4
    DEF Next, Main, Worker, Returned, ReturnEarly, AcceptGraph, SeedQueue,
        StartWorkers, Join, LockQueue, TakeStep, ExitWorker, DecideToWait, Sleep,
        SpuriousWakeup, CountStep, ReleaseDependent, ReleaseAt, PushDependent,
        FinishIteration, vars, mainVars, counters
<1> QED BY <1>1, <1>2, Invariance, PTL DEF Spec, TG!Spec, ImplementsTaskGraph
=============================================================================
