----------------------------- MODULE JobsProofs ------------------------------
(***************************************************************************)
(* Proofs about the worker pool, for every number of threads and jobs and  *)
(* both ways of treating a failure, about the captures of the process      *)
(* runner, and about the two together: the composition implements the      *)
(* pool, and runs its processes with the pipes of CapturePipe.             *)
(***************************************************************************)
EXTENDS Jobs, FiniteSetTheorems, TLAPS

USE NAssumption, NoErrorAssumption

------------------------------------------------------------------------------
(* The pool alone *)

\* Nothing has been drawn in the initial states.
LEMMA InitIInv == Init => IInv
<1> SUFFICES ASSUME Init PROVE IInv
  OBVIOUS
<1>1. TypeOK
  <2>1. /\ next \in 1..(N + 1) /\ status \in [Items -> {"todo", "working", "done", "failed"}]
        /\ pc \in [Workers -> WorkerPc] /\ errors \in SUBSET Items
    BY DEF Init, WorkerPc
  <2>2. /\ index \in [Workers -> 0..N] /\ done \in Nat /\ count \in [Workers -> Nat]
        /\ late \in [Workers -> Nat]
    BY DEF Init
  <2>3. lines \in Seq(Nat)
    BY DEF Init
  <2> QED BY <2>1, <2>2, <2>3 DEF Init, TypeOK
<1>2. DrawnInv /\ OwnerInv /\ RecordInv /\ ExitInv /\ LateInv /\ ResultInv
  BY DEF Init, DrawnInv, OwnerInv, RecordInv, ExitInv, LateInv, ResultInv, Items
<1>3. CountInv /\ LinesInv
  <2>1. Counted = {} /\ lines = <<>> /\ done = 0
    BY DEF Init, Counted
  <2> QED BY <2>1, FS_EmptySet DEF Init, CountInv, LinesInv, Printing
<1> QED BY <1>1, <1>2, <1>3 DEF IInv

\* The values stay in their ranges.
LEMMA StepTypeOK == IInv /\ [Next]_vars => TypeOK'
<1> SUFFICES ASSUME IInv, [Next]_vars PROVE TypeOK'
  OBVIOUS
<1> USE DEF TypeOK, Items, WorkerPc, mainVars, errVars, progress
<1>0. TypeOK /\ OwnerInv
  BY DEF IInv
<1>1. CASE Main
  BY <1>0, <1>1 DEF Main, StartWorkers, Join
<1>2. ASSUME NEW w \in Workers, Worker(w) PROVE TypeOK'
  <2>1. CASE TestAborted(w)
    BY <1>0, <2>1 DEF TestAborted
  <2>2. CASE Claim(w)
    BY <1>0, <2>2 DEF Claim
  <2>3. CASE NothingLeft(w)
    BY <1>0, <2>3 DEF NothingLeft
  <2>4. CASE Succeed(w)
    BY <1>0, <2>4 DEF Succeed
  <2>5. CASE Fail(w)
    BY <1>0, <2>5 DEF Fail
  <2>6. CASE RecordAndStop(w)
    BY <1>0, <2>6 DEF RecordAndStop, OwnerInv
  <2>7. CASE RecordAndContinue(w)
    <3>1. errors' \in SUBSET Items
      <4>1. index[w] \in Items
        BY <1>0, <2>7 DEF RecordAndContinue, OwnerInv
      <4>2. errors \in SUBSET Items
        BY <1>0
      <4> HIDE DEF TypeOK, Items
      <4> QED BY <2>7, <4>1, <4>2 DEF RecordAndContinue
    <3>2. pc' \in [Workers -> WorkerPc]
      BY <1>0, <2>7 DEF RecordAndContinue
    <3> QED BY <1>0, <2>7, <3>1, <3>2 DEF RecordAndContinue
  <2>8. CASE CountStep(w)
    BY <1>0, <2>8 DEF CountStep
  <2>9. CASE PrintLine(w)
    BY <1>0, <2>9 DEF PrintLine
  <2>10. CASE SkipStep(w)
    BY <1>0, <2>10 DEF SkipStep
  <2> QED BY <1>2, <2>1, <2>2, <2>3, <2>4, <2>5, <2>6, <2>7, <2>8, <2>9, <2>10 DEF Worker
<1>3. CASE UNCHANGED vars
  BY <1>0, <1>3 DEF vars
<1> QED BY <1>1, <1>2, <1>3 DEF Next

\* Steps of the calling thread and stuttering.
LEMMA MainIInv ==
  ASSUME IInv, TypeOK', Main \/ UNCHANGED vars
  PROVE  IInv'
<1> USE DEF IInv, TypeOK, mainVars, errVars, progress, vars
<1>1. DrawnInv' /\ OwnerInv' /\ RecordInv' /\ LateInv'
  BY DEF Main, StartWorkers, Join, DrawnInv, OwnerInv, RecordInv, LateInv
<1>2. ExitInv'
  BY DEF Main, StartWorkers, Join, ExitInv
<1>3. ResultInv'
  <2>1. CASE StartWorkers
    BY <2>1 DEF StartWorkers, ResultInv
  <2>2. CASE Join
    BY <2>2 DEF Join, ResultInv, Reports
  <2>3. CASE UNCHANGED vars
    BY <2>3 DEF ResultInv, Reports
  <2> QED BY <2>1, <2>2, <2>3 DEF Main
<1>4. CountInv' /\ LinesInv'
  <2>1. UNCHANGED <<StopOnFailure, total, pc, index, status, done, count, lines>>
    BY DEF Main, StartWorkers, Join
  <2>2. Counted' = Counted /\ \A w, n : Printing(w, n)' <=> Printing(w, n)
    BY <2>1 DEF Counted, Printing
  <2> QED BY <2>1, <2>2 DEF CountInv, LinesInv
<1> QED BY <1>1, <1>2, <1>3, <1>4

\* A thread acts only while the caller is in join().
LEMMA WorkersRunInJoin ==
  ASSUME IInv, NEW w \in Workers, Worker(w)
  PROVE  main = "join" /\ main' = "join"
<1>1. pc[w] # "exit" /\ (pc[w] = "test" => main = "join") /\ main' = main
  BY DEF Worker, TestAborted, Claim, NothingLeft, Succeed, Fail, RecordAndStop,
         RecordAndContinue, SkipStep, CountStep, PrintLine, mainVars
<1> QED BY <1>1 DEF IInv, ExitInv, TypeOK

\* Drawing keeps the order, and a drawn job belongs to one thread.
LEMMA WorkerOwnerInv ==
  ASSUME IInv, NEW w \in Workers, Worker(w)
  PROVE  DrawnInv' /\ OwnerInv'
<1>0. TypeOK /\ DrawnInv /\ OwnerInv
  BY DEF IInv
<1>1. CASE Claim(w)
  <2>1. next \in Items /\ status[next] = "todo" /\ status'[next] = "working"
    BY <1>0, <1>1 DEF Claim, DrawnInv, TypeOK, Items
  <2>2. DrawnInv'
    BY <1>0, <1>1 DEF Claim, DrawnInv, TypeOK, Items
  <2>3. \A v \in Workers : v # w => index'[v] = index[v] /\ pc'[v] = pc[v]
    BY <1>0, <1>1 DEF Claim, TypeOK
  <2>4. index'[w] = next /\ pc'[w] = "work"
    BY <1>0, <1>1 DEF Claim, TypeOK
  <2>5. \A v \in Workers : v # w /\ pc[v] \in {"work", "record"} => index[v] # next
    BY <1>0, <2>1 DEF OwnerInv
  <2>6. \A i \in Items : i # next => status'[i] = status[i]
    BY <1>0, <1>1 DEF Claim, TypeOK
  <2>7. ASSUME NEW v \in Workers PROVE OwnerInv!1!(v)'
    <3>1. CASE v = w
      BY <2>1, <2>4, <3>1
    <3>2. CASE v # w
      BY <1>0, <2>3, <2>5, <2>6, <3>2 DEF OwnerInv
    <3> QED BY <3>1, <3>2
  <2>8. ASSUME NEW u \in Workers, NEW v \in Workers PROVE OwnerInv!2!(u, v)'
    <3>1. CASE u # w /\ v # w
      BY <1>0, <2>3, <3>1 DEF OwnerInv
    <3>2. CASE u = w \/ v = w
      BY <2>3, <2>4, <2>5, <3>2
    <3> QED BY <3>1, <3>2
  <2>9. ASSUME NEW i \in Items PROVE OwnerInv!3!(i)'
    <3>1. CASE i = next
      BY <2>4, <3>1
    <3>2. CASE i # next
      <4>1. pc[w] # "work"
        BY <1>1 DEF Claim
      <4> QED BY <1>0, <2>3, <2>6, <3>2, <4>1 DEF OwnerInv
    <3> QED BY <3>1, <3>2
  <2> QED BY <2>2, <2>7, <2>8, <2>9 DEF OwnerInv
<1>2. ASSUME Succeed(w) \/ Fail(w) PROVE DrawnInv' /\ OwnerInv'
  <2> DEFINE k == index[w]
  <2>1. /\ pc[w] = "work" /\ k \in Items /\ status[k] = "working"
        /\ next' = next /\ index' = index
    BY <1>0, <1>2 DEF OwnerInv, Succeed, Fail
  <2>2. /\ status'[k] \in {"done", "failed"}
        /\ \A j \in Items : j # k => status'[j] = status[j]
        /\ pc'[w] # "work" /\ (pc'[w] = "record" => status'[k] = "failed")
        /\ \A v \in Workers : v # w => pc'[v] = pc[v]
    BY <1>0, <1>2, <2>1 DEF Succeed, Fail, TypeOK
  <2>3. DrawnInv'
    BY <1>0, <2>1, <2>2 DEF DrawnInv, Items
  <2>4. \A v \in Workers : v # w /\ pc[v] \in {"work", "record"} => index[v] # k
    BY <1>0, <2>1 DEF OwnerInv
  <2>5. ASSUME NEW v \in Workers PROVE OwnerInv!1!(v)'
    <3>1. CASE v = w
      BY <2>1, <2>2, <3>1
    <3>2. CASE v # w
      BY <1>0, <2>1, <2>2, <2>4, <3>2 DEF OwnerInv
    <3> QED BY <3>1, <3>2
  <2>6. ASSUME NEW u \in Workers, NEW v \in Workers PROVE OwnerInv!2!(u, v)'
    BY <1>0, <2>1, <2>2 DEF OwnerInv
  <2>7. ASSUME NEW i \in Items PROVE OwnerInv!3!(i)'
    <3>1. CASE i = k
      BY <2>2, <3>1
    <3>2. CASE i # k
      BY <1>0, <2>1, <2>2, <3>2 DEF OwnerInv
    <3> QED BY <3>1, <3>2
  <2> QED BY <2>3, <2>5, <2>6, <2>7 DEF OwnerInv
<1>3. ASSUME \/ TestAborted(w) \/ NothingLeft(w) \/ RecordAndStop(w)
             \/ RecordAndContinue(w) \/ SkipStep(w) \/ CountStep(w) \/ PrintLine(w)
      PROVE  DrawnInv' /\ OwnerInv'
  <2>1. /\ status' = status /\ next' = next /\ index' = index
        /\ pc[w] # "work" /\ pc'[w] \notin {"work", "record"}
        /\ \A v \in Workers : v # w => pc'[v] = pc[v]
    BY <1>0, <1>3 DEF TestAborted, NothingLeft, RecordAndStop, RecordAndContinue,
                      SkipStep, CountStep, PrintLine, TypeOK
  <2>2. DrawnInv'
    BY <1>0, <2>1 DEF DrawnInv
  <2>3. ASSUME NEW v \in Workers PROVE OwnerInv!1!(v)'
    BY <1>0, <2>1 DEF OwnerInv
  <2>4. ASSUME NEW u \in Workers, NEW v \in Workers PROVE OwnerInv!2!(u, v)'
    BY <1>0, <2>1 DEF OwnerInv
  <2>5. ASSUME NEW i \in Items PROVE OwnerInv!3!(i)'
    BY <1>0, <2>1 DEF OwnerInv
  <2> QED BY <2>2, <2>3, <2>4, <2>5 DEF OwnerInv
<1> QED BY <1>1, <1>2, <1>3 DEF Worker

\* A failure is not lost between its job and its record: this holds of a step
\* that records nothing and adds k, the worker's job, to the failures at most.
LEMMA UnrecordedStep ==
  ASSUME RecordInv, NEW w \in Workers, StopOnFailure' = StopOnFailure,
         aborted' = aborted, first_err' = first_err, errors' = errors,
         pc[w] # "record",
         \A v \in Workers : v # w => index'[v] = index[v] /\ pc'[v] = pc[v],
         \A i \in Items : status[i] = "failed" => status'[i] = "failed",
         \A i \in Items : status'[i] = "failed" =>
                            status[i] = "failed" \/ (pc'[w] = "record" /\ index'[w] = i),
         errors \in SUBSET Items
  PROVE  RecordInv'
<1>1. ASSUME NEW i \in Items, status'[i] = "failed" PROVE RecordInv!1!(i)!2'
  <2>1. CASE pc'[w] = "record" /\ index'[w] = i
    BY <2>1
  <2>2. CASE status[i] = "failed"
    BY <2>2 DEF RecordInv
  <2> QED BY <1>1, <2>1, <2>2
<1>2. RecordInv!2' /\ RecordInv!3' /\ RecordInv!4'
  BY DEF RecordInv
<1> QED BY <1>1, <1>2 DEF RecordInv

LEMMA WorkerRecordInv ==
  ASSUME IInv, NEW w \in Workers, Worker(w)
  PROVE  RecordInv'
<1>0. /\ TypeOK /\ DrawnInv /\ OwnerInv /\ RecordInv
      /\ errors \in SUBSET Items /\ StopOnFailure \in BOOLEAN
  BY DEF IInv, TypeOK
<1>k. StopOnFailure' = StopOnFailure
  BY DEF Worker, TestAborted, Claim, NothingLeft, Succeed, Fail, RecordAndStop,
         RecordAndContinue, SkipStep, CountStep, PrintLine, mainVars
<1>1. CASE Claim(w)
  <2>1. next \in Items /\ status[next] = "todo"
    BY <1>0, <1>1 DEF Claim, DrawnInv, TypeOK, Items
  <2>2. \A i \in Items : status'[i] = "failed" <=> status[i] = "failed"
    BY <1>0, <1>1, <2>1 DEF Claim, TypeOK
  <2>3. \A v \in Workers : v # w => index'[v] = index[v] /\ pc'[v] = pc[v]
    BY <1>0, <1>1 DEF Claim, TypeOK
  <2> QED BY <1>0, <1>1, <2>2, <2>3, <1>k, UnrecordedStep DEF Claim, errVars
<1>2. ASSUME Succeed(w) \/ Fail(w) PROVE RecordInv'
  <2>1. index[w] \in Items /\ status[index[w]] = "working"
    BY <1>0, <1>2 DEF Succeed, Fail, OwnerInv
  <2>2. /\ \A i \in Items : status[i] = "failed" => status'[i] = "failed"
        /\ \A i \in Items : status'[i] = "failed" =>
             status[i] = "failed" \/ (pc'[w] = "record" /\ index'[w] = i)
    BY <1>0, <1>2, <2>1 DEF Succeed, Fail, TypeOK
  <2>3. \A v \in Workers : v # w => index'[v] = index[v] /\ pc'[v] = pc[v]
    BY <1>0, <1>2 DEF Succeed, Fail, TypeOK
  <2>4. pc[w] # "record" /\ aborted' = aborted /\ first_err' = first_err /\ errors' = errors
    BY <1>2 DEF Succeed, Fail, errVars
  <2> QED BY <1>0, <2>2, <2>3, <2>4, <1>k, UnrecordedStep
<1>3. ASSUME RecordAndStop(w) \/ RecordAndContinue(w) PROVE RecordInv'
  <2>1. /\ index[w] \in Items /\ status[index[w]] = "failed"
        /\ status' = status /\ index' = index
        /\ \A v \in Workers : v # w => pc'[v] = pc[v]
    BY <1>0, <1>3 DEF RecordAndStop, RecordAndContinue, OwnerInv, TypeOK
  <2>2. ASSUME NEW i \in Items, status'[i] = "failed" PROVE RecordInv!1!(i)!2'
    <3>1. CASE i = index[w]
      BY <1>3, <1>k, <2>1, <3>1 DEF RecordAndStop, RecordAndContinue
    <3>2. CASE i # index[w]
      <4>1. CASE \E v \in Workers : v # w /\ pc[v] = "record" /\ index[v] = i
        BY <2>1, <4>1
      <4>2. CASE IF StopOnFailure THEN aborted ELSE i \in errors
        BY <1>3, <1>k, <4>2 DEF RecordAndStop, RecordAndContinue
      <4> QED BY <1>0, <2>1, <2>2, <3>2, <4>1, <4>2 DEF RecordInv
    <3> QED BY <3>1, <3>2
  <2>3. CASE RecordAndStop(w)
    BY <1>0, <1>k, <2>1, <2>2, <2>3 DEF RecordInv, RecordAndStop
  <2>4. CASE RecordAndContinue(w)
    BY <1>0, <1>k, <2>1, <2>2, <2>4 DEF RecordInv, RecordAndContinue
  <2> QED BY <1>3, <2>3, <2>4
<1>4. ASSUME TestAborted(w) \/ NothingLeft(w) \/ SkipStep(w) \/ CountStep(w) \/ PrintLine(w)
      PROVE  RecordInv'
  <2>1. /\ status' = status /\ index' = index /\ pc[w] # "record"
        /\ aborted' = aborted /\ first_err' = first_err /\ errors' = errors
        /\ \A v \in Workers : v # w => pc'[v] = pc[v]
    BY <1>0, <1>4 DEF TestAborted, NothingLeft, SkipStep, CountStep, PrintLine, TypeOK, errVars
  <2> QED BY <1>0, <2>1, <1>k, UnrecordedStep
<1> QED BY <1>1, <1>2, <1>3, <1>4 DEF Worker

\* A thread that saw no abort draws once; the recorder of the failure left.
LEMMA WorkerLateInv ==
  ASSUME IInv, NEW w \in Workers, Worker(w)
  PROVE  LateInv'
<1> USE DEF TypeOK, errVars, mainVars, progress
<1>0. TypeOK /\ LateInv
  BY DEF IInv
<1>1. CASE Claim(w)
  <2>1. /\ late[w] = 0 /\ pc'[w] = "work" /\ pc[w] = "claim"
        /\ late'[w] = IF aborted THEN 1 ELSE 0
        /\ aborted' = aborted /\ first_err' = first_err
    BY <1>0, <1>1 DEF Claim, LateInv
  <2>2. \A v \in Workers : v # w => /\ late'[v] = late[v] /\ pc'[v] = pc[v]
                                    /\ index'[v] = index[v]
    BY <1>0, <1>1 DEF Claim
  <2>3. \A v \in Workers : late'[v] <= 1 /\ (pc'[v] = "claim" => late'[v] = 0)
    BY <1>0, <2>1, <2>2 DEF LateInv
  <2>4. ASSUME ~aborted, NEW v \in Workers PROVE late'[v] = 0
    BY <1>0, <2>1, <2>2, <2>4 DEF LateInv
  <2>5. ASSUME aborted
        PROVE  \E v \in Workers : late'[v] = 0 /\ index'[v] = first_err /\ pc'[v] = "exit"
    <3>1. PICK v \in Workers : late[v] = 0 /\ index[v] = first_err /\ pc[v] = "exit"
      BY <1>0, <2>5 DEF LateInv
    <3>2. v # w
      BY <2>1, <3>1
    <3> QED BY <2>2, <3>1, <3>2
  <2> QED BY <2>1, <2>3, <2>4, <2>5 DEF LateInv
<1>2. CASE RecordAndStop(w)
  <2>1. /\ late' = late /\ index' = index /\ pc[w] = "record" /\ pc'[w] = "exit"
        /\ \A v \in Workers : v # w => pc'[v] = pc[v]
        /\ aborted' = TRUE
        /\ first_err' = IF aborted THEN first_err ELSE index[w]
    BY <1>0, <1>2 DEF RecordAndStop
  <2>2. CASE aborted
    BY <1>0, <2>1, <2>2 DEF LateInv
  <2>3. CASE ~aborted
    BY <1>0, <2>1, <2>3 DEF LateInv
  <2> QED BY <2>2, <2>3
<1>3. ASSUME \/ TestAborted(w) \/ NothingLeft(w) \/ Succeed(w) \/ Fail(w)
             \/ RecordAndContinue(w) \/ SkipStep(w) \/ CountStep(w) \/ PrintLine(w)
      PROVE  LateInv'
  <2>1. /\ late' = late /\ index' = index /\ pc[w] # "exit"
        /\ aborted' = aborted /\ first_err' = first_err
        /\ \A v \in Workers : v # w => pc'[v] = pc[v]
        /\ pc'[w] = "claim" => ~aborted
    BY <1>0, <1>3 DEF TestAborted, NothingLeft, Succeed, Fail, RecordAndContinue,
                      SkipStep, CountStep, PrintLine
  <2> QED BY <1>0, <2>1 DEF LateInv
<1> QED BY <1>1, <1>2, <1>3 DEF Worker

\* A thread ends only when aborted or when everything is drawn.
LEMMA WorkerExitInv ==
  ASSUME IInv, NEW w \in Workers, Worker(w)
  PROVE  ExitInv' /\ ResultInv'
<1>1. main = "join" /\ main' = "join"
  BY WorkersRunInJoin
<1>2. /\ \A v \in Workers : v # w => pc'[v] = pc[v]
      /\ next' >= next /\ (aborted => aborted')
      /\ pc'[w] = "exit" => aborted' \/ next' > N
  BY DEF IInv, TypeOK, Worker, TestAborted, Claim, NothingLeft, Succeed, Fail,
         RecordAndStop, RecordAndContinue, SkipStep, CountStep, PrintLine, errVars
<1>3. next \in Nat /\ next' \in Nat
  BY DEF IInv, TypeOK, Worker, TestAborted, Claim, NothingLeft, Succeed, Fail,
         RecordAndStop, RecordAndContinue, SkipStep, CountStep, PrintLine
<1> QED BY <1>1, <1>2, <1>3 DEF IInv, ExitInv, ResultInv

\* A step of a thread that neither counts nor prints: the jobs counted stay the
\* same if those done do, but for the one w has just done.
LEMMA UncountedStep ==
  ASSUME CountInv, LinesInv, NEW w \in Workers,
         StopOnFailure' = StopOnFailure, total' = total, UNCHANGED progress,
         pc[w] \notin {"report", "print"}, pc'[w] # "print",
         \A v \in Workers : v # w => index'[v] = index[v] /\ pc'[v] = pc[v],
         \A i \in Items : status[i] = "done" => status'[i] = "done",
         pc'[w] = "report" => index'[w] \in Items /\ status'[index'[w]] = "done"
                                                  /\ status[index'[w]] # "done",
         \A i \in Items : status'[i] = "done" =>
           \/ status[i] = "done"
           \/ ~StopOnFailure
           \/ pc'[w] = "report" /\ index'[w] = i
  PROVE  CountInv' /\ LinesInv'
<1>1. CountInv!1' /\ CountInv!2'
  BY DEF CountInv
<1>2. StopOnFailure => Counted' = Counted
  BY DEF Counted, CountInv
<1>3. done' = done /\ count' = count /\ lines' = lines
  BY DEF progress
<1>4. CountInv'
  BY <1>1, <1>2, <1>3 DEF CountInv
<1>5. \A v \in Workers : pc'[v] = "print" <=> pc[v] = "print"
  OBVIOUS
<1>6. \A v \in Workers : \A n : Printing(v, n)' <=> Printing(v, n)
  BY <1>3, <1>5 DEF Printing
<1>7. LinesInv'
  BY <1>3, <1>5, <1>6 DEF LinesInv
<1> QED BY <1>4, <1>7

\* Counting a job numbers it with a number nobody has; printing moves the
\* number from the thread to the lines.
LEMMA WorkerNumberInv ==
  ASSUME IInv, NEW w \in Workers, Worker(w)
  PROVE  CountInv' /\ LinesInv'
<1>0. TypeOK /\ DrawnInv /\ OwnerInv /\ CountInv /\ LinesInv
  BY DEF IInv
<1>k. StopOnFailure' = StopOnFailure /\ total' = total
  BY DEF Worker, TestAborted, Claim, NothingLeft, Succeed, Fail, RecordAndStop,
         RecordAndContinue, SkipStep, CountStep, PrintLine, mainVars
<1>1. CASE Claim(w)
  <2>1. next \in Items /\ status[next] = "todo" /\ pc[w] = "claim" /\ pc'[w] = "work"
    BY <1>0, <1>1 DEF Claim, DrawnInv, TypeOK, Items
  <2>2. \A i \in Items : status'[i] = "done" <=> status[i] = "done"
    BY <1>0, <1>1, <2>1 DEF Claim, TypeOK
  <2>3. \A v \in Workers : v # w => index'[v] = index[v] /\ pc'[v] = pc[v]
    BY <1>0, <1>1 DEF Claim, TypeOK
  <2>4. UNCHANGED progress
    BY <1>1 DEF Claim
  <2> QED BY <1>0, <1>k, <2>1, <2>2, <2>3, <2>4, UncountedStep
<1>2. ASSUME Succeed(w) \/ Fail(w) PROVE CountInv' /\ LinesInv'
  <2>1. /\ index[w] \in Items /\ status[index[w]] = "working" /\ index' = index
        /\ pc[w] = "work" /\ UNCHANGED progress
    BY <1>0, <1>2 DEF Succeed, Fail, OwnerInv
  <2>2. \A v \in Workers : v # w => index'[v] = index[v] /\ pc'[v] = pc[v]
    BY <1>0, <1>2 DEF Succeed, Fail, TypeOK
  <2>3. \A i \in Items : i # index[w] => status'[i] = status[i]
    BY <1>0, <1>2, <2>1 DEF Succeed, Fail, TypeOK
  <2>4. CASE Succeed(w)
    <3>1. status'[index[w]] = "done" /\ pc'[w] = IF StopOnFailure THEN "report" ELSE "test"
      BY <1>0, <2>1, <2>4 DEF Succeed, TypeOK
    <3> QED BY <1>0, <1>k, <2>1, <2>2, <2>3, <3>1, UncountedStep
  <2>5. CASE Fail(w)
    <3>1. status'[index[w]] = "failed" /\ pc'[w] = "record"
      BY <1>0, <2>1, <2>5 DEF Fail, TypeOK
    <3> QED BY <1>0, <1>k, <2>1, <2>2, <2>3, <3>1, UncountedStep
  <2> QED BY <1>2, <2>4, <2>5
<1>3. CASE CountStep(w)
  <2>1. /\ pc[w] = "report" /\ total # 0 /\ pc'[w] = "print" /\ done' = done + 1 /\ lines' = lines
        /\ count'[w] = done + 1 /\ status' = status /\ index' = index
        /\ \A v \in Workers : v # w => count'[v] = count[v] /\ pc'[v] = pc[v]
    BY <1>0, <1>3 DEF CountStep, TypeOK
  <2>2. index[w] \in Items /\ status[index[w]] = "done" /\ index[w] \notin Counted
    BY <1>0, <2>1 DEF CountInv, Counted
  <2>3. Counted' = Counted \cup {index[w]}
    BY <1>0, <1>k, <2>1, <2>2 DEF CountInv, Counted
  <2>4. StopOnFailure => done' = Cardinality(Counted')
    <3>1. IsFiniteSet(Items) /\ Counted \subseteq Items
      BY FS_Interval DEF Items, Counted
    <3>2. IsFiniteSet(Counted)
      BY <3>1, FS_Subset
    <3>3. Cardinality(Counted \cup {index[w]}) = Cardinality(Counted) + 1
      BY <2>2, <3>2, FS_AddElement
    <3> QED BY <1>0, <2>1, <2>3, <3>3 DEF CountInv
  <2>5. CountInv'
    BY <1>0, <1>k, <2>1, <2>4 DEF CountInv
  <2>6. done \in Nat /\ done + 1 \notin 1..done
    BY <1>0 DEF TypeOK
  <2>7. /\ \A n : Printing(w, n)' <=> n = done + 1
        /\ \A v \in Workers : v # w => \A n : Printing(v, n)' <=> Printing(v, n)
        /\ \A n : ~Printing(w, n)
    BY <2>1 DEF Printing
  <2>8. /\ \A k \in DOMAIN lines : lines[k] \in 1..done
        /\ \A v \in Workers : \A n : Printing(v, n) => n \in 1..done
    BY <1>0 DEF LinesInv, Printing
  <2>9. LinesInv!1' /\ LinesInv!2' /\ LinesInv!3'
    BY <1>0, <2>1, <2>6 DEF LinesInv
  <2>10. LinesInv!4'
    BY <1>0, <2>1, <2>6, <2>7, <2>8 DEF LinesInv
  <2>11. ASSUME NEW u \in Workers, NEW v \in Workers, u # v, pc'[u] = "print"
         PROVE  ~Printing(v, count[u])'
    <3>1. Printing(u, count[u])'
      BY <2>11 DEF Printing
    <3>2. CASE u = w
      BY <2>1, <2>6, <2>7, <2>8, <2>11, <3>2
    <3>3. CASE u # w
      BY <1>0, <2>1, <2>6, <2>7, <2>8, <2>11, <3>1, <3>3 DEF LinesInv, Printing
    <3> QED BY <3>2, <3>3
  <2>12. ASSUME NEW n \in 1..done'
         PROVE  (\E k \in DOMAIN lines' : lines'[k] = n) \/ (\E v \in Workers : Printing(v, n)')
    <3>1. n = done + 1 \/ n \in 1..done
      BY <2>1, <2>6
    <3>2. CASE n = done + 1
      BY <2>7, <3>2
    <3>3. CASE n \in 1..done
      BY <1>0, <2>1, <2>7, <3>3 DEF LinesInv
    <3> QED BY <3>1, <3>2, <3>3
  <2>13. LinesInv'
    BY <2>9, <2>10, <2>11, <2>12 DEF LinesInv
  <2> QED BY <2>5, <2>13
<1>4. CASE PrintLine(w)
  <2>1. /\ pc[w] = "print" /\ pc'[w] = "test" /\ done' = done /\ count' = count
        /\ lines' = Append(lines, count[w]) /\ status' = status /\ index' = index
        /\ \A v \in Workers : v # w => pc'[v] = pc[v]
    BY <1>0, <1>4 DEF PrintLine, TypeOK
  <2>2. CountInv'
    <3>1. Counted' = Counted
      BY <1>k, <2>1 DEF Counted
    <3> QED BY <1>0, <1>k, <2>1, <3>1 DEF CountInv
  <2>3. /\ \A n : ~Printing(w, n)'
        /\ \A v \in Workers : v # w => \A n : Printing(v, n)' <=> Printing(v, n)
        /\ Printing(w, count[w])
        /\ \A n : Printing(w, n) => n = count[w]
    BY <2>1 DEF Printing
  <2>4. /\ \A k \in DOMAIN lines' :
             \/ k \in DOMAIN lines /\ lines'[k] = lines[k]
             \/ k = Len(lines) + 1 /\ lines'[k] = count[w]
        /\ \A k \in DOMAIN lines : k \in DOMAIN lines' /\ lines'[k] = lines[k]
        /\ Len(lines) + 1 \in DOMAIN lines' /\ lines'[Len(lines) + 1] = count[w]
        /\ Len(lines) + 1 \notin DOMAIN lines
    BY <1>0, <2>1 DEF TypeOK
  <2>5. LinesInv!1' /\ LinesInv!2'
    BY <1>0, <2>1, <2>4 DEF LinesInv
  <2>6. LinesInv!3'
    BY <1>0, <2>3, <2>4 DEF LinesInv
  <2>7. LinesInv!4'
    BY <1>0, <2>1, <2>3, <2>4 DEF LinesInv
  <2>8. LinesInv!5'
    BY <1>0, <2>1, <2>3 DEF LinesInv
  <2>9. LinesInv!6'
    BY <1>0, <2>1, <2>3, <2>4 DEF LinesInv
  <2> QED BY <2>2, <2>5, <2>6, <2>7, <2>8, <2>9 DEF LinesInv
<1>5. ASSUME \/ TestAborted(w) \/ NothingLeft(w) \/ RecordAndStop(w)
             \/ RecordAndContinue(w)
      PROVE  CountInv' /\ LinesInv'
  <2>1. /\ status' = status /\ index' = index /\ UNCHANGED progress
        /\ pc[w] \notin {"report", "print"} /\ pc'[w] \notin {"report", "print"}
        /\ \A v \in Workers : v # w => pc'[v] = pc[v]
    BY <1>0, <1>5 DEF TestAborted, NothingLeft, RecordAndStop, RecordAndContinue, TypeOK
  <2> QED BY <1>0, <1>k, <2>1, UncountedStep
<1>6. CASE SkipStep(w)
  <2>1. /\ total = 0 /\ status' = status /\ index' = index /\ UNCHANGED progress
        /\ pc[w] = "report" /\ pc'[w] = "test"
        /\ \A v \in Workers : v # w => pc'[v] = pc[v]
    BY <1>0, <1>6 DEF SkipStep, TypeOK
  <2>2. Counted' = Counted
    BY <1>k, <2>1 DEF Counted
  <2>3. CountInv'
    BY <1>0, <1>k, <2>1, <2>2 DEF CountInv, progress
  <2>4. \A v \in Workers : \A n : Printing(v, n)' <=> Printing(v, n)
    BY <2>1 DEF Printing, progress
  <2>5. LinesInv'
    BY <1>0, <2>1, <2>4 DEF LinesInv, progress
  <2> QED BY <2>3, <2>5
<1> QED BY <1>1, <1>2, <1>3, <1>4, <1>5, <1>6 DEF Worker

------------------------------------------------------------------------------
\* The invariant holds in every reachable state.
THEOREM Invariance == Spec => []IInv
<1>1. IInv /\ [Next]_vars => IInv'
  <2> SUFFICES ASSUME IInv, [Next]_vars PROVE IInv'
    OBVIOUS
  <2>1. TypeOK'
    BY StepTypeOK
  <2>2. CASE Main \/ UNCHANGED vars
    BY <2>1, <2>2, MainIInv
  <2>3. ASSUME NEW w \in Workers, Worker(w) PROVE IInv'
    BY <2>1, <2>3, WorkerOwnerInv, WorkerRecordInv, WorkerLateInv, WorkerExitInv,
       WorkerNumberInv DEF IInv
  <2> QED BY <2>2, <2>3 DEF Next
<1> QED BY InitIInv, <1>1, PTL DEF Spec

\* The caller learns of a failure exactly when there was one.
THEOREM OutcomeCorrect == Spec => []Outcome
<1>1. IInv => Outcome
  <2> SUFFICES ASSUME IInv, main = "returned" PROVE Outcome!2
    BY DEF Outcome
  <2> USE DEF TypeOK, Items
  <2>0. TypeOK /\ DrawnInv /\ OwnerInv /\ RecordInv /\ ExitInv /\ ResultInv
    BY DEF IInv
  <2>1. \A w \in Workers : pc[w] \notin {"work", "record"}
    BY <2>0 DEF ExitInv
  <2>2. \A i \in Items : status[i] # "working"
    BY <2>0, <2>1 DEF OwnerInv
  <2>3. \A i \in Items : status[i] = "failed" => aborted \/ i \in errors
    BY <2>0, <2>1 DEF RecordInv
  <2>4. ~aborted => \A i \in Items : status[i] # "todo"
    <3>1. PICK w \in Workers : pc[w] = "exit"
      BY <2>0, WorkersAssumption DEF ExitInv
    <3> QED BY <2>0, <3>1 DEF ExitInv, DrawnInv
  <2>5. result = NoError => ~aborted /\ errors = {}
    BY <2>0 DEF ResultInv, Reports, RecordInv
  <2>6. result = NoError => \A i \in Items : status[i] = "done"
    BY <2>0, <2>2, <2>3, <2>4, <2>5
  <2>7. ASSUME result # NoError PROVE status[result] = "failed"
    BY <2>0, <2>7 DEF ResultInv, Reports, RecordInv
  <2>8. ASSUME result # NoError, ~StopOnFailure
        PROVE  /\ \A i \in Items : status[i] # "todo"
               /\ \A i \in 1..(result - 1) : status[i] = "done"
    <3>1. ~aborted /\ result \in Items /\ \A j \in errors : result <= j
      BY <2>0, <2>8 DEF ResultInv, Reports, RecordInv
    <3>2. ASSUME NEW i \in 1..(result - 1) PROVE status[i] = "done"
      <4>1. i \in Items /\ i \notin errors
        BY <3>1
      <4> QED BY <2>0, <2>2, <2>3, <2>4, <3>1, <4>1
    <3> QED BY <2>4, <3>1, <3>2
  <2> QED BY <2>2, <2>6, <2>7, <2>8
<1> QED BY <1>1, Invariance, PTL

\* After a recorded failure a thread draws at most one more job.
THEOREM AbortIsPrompt == Spec => []StopsSoon
<1>1. IInv => StopsSoon
  BY DEF IInv, LateInv, StopsSoon
<1> QED BY <1>1, Invariance, PTL

\* Each number up to the jobs done is in one progress line.
THEOREM ProgressNumbers == Spec => []Numbering
<1>1. IInv => Numbering
  <2> SUFFICES ASSUME IInv, main = "returned", StopOnFailure PROVE Numbering!2
    BY DEF Numbering
  <2> DEFINE Done == {i \in Items : status[i] = "done" /\ total # 0}
  <2>1. \A w \in Workers : pc[w] \notin {"report", "print"}
    BY DEF IInv, ExitInv
  <2>2. done = Cardinality(Done) /\ done \in Nat
    BY <2>1 DEF IInv, CountInv, Counted, TypeOK
  <2>3. \A n \in 1..done : \E k \in DOMAIN lines : lines[k] = n
    BY <2>1 DEF IInv, LinesInv, Printing
  <2>4. {lines[k] : k \in DOMAIN lines} = 1..done
    BY <2>3 DEF IInv, LinesInv
  <2>5. Len(lines) \in Nat /\ DOMAIN lines = 1..Len(lines)
    BY DEF IInv, TypeOK
  <2>6. Len(lines) = done
    <3> DEFINE F == [k \in 1..Len(lines) |-> lines[k]]
    <3>1. F \in Surjection(1..Len(lines), 1..done)
      BY <2>3, <2>5 DEF IInv, LinesInv, Surjection
    <3>2. F \in Injection(1..Len(lines), 1..done)
      <4>1. F \in [1..Len(lines) -> 1..done]
        BY <2>5 DEF IInv, LinesInv
      <4>2. IsInjective(F)
        BY <2>5 DEF IInv, LinesInv, IsInjective
      <4> QED BY <4>1, <4>2 DEF Injection
    <3> HIDE DEF F
    <3>3. \A n \in Nat : IsFiniteSet(1..n) /\ Cardinality(1..n) = n
      BY FS_Interval
    <3>4. Cardinality(1..Len(lines)) = Cardinality(1..done)
      <4>1. IsFiniteSet(1..Len(lines))
        BY <2>5, <3>3
      <4> QED BY <3>1, <3>2, <4>1, FS_Surjection
    <3> QED BY <2>2, <2>5, <3>3, <3>4
  <2> QED BY <2>2, <2>4, <2>6
<1> QED BY <1>1, Invariance, PTL

\* No job is run twice: what a thread draws nobody has drawn.
THEOREM JobsRunOnce == Spec => EachJobOnce
<1>1. IInv /\ [Next]_vars =>
        [\A w \in Workers : pc[w] = "claim" /\ pc'[w] = "work" => status[index'[w]] = "todo"]_vars
  <2> SUFFICES ASSUME IInv, Next, NEW w \in Workers, pc[w] = "claim", pc'[w] = "work"
               PROVE  status[index'[w]] = "todo"
    OBVIOUS
  <2>0. pc \in [Workers -> WorkerPc] /\ index \in [Workers -> 0..N] /\ next \in 1..(N + 1) /\ DrawnInv
    BY DEF IInv, TypeOK
  <2>1. PICK u \in Workers : Worker(u)
    BY DEF Next, Main, StartWorkers, Join
  <2>2. u = w
    BY <2>0, <2>1 DEF Worker, TestAborted, Claim, NothingLeft, Succeed, Fail, RecordAndStop,
       RecordAndContinue, SkipStep, CountStep, PrintLine
  <2>3. Claim(w)
    BY <2>0, <2>1, <2>2 DEF Worker, TestAborted, NothingLeft, Succeed, Fail, RecordAndStop,
       RecordAndContinue, SkipStep, CountStep, PrintLine
  <2>4. index'[w] = next /\ next \in Items
    BY <2>0, <2>3 DEF Claim, Items
  <2>5. QED
    BY <2>0, <2>4 DEF DrawnInv
<1> QED BY <1>1, Invariance, PTL DEF Spec, EachJobOnce
------------------------------------------------------------------------------
(* The captures alone: any number of threads that fork at any moment, every *)
(* length of output and every capacity of a pipe.                           *)

\* What the invariant says of the pipe, the child and the capture of one thread.
ThreadInv(t) ==
  /\ calls[t] \in 0..Calls /\ captures[t] \in BOOLEAN
  /\ at[t] \in {"call", "fork", "close", "read", "wait"}
  /\ holders[t] \in SUBSET (Threads \cup {Parent})
  /\ buffer[t] \in 0..Capacity
  /\ child[t] \in {"none", "forked", "running", "exited"}
  /\ written[t] \in Nat /\ goal[t] \in Nat /\ output[t] \in Nat
  /\ ran[t] \in BOOLEAN
  /\ child[t] = "none" <=> at[t] \in {"call", "fork"}
  /\ child[t] = "none" => written[t] = 0
  /\ child[t] = "running" => ran[t]
  /\ at[t] = "fork" \/ child[t] = "forked" => ~ran[t]
  /\ ran[t] /\ child[t] = "exited" => written[t] = goal[t]
  /\ at[t] = "call" => ~captures[t]
  /\ at[t] \in {"close", "read"} => captures[t]
  /\ Parent \in holders[t] <=> captures[t] /\ at[t] \in {"fork", "close"}
  /\ captures[t] /\ child[t] \in {"forked", "running"} => t \in holders[t]
  /\ captures[t] /\ at[t] = "wait" => holders[t] = {} /\ buffer[t] = 0
  /\ ~captures[t] => buffer[t] = 0 /\ output[t] = 0
  /\ captures[t] => written[t] = output[t] + buffer[t]

Functions ==
  /\ calls \in [Threads -> 0..Calls] /\ captures \in [Threads -> BOOLEAN]
  /\ at \in [Threads -> {"call", "fork", "close", "read", "wait"}]
  /\ holders \in [Threads -> SUBSET (Threads \cup {Parent})]
  /\ buffer \in [Threads -> 0..Capacity]
  /\ child \in [Threads -> {"none", "forked", "running", "exited"}]
  /\ written \in [Threads -> Nat] /\ goal \in [Threads -> Nat] /\ output \in [Threads -> Nat]
  /\ ran \in [Threads -> BOOLEAN]

LEMMA InvByThread == PipeInv <=> Functions /\ \A t \in Threads : ThreadInv(t)
  BY DEF PipeInv, PipeTypeOK, ChildInv, HoldersInv, ThreadInv, Functions

LEMMA InvByThreadNext == PipeInv' <=> Functions' /\ \A t \in Threads : ThreadInv(t)'
  BY DEF PipeInv, PipeTypeOK, ChildInv, HoldersInv, ThreadInv, Functions

LEMMA PipeInitially == PipeInit => PipeInv
  BY PipeAssumption DEF PipeInit, PipeInv, PipeTypeOK, ChildInv, HoldersInv

\* A thread's own pipe and child are untouched.
Untouched(u) ==
  /\ captures'[u] = captures[u] /\ at'[u] = at[u]
  /\ buffer'[u] = buffer[u] /\ child'[u] = child[u] /\ written'[u] = written[u]
  /\ goal'[u] = goal[u] /\ output'[u] = output[u] /\ ran'[u] = ran[u]
  /\ calls'[u] \in 0..Calls

\* Other children may take hold of the pipe, while the parent has it open, or let go.
LEMMA OthersKeep ==
  ASSUME NEW u \in Threads, ThreadInv(u), Untouched(u),
         holders'[u] \in SUBSET (Threads \cup {Parent}),
         Parent \in holders'[u] <=> Parent \in holders[u],
         u \in holders[u] => u \in holders'[u],
         Parent \notin holders[u] => holders'[u] \subseteq holders[u]
  PROVE  ThreadInv(u)'
  BY DEF ThreadInv, Untouched

LEMMA SetupStep ==
  ASSUME PipeInv, NEW t \in Threads, setup_capture_pipe(t) PROVE PipeInv'
<1> USE PipeAssumption
<1>1. Functions /\ \A u \in Threads : ThreadInv(u)
  BY InvByThread
<1>2. Functions'
  BY <1>1 DEF Functions, ThreadInv, setup_capture_pipe, children
<1>3. ThreadInv(t)'
  BY <1>1, <1>2 DEF Functions, ThreadInv, setup_capture_pipe, children
<1>4. ASSUME NEW u \in Threads, u # t PROVE ThreadInv(u)'
  BY <1>1, <1>2, <1>4, OthersKeep DEF Functions, Untouched, ThreadInv, setup_capture_pipe, children
<1>5. QED
  BY <1>2, <1>3, <1>4, InvByThreadNext

LEMMA CallFailsStep ==
  ASSUME PipeInv, NEW t \in Threads, CallFails(t) PROVE PipeInv'
<1> USE PipeAssumption
<1>1. Functions /\ \A u \in Threads : ThreadInv(u)
  BY InvByThread
<1>2. Functions'
  BY <1>1 DEF Functions, ThreadInv, CallFails, children
<1>3. ThreadInv(t)'
  BY <1>1, <1>2 DEF Functions, ThreadInv, CallFails, children
<1>4. ASSUME NEW u \in Threads, u # t PROVE ThreadInv(u)'
  BY <1>1, <1>2, <1>4, OthersKeep DEF Functions, Untouched, ThreadInv, CallFails, children
<1>5. QED
  BY <1>2, <1>3, <1>4, InvByThreadNext

LEMMA ForkStep ==
  ASSUME PipeInv, NEW t \in Threads, Fork(t) PROVE PipeInv'
<1> USE PipeAssumption
<1>1. Functions /\ \A u \in Threads : ThreadInv(u)
  BY InvByThread
<1>2. Functions'
  BY <1>1 DEF Functions, ThreadInv, Fork, children, pipes
<1>3. ThreadInv(t)'
  <2>1. /\ at[t] = "fork" /\ at'[t] = IF captures[t] THEN "close" ELSE "wait"
        /\ child'[t] = "forked" /\ goal'[t] \in Nat
        /\ holders'[t] = IF Parent \in holders[t] THEN holders[t] \cup {t} ELSE holders[t]
    BY <1>1, <1>2 DEF Functions, Fork
  <2>2. /\ captures'[t] = captures[t] /\ buffer'[t] = buffer[t] /\ written'[t] = written[t]
        /\ ran'[t] = ran[t] /\ output'[t] = output[t] /\ calls'[t] = calls[t]
    BY DEF Fork
  <2>3. t # Parent /\ ThreadInv(t) /\ ~ran[t]
    BY <1>1, <2>1 DEF ThreadInv
  <2>4. QED
    BY <2>1, <2>2, <2>3 DEF ThreadInv
<1>4. ASSUME NEW u \in Threads, u # t PROVE ThreadInv(u)'
  BY <1>1, <1>2, <1>4, OthersKeep DEF Functions, Untouched, ThreadInv, Fork, children, pipes
<1>5. QED
  BY <1>2, <1>3, <1>4, InvByThreadNext

LEMMA CloseStep ==
  ASSUME PipeInv, NEW t \in Threads, CloseWriteEnd(t) PROVE PipeInv'
<1> USE PipeAssumption
<1>1. Functions /\ \A u \in Threads : ThreadInv(u)
  BY InvByThread
<1>2. Functions'
  BY <1>1 DEF Functions, ThreadInv, CloseWriteEnd, children
<1>3. ThreadInv(t)'
  BY <1>1, <1>2 DEF Functions, ThreadInv, CloseWriteEnd, children
<1>4. ASSUME NEW u \in Threads, u # t PROVE ThreadInv(u)'
  BY <1>1, <1>2, <1>4, OthersKeep DEF Functions, Untouched, ThreadInv, CloseWriteEnd, children
<1>5. QED
  BY <1>2, <1>3, <1>4, InvByThreadNext

LEMMA ReadStep ==
  ASSUME PipeInv, NEW t \in Threads, Read(t) PROVE PipeInv'
<1> USE PipeAssumption
<1>1. Functions /\ \A u \in Threads : ThreadInv(u)
  BY InvByThread
<1>2. Functions'
  BY <1>1 DEF Functions, ThreadInv, Read, children
<1>3. ThreadInv(t)'
  BY <1>1, <1>2 DEF Functions, ThreadInv, Read, children
<1>4. ASSUME NEW u \in Threads, u # t PROVE ThreadInv(u)'
  BY <1>1, <1>2, <1>4, OthersKeep DEF Functions, Untouched, ThreadInv, Read, children
<1>5. QED
  BY <1>2, <1>3, <1>4, InvByThreadNext

LEMMA EndOfFileStep ==
  ASSUME PipeInv, NEW t \in Threads, EndOfFile(t) PROVE PipeInv'
<1> USE PipeAssumption
<1>1. Functions /\ \A u \in Threads : ThreadInv(u)
  BY InvByThread
<1>2. Functions'
  BY <1>1 DEF Functions, ThreadInv, EndOfFile, children, pipes
<1>3. ThreadInv(t)'
  BY <1>1, <1>2 DEF Functions, ThreadInv, EndOfFile, children, pipes
<1>4. ASSUME NEW u \in Threads, u # t PROVE ThreadInv(u)'
  BY <1>1, <1>2, <1>4, OthersKeep DEF Functions, Untouched, ThreadInv, EndOfFile, children, pipes
<1>5. QED
  BY <1>2, <1>3, <1>4, InvByThreadNext

LEMMA WaitStep ==
  ASSUME PipeInv, NEW t \in Threads, wait_for_exit_code(t) PROVE PipeInv'
<1> USE PipeAssumption
<1>1. Functions /\ \A u \in Threads : ThreadInv(u)
  BY InvByThread
<1>2. Functions'
  BY <1>1 DEF Functions, ThreadInv, wait_for_exit_code, children, pipes
<1>3. ThreadInv(t)'
  BY <1>1, <1>2 DEF Functions, ThreadInv, wait_for_exit_code, children, pipes
<1>4. ASSUME NEW u \in Threads, u # t PROVE ThreadInv(u)'
  BY <1>1, <1>2, <1>4, OthersKeep DEF Functions, Untouched, ThreadInv, wait_for_exit_code, children, pipes
<1>5. QED
  BY <1>2, <1>3, <1>4, InvByThreadNext

LEMMA ExecStep ==
  ASSUME PipeInv, NEW t \in Threads, Exec(t) PROVE PipeInv'
<1> USE PipeAssumption
<1>1. Functions /\ \A u \in Threads : ThreadInv(u)
  BY InvByThread
<1>2. Functions'
  BY <1>1 DEF Functions, ThreadInv, Exec, pipes
<1>3. ThreadInv(t)'
  BY <1>1, <1>2 DEF Functions, ThreadInv, Exec, pipes
<1>4. ASSUME NEW u \in Threads, u # t PROVE ThreadInv(u)'
  BY <1>1, <1>2, <1>4, OthersKeep DEF Functions, Untouched, ThreadInv, Exec, pipes
<1>5. QED
  BY <1>2, <1>3, <1>4, InvByThreadNext

LEMMA WriteStep ==
  ASSUME PipeInv, NEW t \in Threads, Write(t) PROVE PipeInv'
<1> USE PipeAssumption
<1>1. Functions /\ \A u \in Threads : ThreadInv(u)
  BY InvByThread
<1>2. Functions'
  BY <1>1 DEF Functions, ThreadInv, Write
<1>3. ThreadInv(t)'
  BY <1>1, <1>2 DEF Functions, ThreadInv, Write
<1>4. ASSUME NEW u \in Threads, u # t PROVE ThreadInv(u)'
  BY <1>1, <1>2, <1>4, OthersKeep DEF Functions, Untouched, ThreadInv, Write
<1>5. QED
  BY <1>2, <1>3, <1>4, InvByThreadNext

LEMMA ExitStep ==
  ASSUME PipeInv, NEW t \in Threads, Exit(t) PROVE PipeInv'
<1> USE PipeAssumption
<1>1. Functions /\ \A u \in Threads : ThreadInv(u)
  BY InvByThread
<1>2. Functions'
  BY <1>1 DEF Functions, ThreadInv, Exit
<1>3. ThreadInv(t)'
  BY <1>1, <1>2 DEF Functions, ThreadInv, Exit
<1>4. ASSUME NEW u \in Threads, u # t PROVE ThreadInv(u)'
  BY <1>1, <1>2, <1>4, OthersKeep DEF Functions, Untouched, ThreadInv, Exit
<1>5. QED
  BY <1>2, <1>3, <1>4, InvByThreadNext

\* Each step keeps the invariant.
LEMMA PipeStep == PipeInv /\ [PipeNext]_pipeVars => PipeInv'
<1>1. ASSUME PipeInv, NEW t \in Threads, ThreadStep(t) \/ ChildStep(t) PROVE PipeInv'
  BY <1>1, SetupStep, CallFailsStep, ForkStep, CloseStep, ReadStep, EndOfFileStep,
     WaitStep, ExecStep, WriteStep, ExitStep DEF ThreadStep, ChildStep
<1>2. ASSUME PipeInv, UNCHANGED pipeVars PROVE PipeInv'
  BY <1>2 DEF PipeInv, PipeTypeOK, ChildInv, HoldersInv, pipeVars, pipes, children
<1>3. QED
  BY <1>1, <1>2 DEF PipeNext

\* The invariant holds in every state, however calls, forks and children interleave.
THEOREM PipeInvariance == PipeSpec => []PipeInv
  BY PipeInitially, PipeStep, PTL DEF PipeSpec

LEMMA PipeInvGives == PipeInv => WholeOutput
<1> SUFFICES ASSUME PipeInv, NEW t \in Threads, captures[t], at[t] = "wait"
             PROVE  /\ output[t] = written[t]
                    /\ ran[t] => written[t] = goal[t]
                    /\ child[t] = "exited"
  BY DEF WholeOutput
<1>1. ThreadInv(t)
  BY InvByThread
<1>2. child[t] = "exited"
  BY <1>1 DEF ThreadInv
<1>3. QED
  BY <1>1, <1>2 DEF ThreadInv

\* At the end of the file a capture has all of its own child's output and no other.
THEOREM OutputIsWhole == PipeSpec => []WholeOutput
  BY PipeInvariance, PipeInvGives, PTL

------------------------------------------------------------------------------
(* The pool and the captures together *)

\* Every step is a step of the pool, or leaves it alone.
LEMMA PoolStep == [JobsNext]_JobVars => [Next]_vars
<1>1. CASE JobMain
  BY <1>1 DEF JobMain, Next
<1>2. ASSUME NEW w \in Workers, JobThread(w) PROVE [Next]_vars
  BY <1>2 DEF JobThread, TakeJob, RunJob, JobSucceeds, JobFails, Between, Next, Worker
<1>3. ASSUME NEW w \in Workers, JobProcess(w) PROVE [Next]_vars
  BY <1>3 DEF JobProcess
<1>4. CASE UNCHANGED JobVars
  BY <1>4 DEF JobVars
<1>5. QED
  BY <1>1, <1>2, <1>3, <1>4 DEF JobsNext

\* The pool with its processes implements the pool whose jobs are single steps.
THEOREM JobsImplementPool == JobsSpec => Spec
<1>1. JobsInit => Init
  BY DEF JobsInit
<1>2. QED
  BY <1>1, PoolStep, PTL DEF JobsSpec, Spec

\* ... and is a step of the pipes too, but for the count of the calls.
LEMMA PipesStep == PipeInv /\ [JobsNext]_JobVars => PipeInv'
<1> SUFFICES ASSUME PipeInv, [JobsNext]_JobVars PROVE PipeInv'
  OBVIOUS
<1>1. CASE [PipeNext]_pipeVars
  BY <1>1, PipeStep
<1>2. ASSUME NEW w \in Workers, TakeJob(w) PROVE PipeInv'
  BY <1>2, PipeAssumption, JobsAssumption
     DEF TakeJob, PipeInv, PipeTypeOK, ChildInv, HoldersInv, pipes, children
<1>3. [PipeNext]_pipeVars \/ \E w \in Workers : TakeJob(w)
  BY JobsAssumption DEF JobsNext, JobThread, RunJob, JobSucceeds, JobFails, Between,
     JobProcess, JobMain, PipeNext, JobVars
<1>4. QED
  BY <1>1, <1>2, <1>3

Link == \A w \in Workers : pc[w] # "work" => at[w] = "call"

\* A thread leaves a job with its call over.
LEMMA LinkStep == TypeOK /\ PipeInv /\ Link /\ [JobsNext]_JobVars => Link'
<1> SUFFICES ASSUME TypeOK, PipeInv, Link, [JobsNext]_JobVars, NEW v \in Workers, pc'[v] # "work"
             PROVE  at'[v] = "call"
  BY DEF Link
<1> USE JobsAssumption
<1>1. at \in [Threads -> {"call", "fork", "close", "read", "wait"}] /\ pc \in [Workers -> WorkerPc]
  BY DEF TypeOK, PipeInv, PipeTypeOK
<1>2. CASE UNCHANGED pc /\ UNCHANGED at
  BY <1>2 DEF Link
<1>3. ASSUME NEW w \in Workers, TakeJob(w) PROVE at'[v] = "call"
  BY <1>1, <1>3 DEF TakeJob, Claim, Link
<1>4. ASSUME NEW w \in Workers, RunJob(w) PROVE at'[v] = "call"
  <2>1. v # w /\ at[v] = "call"
    BY <1>4 DEF RunJob, Link, vars
  <2>2. QED
    BY <1>1, <1>4, <2>1 DEF RunJob, ThreadStep, setup_capture_pipe, CallFails, Fork,
       CloseWriteEnd, Read, EndOfFile, wait_for_exit_code
<1>5. ASSUME NEW w \in Workers, JobSucceeds(w) PROVE at'[v] = "call"
  BY <1>1, <1>5 DEF JobSucceeds, Called, Succeed, Link, pipeVars
<1>6. ASSUME NEW w \in Workers, JobFails(w) PROVE at'[v] = "call"
  BY <1>1, <1>6 DEF JobFails, Fail, Link, pipeVars
<1>7. ASSUME NEW w \in Workers, Between(w) PROVE at'[v] = "call"
  BY <1>1, <1>7 DEF Between, TestAborted, NothingLeft, RecordAndStop, RecordAndContinue,
     SkipStep, CountStep, PrintLine, Link, pipeVars
<1>8. ASSUME NEW w \in Workers, JobProcess(w) PROVE at'[v] = "call"
  BY <1>8, <1>2 DEF JobProcess, ChildStep, Exec, Write, Exit, vars
<1>9. CASE JobMain
  BY <1>9, <1>2 DEF JobMain, Main, StartWorkers, Join, pipeVars
<1>10. CASE UNCHANGED JobVars
  BY <1>10, <1>2 DEF JobVars, vars, pipeVars
<1>11. QED
  BY <1>3, <1>4, <1>5, <1>6, <1>7, <1>8, <1>9, <1>10 DEF JobsNext, JobThread

\* The invariants of the pool and of the pipes hold together.
THEOREM JobsInvariance == JobsSpec => []JobsInv
<1>1. JobsSpec => []IInv
  BY JobsImplementPool, Invariance
<1>2. JobsInit => PipeInv /\ Link
  BY PipeInitially, JobsAssumption DEF JobsInit, PipeInit, Link
<1>3. IInv => TypeOK
  BY DEF IInv
<1>4. JobsSpec => [](PipeInv /\ Link)
  BY <1>1, <1>2, <1>3, PipesStep, LinkStep, PTL DEF JobsSpec
<1>5. IInv /\ PipeInv /\ Link => JobsInv
  BY DEF JobsInv, Link
<1>6. QED
  BY <1>1, <1>4, <1>5, PTL

\* When the pool returns no process is left, and no pipe is open.
THEOREM NothingIsLeft == JobsSpec => []NothingRunsOn
<1>1. JobsInv => NothingRunsOn
  <2> SUFFICES ASSUME JobsInv, main = "returned", NEW w \in Workers
               PROVE  child[w] = "none" /\ Parent \notin holders[w]
    BY DEF NothingRunsOn
  <2>1. at[w] = "call"
    BY DEF JobsInv, IInv, ExitInv
  <2>2. QED
    BY <2>1, JobsAssumption DEF JobsInv, PipeInv, ChildInv, HoldersInv
<1>2. QED
  BY <1>1, JobsInvariance, PTL

\* Inside the pool, too, a capture has all of its own child's output and no other.
THEOREM JobOutputIsWhole == JobsSpec => []WholeOutput
<1>1. JobsInv => WholeOutput
  BY PipeInvGives DEF JobsInv
<1>2. QED
  BY <1>1, JobsInvariance, PTL
==============================================================================
