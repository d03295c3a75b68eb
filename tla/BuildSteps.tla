----------------------------- MODULE BuildSteps ------------------------------
(***************************************************************************)
(* BuildStepExecutor::execute_steps_parallel and its worker threads        *)
(* (src/core/configuration/build_step_executor.cpp).  The custom build     *)
(* steps of a project form a graph; a pool of threads takes ready steps    *)
(* from a queue guarded by queue_mutex, runs them, counts them in an       *)
(* atomic, and pushes the dependents that became ready.                    *)
(*                                                                         *)
(* A step's callback is user code: it ends normally or throws.  A throw of *)
(* something that is not a std::exception ends the process, which is a     *)
(* behaviour of this specification that stops.                             *)
(***************************************************************************)
EXTENDS Naturals, Sequences, FiniteSets

CONSTANTS Workers,    \* the threads of the pool
          Names,      \* the names a step may have or mention
          Programs,   \* the values of config.build_steps
          NoOne       \* queue_mutex is free

BuildStepList == Seq([name : Names, dependencies : Seq(Names)])

ASSUME WorkersAssumption == Workers # {} /\ NoOne \notin Workers
ASSUME ProgramsAssumption == Programs \subseteq BuildStepList

VARIABLES
  steps,             \* config.build_steps
  main,              \* where the calling thread is
  seed,              \* the loop index of the initial fill of ready_queue
  ready_queue,
  queue_mutex,       \* its owner
  completed_steps,
  remaining_deps,
  status,            \* step_results[i].status
  pc,                \* where each worker is
  step_idx,          \* the worker's step
  current_completed, \* what ++completed_steps returned to the worker
  todo,              \* dependents the worker has still to visit
  dependent,         \* the dependent the worker is about to push
  success            \* result.success

queueVars  == <<ready_queue, queue_mutex>>
counters   == <<completed_steps, remaining_deps, status>>
workerVars == <<pc, step_idx, current_completed, todo, dependent>>
mainVars   == <<steps, main, seed, success>>
vars       == <<queueVars, counters, workerVars, mainVars>>

------------------------------------------------------------------------------
(* The dependency graph *)

total_steps == Len(steps)
Steps == 1..total_steps

Ended == {"Completed", "Failed"}

\* name_to_index: a later step of the same name replaces an earlier one, an
\* unknown name has no entry.
Resolve(n) == {i \in Steps : /\ steps[i].name = n
                             /\ \A j \in Steps : steps[j].name = n => j <= i}

\* One edge <<i, k, d>> for the k-th dependency of step i, which names step d.
Incoming(i) == {e \in {i} \X (1..Len(steps[i].dependencies)) \X Steps :
                  e[3] \in Resolve(steps[i].dependencies[e[2]])}

Outgoing(d) == {e \in UNION {Incoming(i) : i \in Steps} : e[3] = d}

Dependencies(i) == {e[3] : e \in Incoming(i)}

\* dependents lists were filled by step, then by position.
VisitedBefore(e, f) == e[1] < f[1] \/ (e[1] = f[1] /\ e[2] <= f[2])

\* Kahn's algorithm, a round at a time: the steps output after n rounds.
Sorted[n \in Nat] ==
  IF n = 0 THEN {} ELSE {i \in Steps : Dependencies(i) \subseteq Sorted[n - 1]}

\* WRONG variant: a partial order is taken for a complete one.
CycleOnlyIfNothingSorted == Sorted[total_steps] = {}

CycleDetected == Sorted[total_steps] # Steps

------------------------------------------------------------------------------
Init ==
  /\ steps \in Programs
  /\ main = "plan"
  /\ seed = 1
  /\ ready_queue = <<>>
  /\ queue_mutex = NoOne
  /\ completed_steps = 0
  /\ remaining_deps = [i \in Steps |-> Cardinality(Incoming(i))]
  /\ status = [i \in Steps |-> "NotStarted"]
  /\ pc = [w \in Workers |-> "lock"]
  /\ step_idx = [w \in Workers |-> 0]
  /\ current_completed = [w \in Workers |-> 0]
  /\ todo = [w \in Workers |-> {}]
  /\ dependent = [w \in Workers |-> 0]
  /\ success = TRUE

(* The calling thread *)

\* Nothing to do, or topological_sort returned an empty order.
ReturnEarly ==
  /\ main = "plan"
  /\ steps = <<>> \/ CycleDetected
  /\ main' = "returned"
  /\ success' = (steps = <<>>)
  /\ UNCHANGED <<steps, seed, queueVars, counters, workerVars>>

AcceptGraph ==
  /\ main = "plan"
  /\ steps # <<>> /\ ~CycleDetected
  /\ main' = "seed"
  /\ UNCHANGED <<steps, seed, success, queueVars, counters, workerVars>>

\* WRONG variant: every step is queued, whatever it waits for.
SeedEverything ==
  /\ main = "seed"
  /\ seed <= total_steps
  /\ seed' = seed + 1
  /\ ready_queue' = Append(ready_queue, seed)
  /\ UNCHANGED <<steps, main, success, queue_mutex, counters, workerVars>>

\* The loop that fills ready_queue; no worker exists yet.
SeedQueue ==
  /\ main = "seed"
  /\ seed <= total_steps
  /\ seed' = seed + 1
  /\ ready_queue' = IF remaining_deps[seed] = 0 THEN Append(ready_queue, seed)
                                                ELSE ready_queue
  /\ UNCHANGED <<steps, main, success, queue_mutex, counters, workerVars>>

StartWorkers ==
  /\ main = "seed"
  /\ seed > total_steps
  /\ main' = "join"
  /\ UNCHANGED <<steps, seed, success, queueVars, counters, workerVars>>

\* WRONG variant: the threads are detached and not joined.
JoinNobody ==
  /\ main = "join"
  /\ main' = "returned"
  /\ success' = (\A i \in Steps : status[i] # "Failed")
  /\ UNCHANGED <<steps, seed, queueVars, counters, workerVars>>

\* Every thread joined; the results are folded into success.
Join ==
  /\ main = "join"
  /\ \A w \in Workers : pc[w] = "exit"
  /\ main' = "returned"
  /\ success' = (\A i \in Steps : status[i] # "Failed")
  /\ UNCHANGED <<steps, seed, queueVars, counters, workerVars>>

(* execute_ready_steps_worker *)

\* std::unique_lock, at the head of the loop and when wait() is woken.
LockQueue(w) ==
  /\ main = "join"
  /\ pc[w] = "lock"
  /\ queue_mutex = NoOne
  /\ queue_mutex' = w
  /\ pc' = [pc EXCEPT ![w] = "test"]
  /\ UNCHANGED <<ready_queue, step_idx, current_completed, todo, dependent,
                 counters, mainVars>>

\* WRONG variant: the step is read but not popped.
TakeStepNoPop(w) ==
  /\ pc[w] = "test"
  /\ ready_queue # <<>>
  /\ step_idx' = [step_idx EXCEPT ![w] = Head(ready_queue)]
  /\ queue_mutex' = NoOne
  /\ pc' = [pc EXCEPT ![w] = "run"]
  /\ UNCHANGED <<ready_queue, current_completed, todo, dependent, counters,
                 mainVars>>

\* The predicate holds because a step is ready: take it and unlock.
TakeStep(w) ==
  /\ pc[w] = "test"
  /\ ready_queue # <<>>
  /\ step_idx' = [step_idx EXCEPT ![w] = Head(ready_queue)]
  /\ ready_queue' = Tail(ready_queue)
  /\ queue_mutex' = NoOne
  /\ pc' = [pc EXCEPT ![w] = "run"]
  /\ UNCHANGED <<current_completed, todo, dependent, counters, mainVars>>

\* The predicate holds because all steps are counted: the thread ends.
ExitWorker(w) ==
  /\ pc[w] = "test"
  /\ ready_queue = <<>>
  /\ completed_steps = total_steps
  /\ queue_mutex' = NoOne
  /\ pc' = [pc EXCEPT ![w] = "exit"]
  /\ UNCHANGED <<ready_queue, step_idx, current_completed, todo, dependent,
                 counters, mainVars>>

\* The predicate is false: wait() is going to block, the mutex still held.
DecideToWait(w) ==
  /\ pc[w] = "test"
  /\ ready_queue = <<>>
  /\ completed_steps # total_steps
  /\ pc' = [pc EXCEPT ![w] = "block"]
  /\ UNCHANGED <<queueVars, step_idx, current_completed, todo, dependent,
                 counters, mainVars>>

\* wait() releases the mutex and sleeps, in one atomic step.
Sleep(w) ==
  /\ pc[w] = "block"
  /\ queue_mutex' = NoOne
  /\ pc' = [pc EXCEPT ![w] = "asleep"]
  /\ UNCHANGED <<ready_queue, step_idx, current_completed, todo, dependent,
                 counters, mainVars>>

SpuriousWakeup(w) ==
  /\ pc[w] = "asleep"
  /\ pc' = [pc EXCEPT ![w] = "lock"]
  /\ UNCHANGED <<queueVars, step_idx, current_completed, todo, dependent,
                 counters, mainVars>>

BeginStep(w) ==
  /\ pc[w] = "run"
  /\ status' = [status EXCEPT ![step_idx[w]] = "Running"]
  /\ pc' = [pc EXCEPT ![w] = "running"]
  /\ UNCHANGED <<queueVars, step_idx, current_completed, todo, dependent,
                 completed_steps, remaining_deps, mainVars>>

\* The callback returned or threw.
EndStep(w) ==
  /\ pc[w] = "running"
  /\ \E outcome \in Ended : status' = [status EXCEPT ![step_idx[w]] = outcome]
  /\ pc' = [pc EXCEPT ![w] = "count"]
  /\ UNCHANGED <<queueVars, step_idx, current_completed, todo, dependent,
                 completed_steps, remaining_deps, mainVars>>

\* ++completed_steps, without queue_mutex.
CountStep(w) ==
  /\ pc[w] = "count"
  /\ completed_steps' = completed_steps + 1
  /\ current_completed' = [current_completed EXCEPT ![w] = completed_steps + 1]
  /\ todo' = [todo EXCEPT ![w] = Outgoing(step_idx[w])]
  /\ pc' = [pc EXCEPT ![w] = "release"]
  /\ UNCHANGED <<queueVars, step_idx, dependent, remaining_deps, status,
                 mainVars>>

\* Releases one edge, pushing the dependent when its counter was `last`.
ReleaseAt(w, last) ==
  /\ pc[w] = "release"
  /\ \E e \in todo[w] :
       /\ \A f \in todo[w] : VisitedBefore(e, f)
       /\ todo' = [todo EXCEPT ![w] = @ \ {e}]
       /\ remaining_deps' = [remaining_deps EXCEPT ![e[1]] = @ - 1]
       /\ dependent' = [dependent EXCEPT ![w] = e[1]]
       /\ pc' = [pc EXCEPT ![w] = IF remaining_deps[e[1]] = last THEN "push"
                                                                ELSE "release"]
  /\ UNCHANGED <<queueVars, step_idx, current_completed, completed_steps,
                 status, mainVars>>

\* WRONG variants: off by one in either direction.
ReleaseOneTooEarly(w) == ReleaseAt(w, 2)
ReleaseOneTooLate(w) == ReleaseAt(w, 0)

\* --remaining_deps[dependent], without queue_mutex.
ReleaseDependent(w) == ReleaseAt(w, 1)

\* notify_one wakes a sleeping thread, if there is one.
NotifyOne(w) ==
  LET asleep == {v \in Workers : pc[v] = "asleep"} IN
  \/ /\ asleep = {}
     /\ pc' = [pc EXCEPT ![w] = "release"]
  \/ \E v \in asleep : pc' = [pc EXCEPT ![w] = "release", ![v] = "lock"]

\* Under queue_mutex: push the dependent, notify_one.
PushDependent(w) ==
  /\ pc[w] = "push"
  /\ queue_mutex = NoOne
  /\ ready_queue' = Append(ready_queue, dependent[w])
  /\ NotifyOne(w)
  /\ UNCHANGED <<queue_mutex, step_idx, current_completed, todo, dependent,
                 counters, mainVars>>

\* The loop over dependents is over; the last step to be counted wakes every
\* sleeping thread, without queue_mutex.
FinishIteration(w) ==
  /\ pc[w] = "release"
  /\ todo[w] = {}
  /\ pc' = [v \in Workers |->
              IF v = w \/ (/\ current_completed[w] = total_steps
                           /\ pc[v] = "asleep")
              THEN "lock" ELSE pc[v]]
  /\ UNCHANGED <<queueVars, step_idx, current_completed, todo, dependent,
                 counters, mainVars>>

------------------------------------------------------------------------------
Main == ReturnEarly \/ AcceptGraph \/ SeedQueue \/ StartWorkers \/ Join

\* What a thread does when it is scheduled.
Worker(w) ==
  \/ LockQueue(w) \/ TakeStep(w) \/ ExitWorker(w) \/ DecideToWait(w)
  \/ Sleep(w) \/ BeginStep(w) \/ EndStep(w) \/ CountStep(w)
  \/ ReleaseDependent(w) \/ PushDependent(w) \/ FinishIteration(w)

\* The call has returned.
Returned == main = "returned" /\ UNCHANGED vars

Next == Main \/ (\E w \in Workers : Worker(w) \/ SpuriousWakeup(w)) \/ Returned

Spec == Init /\ [][Next]_vars

\* The scheduler runs every thread that can run, callbacks return, and a
\* thread that keeps asking for queue_mutex obtains it.  Nobody owes the
\* program a spurious wake-up.
FairSpec ==
  /\ Spec
  /\ WF_vars(Main)
  /\ \A w \in Workers : WF_vars(Worker(w)) /\ SF_vars(LockQueue(w))
                                           /\ SF_vars(PushDependent(w))

------------------------------------------------------------------------------
(* Properties *)

WorkerPc == {"lock", "test", "block", "asleep", "run", "running", "count",
             "release", "push", "exit"}

AllEdges == UNION {Incoming(i) : i \in Steps}

\* Every variable stays in its range: in particular an atomic counter of
\* remaining dependencies never goes below zero and the count of completed
\* steps never passes the number of steps.
TypeOK ==
  /\ steps \in Programs
  /\ main \in {"plan", "seed", "join", "returned"}
  /\ seed \in 1..(total_steps + 1)
  /\ ready_queue \in Seq(Steps)
  /\ queue_mutex \in Workers \cup {NoOne}
  /\ completed_steps \in 0..total_steps
  /\ remaining_deps \in [Steps -> Nat]
  /\ status \in [Steps -> {"NotStarted", "Running"} \cup Ended]
  /\ pc \in [Workers -> WorkerPc]
  /\ step_idx \in [Workers -> Steps \cup {0}]
  /\ current_completed \in [Workers -> 0..total_steps]
  /\ todo \in [Workers -> SUBSET AllEdges]
  /\ dependent \in [Workers -> Steps \cup {0}]
  /\ success \in BOOLEAN

\* The worker is responsible for step_idx[w].
Busy(w) == pc[w] \in {"run", "running", "count", "release", "push"}

\* The worker has ended its step and still has an edge to release.
Unreleased(e) ==
  \/ status[e[3]] \notin Ended
  \/ \E w \in Workers : \/ pc[w] = "count" /\ step_idx[w] = e[3]
                        \/ e \in todo[w]

Uncounted(i) == \E w \in Workers : pc[w] = "count" /\ step_idx[w] = i

\* The steps ++completed_steps has been executed for.
Counted == {i \in Steps : status[i] \in Ended /\ ~Uncounted(i)}

\* A step is started only when all the steps it names have ended, whichever
\* threads ran them and in whatever order their decrements fell.
RunsAfterDependencies ==
  \A i \in Steps : status[i] # "NotStarted" =>
    \A d \in Dependencies(i) : status[d] \in Ended

\* No two threads ever work on one step, and a queued step is in the queue
\* once and in nobody's hands: a callback is run at most once.
OneOwner ==
  /\ \A v, w \in Workers : v # w /\ Busy(v) /\ Busy(w) => step_idx[v] # step_idx[w]
  /\ \A a \in DOMAIN ready_queue :
       /\ \A b \in DOMAIN ready_queue : a # b => ready_queue[a] # ready_queue[b]
       /\ \A w \in Workers : Busy(w) => step_idx[w] # ready_queue[a]

\* The caller gets its answer only when no callback can run any more: the
\* locals the workers point to (queue, counters, results) are not touched
\* after the return.
ReturnsAfterAllSteps ==
  main = "returned" =>
    \/ \A i \in Steps : status[i] \in Ended
    \/ ~success /\ \A i \in Steps : status[i] = "NotStarted"

\* What step i reaches through dependencies: the steps in every set that holds
\* its dependencies and the dependencies of its members.
DependsOn(i) ==
  {d \in Steps : \A S \in SUBSET Steps :
     Dependencies(i) \subseteq S /\ (\A j \in S : Dependencies(j) \subseteq S) => d \in S}

HasCycle == \E i \in Steps : i \in DependsOn(i)

\* The configurations refused before anything runs are those with a cycle,
\* "cycle" being some step that reaches itself through dependencies.
RefusesCycles ==
  /\ main \in {"seed", "join"} => ~HasCycle
  /\ main = "returned" /\ (\E i \in Steps : status[i] = "NotStarted") => HasCycle

\* The threads, the queue and the counters together do what TaskGraph says.
TG == INSTANCE TaskGraph WITH deps <- [i \in Steps |-> Dependencies(i)]

ImplementsTaskGraph == TG!Spec

\* Under fair scheduling, no accepted step is forgotten, whatever wake-ups
\* fall on deaf ears.
EveryStepEnds == (main = "seed") ~> (\A i \in Steps : status[i] \in Ended)

\* "If all steps are complete, notify all workers to terminate": the call
\* returns.
ExecutorReturns == <>(main = "returned")

------------------------------------------------------------------------------
(* The inductive invariant behind the safety properties *)

MutexInv == \A w \in Workers : pc[w] \in {"test", "block"} <=> queue_mutex = w

\* Threads act only while the caller waits for them in join().
StartedInv ==
  /\ main # "join" => \A w \in Workers : pc[w] \in {"lock", "exit"}
  /\ main \in {"plan", "seed"} =>
       /\ \A w \in Workers : pc[w] = "lock"
       /\ \A i \in Steps : status[i] = "NotStarted"

\* Before the workers start, a step at or after the index is not queued.
SeedInv == main = "seed" => \A a \in DOMAIN ready_queue : ready_queue[a] < seed

PlanInv == main = "plan" => ready_queue = <<>>

StatusInv ==
  \A w \in Workers :
    /\ Busy(w) => step_idx[w] \in Steps
    /\ pc[w] = "run" => status[step_idx[w]] = "NotStarted"
    /\ pc[w] = "running" => status[step_idx[w]] = "Running"
    /\ pc[w] \in {"count", "release", "push"} => status[step_idx[w]] \in Ended
    /\ Busy(w) => remaining_deps[step_idx[w]] = 0

TodoInv ==
  \A w \in Workers :
    /\ todo[w] # {} => pc[w] \in {"release", "push"}
    /\ \A e \in todo[w] : e[3] = step_idx[w]

QueueInv == \A a \in DOMAIN ready_queue : /\ status[ready_queue[a]] = "NotStarted"
                                          /\ remaining_deps[ready_queue[a]] = 0

\* A step whose counter reached zero has one pusher and is not queued yet.
PushInv ==
  \A w \in Workers : pc[w] = "push" =>
    /\ dependent[w] \in Steps
    /\ status[dependent[w]] = "NotStarted"
    /\ remaining_deps[dependent[w]] = 0
    /\ \A a \in DOMAIN ready_queue : ready_queue[a] # dependent[w]
    /\ \A v \in Workers : /\ v # w /\ pc[v] = "push" => dependent[v] # dependent[w]
                          /\ Busy(v) => step_idx[v] # dependent[w]

WaitingInv == \A i \in Steps : status[i] # "NotStarted" => remaining_deps[i] = 0

\* The counter is the number of edges that no thread has released.
CounterInv ==
  \A i \in Steps :
    remaining_deps[i] = Cardinality({e \in Incoming(i) : Unreleased(e)})

CompletedInv == completed_steps = Cardinality(Counted)

ExitInv == \A w \in Workers : pc[w] = "exit" => completed_steps = total_steps

ReturnInv == main = "returned" =>
  \/ completed_steps = total_steps
  \/ ~success /\ \A i \in Steps : status[i] = "NotStarted"

IInv ==
  /\ TypeOK /\ OneOwner /\ MutexInv /\ StartedInv /\ SeedInv /\ PlanInv
  /\ StatusInv /\ TodoInv /\ QueueInv /\ PushInv /\ WaitingInv /\ CounterInv
  /\ CompletedInv /\ ExitInv /\ ReturnInv
==============================================================================
