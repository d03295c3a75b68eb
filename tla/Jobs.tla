-------------------------------- MODULE Jobs ---------------------------------
(***************************************************************************)
(* The worker pools with the processes their jobs run: a thread of         *)
(* compile_objects_parallel or of the fetch workers calls the compiler, or *)
(* git or curl, through run_impl, and so do all the others meanwhile.  A   *)
(* step of the pool leaves the processes alone, and a process the pool.    *)
(***************************************************************************)
EXTENDS WorkerPool, CapturePipe

ASSUME JobsAssumption == Threads = Workers

JobVars == <<vars, pipeVars>>

JobsInit == Init /\ PipeInit

\* A job is one call, and did what it should only if its program was executed.
Called(w) == calls[w] = 1 /\ at[w] = "call"

TakeJob(w) ==
  /\ Claim(w)
  /\ calls' = [calls EXCEPT ![w] = 0]
  /\ UNCHANGED <<captures, at, pipes, children, output>>

RunJob(w) == pc[w] = "work" /\ ThreadStep(w) /\ UNCHANGED vars

JobSucceeds(w) == Called(w) /\ ran[w] /\ Succeed(w) /\ UNCHANGED pipeVars

\* The program failed or was not executed; or the job did not get as far.
JobFails(w) == at[w] = "call" /\ Fail(w) /\ UNCHANGED pipeVars

Between(w) ==
  /\ \/ TestAborted(w) \/ NothingLeft(w) \/ RecordAndStop(w) \/ RecordAndContinue(w)
     \/ SkipStep(w) \/ CountStep(w) \/ PrintLine(w)
  /\ UNCHANGED pipeVars

JobThread(w) == TakeJob(w) \/ RunJob(w) \/ JobSucceeds(w) \/ JobFails(w) \/ Between(w)

JobProcess(w) == ChildStep(w) /\ UNCHANGED vars

JobMain == Main /\ UNCHANGED pipeVars

JobsNext == JobMain \/ \E w \in Workers : JobThread(w) \/ JobProcess(w)

\* Every thread keeps running, and every program reaches its end.
JobsSpec ==
  /\ JobsInit /\ [][JobsNext]_JobVars
  /\ WF_JobVars(JobMain)
  /\ \A w \in Workers : WF_JobVars(JobThread(w)) /\ WF_JobVars(JobProcess(w))

------------------------------------------------------------------------------
\* When the pool returns, with an error or without, no process it started is left:
\* a build that stops at the first failure does not leave compilers behind that
\* still write objects (build.cpp:228-234), nor a pipe that is open.
NothingRunsOn ==
  main = "returned" => \A w \in Workers : child[w] = "none" /\ Parent \notin holders[w]

\* The inductive invariant: those of the parts, and a process is a job's.
JobsInv ==
  /\ IInv /\ PipeInv
  /\ \A w \in Workers : pc[w] # "work" => at[w] = "call"
==============================================================================
