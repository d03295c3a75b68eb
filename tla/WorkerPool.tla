----------------------------- MODULE WorkerPool ------------------------------
(***************************************************************************)
(* The pool of threads the commands hand a list of jobs to:                *)
(* compile_objects_parallel and run_in_parallel (cli/commands/build.cpp),  *)
(* and the fetch workers of executePackageSync (cli/commands/package.cpp). *)
(* Every thread draws the next index from one atomic counter.  The pools   *)
(* of build.cpp stop drawing when a job failed; the fetch workers attempt  *)
(* every job and report the first failure in lockfile order.               *)
(*                                                                         *)
(* Atomics are sequentially consistent, as the lock-prefixed instructions  *)
(* of x86-64 make the relaxed operations of the code.  The section under   *)
(* err_mu is one step: first_err is read only after the join.              *)
(***************************************************************************)
EXTENDS Naturals, Sequences, FiniteSets

CONSTANTS Workers,        \* the threads started for this list
          N,              \* the number of jobs
          NoError

ASSUME NAssumption == N \in Nat \ {0}
ASSUME WorkersAssumption == Workers # {}
ASSUME NoErrorAssumption == NoError \notin Nat

Items == 1..N

VARIABLES
  StopOnFailure,  \* the kind of pool: TRUE in build.cpp, FALSE in package sync
  total,      \* ProgressReporter::total: zero, or (all that matters) not
  main,       \* where the calling thread is
  next,       \* the shared index (of the next job, from 1)
  aborted,
  first_err,  \* the job the error message names
  errors,     \* the jobs with an entry in errors_by_index
  result,     \* what the caller is told
  status,     \* what became of each job
  pc,
  index,      \* the worker's job
  done,       \* ProgressReporter::done
  count,      \* what done.fetch_add gave the worker
  lines,      \* the numbers of the progress lines, in order
  late        \* history: jobs the worker drew after aborted was set

errVars    == <<aborted, first_err, errors>>
progress   == <<done, count, lines>>
mainVars   == <<StopOnFailure, total, main, result>>
vars       == <<mainVars, next, errVars, status, pc, index, progress, late>>

Init ==
  /\ StopOnFailure \in BOOLEAN
  /\ total \in IF StopOnFailure THEN {0, N} ELSE {0}
  /\ main = "call"
  /\ next = 1
  /\ aborted = FALSE
  /\ first_err = NoError
  /\ errors = {}
  /\ result = NoError
  /\ status = [i \in Items |-> "todo"]
  /\ pc = [w \in Workers |-> "test"]
  /\ index = [w \in Workers |-> 0]
  /\ done = 0
  /\ count = [w \in Workers |-> 0]
  /\ lines = <<>>
  /\ late = [w \in Workers |-> 0]

(* The calling thread *)

\* An empty list never gets here: it returns before any thread is started.
StartWorkers ==
  /\ main = "call"
  /\ main' = "join"
  /\ UNCHANGED <<StopOnFailure, total, result, next, errVars, status, pc, index, progress, late>>

\* WRONG variant: the last error in lockfile order is reported.
ReportsLast(r) ==
  IF aborted THEN r = first_err
  ELSE IF errors = {} THEN r = NoError
  ELSE r \in errors /\ \A j \in errors : j <= r

\* The message rethrown after the join, or the first one in lockfile order.
Reports(r) ==
  IF aborted THEN r = first_err
  ELSE IF errors = {} THEN r = NoError
  ELSE r \in errors /\ \A j \in errors : r <= j

Join ==
  /\ main = "join"
  /\ \A w \in Workers : pc[w] = "exit"
  /\ main' = "returned"
  /\ \E r \in Items \cup {NoError} : Reports(r) /\ result' = r
  /\ UNCHANGED <<StopOnFailure, total, next, errVars, status, pc, index, progress, late>>

(* A worker *)

\* while (!aborted.load())
TestAborted(w) ==
  /\ main = "join"
  /\ pc[w] = "test"
  /\ pc' = [pc EXCEPT ![w] = IF aborted THEN "exit" ELSE "claim"]
  /\ UNCHANGED <<mainVars, next, errVars, status, index, progress, late>>

\* WRONG variant: next is loaded and stored back, and an increment gets lost.
ClaimLoadStore(w) ==
  /\ pc[w] = "claim"
  /\ next <= N
  /\ next' \in {next, next + 1}
  /\ index' = [index EXCEPT ![w] = next]
  /\ status' = [status EXCEPT ![next] = "working"]
  /\ pc' = [pc EXCEPT ![w] = "work"]
  /\ late' = [late EXCEPT ![w] = IF aborted THEN late[w] + 1 ELSE late[w]]
  /\ UNCHANGED <<mainVars, errVars, progress>>

\* next.fetch_add(1) gave a job.
Claim(w) ==
  /\ pc[w] = "claim"
  /\ next <= N
  /\ next' = next + 1
  /\ index' = [index EXCEPT ![w] = next]
  /\ status' = [status EXCEPT ![next] = "working"]
  /\ pc' = [pc EXCEPT ![w] = "work"]
  /\ late' = [late EXCEPT ![w] = IF aborted THEN late[w] + 1 ELSE late[w]]
  /\ UNCHANGED <<mainVars, errVars, progress>>

\* WRONG variant: the worker tries again.
TryAgain(w) ==
  /\ pc[w] = "claim"
  /\ next > N
  /\ pc' = [pc EXCEPT ![w] = "test"]
  /\ UNCHANGED <<mainVars, next, errVars, status, index, progress, late>>

\* next.fetch_add(1) gave an index past the end (kept at N + 1 here).
NothingLeft(w) ==
  /\ pc[w] = "claim"
  /\ next > N
  /\ pc' = [pc EXCEPT ![w] = "exit"]
  /\ UNCHANGED <<mainVars, next, errVars, status, index, progress, late>>

\* The job succeeds; build.cpp then calls ProgressReporter::step.
Succeed(w) ==
  /\ pc[w] = "work"
  /\ status' = [status EXCEPT ![index[w]] = "done"]
  /\ pc' = [pc EXCEPT ![w] = IF StopOnFailure THEN "report" ELSE "test"]
  /\ UNCHANGED <<mainVars, next, errVars, index, progress, late>>

Fail(w) ==
  /\ pc[w] = "work"
  /\ status' = [status EXCEPT ![index[w]] = "failed"]
  /\ pc' = [pc EXCEPT ![w] = "record"]
  /\ UNCHANGED <<mainVars, next, errVars, index, progress, late>>

\* WRONG variant: the worker that failed draws another job.
RecordAndGoOn(w) ==
  /\ pc[w] = "record"
  /\ StopOnFailure
  /\ aborted' = TRUE
  /\ first_err' = IF aborted THEN first_err ELSE index[w]
  /\ pc' = [pc EXCEPT ![w] = "claim"]
  /\ UNCHANGED <<mainVars, next, errors, status, index, progress, late>>

\* WRONG variant: the test of exchange() is inverted.
RecordSecond(w) ==
  /\ pc[w] = "record"
  /\ StopOnFailure
  /\ aborted' = TRUE
  /\ first_err' = IF aborted THEN index[w] ELSE first_err
  /\ pc' = [pc EXCEPT ![w] = "exit"]
  /\ UNCHANGED <<mainVars, next, errors, status, index, progress, late>>

\* lock err_mu; if (!aborted.exchange(true)) first_err = ...; return
RecordAndStop(w) ==
  /\ pc[w] = "record"
  /\ StopOnFailure
  /\ aborted' = TRUE
  /\ first_err' = IF aborted THEN first_err ELSE index[w]
  /\ pc' = [pc EXCEPT ![w] = "exit"]
  /\ UNCHANGED <<mainVars, next, errors, status, index, progress, late>>

\* errors_by_index[idx] = ...
RecordAndContinue(w) ==
  /\ pc[w] = "record"
  /\ ~StopOnFailure
  /\ errors' = errors \cup {index[w]}
  /\ pc' = [pc EXCEPT ![w] = "test"]
  /\ UNCHANGED <<mainVars, next, aborted, first_err, status, index, progress, late>>

\* WRONG variant: the number is read back from the counter when printing.
CountStepLater(w) ==
  /\ pc[w] = "report" /\ total # 0
  /\ done' = done + 1
  /\ count' = [v \in Workers |-> IF v = w \/ pc[v] = "print" THEN done + 1 ELSE count[v]]
  /\ pc' = [pc EXCEPT ![w] = "print"]
  /\ UNCHANGED <<mainVars, next, errVars, status, index, lines, late>>

\* ProgressReporter::step: no step was planned, and none is counted.  Jobs run all
\* the same when a pre-build script changed their sources after the count.
SkipStep(w) ==
  /\ pc[w] = "report" /\ total = 0
  /\ pc' = [pc EXCEPT ![w] = "test"]
  /\ UNCHANGED <<mainVars, next, errVars, status, index, progress, late>>

\* ProgressReporter::step: done.fetch_add(1) + 1
CountStep(w) ==
  /\ pc[w] = "report" /\ total # 0
  /\ done' = done + 1
  /\ count' = [count EXCEPT ![w] = done + 1]
  /\ pc' = [pc EXCEPT ![w] = "print"]
  /\ UNCHANGED <<mainVars, next, errVars, status, index, lines, late>>

\* ... and the line, under print_mu.
PrintLine(w) ==
  /\ pc[w] = "print"
  /\ lines' = Append(lines, count[w])
  /\ pc' = [pc EXCEPT ![w] = "test"]
  /\ UNCHANGED <<mainVars, next, errVars, status, index, done, count, late>>

Main == StartWorkers \/ Join

Worker(w) ==
  \/ TestAborted(w) \/ Claim(w) \/ NothingLeft(w) \/ Succeed(w) \/ Fail(w)
  \/ RecordAndStop(w) \/ RecordAndContinue(w)
  \/ SkipStep(w) \/ CountStep(w) \/ PrintLine(w)

Next == Main \/ \E w \in Workers : Worker(w)

Spec == Init /\ [][Next]_vars

------------------------------------------------------------------------------
WorkerPc == {"test", "claim", "work", "record", "report", "print", "exit"}

TypeOK ==
  /\ StopOnFailure \in BOOLEAN /\ total \in {0, N}
  /\ main \in {"call", "join", "returned"}
  /\ next \in 1..(N + 1)
  /\ aborted \in BOOLEAN
  /\ first_err \in Items \cup {NoError}
  /\ errors \in SUBSET Items
  /\ result \in Items \cup {NoError}
  /\ status \in [Items -> {"todo", "working", "done", "failed"}]
  /\ pc \in [Workers -> WorkerPc]
  /\ index \in [Workers -> 0..N]
  /\ done \in Nat
  /\ count \in [Workers -> Nat]
  /\ lines \in Seq(Nat)
  /\ late \in [Workers -> Nat]

\* No job is run twice, at a time or one after the other: a thread that draws a job
\* draws one that nobody has drawn.
EachJobOnce ==
  [][\A w \in Workers : pc[w] = "claim" /\ pc'[w] = "work" => status[index'[w]] = "todo"]_vars

\* The caller is told of a failure exactly when a job failed, and is told
\* success only when every job was done.  What it is told of is a job that
\* failed; a pool that attempts everything names the first of them in order.
Outcome ==
  main = "returned" =>
    /\ \A i \in Items : status[i] # "working"
    /\ result = NoError => \A i \in Items : status[i] = "done"
    /\ result # NoError => /\ status[result] = "failed"
                           /\ ~StopOnFailure =>
                                /\ \A i \in Items : status[i] # "todo"
                                /\ \A i \in 1..(result - 1) : status[i] = "done"

\* "the abort flag short-circuits remaining workers": once a failure is
\* recorded, each thread draws at most one more job, and the one that
\* recorded it none.
StopsSoon ==
  /\ \A w \in Workers : late[w] <= 1
  /\ aborted => \E w \in Workers : late[w] = 0 /\ index[w] = first_err

\* The progress lines bear every number from 1 up to the jobs done, once each
\* (not always in order: a thread may print after one that counted later); there
\* are none when no step was planned.
Numbering ==
  main = "returned" /\ StopOnFailure =>
    LET Done == {i \in Items : status[i] = "done" /\ total # 0}
    IN  /\ Len(lines) = Cardinality(Done)
        /\ {lines[k] : k \in DOMAIN lines} = 1..Cardinality(Done)

\* The call returns, failures or not: so every job does, and with it every process
\* it ran.  A child that another thread forked at the wrong moment holds a job's pipe
\* too, and the job lasts as long as that child; but no two jobs wait for each other,
\* though each may hold the other's pipe.
PoolReturns == <>(main = "returned")

------------------------------------------------------------------------------
(* The inductive invariant behind the safety properties *)

\* Jobs are drawn in order.
DrawnInv == \A i \in Items : status[i] = "todo" <=> next <= i

\* A job being worked on is in the hands of exactly one thread.
OwnerInv ==
  /\ \A w \in Workers :
       /\ pc[w] = "work" => index[w] \in Items /\ status[index[w]] = "working"
       /\ pc[w] = "record" => index[w] \in Items /\ status[index[w]] = "failed"
  /\ \A v, w \in Workers :
       v # w /\ pc[v] = "work" /\ pc[w] = "work" => index[v] # index[w]
  /\ \A i \in Items :
       status[i] = "working" => \E w \in Workers : pc[w] = "work" /\ index[w] = i

\* A failed job is recorded, or a thread is about to record it.
RecordInv ==
  /\ \A i \in Items : status[i] = "failed" =>
       \/ IF StopOnFailure THEN aborted ELSE i \in errors
       \/ \E w \in Workers : pc[w] = "record" /\ index[w] = i
  /\ \A i \in errors : status[i] = "failed"
  /\ IF aborted THEN StopOnFailure /\ first_err \in Items /\ status[first_err] = "failed"
                ELSE first_err = NoError
  /\ StopOnFailure => errors = {}

ExitInv == /\ \A w \in Workers : pc[w] = "exit" => aborted \/ next > N
           /\ main = "call" => next = 1 /\ \A w \in Workers : pc[w] = "test"
           /\ main = "returned" => \A w \in Workers : pc[w] = "exit"

LateInv ==
  /\ ~aborted => \A w \in Workers : late[w] = 0
  /\ \A w \in Workers : /\ late[w] <= 1
                        /\ pc[w] = "claim" => late[w] = 0
  /\ aborted => \E w \in Workers : late[w] = 0 /\ index[w] = first_err /\ pc[w] = "exit"

ResultInv == main = "returned" => Reports(result)

\* The jobs ProgressReporter::step has counted, and a number on its way to a line.
Counted == {i \in Items : /\ status[i] = "done" /\ total # 0
                          /\ ~ \E w \in Workers : pc[w] = "report" /\ index[w] = i}

Printing(w, n) == pc[w] = "print" /\ count[w] = n

\* A job done is counted once, by the thread that did it; a number up to the count
\* is in one line, or in the hands of one thread that is about to print it.
CountInv ==
  /\ \A w \in Workers : pc[w] = "report" => index[w] \in Items /\ status[index[w]] = "done"
  /\ \A v, w \in Workers :
       v # w /\ pc[v] = "report" /\ pc[w] = "report" => index[v] # index[w]
  /\ StopOnFailure => done = Cardinality(Counted)

LinesInv ==
  /\ \A k \in DOMAIN lines : lines[k] \in 1..done
  /\ \A w \in Workers : pc[w] = "print" => count[w] \in 1..done
  /\ \A k, l \in DOMAIN lines : k # l => lines[k] # lines[l]
  /\ \A w \in Workers, k \in DOMAIN lines : ~Printing(w, lines[k])
  /\ \A v, w \in Workers : v # w /\ pc[v] = "print" => ~Printing(w, count[v])
  /\ \A n \in 1..done :
       (\E k \in DOMAIN lines : lines[k] = n) \/ (\E w \in Workers : Printing(w, n))

IInv == /\ TypeOK /\ DrawnInv /\ OwnerInv /\ RecordInv /\ ExitInv /\ LateInv
        /\ ResultInv /\ CountInv /\ LinesInv
==============================================================================
