----------------------------- MODULE CapturePipe -----------------------------
(***************************************************************************)
(* Threads that run child processes and capture their output: the POSIX    *)
(* run_impl of SystemProcessRunner.hpp, called at once by the compile jobs *)
(* of a build and by the fetches of a sync.                                *)
(*                                                                         *)
(* A pipe's write end is held by the process that made it and by every     *)
(* child forked while it is open there, whichever thread forked it: the    *)
(* pipes are made without O_CLOEXEC.  A read ends when no one holds it.    *)
(* Child t is the one thread t waits for, and there is one at a time.      *)
(***************************************************************************)
EXTENDS Naturals, FiniteSets

CONSTANTS
  Threads,
  Lines,      \* what a child may write, before it exits
  Capacity,   \* of a pipe
  Calls,      \* each thread makes this many
  Parent      \* cppup itself

ASSUME PipeAssumption ==
  /\ Parent \notin Threads
  /\ Lines \in Nat /\ Calls \in Nat /\ Capacity \in Nat \ {0}

VARIABLES
  calls,     \* made so far
  captures,  \* the call is run_capture and not run
  at,        \* where each thread is in run_impl
  holders,   \* who has the write end of a thread's pipe open
  buffer,    \* lines in the pipe
  child,     \* "none", "forked", "running", "exited"
  written,   \* lines the child has written
  goal,      \* history: lines it will write, if it is let
  output,    \* lines captured
  ran        \* history: the child was executed

pipes    == <<holders, buffer>>
children == <<child, written, goal, ran>>
pipeVars == <<calls, captures, at, pipes, children, output>>

------------------------------------------------------------------------------
PipeInit ==
  /\ calls = [t \in Threads |-> 0]
  /\ captures = [t \in Threads |-> FALSE]
  /\ at = [t \in Threads |-> "call"]
  /\ holders = [t \in Threads |-> {}]
  /\ buffer = [t \in Threads |-> 0]
  /\ child = [t \in Threads |-> "none"]
  /\ written = [t \in Threads |-> 0]
  /\ goal = [t \in Threads |-> 0]
  /\ ran = [t \in Threads |-> FALSE]
  /\ output = [t \in Threads |-> 0]

(* The threads of cppup *)

setup_capture_pipe(t) ==
  /\ at[t] = "call" /\ calls[t] < Calls
  /\ calls' = [calls EXCEPT ![t] = @ + 1]
  /\ at' = [at EXCEPT ![t] = "fork"]
  /\ \E capture_output \in BOOLEAN :
       /\ captures' = [captures EXCEPT ![t] = capture_output]
       /\ holders' = [holders EXCEPT ![t] = IF capture_output THEN {Parent} ELSE {}]
  /\ ran' = [ran EXCEPT ![t] = FALSE]
  /\ UNCHANGED <<buffer, child, written, goal, output>>

\* No descriptor, or no process: -1 and no output.
CallFails(t) ==
  /\ at[t] = "fork"
  /\ at' = [at EXCEPT ![t] = "call"]
  /\ captures' = [captures EXCEPT ![t] = FALSE]
  /\ holders' = [holders EXCEPT ![t] = @ \ {Parent}]
  /\ UNCHANGED <<calls, buffer, children, output>>

\* The child gets every write end that is open in the parent.
Fork(t) ==
  /\ at[t] = "fork"
  /\ at' = [at EXCEPT ![t] = IF captures[t] THEN "close" ELSE "wait"]
  /\ child' = [child EXCEPT ![t] = "forked"]
  /\ \E n \in 0..Lines : goal' = [goal EXCEPT ![t] = n]
  /\ holders' = [p \in Threads |-> IF Parent \in holders[p] THEN holders[p] \cup {t} ELSE holders[p]]
  /\ UNCHANGED <<calls, captures, buffer, written, ran, output>>

\* WRONG variant: the parent keeps its write end.
KeepWriteEnd(t) ==
  /\ at[t] = "close"
  /\ at' = [at EXCEPT ![t] = "read"]
  /\ UNCHANGED <<calls, captures, pipes, children, output>>

CloseWriteEnd(t) ==
  /\ at[t] = "close"
  /\ at' = [at EXCEPT ![t] = "read"]
  /\ holders' = [holders EXCEPT ![t] = @ \ {Parent}]
  /\ UNCHANGED <<calls, captures, buffer, children, output>>

\* read_captured_output; an interrupted read is tried again.
Read(t) ==
  /\ at[t] = "read"
  /\ \E n \in 1..buffer[t] :
       /\ buffer' = [buffer EXCEPT ![t] = @ - n]
       /\ output' = [output EXCEPT ![t] = @ + n]
  /\ UNCHANGED <<calls, captures, at, holders, children>>

\* WRONG variant: an empty pipe is the end of the output.
ReadNothing(t) ==
  /\ at[t] = "read" /\ buffer[t] = 0
  /\ at' = [at EXCEPT ![t] = "wait"]
  /\ UNCHANGED <<calls, captures, pipes, children, output>>

EndOfFile(t) ==
  /\ at[t] = "read" /\ buffer[t] = 0 /\ holders[t] = {}
  /\ at' = [at EXCEPT ![t] = "wait"]
  /\ UNCHANGED <<calls, captures, pipes, children, output>>

\* WRONG variant: a wait that a signal interrupts is not tried again.
WaitInterrupted(t) ==
  /\ at[t] = "wait"
  /\ at' = [at EXCEPT ![t] = "call"]
  /\ captures' = [captures EXCEPT ![t] = FALSE]
  /\ output' = [output EXCEPT ![t] = 0]
  /\ UNCHANGED <<calls, pipes, children>>

\* The output is now the caller's.
wait_for_exit_code(t) ==
  /\ at[t] = "wait" /\ child[t] = "exited"
  /\ at' = [at EXCEPT ![t] = "call"]
  /\ child' = [child EXCEPT ![t] = "none"]
  /\ captures' = [captures EXCEPT ![t] = FALSE]
  /\ written' = [written EXCEPT ![t] = 0]
  /\ goal' = [goal EXCEPT ![t] = 0]
  /\ output' = [output EXCEPT ![t] = 0]
  /\ UNCHANGED <<calls, pipes, ran>>

(* The children *)

\* dup2, chdir and exec.
Exec(t) ==
  /\ child[t] = "forked"
  /\ child' = [child EXCEPT ![t] = "running"]
  /\ ran' = [ran EXCEPT ![t] = TRUE]
  /\ UNCHANGED <<calls, captures, at, pipes, written, goal, output>>

\* A child whose output is captured waits while its pipe is full.
Write(t) ==
  /\ child[t] = "running" /\ written[t] < goal[t]
  /\ captures[t] => buffer[t] < Capacity
  /\ written' = [written EXCEPT ![t] = @ + 1]
  /\ buffer' = [buffer EXCEPT ![t] = IF captures[t] THEN @ + 1 ELSE @]
  /\ UNCHANGED <<calls, captures, at, holders, child, goal, ran, output>>

\* The program ends; or exit 126 or 127, when the child could not become it.
Exit(t) ==
  /\ child[t] = "forked" \/ (child[t] = "running" /\ written[t] = goal[t])
  /\ child' = [child EXCEPT ![t] = "exited"]
  /\ holders' = [p \in Threads |-> holders[p] \ {t}]
  /\ UNCHANGED <<calls, captures, at, buffer, written, goal, ran, output>>

ThreadStep(t) ==
  \/ setup_capture_pipe(t) \/ CallFails(t) \/ Fork(t) \/ CloseWriteEnd(t)
  \/ Read(t) \/ EndOfFile(t) \/ wait_for_exit_code(t)

ChildStep(t) == Exec(t) \/ Write(t) \/ Exit(t)

PipeNext == \E t \in Threads : ThreadStep(t) \/ ChildStep(t)

\* Threads and processes are scheduled; a program reaches its end.
PipeSpec == /\ PipeInit /\ [][PipeNext]_pipeVars
            /\ \A t \in Threads : WF_pipeVars(ThreadStep(t)) /\ WF_pipeVars(ChildStep(t))

------------------------------------------------------------------------------
PipeTypeOK ==
  /\ calls \in [Threads -> 0..Calls]
  /\ captures \in [Threads -> BOOLEAN]
  /\ at \in [Threads -> {"call", "fork", "close", "read", "wait"}]
  /\ holders \in [Threads -> SUBSET (Threads \cup {Parent})]
  /\ buffer \in [Threads -> 0..Capacity]
  /\ child \in [Threads -> {"none", "forked", "running", "exited"}]
  /\ written \in [Threads -> Nat] /\ goal \in [Threads -> Nat] /\ output \in [Threads -> Nat]
  /\ ran \in [Threads -> BOOLEAN]

\* A capture that has seen the end of the file has all of what its own child wrote
\* and nothing else (SystemProcessRunner.hpp:305-327), however many other threads
\* fork meanwhile: a compiler's errors are not cut off, nor given to another job.
WholeOutput ==
  \A t \in Threads : captures[t] /\ at[t] = "wait" =>
    /\ output[t] = written[t]
    /\ ran[t] => written[t] = goal[t]
    /\ child[t] = "exited"

------------------------------------------------------------------------------
(* The inductive invariant behind it *)

\* A call has a child from the fork to the wait, and each says how far the other is.
ChildInv ==
  \A t \in Threads :
    /\ child[t] = "none" <=> at[t] \in {"call", "fork"}
    /\ child[t] = "none" => written[t] = 0
    /\ child[t] = "running" => ran[t]
    /\ at[t] = "fork" \/ child[t] = "forked" => ~ran[t]
    /\ ran[t] /\ child[t] = "exited" => written[t] = goal[t]

\* The parent has the write end until it closes it after the fork, the child until
\* it exits; what the child wrote is in the pipe or has been read.
HoldersInv ==
  \A t \in Threads :
    /\ at[t] = "call" => ~captures[t]
    /\ at[t] \in {"close", "read"} => captures[t]
    /\ Parent \in holders[t] <=> captures[t] /\ at[t] \in {"fork", "close"}
    /\ captures[t] /\ child[t] \in {"forked", "running"} => t \in holders[t]
    /\ captures[t] /\ at[t] = "wait" => holders[t] = {} /\ buffer[t] = 0
    /\ ~captures[t] => buffer[t] = 0 /\ output[t] = 0
    /\ captures[t] => written[t] = output[t] + buffer[t]

PipeInv == PipeTypeOK /\ ChildInv /\ HoldersInv
==============================================================================
