------------------------------ MODULE TaskGraph ------------------------------
(***************************************************************************)
(* What BuildStepExecutor promises its caller: every step of an acyclic    *)
(* configuration is run once, and none is started before all the steps it  *)
(* depends on have ended.  Nothing is said of threads, queues or locks.    *)
(***************************************************************************)
VARIABLES deps,     \* deps[i]: the steps that step i waits for
          status    \* status[i]: how far step i is

Ended == {"Completed", "Failed"}

Statuses == {"NotStarted", "Running"} \cup Ended

Init == /\ DOMAIN deps = DOMAIN status
        /\ \A i \in DOMAIN status : status[i] = "NotStarted"

Start(i) == /\ status[i] = "NotStarted"
            /\ \A d \in deps[i] : status[d] \in Ended
            /\ status' = [status EXCEPT ![i] = "Running"]
            /\ UNCHANGED deps

End(i) == /\ status[i] = "Running"
          /\ \E o \in Ended : status' = [status EXCEPT ![i] = o]
          /\ UNCHANGED deps

Next == \E i \in DOMAIN status : Start(i) \/ End(i)

Spec == Init /\ [][Next]_<<deps, status>>
==============================================================================
