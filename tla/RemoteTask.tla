------------------------------- MODULE RemoteTask -------------------------------
(***************************************************************************)
(* What a service that runs long jobs promises to the hub, which submits   *)
(* jobs over HTTP, polls them and asks to cancel them.                     *)
(*                                                                         *)
(* ExtractorTasks, the task manager of the payment link extractor, is      *)
(* shown to implement this specification, with every job Stoppable. The    *)
(* modules of the hub take the actions of this one as their environment:   *)
(* PaymentLinks for the extractor, IcPipeline for registrations.           *)
(***************************************************************************)

CONSTANTS
  Job,        \* ids of jobs, never used twice
  Stoppable   \* those of them for which an accepted cancel excludes success

VARIABLE state  \* what the service knows about each job

Working == {"queued", "running", "cancelling"}
Over    == {"succeeded", "failed", "cancelled"}

Init == state = [j \in Job |-> "none"]

Finished == {j \in Job : state[j] \in Over}

\* A service may forget finished jobs whenever it is called.
Move(j, to, gone) ==
  state' = [i \in Job |-> IF i = j THEN to
                          ELSE IF i \in gone THEN "gone" ELSE state[i]]

Submit(j, gone) == state[j] = "none" /\ Move(j, "queued", gone)

\* the service takes the job up by itself
Begin(j) == state[j] = "queued" /\ Move(j, "running", {})

\* A job that waits is cancelled at once, one that runs is asked to stop.
Cancel(j, gone) ==
  \/ state[j] = "queued"  /\ Move(j, "cancelled", gone)
  \/ state[j] = "running" /\ Move(j, "cancelling", gone)

\* what a job in state s may come to
Verdicts(j, s) ==
  CASE s = "running"    -> {"succeeded", "failed"}
    [] s = "cancelling" -> {"failed", "cancelled"}
                           \cup IF j \in Stoppable THEN {} ELSE {"succeeded"}
    [] OTHER            -> {}

Finish(j) == \E v \in Verdicts(j, state[j]) : Move(j, v, {})

Forget(gone) ==
  /\ gone # {}
  /\ state' = [i \in Job |-> IF i \in gone THEN "gone" ELSE state[i]]

\* what the service does when nobody calls it
Work(j) == Begin(j) \/ Finish(j)

Next ==
  \/ \E gone \in SUBSET Finished :
       Forget(gone) \/ \E j \in Job : Submit(j, gone) \/ Cancel(j, gone)
  \/ \E j \in Job : Work(j)

Spec == Init /\ [][Next]_state

\* Nobody has to submit or to cancel a job; the service has to run them.
FairSpec == Spec /\ \A j \in Job : WF_state(Work(j))

================================================================================
