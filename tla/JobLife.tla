------------------------------ MODULE JobLife ------------------------------
(***************************************************************************)
(* What the docstring of services/background_jobs.py promises of one job:  *)
(* "enqueue -> queued -> running -> completed/failed", "retried ... on     *)
(* failure".  Each job lives alone: workers, clocks, copies of its row and *)
(* selections that race are not seen.  What the docstring does not name    *)
(* needs a failure or a race: a job may be marked completed while its      *)
(* worker takes the attempt for a failed one (doubted), be left where no   *)
(* worker will take it again (lost), or be taken by two workers while it   *)
(* waits (raced), after which nothing is promised of it.                   *)
(***************************************************************************)
EXTENDS Naturals

CONSTANTS Ids, MaxRetries

VARIABLES
    phase,     \* where each job is in its life
    attempts,  \* how often its handler was called
    failures

life == <<phase, attempts, failures>>

Pass(j, from, to) == phase[j] = from /\ phase' = [phase EXCEPT ![j] = to]

Init ==
    /\ phase = [j \in Ids |-> "absent"]
    /\ attempts = [j \in Ids |-> 0]
    /\ failures = 0

Enqueue(j) == Pass(j, "absent", "queued") /\ UNCHANGED <<attempts, failures>>

Start(j) ==
    /\ Pass(j, "queued", "running")
    /\ attempts' = [attempts EXCEPT ![j] = @ + 1]
    /\ UNCHANGED failures

Return(j) == Pass(j, "running", "returned") /\ UNCHANGED <<attempts, failures>>
Complete(j) == Pass(j, "returned", "completed") /\ UNCHANGED <<attempts, failures>>

(* The attempt failed, or was taken for a failed one.                      *)
Retry(j) ==
    /\ attempts[j] <= MaxRetries
    /\ \E from \in {"running", "doubted"} : Pass(j, from, "queued")
    /\ failures' \in {failures, failures + 1}
    /\ UNCHANGED attempts

GiveUp(j) ==
    /\ attempts[j] = MaxRetries + 1
    /\ \E from \in {"running", "doubted"} : Pass(j, from, "failed")
    /\ failures' \in {failures, failures + 1}
    /\ UNCHANGED attempts

Race(j) ==
    /\ Pass(j, "queued", "raced")
    /\ attempts' = [attempts EXCEPT ![j] = 0]
    /\ UNCHANGED failures

(* A failure stops a job where it is: short of its next phase, or past it. *)
Fail ==
    /\ failures' = failures + 1
    /\ \/ UNCHANGED phase
       \/ \E j \in Ids :
             \/ Pass(j, "returned", "running") \/ Pass(j, "returned", "doubted")
             \/ Pass(j, "doubted", "completed")
             \/ \E from \in {"queued", "running", "returned"} : Pass(j, from, "lost")
    /\ UNCHANGED attempts

Next ==
    \/ \E j \in Ids :
        \/ Enqueue(j) \/ Start(j) \/ Return(j) \/ Complete(j)
        \/ Retry(j) \/ GiveUp(j) \/ Race(j)
    \/ Fail

Spec == Init /\ [][Next]_life

(* A job waits while it has attempts left, and has failed when it had all. *)
Attempted ==
    \A j \in Ids :
        /\ attempts[j] <= MaxRetries + 1
        /\ phase[j] = "queued" => attempts[j] <= MaxRetries
        /\ phase[j] = "failed" => attempts[j] = MaxRetries + 1
        /\ phase[j] \in {"running", "returned", "doubted", "completed"} => attempts[j] > 0

(* Completed, failed, lost or raced for, a job is that for good.           *)
Ends == {"completed", "failed", "lost", "raced"}
EndsAreFinal == [][\A j \in Ids : phase[j] \in Ends => phase'[j] = phase[j]]_life
=============================================================================
