----------------------------- MODULE JobQueueMC -----------------------------
(***************************************************************************)
(* JobQueue for TLC, with history variables that tell the jobs two workers *)
(* had in their hands at once, and those enqueued while two clients        *)
(* enqueued the same, from the others.                                     *)
(***************************************************************************)
EXTENDS JobQueue

CONSTANT MaxTroubles   \* bound on failures and crashes together

VARIABLES
    raced,   \* jobs that two workers had selected at the same time
    crossed  \* jobs inserted while another client was about to insert a twin

Takes(w, j) == worker[w] # Free /\ worker[w].job = j
Racing == {j \in JobIds : \E v, w \in Workers : v # w /\ Takes(v, j) /\ Takes(w, j)}

Crossing ==
    {j \in JobIds :
        /\ jobs[j] = NoJob /\ jobs'[j] # NoJob
        /\ \E c \in Clients : client'[c].pc = "insert" /\ client'[c].hash = jobs'[j].hash}

(* Bound: no client asks that could find no id left to insert with. *)
IdsSuffice ==
    Cardinality({c \in Clients : client'[c].pc = "insert"})
    <= Cardinality({j \in JobIds : jobs'[j] = NoJob})

hvars == <<vars, raced, crossed>>
HInit == Init /\ raced = {} /\ crossed = {}
HNext ==
    /\ Next
    /\ faults' + crashes' <= MaxTroubles
    /\ IdsSuffice
    /\ raced' = raced \cup Racing'
    /\ crossed' = crossed \cup Crossing
HSpec == HInit /\ [][HNext]_hvars

(* Each worker keeps looping (run_worker "would be called in a loop"). *)
HFairSpec == HSpec /\ \A w \in Workers : WF_vars(ProcessNext(w))

-----------------------------------------------------------------------------
(* Properties. *)

(* The handler of a job that workers did not race for is called at most    *)
(* once more than its retries allow, and exactly as often as retry_count   *)
(* says, whatever fails: a crash or a lost update gives no extra attempt.  *)
AttemptsBounded ==
    \A j \in JobIds \ raced :
        /\ calls[j] <= MaxRetries + 1
        /\ jobs[j].status = "queued" => calls[j] = jobs[j].retries
        /\ jobs[j].status = "failed" => calls[j] = MaxRetries + 1

(* ... and once such a job is finished it is finished: "queued -> running  *)
(* -> completed/failed".  Only a completed job whose worker did not hear   *)
(* that it is may be queued, or failed, again.                             *)
Doubted(j) == jobs[j].status = "completed" /\ \E w \in Workers : Takes(w, j)
FinishedIsFinal ==
    [][\A j \in JobIds \ raced' :
          jobs[j].status \in {"completed", "failed"} /\ ~ Doubted(j)
          => jobs'[j].status = jobs[j].status]_hvars

(* Every job lives the life the module docstring gives it, each step of a  *)
(* client or worker being a step of one job at most.  Whatever fails: a    *)
(* job is completed after this attempt returned, retried or failed as its  *)
(* own attempts say, lost or doubted only by a failure of its own, and     *)
(* finished, lost or raced for it is nothing else again.                   *)
Phase(j) ==
    IF j \in raced THEN "raced"
    ELSE IF Doubted(j) THEN "doubted"
    ELSE IF jobs[j].status # "running" THEN jobs[j].status
    ELSE IF \E w \in Workers : Takes(w, j) /\ worker[w].pc = "complete" THEN "returned"
    ELSE IF \E w \in Workers : Takes(w, j) THEN "running" ELSE "lost"
Attempts(j) == IF j \in raced THEN 0 ELSE calls[j]
Life == INSTANCE JobLife WITH Ids <- JobIds,
                              phase <- [j \in JobIds |-> Phase(j)],
                              attempts <- [j \in JobIds |-> Attempts(j)],
                              failures <- faults + crashes
ImplementsLife == Life!Spec

(* "if a job with the same payload_hash already exists and is in 'queued'  *)
(* status, return the existing job_id instead of creating a duplicate":    *)
(* two jobs of one hash wait for their first attempt only when one of them *)
(* was inserted while the other's client, past its SELECT, was about to    *)
(* insert.  (A re-queued job may have a younger twin: that is none.)       *)
Fresh(j) == Queued(j) /\ jobs[j].retries = 0
TwinsCrossed ==
    \A i, j \in JobIds :
        i # j /\ Fresh(i) /\ Fresh(j) /\ jobs[i].hash = jobs[j].hash
        => i \in crossed \/ j \in crossed

(* The queue drains: once clients have enqueued what they will, every job  *)
(* is completed or failed for good, raced for or not, and stays so, unless *)
(* an update fails or a worker dies.                                       *)
JobsFinish ==
    <>[](\/ \A j \in JobIds : jobs[j].status \in {"absent", "completed", "failed"}
         \/ faults > 0 \/ crashes > 0)
=============================================================================
