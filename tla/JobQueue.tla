------------------------------ MODULE JobQueue ------------------------------
(***************************************************************************)
(* The database-backed job queue of services/background_jobs.py: clients   *)
(* enqueue jobs, workers run process_next in a loop (run_worker).  A step  *)
(* is what happens between two commits or two statements of a transaction  *)
(* at READ COMMITTED that another process can come between.                *)
(***************************************************************************)
EXTENDS Integers, FiniteSets

CONSTANTS
    JobIds,       \* primary keys; random ones, here taken in order
    Hashes,       \* payload hashes
    Clients,      \* processes that enqueue
    Workers,      \* processes that run process_next in a loop
    MaxRetries,   \* jobs.max_retries
    MaxDelay,     \* bound: how far ahead clients schedule a job
    MaxTime,      \* bound: the clock
    MaxFaults,    \* bound: INSERTs, UPDATEs and commits that raise
    MaxCrashes    \* bound: workers that die

ASSUME ConstantsOK ==
    /\ MaxRetries \in Nat /\ MaxDelay \in Nat /\ MaxTime \in Nat
    /\ MaxFaults \in Nat /\ MaxCrashes \in Nat
    /\ JobIds \subseteq Nat

VARIABLES
    jobs,      \* table jobs
    client,    \* what each client is about to insert
    worker,    \* what each worker is doing
    calls,     \* handler calls so far, by job
    returns,   \* handler calls that returned, by job
    clock, faults, crashes

vars == <<jobs, client, worker, calls, returns, clock, faults, crashes>>

-----------------------------------------------------------------------------

NoJob == [status |-> "absent"]
Jobs == [status : {"queued", "running", "completed", "failed"},
         hash : Hashes, retries : Nat, at : Int]

NoRequest == [pc |-> "idle"]
Inserting == [pc : {"insert"}, hash : Hashes]

Free == [pc |-> "idle"]
Busy == [pc : {"mark", "handle", "complete", "fail"}, job : JobIds, retries : Nat]

(* A statement or a commit raises.  The caller cannot tell whether what it *)
(* wrote has landed: an action named ...Raises stands for what has not,    *)
(* ...Unheard for a commit whose answer was lost.                          *)
Fault == faults < MaxFaults /\ faults' = faults + 1

Queued(j) == jobs[j].status = "queued"
SameHash(j, h) == Queued(j) /\ jobs[j].hash = h

(* _enqueue_db, its SELECT: a queued job with this hash is the answer. *)
AskUnchecked(c, h) ==
    /\ client[c] = NoRequest
    /\ client' = [client EXCEPT ![c] = [pc |-> "insert", hash |-> h]]
    /\ UNCHANGED <<jobs, worker, calls, returns, clock, faults, crashes>>
Ask(c, h) ==
    /\ client[c] = NoRequest
    /\ ~ \E j \in JobIds : SameHash(j, h)
    /\ client' = [client EXCEPT ![c] = [pc |-> "insert", hash |-> h]]
    /\ UNCHANGED <<jobs, worker, calls, returns, clock, faults, crashes>>

(* _enqueue_db, its INSERT: nothing makes the hash unique.  The client may *)
(* have asked for a later scheduled_at.                                    *)
Insert(c, j, delay) ==
    /\ client[c].pc = "insert"
    /\ jobs[j] = NoJob /\ \A k \in JobIds : jobs[k] = NoJob => j <= k
    /\ jobs' = [jobs EXCEPT ![j] = [status |-> "queued", hash |-> client[c].hash,
                                    retries |-> 0, at |-> clock + delay]]
    /\ client' = [client EXCEPT ![c] = NoRequest]
    /\ UNCHANGED <<worker, calls, returns, clock, faults, crashes>>

(* To the queue an INSERT whose answer was lost is one that was heard of.  *)
InsertRaises(c) ==
    /\ client[c].pc = "insert" /\ Fault
    /\ client' = [client EXCEPT ![c] = NoRequest]
    /\ UNCHANGED <<jobs, worker, calls, returns, clock, crashes>>

(* process_next, its SELECT: the queued job with the least scheduled_at,   *)
(* whether or not that time has come.                                      *)
FirstNotCompleted(j) ==
    /\ jobs[j].status \in {"queued", "running", "failed"}
    /\ \A k \in JobIds : Queued(k) => jobs[j].at <= jobs[k].at
FirstQueued(j) ==
    /\ Queued(j)
    /\ \A k \in JobIds : Queued(k) => jobs[j].at <= jobs[k].at
Select(w, j) ==
    /\ worker[w] = Free
    /\ FirstQueued(j)
    /\ worker' = [worker EXCEPT ![w] = [pc |-> "mark", job |-> j, retries |-> 0]]
    /\ UNCHANGED <<jobs, client, calls, returns, clock, faults, crashes>>

(* process_next, its UPDATE by id: whatever the status is by now.  The row *)
(* it returns is the worker's copy of the job from here on.                *)
MarkRunning(w) ==
    LET j == worker[w].job
    IN  /\ worker[w].pc = "mark"
        /\ jobs' = [jobs EXCEPT ![j].status = "running"]
        /\ worker' = [worker EXCEPT ![w].pc = "handle", ![w].retries = jobs[j].retries]
        /\ calls' = [calls EXCEPT ![j] = @ + 1]
        /\ UNCHANGED <<client, returns, clock, faults, crashes>>

(* The exception leaves process_next and the loop, which starts again; the *)
(* handler is not called.                                                  *)
MarkRaises(w) ==
    /\ worker[w].pc = "mark" /\ Fault
    /\ worker' = [worker EXCEPT ![w] = Free]
    /\ UNCHANGED <<jobs, client, calls, returns, clock, crashes>>
MarkUnheard(w) ==
    /\ worker[w].pc = "mark" /\ Fault
    /\ jobs' = [jobs EXCEPT ![worker[w].job].status = "running"]
    /\ worker' = [worker EXCEPT ![w] = Free]
    /\ UNCHANGED <<client, calls, returns, clock, crashes>>

HandlerReturns(w) ==
    /\ worker[w].pc = "handle"
    /\ worker' = [worker EXCEPT ![w].pc = "complete"]
    /\ returns' = [returns EXCEPT ![worker[w].job] = @ + 1]
    /\ UNCHANGED <<jobs, client, calls, clock, faults, crashes>>

HandlerRaises(w) ==
    /\ worker[w].pc = "handle"
    /\ worker' = [worker EXCEPT ![w].pc = "fail"]
    /\ UNCHANGED <<jobs, client, calls, returns, clock, faults, crashes>>

(* _complete_db *)
CompleteUnsaved(w) ==
    /\ worker[w].pc = "complete"
    /\ worker' = [worker EXCEPT ![w] = Free]
    /\ UNCHANGED <<jobs, client, calls, returns, clock, faults, crashes>>
Complete(w) ==
    /\ worker[w].pc = "complete"
    /\ jobs' = [jobs EXCEPT ![worker[w].job].status = "completed"]
    /\ worker' = [worker EXCEPT ![w] = Free]
    /\ UNCHANGED <<client, calls, returns, clock, faults, crashes>>

(* _complete_db raises inside the try of process_next: to the worker this  *)
(* is a failed attempt, although the row may say completed.                *)
CompleteRaises(w) ==
    /\ worker[w].pc = "complete" /\ Fault
    /\ worker' = [worker EXCEPT ![w].pc = "fail"]
    /\ UNCHANGED <<jobs, client, calls, returns, clock, crashes>>
CompleteUnheard(w) ==
    /\ worker[w].pc = "complete" /\ Fault
    /\ jobs' = [jobs EXCEPT ![worker[w].job].status = "completed"]
    /\ worker' = [worker EXCEPT ![w].pc = "fail"]
    /\ UNCHANGED <<client, calls, returns, clock, crashes>>

(* _fail_or_retry_db counts from the worker's copy of retry_count. *)
Later(retries) == clock + 2^(retries - 1)
RetriesOffByOne(job, retries) ==
    IF retries <= MaxRetries + 1
    THEN [job EXCEPT !.status = "queued", !.retries = retries, !.at = Later(retries)]
    ELSE [job EXCEPT !.status = "failed", !.retries = retries]
Retried(job, retries) ==
    IF retries <= MaxRetries
    THEN [job EXCEPT !.status = "queued", !.retries = retries, !.at = Later(retries)]
    ELSE [job EXCEPT !.status = "failed", !.retries = retries]
FailUncommitted(w) ==
    /\ worker[w].pc = "fail"
    /\ worker' = [worker EXCEPT ![w] = Free]
    /\ UNCHANGED <<jobs, client, calls, returns, clock, faults, crashes>>
FailOrRetry(w) ==
    /\ worker[w].pc = "fail"
    /\ jobs' = [jobs EXCEPT ![worker[w].job] = Retried(@, worker[w].retries + 1)]
    /\ worker' = [worker EXCEPT ![w] = Free]
    /\ UNCHANGED <<client, calls, returns, clock, faults, crashes>>

(* _fail_or_retry_db raises: the exception leaves process_next, as above.  *)
FailRaises(w) ==
    /\ worker[w].pc = "fail" /\ Fault
    /\ worker' = [worker EXCEPT ![w] = Free]
    /\ UNCHANGED <<jobs, client, calls, returns, clock, crashes>>
FailUnheard(w) ==
    /\ worker[w].pc = "fail" /\ Fault
    /\ jobs' = [jobs EXCEPT ![worker[w].job] = Retried(@, worker[w].retries + 1)]
    /\ worker' = [worker EXCEPT ![w] = Free]
    /\ UNCHANGED <<client, calls, returns, clock, crashes>>

(* A worker dies at any point and is started again. *)
Crash(w) ==
    /\ worker[w] # Free
    /\ crashes < MaxCrashes
    /\ crashes' = crashes + 1
    /\ worker' = [worker EXCEPT ![w] = Free]
    /\ UNCHANGED <<jobs, client, calls, returns, clock, faults>>

Tick ==
    /\ clock < MaxTime
    /\ clock' = clock + 1
    /\ UNCHANGED <<jobs, client, worker, calls, returns, faults, crashes>>

-----------------------------------------------------------------------------

Init ==
    /\ jobs = [j \in JobIds |-> NoJob]
    /\ client = [c \in Clients |-> NoRequest]
    /\ worker = [w \in Workers |-> Free]
    /\ calls = [j \in JobIds |-> 0]
    /\ returns = [j \in JobIds |-> 0]
    /\ clock = 0 /\ faults = 0 /\ crashes = 0

Enqueue(c) ==
    \/ \E h \in Hashes : Ask(c, h)
    \/ \E j \in JobIds, delay \in 0..MaxDelay : Insert(c, j, delay)
    \/ InsertRaises(c)

Finish(w) ==
    \/ Complete(w) \/ CompleteRaises(w) \/ CompleteUnheard(w)
    \/ FailOrRetry(w) \/ FailRaises(w) \/ FailUnheard(w)

ProcessNext(w) ==
    \/ \E j \in JobIds : Select(w, j)
    \/ MarkRunning(w) \/ MarkRaises(w) \/ MarkUnheard(w)
    \/ HandlerReturns(w) \/ HandlerRaises(w) \/ Finish(w)

(* Every queued job was run and the ids of the instance are used up. *)
Quiet ==
    /\ \A j \in JobIds : jobs[j].status \notin {"absent", "queued"}
    /\ \A w \in Workers : worker[w] = Free
    /\ UNCHANGED vars

Next ==
    \/ \E c \in Clients : Enqueue(c)
    \/ \E w \in Workers : ProcessNext(w) \/ Crash(w)
    \/ Tick
    \/ Quiet

Spec == Init /\ [][Next]_vars

-----------------------------------------------------------------------------
(* Properties. *)

(* Every variable has its type. *)
TypeOK ==
    /\ jobs \in [JobIds -> Jobs \cup {NoJob}]
    /\ client \in [Clients -> Inserting \cup {NoRequest}]
    /\ worker \in [Workers -> Busy \cup {Free}]
    /\ calls \in [JobIds -> Nat]
    /\ returns \in [JobIds -> Nat]
    /\ clock \in 0..MaxTime
    /\ faults \in 0..MaxFaults
    /\ crashes \in 0..MaxCrashes

Holds(w, j) == worker[w].pc \in {"handle", "complete", "fail"} /\ worker[w].job = j

(* A running job is in the hands of a worker, unless a worker died or an   *)
(* update raised: with any number of workers, however their selections and *)
(* updates interleave, no other running job is orphaned.                   *)
NoOrphan ==
    \A j \in JobIds :
        jobs[j].status = "running"
        => (\E w \in Workers : Holds(w, j)) \/ crashes > 0 \/ faults > 0

(* A completed job was really done: some call of its handler returned.     *)
CompletedReturned ==
    \A j \in JobIds : jobs[j].status = "completed" => returns[j] > 0
=============================================================================
