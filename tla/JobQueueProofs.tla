--------------------------- MODULE JobQueueProofs ---------------------------
(***************************************************************************)
(* Proofs about the job queue, for any jobs, clients, workers and faults:  *)
(* types, no orphaned job, no twins but of clients that crossed, and for   *)
(* jobs that workers did not race for the number of attempts and that they *)
(* live the documented life of JobLife, whose ends are for good.           *)
(***************************************************************************)
EXTENDS JobQueueMC, FiniteSetTheorems, TLAPS

-----------------------------------------------------------------------------
(* How a worker moves. *)

Labels == {"mark", "handle", "complete", "fail"}
AllWorkers == [Workers -> Busy \cup {Free}]

(* A worker with a label is busy, and only such a worker is.               *)
LEMMA AtLabel ==
    ASSUME worker \in AllWorkers, NEW w \in Workers
    PROVE  /\ worker[w].pc \in Labels => worker[w] \in Busy /\ worker[w].job \in JobIds
                                         /\ worker[w].retries \in Nat
           /\ worker[w] # Free <=> worker[w].pc \in Labels
BY DEF AllWorkers, Busy, Free, Labels

LEMMA Advance ==
    ASSUME worker \in AllWorkers, NEW w \in Workers, worker[w].pc \in Labels,
           NEW pc \in Labels, worker' = [worker EXCEPT ![w].pc = pc]
    PROVE  /\ worker' \in AllWorkers
           /\ worker'[w].pc = pc
           /\ worker'[w].job = worker[w].job
           /\ worker'[w].retries = worker[w].retries
           /\ \A v \in Workers \ {w} : worker'[v] = worker[v]
<1> DEFINE r == [worker[w] EXCEPT !.pc = pc]
<1>1. worker[w] \in Busy
  BY AtLabel
<1>2. r \in Busy /\ r.pc = pc /\ r.job = worker[w].job /\ r.retries = worker[w].retries
  BY <1>1 DEF Busy, Labels
<1>3. worker' = [worker EXCEPT ![w] = r]
  BY DEF AllWorkers
<1> QED
  BY <1>2, <1>3 DEF AllWorkers

LEMMA Release ==
    ASSUME worker \in AllWorkers, NEW w \in Workers, worker' = [worker EXCEPT ![w] = Free]
    PROVE  /\ worker' \in AllWorkers
           /\ worker'[w] = Free
           /\ worker'[w].pc = "idle"
           /\ \A v \in Workers \ {w} : worker'[v] = worker[v]
<1>1. Free.pc = "idle"
  BY DEF Free
<1> QED
  BY <1>1 DEF AllWorkers

(* MarkRunning takes the row's retry_count along.                          *)
LEMMA Marks ==
    ASSUME TypeOK, NEW w \in Workers, MarkRunning(w), jobs[worker[w].job] \in Jobs
    PROVE  /\ worker' \in AllWorkers
           /\ worker'[w].pc = "handle"
           /\ worker'[w].job = worker[w].job
           /\ worker'[w].retries = jobs[worker[w].job].retries
           /\ \A v \in Workers \ {w} : worker'[v] = worker[v]
           /\ jobs' \in [JobIds -> Jobs \cup {NoJob}]
           /\ jobs'[worker[w].job].status = "running"
           /\ jobs'[worker[w].job].retries = jobs[worker[w].job].retries
           /\ \A k \in JobIds \ {worker[w].job} : jobs'[k] = jobs[k]
<1> DEFINE j == worker[w].job
           r == [worker[w] EXCEPT !.pc = "handle", !.retries = jobs[j].retries]
           x == [jobs[j] EXCEPT !.status = "running"]
<1>1. worker \in AllWorkers /\ worker[w].pc \in Labels
  BY DEF TypeOK, MarkRunning, AllWorkers, Labels
<1>2. worker[w] \in Busy /\ j \in JobIds
  BY <1>1, AtLabel
<1>3. r \in Busy /\ r.pc = "handle" /\ r.job = j /\ r.retries = jobs[j].retries
  BY <1>2 DEF Busy, Jobs
<1>4. x \in Jobs /\ x.status = "running" /\ x.retries = jobs[j].retries
  BY DEF Jobs
<1>5. worker' = [worker EXCEPT ![w] = r] /\ jobs' = [jobs EXCEPT ![j] = x]
  BY <1>1, <1>2 DEF MarkRunning, AllWorkers, TypeOK
<1> QED
  BY <1>1, <1>2, <1>3, <1>4, <1>5 DEF AllWorkers, TypeOK

(* What becomes of a job whose attempt failed.                             *)
LEMMA PowerOfTwo == ASSUME NEW n \in Nat PROVE 2^n \in Int
BY SMT

LEMMA RetriedJob ==
    ASSUME clock \in Nat, NEW job \in Jobs, NEW n \in Nat
    PROVE  /\ Retried(job, n + 1) \in Jobs
           /\ Retried(job, n + 1).retries = n + 1
           /\ Retried(job, n + 1).status = IF n + 1 <= MaxRetries THEN "queued" ELSE "failed"
<1>1. Later(n + 1) \in Int
  <2>1. n + 1 - 1 = n
    OBVIOUS
  <2>2. 2^(n + 1 - 1) \in Int
    BY <2>1, PowerOfTwo
  <2> QED
    BY <2>2 DEF Later
<1>2. n + 1 \in Nat
  OBVIOUS
<1>3. CASE n + 1 <= MaxRetries
  <2> DEFINE a == [job EXCEPT !.status = "queued"]
             b == [a EXCEPT !.retries = n + 1]
             c == [b EXCEPT !.at = Later(n + 1)]
  <2>1. a \in Jobs /\ a.status = "queued"
    BY DEF Jobs
  <2>2. b \in Jobs /\ b.status = "queued" /\ b.retries = n + 1
    BY <2>1, <1>2 DEF Jobs
  <2>3. c \in Jobs /\ c.status = "queued" /\ c.retries = n + 1
    BY <2>2, <1>1 DEF Jobs
  <2>4. Retried(job, n + 1) = c
    BY <1>3, Zenon DEF Retried
  <2> QED
    BY <1>3, <2>3, <2>4
<1>4. CASE ~ (n + 1 <= MaxRetries)
  <2> DEFINE a == [job EXCEPT !.status = "failed"]
             b == [a EXCEPT !.retries = n + 1]
  <2>1. a \in Jobs /\ a.status = "failed"
    BY DEF Jobs
  <2>2. b \in Jobs /\ b.status = "failed" /\ b.retries = n + 1
    BY <2>1, <1>2 DEF Jobs
  <2>3. Retried(job, n + 1) = b
    BY <1>4, Zenon DEF Retried
  <2> QED
    BY <1>4, <2>2, <2>3
<1> QED
  BY <1>3, <1>4

-----------------------------------------------------------------------------
(* Types.  A busy worker's job is a row. *)

TakenIsRow == \A w \in Workers : worker[w].pc \in Labels => jobs[worker[w].job] # NoJob

Typed == TypeOK /\ TakenIsRow

LEMMA InitTyped == Init => Typed
BY ConstantsOK DEF Init, Typed, TypeOK, TakenIsRow, Free, Labels

(* What is in hand in a typed state. *)
LEMMA InHand ==
    ASSUME Typed, NEW w \in Workers, worker[w].pc \in Labels
    PROVE  /\ worker \in AllWorkers
           /\ worker[w] \in Busy
           /\ worker[w].job \in JobIds
           /\ worker[w].retries \in Nat
           /\ jobs[worker[w].job] \in Jobs
BY AtLabel DEF Typed, TypeOK, TakenIsRow, AllWorkers

(* Completing or failing a job changes its row only, to another row.       *)
LEMMA RowChanges ==
    ASSUME Typed, NEW j \in JobIds, NEW row \in Jobs, jobs' = [jobs EXCEPT ![j] = row]
    PROVE  /\ jobs' \in [JobIds -> Jobs \cup {NoJob}]
           /\ jobs'[j] = row /\ row # NoJob
           /\ \A k \in JobIds \ {j} : jobs'[k] = jobs[k]
           /\ \A k \in JobIds : jobs[k] # NoJob => jobs'[k] # NoJob
<1>1. row # NoJob
  BY DEF Jobs, NoJob
<1> QED
  BY <1>1 DEF Typed, TypeOK

LEMMA StartsRow ==
    ASSUME Typed, NEW w \in Workers, MarkUnheard(w)
    PROVE  \E row \in Jobs : /\ row.status = "running"
                             /\ row.retries = jobs[worker[w].job].retries
                             /\ jobs' = [jobs EXCEPT ![worker[w].job] = row]
<1> DEFINE row == [jobs[worker[w].job] EXCEPT !.status = "running"]
<1>1. worker[w].job \in JobIds /\ jobs[worker[w].job] \in Jobs
  BY InHand DEF MarkUnheard, Labels
<1>2. row \in Jobs /\ row.status = "running" /\ row.retries = jobs[worker[w].job].retries
  BY <1>1 DEF Jobs
<1>3. jobs' = [jobs EXCEPT ![worker[w].job] = row]
  BY <1>1 DEF MarkUnheard, Typed, TypeOK
<1> QED
  BY <1>2, <1>3

LEMMA CompletesRow ==
    ASSUME Typed, NEW w \in Workers, Complete(w) \/ CompleteUnheard(w)
    PROVE  \E row \in Jobs : /\ row.status = "completed"
                             /\ row.retries = jobs[worker[w].job].retries
                             /\ jobs' = [jobs EXCEPT ![worker[w].job] = row]
<1> DEFINE row == [jobs[worker[w].job] EXCEPT !.status = "completed"]
<1>1. worker[w].job \in JobIds /\ jobs[worker[w].job] \in Jobs
  BY InHand DEF Complete, CompleteUnheard, Labels
<1>2. row \in Jobs /\ row.status = "completed" /\ row.retries = jobs[worker[w].job].retries
  BY <1>1 DEF Jobs
<1>3. jobs' = [jobs EXCEPT ![worker[w].job] = row]
  BY <1>1 DEF Complete, CompleteUnheard, Typed, TypeOK
<1> QED
  BY <1>2, <1>3

LEMMA RetriesRow ==
    ASSUME Typed, NEW w \in Workers, FailOrRetry(w) \/ FailUnheard(w)
    PROVE  \E row \in Jobs :
             /\ row.retries = worker[w].retries + 1
             /\ row.status = IF row.retries <= MaxRetries THEN "queued" ELSE "failed"
             /\ jobs' = [jobs EXCEPT ![worker[w].job] = row]
<1> DEFINE row == Retried(jobs[worker[w].job], worker[w].retries + 1)
<1>1. worker[w].job \in JobIds /\ jobs[worker[w].job] \in Jobs /\ worker[w].retries \in Nat
  BY InHand DEF FailOrRetry, FailUnheard, Labels
<1>2. clock \in Nat
  BY ConstantsOK DEF Typed, TypeOK
<1>3. row \in Jobs /\ row.retries = worker[w].retries + 1
      /\ row.status = IF row.retries <= MaxRetries THEN "queued" ELSE "failed"
  BY <1>1, <1>2, RetriedJob
<1>4. jobs' = [jobs EXCEPT ![worker[w].job] = row]
  BY <1>1 DEF FailOrRetry, FailUnheard, Typed, TypeOK
<1> QED
  BY <1>3, <1>4

LEMMA EnqueueTyped ==
    ASSUME Typed, NEW c \in Clients, Enqueue(c)
    PROVE  Typed'
<1>1. ASSUME NEW h \in Hashes, Ask(c, h) PROVE Typed'
  BY <1>1 DEF Ask, Typed, TypeOK, TakenIsRow, Inserting
<1>2. ASSUME NEW j \in JobIds, NEW delay \in 0..MaxDelay, Insert(c, j, delay)
      PROVE  Typed'
  <2> DEFINE row == [status |-> "queued", hash |-> client[c].hash,
                     retries |-> 0, at |-> clock + delay]
  <2>1. client[c] \in Inserting
    BY <1>2 DEF Insert, Typed, TypeOK, NoRequest
  <2>2. row \in Jobs
    BY <2>1, ConstantsOK DEF Typed, TypeOK, Inserting, Jobs
  <2>3. jobs' = [jobs EXCEPT ![j] = row]
    BY <1>2 DEF Insert
  <2>4. jobs' \in [JobIds -> Jobs \cup {NoJob}]
        /\ \A k \in JobIds : jobs[k] # NoJob => jobs'[k] # NoJob
    BY <2>2, <2>3, RowChanges
  <2>5. TakenIsRow'
    BY <1>2, <2>4, AtLabel DEF Insert, Typed, TypeOK, TakenIsRow, AllWorkers
  <2> QED
    BY <1>2, <2>4, <2>5 DEF Insert, Typed, TypeOK
<1>3. CASE InsertRaises(c)
  BY <1>3, ConstantsOK DEF InsertRaises, Fault, Typed, TypeOK, TakenIsRow
<1> QED
  BY <1>1, <1>2, <1>3 DEF Enqueue

(* A worker that goes on, or is free again, keeps hold of a row.           *)
LEMMA GoesOnTyped ==
    ASSUME Typed, NEW w \in Workers, worker[w].pc \in Labels,
           NEW pc \in Labels, worker' = [worker EXCEPT ![w].pc = pc],
           jobs' = jobs \/ \A k \in JobIds : jobs[k] # NoJob => jobs'[k] # NoJob
    PROVE  worker' \in AllWorkers /\ TakenIsRow'
<1>1. worker \in AllWorkers
  BY DEF Typed, TypeOK, AllWorkers
<1>2. /\ worker' \in AllWorkers
      /\ worker'[w].job = worker[w].job
      /\ \A v \in Workers \ {w} : worker'[v] = worker[v]
  BY <1>1, Advance
<1>3. \A v \in Workers : worker[v].pc \in Labels => worker[v].job \in JobIds
  BY <1>1, AtLabel
<1> QED
  BY <1>2, <1>3 DEF Typed, TakenIsRow

LEMMA FreedTyped ==
    ASSUME Typed, NEW w \in Workers, worker' = [worker EXCEPT ![w] = Free],
           \A k \in JobIds : jobs[k] # NoJob => jobs'[k] # NoJob
    PROVE  worker' \in AllWorkers /\ TakenIsRow'
<1>1. worker \in AllWorkers
  BY DEF Typed, TypeOK, AllWorkers
<1>2. /\ worker' \in AllWorkers
      /\ worker'[w].pc = "idle"
      /\ \A v \in Workers \ {w} : worker'[v] = worker[v]
  BY <1>1, Release
<1>3. \A v \in Workers : worker[v].pc \in Labels => worker[v].job \in JobIds
  BY <1>1, AtLabel
<1> QED
  BY <1>2, <1>3 DEF Typed, TakenIsRow, Labels

LEMMA WorkerTyped ==
    ASSUME Typed, NEW w \in Workers, ProcessNext(w) \/ Crash(w)
    PROVE  Typed'
<1>0. worker \in AllWorkers
  BY DEF Typed, TypeOK, AllWorkers
<1>1. ASSUME NEW j \in JobIds, Select(w, j) PROVE Typed'
  <2> DEFINE r == [pc |-> "mark", job |-> j, retries |-> 0]
  <2>1. r \in Busy
    BY DEF Busy
  <2>2. jobs[j] # NoJob
    BY <1>1 DEF Select, FirstQueued, Queued, NoJob
  <2>3. worker' = [worker EXCEPT ![w] = r]
    BY <1>1 DEF Select
  <2>4. TakenIsRow'
    BY <1>0, <1>1, <2>2, <2>3 DEF Select, Typed, TakenIsRow, AllWorkers
  <2> QED
    BY <1>1, <2>1, <2>3, <2>4 DEF Select, Typed, TypeOK
<1>2. CASE MarkRunning(w)
  <2>1. worker[w].pc \in Labels
    BY <1>2 DEF MarkRunning, Labels
  <2>2. worker[w].job \in JobIds /\ jobs[worker[w].job] \in Jobs
    BY <2>1, InHand
  <2>3. /\ worker' \in AllWorkers
        /\ worker'[w].job = worker[w].job
        /\ \A v \in Workers \ {w} : worker'[v] = worker[v]
        /\ jobs' \in [JobIds -> Jobs \cup {NoJob}]
        /\ jobs'[worker[w].job].status = "running"
        /\ \A k \in JobIds \ {worker[w].job} : jobs'[k] = jobs[k]
    BY <1>2, <2>2, Marks DEF Typed
  <2>4. jobs'[worker[w].job] # NoJob
    BY <2>3 DEF NoJob
  <2>5. TakenIsRow'
    BY <1>0, <2>3, <2>4, AtLabel DEF Typed, TakenIsRow
  <2>6. calls' \in [JobIds -> Nat]
    BY <1>2, <2>2 DEF MarkRunning, Typed, TypeOK
  <2> QED
    BY <1>2, <2>3, <2>5, <2>6 DEF MarkRunning, Typed, TypeOK, AllWorkers
<1>3. CASE HandlerReturns(w)
  <2>1. worker' \in AllWorkers /\ TakenIsRow'
    BY <1>3, GoesOnTyped DEF HandlerReturns, Labels
  <2>2. worker[w].job \in JobIds
    BY <1>3, InHand DEF HandlerReturns, Labels
  <2> QED
    BY <1>3, <2>1, <2>2 DEF HandlerReturns, Typed, TypeOK, AllWorkers
<1>4. CASE HandlerRaises(w)
  <2>1. worker' \in AllWorkers /\ TakenIsRow'
    BY <1>4, GoesOnTyped DEF HandlerRaises, Labels
  <2> QED
    BY <1>4, <2>1 DEF HandlerRaises, Typed, TypeOK, AllWorkers
<1>5. CASE CompleteUnheard(w)
  <2>1. PICK row \in Jobs : jobs' = [jobs EXCEPT ![worker[w].job] = row]
    BY <1>5, CompletesRow
  <2>2. worker[w].job \in JobIds
    BY <1>5, InHand DEF CompleteUnheard, Labels
  <2>3. jobs' \in [JobIds -> Jobs \cup {NoJob}]
        /\ \A k \in JobIds : jobs[k] # NoJob => jobs'[k] # NoJob
    BY <2>1, <2>2, RowChanges
  <2>4. worker' \in AllWorkers /\ TakenIsRow'
    BY <1>5, <2>3, GoesOnTyped DEF CompleteUnheard, Labels
  <2> QED
    BY <1>5, <2>3, <2>4, ConstantsOK DEF CompleteUnheard, Fault, Typed, TypeOK, AllWorkers
<1>6. CASE CompleteRaises(w)
  <2>1. worker' \in AllWorkers /\ TakenIsRow'
    BY <1>6, GoesOnTyped DEF CompleteRaises, Labels
  <2> QED
    BY <1>6, <2>1, ConstantsOK DEF CompleteRaises, Fault, Typed, TypeOK, AllWorkers
<1>7. CASE Complete(w) \/ FailOrRetry(w) \/ FailUnheard(w) \/ MarkUnheard(w)
  <2>1. PICK row \in Jobs : jobs' = [jobs EXCEPT ![worker[w].job] = row]
    BY <1>7, CompletesRow, RetriesRow, StartsRow
  <2>2. worker[w].job \in JobIds
    BY <1>7, InHand DEF Complete, FailOrRetry, FailUnheard, MarkUnheard, Labels
  <2>3. jobs' \in [JobIds -> Jobs \cup {NoJob}]
        /\ \A k \in JobIds : jobs[k] # NoJob => jobs'[k] # NoJob
    BY <2>1, <2>2, RowChanges
  <2>4. worker' \in AllWorkers /\ TakenIsRow'
    BY <1>7, <2>3, FreedTyped DEF Complete, FailOrRetry, FailUnheard, MarkUnheard
  <2> QED
    BY <1>7, <2>3, <2>4, ConstantsOK
       DEF Complete, FailOrRetry, FailUnheard, MarkUnheard, Fault, Typed, TypeOK, AllWorkers
<1>8. CASE FailRaises(w) \/ MarkRaises(w) \/ Crash(w)
  <2>1. worker' \in AllWorkers /\ TakenIsRow'
    BY <1>8, FreedTyped DEF FailRaises, MarkRaises, Crash
  <2> QED
    BY <1>8, <2>1, ConstantsOK DEF FailRaises, MarkRaises, Fault, Crash, Typed, TypeOK, AllWorkers
<1> QED
  BY <1>1, <1>2, <1>3, <1>4, <1>5, <1>6, <1>7, <1>8 DEF ProcessNext, Finish

LEMMA NextTyped == Typed /\ [Next]_vars => Typed'
<1> SUFFICES ASSUME Typed, [Next]_vars PROVE Typed'
  OBVIOUS
<1>1. CASE \E c \in Clients : Enqueue(c)
  BY <1>1, EnqueueTyped
<1>2. CASE \E w \in Workers : ProcessNext(w) \/ Crash(w)
  BY <1>2, WorkerTyped
<1>3. CASE Tick
  BY <1>3, ConstantsOK DEF Tick, Typed, TypeOK, TakenIsRow
<1>4. CASE UNCHANGED vars
  BY <1>4 DEF vars, Typed, TypeOK, TakenIsRow
<1> QED
  BY <1>1, <1>2, <1>3, <1>4 DEF Next, Quiet

(* Every variable has its type, for any number of jobs and workers.        *)
THEOREM TypeCorrect == Spec => []TypeOK
<1>1. Spec => []Typed
  BY InitTyped, NextTyped, PTL DEF Spec
<1> QED
  BY <1>1, PTL DEF Typed

-----------------------------------------------------------------------------
(* A running job is in the hands of a worker. *)

Trouble == crashes > 0 \/ faults > 0

(* What a step of w must do so that no job is orphaned.                    *)
LEMMA NoneOrphaned ==
    ASSUME NoOrphan, NEW w \in Workers,
           Trouble => Trouble',
           \A v \in Workers \ {w} : worker'[v] = worker[v],
           \A j \in JobIds :
               jobs'[j].status = "running" => jobs[j].status = "running" \/ Holds(w, j)',
           \A j \in JobIds :
               Holds(w, j) => Holds(w, j)' \/ jobs'[j].status # "running" \/ Trouble'
    PROVE  NoOrphan'
<1> SUFFICES ASSUME NEW j \in JobIds, jobs'[j].status = "running", ~ Trouble'
             PROVE  \E v \in Workers : Holds(v, j)'
  BY DEF NoOrphan, Trouble
<1>1. CASE Holds(w, j)'
  BY <1>1
<1>2. CASE ~ Holds(w, j)'
  <2>1. jobs[j].status = "running" /\ ~ Trouble
    BY <1>2
  <2>2. PICK v \in Workers : Holds(v, j)
    BY <2>1 DEF NoOrphan, Trouble
  <2>3. v # w
    BY <1>2, <2>2
  <2> QED
    BY <2>2, <2>3 DEF Holds
<1> QED
  BY <1>1, <1>2

(* A worker that goes on has in its hands what it had.                     *)
LEMMA GoesOnHeld ==
    ASSUME Typed, NEW w \in Workers, worker[w].pc \in Labels,
           NEW pc \in Labels \ {"mark"}, worker' = [worker EXCEPT ![w].pc = pc]
    PROVE  /\ \A v \in Workers \ {w} : worker'[v] = worker[v]
           /\ \A j \in JobIds : Holds(w, j) => Holds(w, j)'
<1>0. worker \in AllWorkers
  BY DEF Typed, TypeOK, AllWorkers
<1>1. /\ worker'[w].pc = pc
      /\ worker'[w].job = worker[w].job
      /\ \A v \in Workers \ {w} : worker'[v] = worker[v]
  BY <1>0, Advance
<1> QED
  BY <1>1 DEF Holds, Labels

(* A row that the worker lets go of is not running, and no other changes.  *)
LEMMA LetGo ==
    ASSUME Typed, NoOrphan, NEW w \in Workers, worker[w].pc \in Labels, NEW row \in Jobs,
           row.status # "running", jobs' = [jobs EXCEPT ![worker[w].job] = row],
           worker' = [worker EXCEPT ![w] = Free], crashes' = crashes, faults' = faults
    PROVE  NoOrphan'
<1>1. worker \in AllWorkers /\ worker[w].job \in JobIds
  BY InHand
<1>2. \A v \in Workers \ {w} : worker'[v] = worker[v]
  BY <1>1, Release
<1>3. jobs'[worker[w].job] = row /\ \A k \in JobIds \ {worker[w].job} : jobs'[k] = jobs[k]
  BY <1>1, RowChanges
<1>4. \A j \in JobIds : jobs'[j].status = "running" => jobs[j].status = "running"
  BY <1>3
<1>5. \A j \in JobIds : Holds(w, j) => jobs'[j].status # "running"
  BY <1>3 DEF Holds
<1> QED
  BY <1>2, <1>4, <1>5, NoneOrphaned DEF Trouble

LEMMA WorkerOrphans ==
    ASSUME Typed, NoOrphan, NEW w \in Workers, ProcessNext(w) \/ Crash(w)
    PROVE  NoOrphan'
<1>0. worker \in AllWorkers /\ faults \in Nat /\ crashes \in Nat
  BY ConstantsOK DEF Typed, TypeOK, AllWorkers
<1>1. ASSUME NEW j \in JobIds, Select(w, j) PROVE NoOrphan'
  <2>1. \A v \in Workers \ {w} : worker'[v] = worker[v]
    BY <1>0, <1>1 DEF Select, AllWorkers
  <2>2. \A k \in JobIds : ~ Holds(w, k)
    BY <1>1 DEF Select, Holds, Free
  <2> QED
    BY <1>1, <2>1, <2>2, NoneOrphaned DEF Select, Trouble
<1>2. CASE MarkRunning(w)
  <2>1. worker[w].pc = "mark" /\ worker[w].job \in JobIds /\ jobs[worker[w].job] \in Jobs
    BY <1>2, InHand DEF MarkRunning, Labels
  <2>2. /\ worker'[w].pc = "handle"
        /\ worker'[w].job = worker[w].job
        /\ \A v \in Workers \ {w} : worker'[v] = worker[v]
        /\ \A k \in JobIds \ {worker[w].job} : jobs'[k] = jobs[k]
    BY <1>2, <2>1, Marks DEF Typed
  <2>3. \A j \in JobIds :
          jobs'[j].status = "running" => jobs[j].status = "running" \/ Holds(w, j)'
    BY <2>2 DEF Holds
  <2>4. \A j \in JobIds : ~ Holds(w, j)
    BY <2>1 DEF Holds
  <2> QED
    BY <1>2, <2>2, <2>3, <2>4, NoneOrphaned DEF MarkRunning, Trouble
<1>3. CASE HandlerReturns(w) \/ HandlerRaises(w)
  <2>1. /\ \A v \in Workers \ {w} : worker'[v] = worker[v]
        /\ \A j \in JobIds : Holds(w, j) => Holds(w, j)'
    BY <1>3, GoesOnHeld DEF HandlerReturns, HandlerRaises, Labels
  <2> QED
    BY <1>3, <2>1, NoneOrphaned DEF HandlerReturns, HandlerRaises, Trouble
<1>4. CASE \/ MarkRaises(w) \/ MarkUnheard(w) \/ CompleteRaises(w) \/ CompleteUnheard(w)
           \/ FailRaises(w) \/ FailUnheard(w) \/ Crash(w)
  <2>1. Trouble'
    BY <1>0, <1>4 DEF MarkRaises, MarkUnheard, CompleteRaises, CompleteUnheard, FailRaises,
                      FailUnheard, Crash, Fault, Trouble
  <2> QED
    BY <2>1 DEF NoOrphan, Trouble
<1>5. CASE Complete(w)
  <2>1. PICK row \in Jobs : row.status = "completed"
                            /\ jobs' = [jobs EXCEPT ![worker[w].job] = row]
    BY <1>5, CompletesRow
  <2> QED
    BY <1>5, <2>1, LetGo DEF Complete, Labels
<1>6. CASE FailOrRetry(w)
  <2>1. PICK row \in Jobs : row.status # "running"
                            /\ jobs' = [jobs EXCEPT ![worker[w].job] = row]
    BY <1>6, RetriesRow
  <2> QED
    BY <1>6, <2>1, LetGo DEF FailOrRetry, Labels
<1> QED
  BY <1>1, <1>2, <1>3, <1>4, <1>5, <1>6 DEF ProcessNext, Finish

LEMMA NextOrphans == Typed /\ NoOrphan /\ [Next]_vars => NoOrphan'
<1> SUFFICES ASSUME Typed, NoOrphan, [Next]_vars PROVE NoOrphan'
  OBVIOUS
<1>1. CASE \E c \in Clients : Enqueue(c)
  <2>1. UNCHANGED <<worker, crashes>> /\ faults' \in {faults, faults + 1} /\ faults \in Nat
    BY <1>1, ConstantsOK DEF Enqueue, Ask, Insert, InsertRaises, Fault, Typed, TypeOK
  <2>2. \A j \in JobIds : jobs'[j].status = "running" => jobs[j].status = "running"
    <3>1. CASE jobs' = jobs
      BY <3>1
    <3>2. ASSUME NEW c \in Clients, NEW i \in JobIds, NEW delay \in 0..MaxDelay,
                 Insert(c, i, delay)
          PROVE  \A j \in JobIds : jobs'[j].status = "running" => jobs[j].status = "running"
      <4>1. jobs'[i].status = "queued" /\ \A j \in JobIds \ {i} : jobs'[j] = jobs[j]
        BY <3>2 DEF Insert, Typed, TypeOK
      <4> QED
        BY <4>1
    <3> QED
      BY <1>1, <3>1, <3>2 DEF Enqueue, Ask, InsertRaises
  <2>3. faults > 0 => faults' > 0
    BY <2>1
  <2> QED
    BY <2>1, <2>2, <2>3 DEF NoOrphan, Holds
<1>2. CASE \E w \in Workers : ProcessNext(w) \/ Crash(w)
  BY <1>2, WorkerOrphans
<1>3. CASE UNCHANGED <<jobs, worker, crashes, faults>>
  BY <1>3 DEF NoOrphan, Holds
<1> QED
  BY <1>1, <1>2, <1>3 DEF Next, Quiet, Tick, vars

(* However many workers select and update, a running job is in the hands   *)
(* of one of them, unless one died or could not record a failure.          *)
THEOREM NoneOrphanedEver == Spec => []NoOrphan
<1>1. Init => NoOrphan
  BY DEF Init, NoOrphan, NoJob
<1>2. Spec => []Typed
  BY InitTyped, NextTyped, PTL DEF Spec
<1> QED
  BY <1>1, <1>2, NextOrphans, PTL DEF Spec

-----------------------------------------------------------------------------
(* A completed job was done. *)

Done(j) == returns[j] > 0
DoneFirst == \A w \in Workers : worker[w].pc = "complete" => Done(worker[w].job)

LEMMA WorkerDone ==
    ASSUME Typed, CompletedReturned, DoneFirst, NEW w \in Workers, ProcessNext(w) \/ Crash(w)
    PROVE  CompletedReturned' /\ DoneFirst'
<1>0. worker \in AllWorkers /\ \A j \in JobIds : returns[j] \in Nat
  BY DEF Typed, TypeOK, AllWorkers
<1>1. ASSUME NEW j \in JobIds, Select(w, j) PROVE CompletedReturned' /\ DoneFirst'
  BY <1>0, <1>1 DEF Select, CompletedReturned, DoneFirst, Done, AllWorkers
<1>2. CASE MarkRunning(w)
  <2>1. worker[w].job \in JobIds /\ jobs[worker[w].job] \in Jobs
    BY <1>2, InHand DEF MarkRunning, Labels
  <2>2. /\ worker'[w].pc = "handle"
        /\ \A v \in Workers \ {w} : worker'[v] = worker[v]
        /\ jobs'[worker[w].job].status = "running"
        /\ \A k \in JobIds \ {worker[w].job} : jobs'[k] = jobs[k]
    BY <1>2, <2>1, Marks DEF Typed
  <2> QED
    BY <1>2, <2>2 DEF MarkRunning, CompletedReturned, DoneFirst, Done
<1>3. CASE HandlerReturns(w)
  <2>1. worker[w].job \in JobIds /\ worker[w].pc \in Labels
    BY <1>3, InHand DEF HandlerReturns, Labels
  <2>2. /\ worker'[w].job = worker[w].job
        /\ \A v \in Workers \ {w} : worker'[v] = worker[v]
    BY <1>0, <1>3, <2>1, Advance DEF HandlerReturns, Labels
  <2>3. returns'[worker[w].job] > 0
    BY <1>0, <1>3, <2>1 DEF HandlerReturns, Typed, TypeOK
  <2>4. \A j \in JobIds : Done(j) => Done(j)'
    BY <1>0, <1>3, <2>1 DEF HandlerReturns, Typed, TypeOK, Done
  <2>5. \A v \in Workers : worker[v].pc = "complete" => worker[v].job \in JobIds
    BY <1>0, AtLabel DEF Labels
  <2>6. DoneFirst'
    BY <2>2, <2>3, <2>4, <2>5 DEF DoneFirst, Done
  <2>7. CompletedReturned'
    BY <1>3, <2>4 DEF HandlerReturns, CompletedReturned, Done
  <2> QED
    BY <2>6, <2>7
<1>4. CASE HandlerRaises(w) \/ CompleteRaises(w)
  <2>1. /\ worker'[w].pc = "fail"
        /\ \A v \in Workers \ {w} : worker'[v] = worker[v]
    BY <1>0, <1>4, Advance DEF HandlerRaises, CompleteRaises, Labels
  <2> QED
    BY <1>4, <2>1 DEF HandlerRaises, CompleteRaises, CompletedReturned, DoneFirst, Done
<1>5. CASE Complete(w) \/ CompleteUnheard(w)
  <2>1. PICK row \in Jobs : jobs' = [jobs EXCEPT ![worker[w].job] = row]
    BY <1>5, CompletesRow
  <2>2. worker[w].job \in JobIds
    BY <1>5, InHand DEF Complete, CompleteUnheard, Labels
  <2>3. \A k \in JobIds \ {worker[w].job} : jobs'[k] = jobs[k]
    BY <2>1, <2>2, RowChanges
  <2>4. worker'[w].pc \in {"idle", "fail"} /\ \A v \in Workers \ {w} : worker'[v] = worker[v]
    BY <1>0, <1>5, Release, Advance DEF Complete, CompleteUnheard, Labels
  <2>5. Done(worker[w].job) /\ returns' = returns
    BY <1>5 DEF Complete, CompleteUnheard, DoneFirst
  <2> QED
    BY <2>3, <2>4, <2>5 DEF CompletedReturned, DoneFirst, Done
<1>6. CASE FailOrRetry(w) \/ FailUnheard(w) \/ MarkUnheard(w)
  <2>1. PICK row \in Jobs : row.status # "completed"
                            /\ jobs' = [jobs EXCEPT ![worker[w].job] = row]
    BY <1>6, RetriesRow, StartsRow
  <2>2. worker[w].job \in JobIds
    BY <1>6, InHand DEF FailOrRetry, FailUnheard, MarkUnheard, Labels
  <2>3. /\ jobs'[worker[w].job] = row
        /\ \A k \in JobIds \ {worker[w].job} : jobs'[k] = jobs[k]
    BY <2>1, <2>2, RowChanges
  <2>4. worker'[w].pc = "idle" /\ \A v \in Workers \ {w} : worker'[v] = worker[v]
    BY <1>0, <1>6, Release DEF FailOrRetry, FailUnheard, MarkUnheard
  <2> QED
    BY <1>6, <2>1, <2>3, <2>4
       DEF FailOrRetry, FailUnheard, MarkUnheard, CompletedReturned, DoneFirst, Done
<1>7. CASE FailRaises(w) \/ MarkRaises(w) \/ Crash(w)
  <2>1. worker'[w].pc = "idle" /\ \A v \in Workers \ {w} : worker'[v] = worker[v]
    BY <1>0, <1>7, Release DEF FailRaises, MarkRaises, Crash
  <2> QED
    BY <1>7, <2>1 DEF FailRaises, MarkRaises, Crash, CompletedReturned, DoneFirst, Done
<1> QED
  BY <1>1, <1>2, <1>3, <1>4, <1>5, <1>6, <1>7 DEF ProcessNext, Finish

(* A job is marked completed only after a call of its handler returned.    *)
THEOREM CompletedWasDone == Spec => []CompletedReturned
<1>1. Init => CompletedReturned /\ DoneFirst
  BY DEF Init, CompletedReturned, DoneFirst, NoJob, Free
<1>2. Typed /\ CompletedReturned /\ DoneFirst /\ [Next]_vars => (CompletedReturned /\ DoneFirst)'
  <2> SUFFICES ASSUME Typed, CompletedReturned, DoneFirst, [Next]_vars
               PROVE  CompletedReturned' /\ DoneFirst'
    OBVIOUS
  <2>1. CASE \E c \in Clients : Enqueue(c)
    <3>1. UNCHANGED <<worker, returns>>
      BY <2>1 DEF Enqueue, Ask, Insert, InsertRaises
    <3>2. CASE jobs' = jobs
      BY <3>1, <3>2 DEF CompletedReturned, DoneFirst, Done
    <3>3. ASSUME NEW c \in Clients, NEW i \in JobIds, NEW delay \in 0..MaxDelay,
                 Insert(c, i, delay)
          PROVE  CompletedReturned' /\ DoneFirst'
      <4>1. jobs'[i].status = "queued" /\ \A j \in JobIds \ {i} : jobs'[j] = jobs[j]
        BY <3>3 DEF Insert, Typed, TypeOK
      <4> QED
        BY <3>1, <4>1 DEF CompletedReturned, DoneFirst, Done
    <3> QED
      BY <2>1, <3>2, <3>3 DEF Enqueue, Ask, InsertRaises
  <2>2. CASE \E w \in Workers : ProcessNext(w) \/ Crash(w)
    BY <2>2, WorkerDone
  <2>3. CASE UNCHANGED <<jobs, worker, returns>>
    BY <2>3 DEF CompletedReturned, DoneFirst, Done
  <2> QED
    BY <2>1, <2>2, <2>3 DEF Next, Quiet, Tick, vars
<1>3. Spec => []Typed
  BY InitTyped, NextTyped, PTL DEF Spec
<1> QED
  BY <1>1, <1>2, <1>3, PTL DEF Spec

-----------------------------------------------------------------------------
(* Attempts of the jobs that workers did not race for. *)

(* What the status of a job says of the calls of its handler.              *)
Counted(j) ==
    /\ jobs[j] = NoJob => calls[j] = 0
    /\ jobs[j].status = "queued" => calls[j] = jobs[j].retries /\ calls[j] <= MaxRetries
    /\ jobs[j].status \in {"running", "completed"} => calls[j] <= MaxRetries + 1
    /\ jobs[j].status = "failed" => calls[j] = MaxRetries + 1

(* What a worker that took the job knows of it: if the attempt is a failed *)
(* one to the worker, the row may yet say completed.                       *)
Fits(w, j) ==
    Takes(w, j) =>
        /\ worker[w].pc = "mark" => jobs[j].status = "queued"
        /\ worker[w].pc # "mark" =>
               /\ jobs[j].status \in {"running", "completed"}
               /\ jobs[j].status = "completed" => worker[w].pc = "fail"
               /\ worker[w].retries = jobs[j].retries
               /\ calls[j] = jobs[j].retries + 1

Unraced == \A j \in JobIds \ raced : Counted(j) /\ \A w \in Workers : Fits(w, j)

HTyped == Typed /\ Racing \subseteq raced
HInv == HTyped /\ Unraced

(* Of a job that is not raced for there is one taker at most.              *)
LEMMA Alone ==
    ASSUME Racing \subseteq raced, NEW j \in JobIds \ raced, NEW v \in Workers, NEW w \in Workers,
           Takes(v, j), Takes(w, j)
    PROVE  v = w
BY DEF Racing

(* A step of w that leaves the job as it is and does not hold it after.    *)
LEMMA Elsewhere ==
    ASSUME HInv, NEW j \in JobIds \ raced, NEW w \in Workers,
           jobs'[j] = jobs[j], calls'[j] = calls[j], ~ Takes(w, j)',
           \A v \in Workers \ {w} : worker'[v] = worker[v]
    PROVE  Counted(j)' /\ \A v \in Workers : Fits(v, j)'
<1>1. Counted(j) /\ \A v \in Workers : Fits(v, j)
  BY DEF HInv, Unraced
<1>2. Counted(j)'
  BY <1>1 DEF Counted
<1>3. ASSUME NEW v \in Workers PROVE Fits(v, j)'
  <2>1. CASE v = w
    BY <2>1 DEF Fits
  <2>2. CASE v # w
    BY <1>1, <2>2 DEF Fits, Takes
  <2> QED
    BY <2>1, <2>2
<1> QED
  BY <1>2, <1>3

(* A step of w, who alone holds the job, that leaves it fitting.           *)
LEMMA OnlyMine ==
    ASSUME HInv, NEW j \in JobIds \ raced, NEW w \in Workers, Takes(w, j),
           \A v \in Workers \ {w} : worker'[v] = worker[v],
           Fits(w, j)'
    PROVE  \A v \in Workers : Fits(v, j)'
<1>1. ASSUME NEW v \in Workers \ {w} PROVE ~ Takes(v, j)'
  <2>1. ~ Takes(v, j)
    BY Alone DEF HInv, HTyped
  <2> QED
    BY <2>1 DEF Takes
<1> QED
  BY <1>1 DEF Fits

(* Completed or failed, a job that is not doubted keeps its status.        *)
Kept(j) ==
    jobs[j].status \in {"completed", "failed"} /\ ~ Doubted(j)
    => jobs'[j].status = jobs[j].status

LEMMA WorkerCounts ==
    ASSUME HInv, NEW w \in Workers, ProcessNext(w) \/ Crash(w), NEW j \in JobIds \ raced
    PROVE  Counted(j)' /\ (\A v \in Workers : Fits(v, j)') /\ Kept(j)
<1>0. /\ Typed /\ worker \in AllWorkers /\ MaxRetries \in Nat
      /\ jobs[j] \in Jobs \cup {NoJob} /\ calls \in [JobIds -> Nat]
  BY ConstantsOK DEF HInv, HTyped, Typed, TypeOK, AllWorkers
<1>1. Counted(j) /\ \A v \in Workers : Fits(v, j)
  BY DEF HInv, Unraced
<1> DEFINE i == worker[w].job
<1>2. \A v \in Workers : worker[v].pc \in Labels <=> worker[v] # Free
  BY <1>0, AtLabel
<1>3. ASSUME NEW k \in JobIds, Select(w, k)
      PROVE  Counted(j)' /\ (\A v \in Workers : Fits(v, j)') /\ Kept(j)
  <2>1. /\ jobs' = jobs /\ calls' = calls
        /\ worker'[w].pc = "mark" /\ worker'[w].job = k
        /\ \A v \in Workers \ {w} : worker'[v] = worker[v]
    BY <1>0, <1>3 DEF Select, AllWorkers
  <2>2. jobs[k].status = "queued"
    BY <1>3 DEF Select, FirstQueued, Queued
  <2>3. ASSUME NEW v \in Workers PROVE Fits(v, j)'
    BY <1>1, <2>1, <2>2 DEF Fits, Takes
  <2> QED
    BY <1>1, <2>1, <2>3 DEF Counted, Kept
<1>4. CASE MarkRunning(w)
  <2>1. worker[w].pc = "mark" /\ i \in JobIds /\ jobs[i] \in Jobs /\ worker[w] # Free
    BY <1>0, <1>4, InHand DEF MarkRunning, Labels, Free
  <2>2. /\ worker'[w].pc = "handle"
        /\ worker'[w].job = i
        /\ worker'[w].retries = jobs[i].retries
        /\ \A v \in Workers \ {w} : worker'[v] = worker[v]
        /\ jobs'[i].status = "running"
        /\ jobs'[i].retries = jobs[i].retries
        /\ \A k \in JobIds \ {i} : jobs'[k] = jobs[k]
    BY <1>0, <1>4, <2>1, Marks DEF Typed
  <2>3. calls' = [calls EXCEPT ![i] = calls[i] + 1]
    BY <1>4 DEF MarkRunning
  <2>4. CASE i = j
    <3>1. Takes(w, j) /\ jobs[j].status = "queued"
      BY <1>1, <2>1, <2>4 DEF Takes, Fits
    <3>2. ASSUME calls'[j] = jobs'[j].retries + 1 PROVE Fits(w, j)'
      BY <2>2, <2>4, <3>2 DEF Fits
    <3>4. calls'[j] = calls[j] + 1 /\ calls[j] \in Nat
      BY <1>0, <2>3, <2>4
    <3>5. calls[j] = jobs[j].retries /\ calls[j] <= MaxRetries
      BY <1>1, <3>1 DEF Counted
    <3>6. jobs'[j].status = "running" /\ jobs'[j] # NoJob
      BY <2>2, <2>4 DEF NoJob
    <3>7. calls'[j] = jobs'[j].retries + 1 /\ calls'[j] <= MaxRetries + 1
      BY <1>0, <2>2, <2>4, <3>4, <3>5
    <3>8. Counted(j)'
      BY <2>2, <2>4, <3>6, <3>7 DEF Counted
    <3>9. \A v \in Workers : Fits(v, j)'
      BY <2>2, <3>1, <3>2, <3>7, OnlyMine
    <3> QED
      BY <3>1, <3>8, <3>9 DEF Kept
  <2>5. CASE i # j
    <3>1. jobs'[j] = jobs[j] /\ calls'[j] = calls[j] /\ ~ Takes(w, j)'
      BY <1>0, <2>2, <2>3, <2>5 DEF Takes
    <3> QED
      BY <2>2, <3>1, Elsewhere DEF Kept
  <2> QED
    BY <2>4, <2>5
<1>5. CASE HandlerReturns(w) \/ HandlerRaises(w) \/ CompleteRaises(w)
  <2>1. worker[w].pc \in {"handle", "complete"} /\ jobs' = jobs /\ calls' = calls
    BY <1>5 DEF HandlerReturns, HandlerRaises, CompleteRaises, Labels
  <2>2. /\ worker'[w].pc # "mark"
        /\ worker'[w].job = i
        /\ worker'[w].retries = worker[w].retries
        /\ \A v \in Workers \ {w} : worker'[v] = worker[v]
    BY <1>0, <1>5, <2>1, Advance DEF HandlerReturns, HandlerRaises, CompleteRaises, Labels
  <2>3. worker[w] # Free
    BY <1>2, <2>1 DEF Labels
  <2>4. Fits(w, j)'
    BY <1>1, <2>1, <2>2, <2>3 DEF Fits, Takes
  <2>5. ASSUME NEW v \in Workers \ {w} PROVE Fits(v, j)'
    BY <1>1, <2>1, <2>2 DEF Fits, Takes
  <2> QED
    BY <1>1, <2>1, <2>4, <2>5 DEF Counted, Kept
<1>6. CASE Complete(w) \/ CompleteUnheard(w) \/ MarkUnheard(w)
  <2>1. PICK row \in Jobs :
          /\ row.status = IF MarkUnheard(w) THEN "running" ELSE "completed"
          /\ row.retries = jobs[i].retries
          /\ jobs' = [jobs EXCEPT ![i] = row]
    <3>1. CASE MarkUnheard(w)
      BY <1>0, <3>1, StartsRow
    <3>2. CASE ~ MarkUnheard(w)
      BY <1>0, <1>6, <3>2, CompletesRow
    <3> QED
      BY <3>1, <3>2
  <2>2. i \in JobIds /\ worker[w] # Free /\ calls' = calls
    BY <1>0, <1>2, <1>6, InHand DEF Complete, CompleteUnheard, MarkUnheard, Labels
  <2>3. jobs'[i] = row /\ row # NoJob /\ \A k \in JobIds \ {i} : jobs'[k] = jobs[k]
    BY <1>0, <2>1, <2>2, RowChanges
  <2>4. \A v \in Workers \ {w} : worker'[v] = worker[v]
    BY <1>0, <1>6, Release, Advance DEF Complete, CompleteUnheard, MarkUnheard, Labels
  <2>5. \/ worker'[w] = Free
        \/ /\ worker[w].pc = "complete" /\ row.status = "completed"
           /\ worker'[w].pc = "fail" /\ worker'[w].job = i
           /\ worker'[w].retries = worker[w].retries
    <3>1. CASE CompleteUnheard(w)
      BY <1>0, <2>1, <3>1, Advance DEF CompleteUnheard, MarkUnheard, Labels
    <3>2. CASE ~ CompleteUnheard(w)
      BY <1>0, <1>6, <3>2, Release DEF Complete, MarkUnheard
    <3> QED
      BY <3>1, <3>2
  <2>6. CASE i = j
    <3>1. Takes(w, j) /\ Fits(w, j)
      BY <1>1, <2>2, <2>6 DEF Takes
    <3>2. jobs[j].status \in {"queued", "running"}
      BY <1>6, <2>6, <3>1 DEF Fits, Complete, CompleteUnheard, MarkUnheard
    <3>3. Fits(w, j)'
      BY <2>1, <2>2, <2>3, <2>5, <2>6, <3>1 DEF Fits, Takes
    <3>4. \A v \in Workers : Fits(v, j)'
      BY <2>4, <3>1, <3>3, OnlyMine
    <3>5. calls[j] <= MaxRetries + 1
      BY <1>0, <1>1, <3>2 DEF Counted
    <3>6. Counted(j)'
      BY <2>1, <2>2, <2>3, <2>6, <3>5 DEF Counted
    <3> QED
      BY <3>2, <3>4, <3>6 DEF Kept
  <2>7. CASE i # j
    <3>1. ~ Takes(w, j)'
      BY <2>5, <2>7 DEF Takes
    <3> QED
      BY <2>2, <2>3, <2>4, <2>7, <3>1, Elsewhere DEF Kept
  <2> QED
    BY <2>6, <2>7
<1>7. CASE FailOrRetry(w) \/ FailUnheard(w)
  <2>1. PICK row \in Jobs :
          /\ row.retries = worker[w].retries + 1
          /\ row.status = IF row.retries <= MaxRetries THEN "queued" ELSE "failed"
          /\ jobs' = [jobs EXCEPT ![i] = row]
    BY <1>0, <1>7, RetriesRow
  <2>2. i \in JobIds /\ worker[w] # Free /\ worker[w].pc = "fail" /\ worker[w].retries \in Nat
    BY <1>0, <1>2, <1>7, InHand DEF FailOrRetry, FailUnheard, Labels
  <2>3. jobs'[i] = row /\ row # NoJob /\ \A k \in JobIds \ {i} : jobs'[k] = jobs[k]
    BY <1>0, <2>1, <2>2, RowChanges
  <2>4. worker'[w] = Free /\ \A v \in Workers \ {w} : worker'[v] = worker[v]
    BY <1>0, <1>7, Release DEF FailOrRetry, FailUnheard
  <2>5. calls' = calls /\ ~ Takes(w, j)'
    BY <1>7, <2>4 DEF FailOrRetry, FailUnheard, Takes
  <2>6. CASE i = j
    <3>1. /\ Takes(w, j) /\ jobs[j].status \in {"running", "completed"}
          /\ worker[w].retries = jobs[j].retries /\ calls[j] = jobs[j].retries + 1
      BY <1>1, <2>2, <2>6 DEF Takes, Fits
    <3>2. \A v \in Workers : Fits(v, j)'
      BY <2>4, <2>5, <3>1, OnlyMine DEF Fits
    <3>3. calls[j] = row.retries /\ calls[j] <= MaxRetries + 1 /\ calls[j] \in Nat
      BY <1>0, <1>1, <2>1, <3>1 DEF Counted
    <3>4. Counted(j)'
      <4>1. CASE row.retries <= MaxRetries
        BY <2>1, <2>3, <2>5, <2>6, <3>3, <4>1 DEF Counted
      <4>2. CASE ~ (row.retries <= MaxRetries)
        <5>1. calls[j] = MaxRetries + 1
          BY <1>0, <3>3, <4>2
        <5> QED
          BY <2>1, <2>3, <2>5, <2>6, <4>2, <5>1 DEF Counted
      <4> QED
        BY <4>1, <4>2
    <3>5. jobs[j].status = "completed" => Doubted(j)
      BY <3>1 DEF Doubted
    <3> QED
      BY <3>1, <3>2, <3>4, <3>5 DEF Kept
  <2>7. CASE i # j
    BY <2>3, <2>4, <2>5, <2>7, Elsewhere DEF Kept
  <2> QED
    BY <2>6, <2>7
<1>8. CASE FailRaises(w) \/ MarkRaises(w) \/ Crash(w)
  <2>1. worker'[w] = Free /\ \A v \in Workers \ {w} : worker'[v] = worker[v]
    BY <1>0, <1>8, Release DEF FailRaises, MarkRaises, Crash
  <2>2. jobs' = jobs /\ calls' = calls /\ ~ Takes(w, j)'
    BY <1>8, <2>1 DEF FailRaises, MarkRaises, Crash, Takes
  <2> QED
    BY <2>1, <2>2, Elsewhere DEF Kept
<1> QED
  BY <1>3, <1>4, <1>5, <1>6, <1>7, <1>8 DEF ProcessNext, Finish

LEMMA NextCounts ==
    ASSUME HInv, [HNext]_hvars, NEW j \in JobIds \ raced'
    PROVE  Counted(j)' /\ (\A v \in Workers : Fits(v, j)') /\ Kept(j)
<1>0. j \notin raced /\ [Next]_vars
  BY DEF HNext, hvars
<1>1. Counted(j) /\ \A v \in Workers : Fits(v, j)
  BY <1>0 DEF HInv, Unraced
<1>2. CASE \E c \in Clients : Enqueue(c)
  <2>1. UNCHANGED <<worker, calls>>
    BY <1>2 DEF Enqueue, Ask, Insert, InsertRaises
  <2>2. CASE jobs' = jobs
    BY <1>1, <2>1, <2>2 DEF Counted, Fits, Takes, Kept
  <2>3. ASSUME NEW c \in Clients, NEW k \in JobIds, NEW delay \in 0..MaxDelay, Insert(c, k, delay)
        PROVE  Counted(j)' /\ (\A v \in Workers : Fits(v, j)') /\ Kept(j)
    <3>1. /\ jobs'[k].status = "queued" /\ jobs'[k].retries = 0
          /\ \A l \in JobIds \ {k} : jobs'[l] = jobs[l]
      BY <2>3 DEF Insert, HInv, HTyped, Typed, TypeOK
    <3>2. CASE k = j
      <4>1. jobs[j] = NoJob /\ calls[j] = 0
        BY <1>1, <2>3, <3>2 DEF Insert, Counted
      <4>2. ASSUME NEW v \in Workers PROVE ~ Takes(v, j)
        BY <4>1, AtLabel DEF HInv, HTyped, Typed, TypeOK, TakenIsRow, AllWorkers, Takes
      <4>3. MaxRetries >= 0
        BY ConstantsOK
      <4>4. Counted(j)'
        <5>1. jobs'[j] # NoJob
          BY <3>1, <3>2 DEF NoJob
        <5> QED
          BY <2>1, <3>1, <3>2, <4>1, <4>3, <5>1 DEF Counted
      <4> QED
        BY <2>1, <4>1, <4>2, <4>4 DEF Fits, Takes, Kept, NoJob
    <3>3. CASE k # j
      BY <1>1, <2>1, <3>1, <3>3 DEF Counted, Fits, Takes, Kept
    <3> QED
      BY <3>2, <3>3
  <2> QED
    BY <1>2, <2>2, <2>3 DEF Enqueue, Ask, InsertRaises
<1>3. CASE \E w \in Workers : ProcessNext(w) \/ Crash(w)
  BY <1>0, <1>3, WorkerCounts
<1>4. CASE UNCHANGED <<jobs, worker, calls>>
  BY <1>1, <1>4 DEF Counted, Fits, Takes, Kept
<1> QED
  BY <1>0, <1>2, <1>3, <1>4 DEF Next, Quiet, Tick, vars

LEMMA HInvHolds == HSpec => []HInv
<1>1. HInit => HInv
  <2> SUFFICES ASSUME HInit PROVE HInv
    OBVIOUS
  <2>1. Typed
    BY InitTyped DEF HInit
  <2>2. \A w \in Workers, j \in JobIds : ~ Takes(w, j)
    BY DEF HInit, Init, Takes
  <2>3. Racing \subseteq raced
    BY <2>2 DEF Racing
  <2>4. Unraced
    BY <2>2 DEF HInit, Init, Unraced, Counted, Fits, NoJob
  <2> QED
    BY <2>1, <2>3, <2>4 DEF HInv, HTyped
<1>2. HInv /\ [HNext]_hvars => HInv'
  <2> SUFFICES ASSUME HInv, [HNext]_hvars PROVE HInv'
    OBVIOUS
  <2>1. Typed'
    BY NextTyped DEF HNext, hvars, HInv, HTyped
  <2>2. (Racing \subseteq raced)'
    <3>1. CASE HNext
      BY <3>1 DEF HNext
    <3>2. CASE UNCHANGED hvars
      BY <3>2 DEF hvars, vars, HInv, HTyped, Racing, Takes
    <3> QED
      BY <3>1, <3>2
  <2>3. Unraced'
    BY NextCounts DEF Unraced
  <2> QED
    BY <2>1, <2>2, <2>3 DEF HInv, HTyped
<1> QED
  BY <1>1, <1>2, PTL DEF HSpec

(* A job that no two workers took at a time is handled at most once more   *)
(* than max_retries, whatever fails and whoever dies.                      *)
THEOREM AttemptsAreBounded == HSpec => []AttemptsBounded
<1>1. HInv => AttemptsBounded
  <2> SUFFICES ASSUME HInv, NEW j \in JobIds \ raced
               PROVE  /\ calls[j] <= MaxRetries + 1
                      /\ jobs[j].status = "queued" => calls[j] = jobs[j].retries
                      /\ jobs[j].status = "failed" => calls[j] = MaxRetries + 1
    BY DEF AttemptsBounded
  <2>1. Counted(j)
    BY DEF HInv, Unraced
  <2>2. jobs[j] \in Jobs \cup {NoJob} /\ calls[j] \in Nat /\ MaxRetries \in Nat
    BY ConstantsOK DEF HInv, HTyped, Typed, TypeOK
  <2>3. jobs[j] = NoJob \/ jobs[j].status \in {"queued", "running", "completed", "failed"}
    BY <2>2 DEF Jobs
  <2>4. calls[j] <= MaxRetries + 1
    BY <2>1, <2>2, <2>3 DEF Counted
  <2> QED
    BY <2>1, <2>4 DEF Counted
<1> QED
  BY <1>1, HInvHolds, PTL

(* ... and once completed or failed for good it stays so, unless its own   *)
(* worker did not hear that it was completed.                              *)
THEOREM FinishedStays == HSpec => FinishedIsFinal
<1>1. HInv /\ [HNext]_hvars =>
        [\A j \in JobIds \ raced' :
            jobs[j].status \in {"completed", "failed"} /\ ~ Doubted(j)
            => jobs'[j].status = jobs[j].status]_hvars
  BY NextCounts DEF Kept
<1> QED
  BY <1>1, HInvHolds, PTL DEF HSpec, FinishedIsFinal

-----------------------------------------------------------------------------
(* The refinement of JobLife. *)

Taken(j) == \E w \in Workers : Takes(w, j)
Returned(j) == \E w \in Workers : Takes(w, j) /\ worker[w].pc = "complete"

Same(j) == Phase(j)' = Phase(j) /\ Attempts(j)' = Attempts(j)

(* The phase of j goes from one to another, and its attempts to n.         *)
Moves(j, from, to, n) == Phase(j) = from /\ Phase(j)' = to /\ Attempts(j)' = n

Failures == faults + crashes
Steady == Failures' = Failures
Failing == Failures' = Failures + 1

LivesOn(j) ==
    \/ /\ Steady
       /\ \/ Moves(j, "absent", "queued", Attempts(j))
          \/ Moves(j, "queued", "running", Attempts(j) + 1)
          \/ Moves(j, "running", "returned", Attempts(j))
          \/ Moves(j, "returned", "completed", Attempts(j))
          \/ Moves(j, "queued", "raced", 0)
    \/ /\ Steady \/ Failing
       /\ \E from \in {"running", "doubted"} :
            \/ Moves(j, from, "queued", Attempts(j)) /\ Attempts(j) <= MaxRetries
            \/ Moves(j, from, "failed", Attempts(j)) /\ Attempts(j) = MaxRetries + 1
    \/ /\ Failing
       /\ \/ Moves(j, "returned", "running", Attempts(j))
          \/ Moves(j, "returned", "doubted", Attempts(j))
          \/ Moves(j, "doubted", "completed", Attempts(j))
          \/ \E from \in {"queued", "running", "returned"} : Moves(j, from, "lost", Attempts(j))

(* What a step may be to the jobs: nothing, or a move of one of them.      *)
OneLives ==
    \/ (Steady \/ Failing) /\ \A j \in JobIds : Same(j)
    \/ \E i \in JobIds : LivesOn(i) /\ \A j \in JobIds \ {i} : Same(j)

(* The phase of a job that is not raced for, with a taker and without.     *)
LEMMA PhaseOf ==
    ASSUME NEW j \in JobIds \ raced
    PROVE  /\ Attempts(j) = calls[j]
           /\ jobs[j].status \notin {"running", "completed"} => Phase(j) = jobs[j].status
           /\ ~ Taken(j)
              => Phase(j) = IF jobs[j].status = "running" THEN "lost" ELSE jobs[j].status
BY DEF Phase, Doubted, Attempts, Taken

LEMMA PhaseInHand ==
    ASSUME Racing \subseteq raced, NEW j \in JobIds \ raced, NEW w \in Workers, Takes(w, j)
    PROVE  /\ jobs[j].status = "completed" => Phase(j) = "doubted"
           /\ jobs[j].status = "running"
              => Phase(j) = IF worker[w].pc = "complete" THEN "returned" ELSE "running"
<1>1. \A v \in Workers : Takes(v, j) => v = w
  BY Alone
<1>2. Returned(j) <=> worker[w].pc = "complete"
  BY <1>1 DEF Returned
<1> QED
  BY <1>2 DEF Phase, Doubted, Returned

(* A step that takes no job leaves the raced ones what they are.           *)
LEMMA NoMoreRaced ==
    ASSUME HInv, HNext, \A v \in Workers, j \in JobIds : Takes(v, j)' => Takes(v, j)
    PROVE  raced' = raced
<1>1. Racing' \subseteq Racing
  BY DEF Racing
<1> QED
  BY <1>1 DEF HNext, HInv, HTyped

(* A job whose row, takers and their places are the same lives the same.   *)
LEMMA Unmoved ==
    ASSUME NEW j \in JobIds, j \in raced' <=> j \in raced,
           jobs'[j] = jobs[j], calls'[j] = calls[j],
           \A v \in Workers : Takes(v, j)' <=> Takes(v, j),
           \A v \in Workers : Takes(v, j) /\ j \notin raced
              => (worker'[v].pc = "complete" <=> worker[v].pc = "complete")
    PROVE  Same(j)
<1>1. Attempts(j)' = Attempts(j)
  BY DEF Attempts
<1>2. CASE j \in raced
  BY <1>1, <1>2 DEF Same, Phase
<1>3. CASE j \notin raced
  <2>1. Returned(j)' <=> Returned(j)
    BY <1>3 DEF Returned
  <2>2. Taken(j)' <=> Taken(j)
    BY DEF Taken
  <2>3. Phase(j) = IF jobs[j].status = "completed" /\ Taken(j) THEN "doubted"
                   ELSE IF jobs[j].status # "running" THEN jobs[j].status
                   ELSE IF Returned(j) THEN "returned" ELSE IF Taken(j) THEN "running" ELSE "lost"
    BY <1>3 DEF Phase, Doubted, Returned, Taken
  <2>4. Phase(j)' = IF jobs'[j].status = "completed" /\ Taken(j)' THEN "doubted"
                    ELSE IF jobs'[j].status # "running" THEN jobs'[j].status
                    ELSE IF Returned(j)' THEN "returned" ELSE IF Taken(j)' THEN "running" ELSE "lost"
    BY <1>3 DEF Phase, Doubted, Returned, Taken
  <2> QED
    BY <1>1, <2>1, <2>2, <2>3, <2>4 DEF Same
<1> QED
  BY <1>2, <1>3

(* A raced job that stays raced lives the same.                            *)
LEMMA StillRaced ==
    ASSUME NEW j \in raced, j \in raced'
    PROVE  Same(j)
BY DEF Same, Phase, Attempts

(* What a worker's step is to the jobs it does not work on.                *)
LEMMA OthersLive ==
    ASSUME HInv, HNext, NEW w \in Workers, worker[w].pc \in Labels,
           \A v \in Workers \ {w} : worker'[v] = worker[v],
           worker'[w] = Free \/ worker'[w].job = worker[w].job,
           \A k \in JobIds \ {worker[w].job} : jobs'[k] = jobs[k] /\ calls'[k] = calls[k]
    PROVE  /\ raced' = raced
           /\ \A j \in JobIds \ {worker[w].job} : Same(j)
<1>1. worker[w] # Free
  BY AtLabel DEF HInv, HTyped, Typed, TypeOK, AllWorkers
<1>2. \A v \in Workers, j \in JobIds : Takes(v, j)' => Takes(v, j)
  BY <1>1 DEF Takes
<1>3. raced' = raced
  BY <1>2, NoMoreRaced
<1>4. ASSUME NEW j \in JobIds \ {worker[w].job} PROVE Same(j)
  <2>1. ~ Takes(w, j) /\ ~ Takes(w, j)'
    BY <1>4 DEF Takes
  <2>2. \A v \in Workers : Takes(v, j)' <=> Takes(v, j)
    BY <2>1 DEF Takes
  <2>3. \A v \in Workers : Takes(v, j) => worker'[v] = worker[v]
    BY <2>1
  <2> QED
    BY <1>3, <2>2, <2>3, Unmoved
<1> QED
  BY <1>3, <1>4

(* Before the step a worker finds its job as it knows it, unless it is     *)
(* raced for.                                                              *)
LEMMA MineBefore ==
    ASSUME HInv, NEW w \in Workers, worker[w].pc \in Labels,
           NEW i \in JobIds \ raced, worker[w].job = i
    PROVE  /\ Takes(w, i)
           /\ Attempts(i) = calls[i]
           /\ worker[w].pc = "mark" => Phase(i) = "queued" /\ jobs[i].status = "queued"
           /\ worker[w].pc = "handle" => Phase(i) = "running" /\ jobs[i].status = "running"
           /\ worker[w].pc = "complete" => Phase(i) = "returned" /\ jobs[i].status = "running"
           /\ worker[w].pc = "fail" => \/ Phase(i) = "running" /\ jobs[i].status = "running"
                                       \/ Phase(i) = "doubted" /\ jobs[i].status = "completed"
<1>1. Takes(w, i)
  BY AtLabel DEF HInv, HTyped, Typed, TypeOK, AllWorkers, Takes
<1>2. Fits(w, i)
  BY <1>1 DEF HInv, Unraced
<1>3. Racing \subseteq raced
  BY DEF HInv, HTyped
<1>4. CASE worker[w].pc = "mark"
  BY <1>1, <1>2, <1>4, PhaseOf DEF Fits
<1>5. CASE worker[w].pc # "mark"
  <2>1. /\ jobs[i].status \in {"running", "completed"}
        /\ jobs[i].status = "completed" => worker[w].pc = "fail"
    BY <1>1, <1>2, <1>5 DEF Fits
  <2>2. /\ jobs[i].status = "completed" => Phase(i) = "doubted"
        /\ jobs[i].status = "running"
           => Phase(i) = IF worker[w].pc = "complete" THEN "returned" ELSE "running"
    BY <1>1, <1>3, PhaseInHand
  <2> QED
    BY <1>1, <1>5, <2>1, <2>2, PhaseOf
<1> QED
  BY <1>4, <1>5

(* ... and after it.                                                       *)
LEMMA MineAfter ==
    ASSUME HInv', raced' = raced, NEW w \in Workers, NEW i \in JobIds \ raced
    PROVE  /\ Attempts(i)' = calls'[i]
           /\ ~ Taken(i)'
              => Phase(i)' = IF jobs'[i].status = "running" THEN "lost" ELSE jobs'[i].status
           /\ Takes(w, i)'
              => /\ jobs'[i].status = "completed" => Phase(i)' = "doubted"
                 /\ jobs'[i].status = "running"
                    => Phase(i)' = IF worker'[w].pc = "complete" THEN "returned" ELSE "running"
<1>1. /\ Attempts(i)' = calls'[i]
      /\ ~ Taken(i)'
         => Phase(i)' = IF jobs'[i].status = "running" THEN "lost" ELSE jobs'[i].status
  BY DEF Phase, Doubted, Attempts, Taken
<1>2. ASSUME Takes(w, i)'
      PROVE  /\ jobs'[i].status = "completed" => Phase(i)' = "doubted"
             /\ jobs'[i].status = "running"
                => Phase(i)' = IF worker'[w].pc = "complete" THEN "returned" ELSE "running"
  <2>1. \A v \in Workers : Takes(v, i)' => v = w
    BY <1>2 DEF HInv, HTyped, Racing
  <2>2. Returned(i)' <=> worker'[w].pc = "complete"
    BY <1>2, <2>1 DEF Returned
  <2> QED
    BY <1>2, <2>2 DEF Phase, Doubted, Returned
<1> QED
  BY <1>1, <1>2

(* Who lets go of a job that is not raced for leaves it with nobody.       *)
LEMMA NobodyAfter ==
    ASSUME HInv, NEW w \in Workers, NEW i \in JobIds \ raced, Takes(w, i), worker'[w] = Free,
           \A v \in Workers \ {w} : worker'[v] = worker[v]
    PROVE  ~ Taken(i)'
<1>1. ASSUME NEW v \in Workers PROVE ~ Takes(v, i)'
  <2>1. CASE v = w
    BY <2>1 DEF Takes
  <2>2. CASE v # w
    <3>1. ~ Takes(v, i)
      BY <2>2, Alone DEF HInv, HTyped
    <3> QED
      BY <2>2, <3>1 DEF Takes
  <2> QED
    BY <2>1, <2>2
<1> QED
  BY <1>1 DEF Taken

(* A worker's step, its own job raced for or not.                          *)
LEMMA MyStep ==
    ASSUME HInv, HNext, NEW w \in Workers, worker[w].pc \in Labels,
           NEW i \in JobIds, worker[w].job = i,
           \A v \in Workers \ {w} : worker'[v] = worker[v],
           worker'[w] = Free \/ worker'[w].job = i,
           \A k \in JobIds \ {i} : jobs'[k] = jobs[k] /\ calls'[k] = calls[k],
           Steady \/ Failing,
           raced' = raced /\ i \notin raced => Same(i) \/ LivesOn(i)
    PROVE  OneLives
<1>1. raced' = raced /\ \A j \in JobIds \ {i} : Same(j)
  BY OthersLive
<1>2. Same(i) \/ LivesOn(i)
  <2>1. CASE i \in raced
    BY <1>1, <2>1, StillRaced
  <2>2. CASE i \notin raced
    BY <1>1, <2>2
  <2> QED
    BY <2>1, <2>2
<1> QED
  BY <1>1, <1>2 DEF OneLives

(* Two sums are a failure apart when one of their terms is.                *)
LEMMA OneFailure ==
    ASSUME Typed, \/ Fault /\ crashes' = crashes
                  \/ faults' = faults /\ crashes' = crashes + 1
    PROVE  Failing
BY ConstantsOK DEF Fault, Failing, Failures, Typed, TypeOK

LEMMA SelectLives ==
    ASSUME HInv, HNext, NEW w \in Workers, NEW k \in JobIds, Select(w, k)
    PROVE  OneLives
<1>1. /\ UNCHANGED <<jobs, calls>> /\ Steady
      /\ worker[w] = Free /\ worker'[w].job = k
      /\ \A v \in Workers \ {w} : worker'[v] = worker[v]
  BY DEF Select, HInv, HTyped, Typed, TypeOK, Steady, Failures
<1>2. \A j \in JobIds \ {k}, v \in Workers : Takes(v, j)' <=> Takes(v, j)
  BY <1>1 DEF Takes
<1>3. \A v \in Workers : Takes(v, k) => worker'[v] = worker[v]
  BY <1>1 DEF Takes
<1>4. Racing' \subseteq Racing \cup {k} /\ raced' = raced \cup Racing'
  BY <1>2 DEF Racing, HNext
<1>5. raced \subseteq raced' /\ raced' \subseteq raced \cup {k}
  BY <1>4 DEF HInv, HTyped
<1>6. ASSUME NEW j \in JobIds \ {k} PROVE Same(j)
  <2>1. j \in raced' <=> j \in raced
    BY <1>5
  <2>2. \A v \in Workers : Takes(v, j) => worker'[v] = worker[v]
    BY <1>1 DEF Takes
  <2> QED
    BY <1>1, <1>2, <2>1, <2>2, Unmoved
<1>7. Same(k) \/ LivesOn(k)
  <2>1. CASE k \in raced
    BY <1>5, <2>1, StillRaced
  <2>2. CASE k \notin raced
    <3>1. Phase(k) = "queued" /\ Attempts(k) = calls[k]
      BY <2>2, PhaseOf DEF Select, FirstQueued, Queued
    <3>2. CASE k \in raced'
      BY <1>1, <3>1, <3>2 DEF Phase, Attempts, LivesOn, Moves
    <3>3. CASE k \notin raced'
      BY <1>1, <2>2, <3>1, <3>3 DEF Phase, Doubted, Attempts, Same, Select, FirstQueued, Queued
    <3> QED
      BY <3>2, <3>3
  <2> QED
    BY <2>1, <2>2
<1> QED
  BY <1>1, <1>6, <1>7 DEF OneLives

LEMMA MarkLives ==
    ASSUME HInv, HInv', HNext, NEW w \in Workers, MarkRunning(w)
    PROVE  OneLives
<1>1. Typed /\ worker[w].pc = "mark" /\ worker[w].pc \in Labels
  BY DEF MarkRunning, Labels, HInv, HTyped
<1>i. PICK i \in JobIds : worker[w].job = i
  BY <1>1, InHand
<1>2. jobs[i] \in Jobs /\ calls \in [JobIds -> Nat]
  BY <1>1, <1>i, InHand DEF Typed, TypeOK
<1>3. /\ worker'[w].pc = "handle"
      /\ worker'[w].job = i
      /\ \A v \in Workers \ {w} : worker'[v] = worker[v]
      /\ jobs'[i].status = "running"
      /\ \A k \in JobIds \ {i} : jobs'[k] = jobs[k]
  BY <1>1, <1>i, <1>2, Marks DEF Typed
<1>4. /\ calls'[i] = calls[i] + 1 /\ \A k \in JobIds \ {i} : calls'[k] = calls[k]
      /\ Steady
  BY <1>i, <1>2 DEF MarkRunning, Steady, Failures
<1>5. ASSUME raced' = raced, i \notin raced PROVE LivesOn(i)
  <2>1. Phase(i) = "queued" /\ Attempts(i) = calls[i]
    BY <1>1, <1>i, <1>5, MineBefore
  <2>2. Takes(w, i)'
    BY <1>3 DEF Takes, Free
  <2>3. Phase(i)' = "running" /\ Attempts(i)' = calls'[i]
    BY <1>2, <1>3, <1>5, <2>2, MineAfter
  <2> QED
    BY <1>4, <2>1, <2>3 DEF LivesOn, Moves
<1> QED
  BY <1>1, <1>i, <1>3, <1>4, <1>5, MyStep

LEMMA GoesOnLives ==
    ASSUME HInv, HInv', HNext, NEW w \in Workers,
           HandlerReturns(w) \/ HandlerRaises(w) \/ CompleteRaises(w)
    PROVE  OneLives
<1>1. /\ worker \in AllWorkers /\ worker[w].pc \in {"handle", "complete"}
      /\ worker[w].pc \in Labels /\ Typed /\ UNCHANGED <<jobs, calls>>
  BY DEF HandlerReturns, HandlerRaises, CompleteRaises, Labels, HInv, HTyped, Typed, TypeOK,
         AllWorkers
<1>f. IF CompleteRaises(w) THEN Failing ELSE Steady
  BY <1>1, OneFailure DEF HandlerReturns, HandlerRaises, CompleteRaises, Steady, Failures
<1>i. PICK i \in JobIds : worker[w].job = i
  BY <1>1, AtLabel
<1>2. /\ worker'[w].job = i
      /\ worker'[w].pc = IF HandlerReturns(w) THEN "complete" ELSE "fail"
      /\ \A v \in Workers \ {w} : worker'[v] = worker[v]
  <2>1. CASE HandlerReturns(w)
    BY <1>1, <1>i, <2>1, Advance DEF HandlerReturns, Labels
  <2>2. CASE ~ HandlerReturns(w)
    BY <1>1, <1>i, <2>2, Advance DEF HandlerRaises, CompleteRaises, Labels
  <2> QED
    BY <2>1, <2>2
<1>3. ASSUME raced' = raced, i \notin raced PROVE Same(i) \/ LivesOn(i)
  <2>1. /\ Attempts(i) = calls[i]
        /\ worker[w].pc = "handle" => Phase(i) = "running"
        /\ worker[w].pc = "complete" => Phase(i) = "returned"
        /\ jobs[i].status = "running"
    BY <1>1, <1>i, <1>3, MineBefore DEF Labels
  <2>2. Takes(w, i)'
    BY <1>2 DEF Takes, Free
  <2>3. /\ Attempts(i)' = calls[i]
        /\ Phase(i)' = IF HandlerReturns(w) THEN "returned" ELSE "running"
    BY <1>1, <1>2, <1>3, <2>1, <2>2, MineAfter
  <2> QED
    BY <1>f, <2>1, <2>3 DEF LivesOn, Moves, Same, HandlerReturns, HandlerRaises, CompleteRaises
<1> QED
  BY <1>1, <1>f, <1>i, <1>2, <1>3, MyStep

(* A completed job whose worker goes on to retry it is doubted.            *)
LEMMA UnheardLives ==
    ASSUME HInv, HInv', HNext, NEW w \in Workers, CompleteUnheard(w)
    PROVE  OneLives
<1>1. /\ worker \in AllWorkers /\ worker[w].pc = "complete" /\ worker[w].pc \in Labels
      /\ Typed /\ calls' = calls
  BY DEF CompleteUnheard, Labels, HInv, HTyped, Typed, TypeOK, AllWorkers
<1>f. Failing
  BY <1>1, OneFailure DEF CompleteUnheard
<1>i. PICK i \in JobIds : worker[w].job = i
  BY <1>1, AtLabel
<1>2. /\ worker'[w].job = i /\ worker'[w].pc = "fail"
      /\ \A v \in Workers \ {w} : worker'[v] = worker[v]
  BY <1>1, <1>i, Advance DEF CompleteUnheard, Labels
<1>3. PICK row \in Jobs : row.status = "completed" /\ jobs' = [jobs EXCEPT ![i] = row]
  BY <1>1, <1>i, CompletesRow
<1>4. jobs'[i] = row /\ \A k \in JobIds \ {i} : jobs'[k] = jobs[k]
  BY <1>1, <1>3, RowChanges
<1>5. ASSUME raced' = raced, i \notin raced PROVE LivesOn(i)
  <2>1. Attempts(i) = calls[i] /\ Phase(i) = "returned"
    BY <1>1, <1>i, <1>5, MineBefore
  <2>2. Takes(w, i)'
    BY <1>2 DEF Takes, Free
  <2>3. Attempts(i)' = calls[i] /\ Phase(i)' = "doubted"
    BY <1>1, <1>3, <1>4, <1>5, <2>2, MineAfter
  <2> QED
    BY <1>f, <2>1, <2>3 DEF LivesOn, Moves
<1> QED
  BY <1>1, <1>f, <1>i, <1>2, <1>4, <1>5, MyStep

LEMMA EndLives ==
    ASSUME HInv, HInv', HNext, NEW w \in Workers,
           \/ Complete(w) \/ FailOrRetry(w) \/ FailUnheard(w) \/ MarkUnheard(w)
           \/ FailRaises(w) \/ MarkRaises(w) \/ Crash(w)
    PROVE  OneLives
<1>1. /\ Typed /\ worker \in AllWorkers /\ worker[w].pc \in Labels
      /\ worker' = [worker EXCEPT ![w] = Free] /\ calls' = calls
  BY AtLabel DEF Complete, FailOrRetry, FailUnheard, MarkUnheard, FailRaises, MarkRaises, Crash,
                 Labels, HInv, HTyped, Typed, TypeOK, AllWorkers
<1>f. /\ Complete(w) \/ FailOrRetry(w) => Steady
      /\ FailUnheard(w) \/ MarkUnheard(w) \/ FailRaises(w) \/ MarkRaises(w) \/ Crash(w) => Failing
  BY <1>1, OneFailure DEF Complete, FailOrRetry, FailUnheard, MarkUnheard, FailRaises, MarkRaises,
                          Crash, Steady, Failures
<1>2. worker'[w] = Free /\ \A v \in Workers \ {w} : worker'[v] = worker[v]
  BY <1>1, Release
<1>i. PICK i \in JobIds : worker[w].job = i
  BY <1>1, InHand
<1>3. jobs[i] \in Jobs /\ worker[w].retries \in Nat
  BY <1>1, <1>i, InHand
<1>4. ASSUME raced' = raced, i \notin raced
      PROVE  /\ Attempts(i) = calls[i] /\ Attempts(i)' = calls[i]
             /\ Phase(i)' = IF jobs'[i].status = "running" THEN "lost" ELSE jobs'[i].status
             /\ worker[w].pc = "mark" => Phase(i) = "queued" /\ jobs[i].status = "queued"
             /\ worker[w].pc = "handle" => Phase(i) = "running" /\ jobs[i].status = "running"
             /\ worker[w].pc = "complete" => Phase(i) = "returned" /\ jobs[i].status = "running"
             /\ worker[w].pc = "fail" =>
                   /\ \/ Phase(i) = "running" /\ jobs[i].status = "running"
                      \/ Phase(i) = "doubted" /\ jobs[i].status = "completed"
                   /\ calls[i] = worker[w].retries + 1
  <2>1. Takes(w, i) /\ Fits(w, i)
    BY <1>1, <1>i, <1>4, MineBefore DEF HInv, Unraced
  <2>2. ~ Taken(i)'
    BY <1>2, <1>4, <2>1, NobodyAfter
  <2>3. /\ Attempts(i) = calls[i]
        /\ worker[w].pc = "mark" => Phase(i) = "queued" /\ jobs[i].status = "queued"
        /\ worker[w].pc = "handle" => Phase(i) = "running" /\ jobs[i].status = "running"
        /\ worker[w].pc = "complete" => Phase(i) = "returned" /\ jobs[i].status = "running"
        /\ worker[w].pc = "fail" => \/ Phase(i) = "running" /\ jobs[i].status = "running"
                                    \/ Phase(i) = "doubted" /\ jobs[i].status = "completed"
    BY <1>1, <1>i, <1>4, MineBefore
  <2>4. /\ Attempts(i)' = calls[i]
        /\ Phase(i)' = IF jobs'[i].status = "running" THEN "lost" ELSE jobs'[i].status
    BY <1>1, <1>4, <2>2, MineAfter
  <2>5. worker[w].pc = "fail" => calls[i] = worker[w].retries + 1
    BY <2>1 DEF Fits
  <2> QED
    BY <2>3, <2>4, <2>5
<1>5. CASE Complete(w) \/ MarkUnheard(w)
  <2>1. PICK row \in Jobs :
          /\ row.status = IF Complete(w) THEN "completed" ELSE "running"
          /\ jobs' = [jobs EXCEPT ![i] = row]
    <3>1. CASE Complete(w)
      BY <1>1, <1>i, <3>1, CompletesRow
    <3>2. CASE ~ Complete(w)
      BY <1>1, <1>i, <1>5, <3>2, StartsRow
    <3> QED
      BY <3>1, <3>2
  <2>2. jobs'[i] = row /\ \A k \in JobIds \ {i} : jobs'[k] = jobs[k]
    BY <1>1, <1>3, <2>1, RowChanges
  <2>3. ASSUME raced' = raced, i \notin raced PROVE LivesOn(i)
    <3>1. CASE Complete(w)
      BY <1>f, <1>4, <2>1, <2>2, <2>3, <3>1 DEF Complete, LivesOn, Moves
    <3>2. CASE ~ Complete(w)
      BY <1>f, <1>4, <1>5, <2>1, <2>2, <2>3, <3>2 DEF MarkUnheard, LivesOn, Moves
    <3> QED
      BY <3>1, <3>2
  <2> QED
    BY <1>1, <1>f, <1>i, <1>2, <1>5, <2>2, <2>3, MyStep
<1>6. CASE FailOrRetry(w) \/ FailUnheard(w)
  <2>1. PICK row \in Jobs :
          /\ row.retries = worker[w].retries + 1
          /\ row.status = IF row.retries <= MaxRetries THEN "queued" ELSE "failed"
          /\ jobs' = [jobs EXCEPT ![i] = row]
    BY <1>1, <1>i, <1>6, RetriesRow
  <2>2. jobs'[i] = row /\ \A k \in JobIds \ {i} : jobs'[k] = jobs[k]
    BY <1>1, <1>3, <2>1, RowChanges
  <2>3. ASSUME raced' = raced, i \notin raced PROVE LivesOn(i)
    <3>1. PICK from \in {"running", "doubted"} :
            Phase(i) = from /\ jobs[i].status \in {"running", "completed"}
      BY <1>4, <1>6, <2>3 DEF FailOrRetry, FailUnheard
    <3>2. Counted(i)
      BY <1>3, <2>3 DEF HInv, Unraced
    <3>3. Attempts(i) = row.retries /\ Attempts(i) <= MaxRetries + 1 /\ Attempts(i)' = Attempts(i)
      BY <1>4, <1>6, <2>1, <2>3, <3>1, <3>2 DEF Counted, FailOrRetry, FailUnheard
    <3>4. Phase(i)' = IF row.retries <= MaxRetries THEN "queued" ELSE "failed"
      BY <1>4, <2>1, <2>2, <2>3
    <3>5. CASE row.retries <= MaxRetries
      BY <1>f, <1>6, <3>1, <3>3, <3>4, <3>5 DEF LivesOn, Moves
    <3>6. CASE ~ (row.retries <= MaxRetries)
      <4>1. row.retries \in Nat /\ MaxRetries \in Nat
        BY ConstantsOK DEF Jobs
      <4>2. Attempts(i) = MaxRetries + 1
        BY <3>3, <3>6, <4>1
      <4> QED
        BY <1>f, <1>6, <3>1, <3>3, <3>4, <3>6, <4>2 DEF LivesOn, Moves
    <3> QED
      BY <3>5, <3>6
  <2> QED
    BY <1>1, <1>f, <1>i, <1>2, <1>6, <2>2, <2>3, MyStep
<1>7. CASE FailRaises(w) \/ MarkRaises(w) \/ Crash(w)
  <2>1. jobs' = jobs /\ Failing
    BY <1>f, <1>7 DEF FailRaises, MarkRaises, Crash
  <2>2. ASSUME raced' = raced, i \notin raced PROVE Same(i) \/ LivesOn(i)
    BY <1>1, <1>4, <2>1, <2>2 DEF Labels, LivesOn, Moves, Same
  <2> QED
    BY <1>1, <1>i, <1>2, <2>1, <2>2, MyStep
<1> QED
  BY <1>5, <1>6, <1>7

LEMMA InsertLives ==
    ASSUME HInv, HNext, NEW c \in Clients, NEW k \in JobIds, NEW delay \in 0..MaxDelay,
           Insert(c, k, delay)
    PROVE  OneLives
<1>1. /\ UNCHANGED <<worker, calls>> /\ Steady
      /\ jobs[k].status = "absent" /\ jobs'[k].status = "queued"
      /\ \A j \in JobIds \ {k} : jobs'[j] = jobs[j]
  BY DEF Insert, HInv, HTyped, Typed, TypeOK, NoJob, Steady, Failures
<1>2. \A v \in Workers, j \in JobIds : Takes(v, j)' <=> Takes(v, j)
  BY <1>1 DEF Takes
<1>3. raced' = raced
  BY <1>2, NoMoreRaced
<1>4. \A j \in JobIds \ {k} : Same(j)
  BY <1>1, <1>2, <1>3, Unmoved
<1>5. Same(k) \/ LivesOn(k)
  <2>1. CASE k \in raced
    BY <1>3, <2>1, StillRaced
  <2>2. CASE k \notin raced
    BY <1>1, <1>3, <2>2 DEF Phase, Doubted, Attempts, LivesOn, Moves
  <2> QED
    BY <2>1, <2>2
<1> QED
  BY <1>1, <1>4, <1>5 DEF OneLives

(* Nothing moves when no row and no worker does.                           *)
LEMMA IdleLives ==
    ASSUME HInv, HNext, UNCHANGED <<jobs, worker, calls>>, Steady \/ Failing
    PROVE  OneLives
<1>1. \A v \in Workers, j \in JobIds : Takes(v, j)' <=> Takes(v, j)
  BY DEF Takes
<1>2. raced' = raced
  BY <1>1, NoMoreRaced
<1>3. \A j \in JobIds : Same(j)
  BY <1>1, <1>2, Unmoved
<1> QED
  BY <1>3 DEF OneLives

LEMMA NextLives == ASSUME HInv, HInv', HNext PROVE OneLives
<1>1. CASE \/ \E c \in Clients, h \in Hashes : Ask(c, h)
           \/ \E c \in Clients : InsertRaises(c)
  <2>1. Steady \/ Failing
    BY <1>1, OneFailure DEF Ask, InsertRaises, Steady, Failures, HInv, HTyped
  <2> QED
    BY <1>1, <2>1, IdleLives DEF Ask, InsertRaises
<1>2. CASE \E c \in Clients, k \in JobIds, delay \in 0..MaxDelay : Insert(c, k, delay)
  BY <1>2, InsertLives
<1>3. ASSUME NEW w \in Workers, ProcessNext(w) \/ Crash(w) PROVE OneLives
  <2>1. CASE \E k \in JobIds : Select(w, k)
    BY <2>1, SelectLives
  <2>2. CASE MarkRunning(w)
    BY <2>2, MarkLives
  <2>3. CASE HandlerReturns(w) \/ HandlerRaises(w) \/ CompleteRaises(w)
    BY <2>3, GoesOnLives
  <2>4. CASE CompleteUnheard(w)
    BY <2>4, UnheardLives
  <2>5. CASE \/ Complete(w) \/ FailOrRetry(w) \/ FailUnheard(w) \/ MarkUnheard(w)
             \/ FailRaises(w) \/ MarkRaises(w) \/ Crash(w)
    BY <2>5, EndLives
  <2> QED
    BY <1>3, <2>1, <2>2, <2>3, <2>4, <2>5 DEF ProcessNext, Finish
<1>4. CASE Tick \/ UNCHANGED vars
  BY <1>4, IdleLives DEF Tick, vars, Steady, Failures
<1> QED
  BY <1>1, <1>2, <1>3, <1>4 DEF HNext, Next, Enqueue, Quiet

(* A move of one job is a step of the life cycle.                          *)
Phases == [j \in JobIds |-> Phase(j)]
AllAttempts == [j \in JobIds |-> Attempts(j)]

LEMMA LifeStep ==
    ASSUME OneLives
    PROVE  [Life!Next]_<<Phases, AllAttempts, Failures>>
<1>1. CASE (Steady \/ Failing) /\ \A j \in JobIds : Same(j)
  <2>1. Phases' = Phases /\ AllAttempts' = AllAttempts
    BY <1>1 DEF Same, Phases, AllAttempts
  <2>2. CASE Steady
    BY <2>1, <2>2 DEF Steady
  <2>3. CASE Failing
    BY <2>1, <2>3 DEF Failing, Life!Next, Life!Fail, Phases, AllAttempts, Failures
  <2> QED
    BY <1>1, <2>2, <2>3
<1>2. ASSUME NEW i \in JobIds, LivesOn(i), \A j \in JobIds \ {i} : Same(j)
      PROVE  Life!Next
  <2>1. /\ Phases[i] = Phase(i) /\ AllAttempts[i] = Attempts(i)
        /\ Phases' = [Phases EXCEPT ![i] = Phase(i)']
        /\ AllAttempts' = [AllAttempts EXCEPT ![i] = Attempts(i)']
    <3>1. \A j \in JobIds : j # i => Phase(j)' = Phase(j) /\ Attempts(j)' = Attempts(j)
      BY <1>2 DEF Same
    <3> QED
      BY <3>1 DEF Phases, AllAttempts
  <2>2. Attempts(i)' = Attempts(i) => AllAttempts' = AllAttempts
    BY <2>1 DEF AllAttempts
  <2>3. ASSUME NEW from, NEW to, NEW n, Moves(i, from, to, n)
        PROVE  /\ Life!Pass(i, from, to)
               /\ AllAttempts' = [AllAttempts EXCEPT ![i] = n]
               /\ n = Attempts(i) => AllAttempts' = AllAttempts
    BY <2>1, <2>2, <2>3 DEF Moves, Life!Pass, Phases
  <2> USE DEF Steady, Failing, Failures
  <2>4. CASE Steady /\ Moves(i, "absent", "queued", Attempts(i))
    <3>1. Life!Enqueue(i)
      BY <2>3, <2>4 DEF Life!Enqueue, Phases, AllAttempts
    <3> QED
      BY <3>1 DEF Life!Next
  <2>5. CASE Steady /\ Moves(i, "queued", "running", Attempts(i) + 1)
    <3>1. Life!Start(i)
      BY <2>1, <2>3, <2>5 DEF Life!Start, Phases, AllAttempts
    <3> QED
      BY <3>1 DEF Life!Next
  <2>6. CASE Steady /\ Moves(i, "running", "returned", Attempts(i))
    <3>1. Life!Return(i)
      BY <2>3, <2>6 DEF Life!Return, Phases, AllAttempts
    <3> QED
      BY <3>1 DEF Life!Next
  <2>7. CASE Steady /\ Moves(i, "returned", "completed", Attempts(i))
    <3>1. Life!Complete(i)
      BY <2>3, <2>7 DEF Life!Complete, Phases, AllAttempts
    <3> QED
      BY <3>1 DEF Life!Next
  <2>8. CASE Steady /\ Moves(i, "queued", "raced", 0)
    <3>1. Life!Race(i)
      BY <2>3, <2>8 DEF Life!Race, Phases, AllAttempts
    <3> QED
      BY <3>1 DEF Life!Next
  <2>9. ASSUME Steady \/ Failing, Attempts(i) <= MaxRetries, NEW from \in {"running", "doubted"},
               Moves(i, from, "queued", Attempts(i))
        PROVE  Life!Next
    <3>1. Life!Retry(i)
      BY <2>1, <2>3, <2>9 DEF Life!Retry, Phases, AllAttempts
    <3> QED
      BY <3>1 DEF Life!Next
  <2>10. ASSUME Steady \/ Failing, Attempts(i) = MaxRetries + 1,
                NEW from \in {"running", "doubted"}, Moves(i, from, "failed", Attempts(i))
         PROVE  Life!Next
    <3>1. Life!GiveUp(i)
      BY <2>1, <2>3, <2>10 DEF Life!GiveUp, Phases, AllAttempts
    <3> QED
      BY <3>1 DEF Life!Next
  <2>11. ASSUME Failing,
                \/ Moves(i, "returned", "running", Attempts(i))
                \/ Moves(i, "returned", "doubted", Attempts(i))
                \/ Moves(i, "doubted", "completed", Attempts(i))
                \/ \E from \in {"queued", "running", "returned"} :
                      Moves(i, from, "lost", Attempts(i))
         PROVE  Life!Next
    <3>1. Life!Fail
      BY <2>3, <2>11 DEF Life!Fail, Phases, AllAttempts
    <3> QED
      BY <3>1 DEF Life!Next
  <2> QED
    BY <1>2, <2>4, <2>5, <2>6, <2>7, <2>8, <2>9, <2>10, <2>11 DEF LivesOn
<1> QED
  BY <1>1, <1>2 DEF OneLives

LEMMA LifeInit == HInit => Life!Init
BY DEF HInit, Init, Life!Init, Phase, Doubted, Attempts, NoJob

(* However workers, clients, failures and deaths interleave, each job lives *)
(* the life of the docstring, one job at a step, until two workers take it  *)
(* while it waits: it completes only out of the attempt that returned, is   *)
(* retried or given up as its attempts say, and never leaves its end.       *)
THEOREM JobsLiveAsPromised == HSpec => ImplementsLife
<1>1. HInv /\ HInv' /\ [HNext]_hvars => [Life!Next]_<<Phases, AllAttempts, Failures>>
  <2> SUFFICES ASSUME HInv, HInv', [HNext]_hvars
               PROVE  [Life!Next]_<<Phases, AllAttempts, Failures>>
    OBVIOUS
  <2>1. CASE HNext
    BY <2>1, NextLives, LifeStep
  <2>2. CASE UNCHANGED hvars
    <3>1. Phases' = Phases /\ AllAttempts' = AllAttempts /\ Failures' = Failures
      BY <2>2 DEF hvars, vars, Phases, AllAttempts, Failures, Phase, Doubted, Attempts, Takes
    <3> QED
      BY <3>1
  <2> QED
    BY <2>1, <2>2
<1> QED
  BY <1>1, LifeInit, HInvHolds, PTL DEF HSpec, ImplementsLife, Life!Spec, Life!life,
                                      Phases, AllAttempts, Failures

-----------------------------------------------------------------------------
(* What such a life is good for. *)

VARIABLES phase, attempts, failures
CONSTANT Ids
Promise == INSTANCE JobLife

Goals == {"queued", "running", "returned", "doubted", "completed", "failed", "lost", "raced"}
LifeTyped ==
    /\ phase \in [Ids -> Goals \cup {"absent"}]
    /\ attempts \in [Ids -> Nat]
    /\ failures \in Nat
    /\ \A j \in Ids : phase[j] = "absent" => attempts[j] = 0

(* What a step of a job is, and what a failure is.                         *)
OfJob(j) ==
    \/ Promise!Enqueue(j) \/ Promise!Start(j) \/ Promise!Return(j) \/ Promise!Complete(j)
    \/ Promise!Retry(j) \/ Promise!GiveUp(j) \/ Promise!Race(j)

LEMMA JobMoves ==
    ASSUME NEW j \in Ids, OfJob(j)
    PROVE  \E from \in {"absent", "queued", "running", "returned", "doubted"},
              to \in Goals \ {"doubted", "lost"} : Promise!Pass(j, from, to)
BY DEF OfJob, Promise!Enqueue, Promise!Start, Promise!Return, Promise!Complete,
       Promise!Retry, Promise!GiveUp, Promise!Race, Goals

LEMMA FailureMoves ==
    ASSUME Promise!Fail
    PROVE  /\ failures' = failures + 1 /\ attempts' = attempts
           /\ \/ phase' = phase
              \/ \E j \in Ids, from \in {"queued", "running", "returned", "doubted"},
                    to \in {"running", "doubted", "completed", "lost"} :
                   /\ Promise!Pass(j, from, to)
                   /\ from = "queued" => to = "lost"
BY DEF Promise!Fail

LEMMA LifeSound == Promise!Spec => [](LifeTyped /\ Promise!Attempted)
<1> DEFINE Inv == LifeTyped /\ Promise!Attempted
<1>1. Promise!Init => Inv
  BY ConstantsOK DEF Promise!Init, LifeTyped, Promise!Attempted
<1>2. Inv /\ [Promise!Next]_(Promise!life) => Inv'
  <2> SUFFICES ASSUME Inv, [Promise!Next]_(Promise!life) PROVE Inv'
    OBVIOUS
  <2>1. CASE UNCHANGED Promise!life
    BY <2>1 DEF LifeTyped, Promise!Attempted, Promise!life
  <2>2. ASSUME NEW j \in Ids, OfJob(j) PROVE Inv'
    <3>1. PICK from \in {"absent", "queued", "running", "returned", "doubted"},
               to \in Goals \ {"doubted", "lost"} : Promise!Pass(j, from, to)
      BY <2>2, JobMoves
    <3>2. phase'[j] = to /\ \A k \in Ids \ {j} : phase'[k] = phase[k]
      BY <3>1 DEF Promise!Pass, LifeTyped
    <3>3. /\ attempts' \in [Ids -> Nat] /\ \A k \in Ids \ {j} : attempts'[k] = attempts[k]
          /\ failures' \in Nat
      BY <2>2 DEF OfJob, Promise!Enqueue, Promise!Start, Promise!Return, Promise!Complete,
                  Promise!Retry, Promise!GiveUp, Promise!Race, LifeTyped
    <3>4. LifeTyped'
      BY <3>1, <3>2, <3>3 DEF LifeTyped, Goals, Promise!Pass
    <3>5. /\ attempts'[j] <= MaxRetries + 1
          /\ phase'[j] = "queued" => attempts'[j] <= MaxRetries
          /\ phase'[j] = "failed" => attempts'[j] = MaxRetries + 1
          /\ phase'[j] \in {"running", "returned", "doubted", "completed"} => attempts'[j] > 0
      BY <2>2, ConstantsOK
         DEF OfJob, Promise!Enqueue, Promise!Start, Promise!Return, Promise!Complete,
             Promise!Retry, Promise!GiveUp, Promise!Race, Promise!Pass, LifeTyped, Promise!Attempted
    <3> QED
      BY <3>2, <3>3, <3>4, <3>5 DEF Promise!Attempted
  <2>3. CASE Promise!Fail
    <3>1. failures' \in Nat /\ attempts' = attempts
      BY <2>3, FailureMoves DEF LifeTyped
    <3>2. CASE phase' = phase
      BY <3>1, <3>2 DEF LifeTyped, Promise!Attempted
    <3>3. CASE phase' # phase
      <4>1. PICK j \in Ids, from \in {"queued", "running", "returned", "doubted"},
                 to \in {"running", "doubted", "completed", "lost"} :
              Promise!Pass(j, from, to) /\ (from = "queued" => to = "lost")
        BY <2>3, <3>3, FailureMoves
      <4>2. phase'[j] = to /\ phase[j] = from /\ \A k \in Ids \ {j} : phase'[k] = phase[k]
        BY <4>1 DEF Promise!Pass, LifeTyped
      <4>3. LifeTyped'
        BY <3>1, <4>1, <4>2 DEF LifeTyped, Goals, Promise!Pass
      <4> QED
        BY <3>1, <4>1, <4>2, <4>3 DEF Promise!Attempted
    <3> QED
      BY <3>2, <3>3
  <2> QED
    BY <2>1, <2>2, <2>3 DEF Promise!Next, OfJob
<1> QED
  BY <1>1, <1>2, PTL DEF Promise!Spec

(* A job that waits has attempts left, a failed one had all, and none has  *)
(* more; only a job whose handler was called is running or completed.      *)
THEOREM LifeCountsAttempts == Promise!Spec => []Promise!Attempted
BY LifeSound, PTL

(* ... and an end is an end: nothing is retried, completed or lost after.  *)
THEOREM LifeEnds == Promise!Spec => Promise!EndsAreFinal
<1>1. LifeTyped /\ [Promise!Next]_(Promise!life)
      => [\A j \in Ids : phase[j] \in Promise!Ends => phase'[j] = phase[j]]_(Promise!life)
  <2> SUFFICES ASSUME LifeTyped, Promise!Next, NEW j \in Ids, phase[j] \in Promise!Ends
               PROVE  phase'[j] = phase[j]
    OBVIOUS
  <2>1. CASE \E i \in Ids : OfJob(i)
    BY <2>1, JobMoves DEF Promise!Pass, Promise!Ends, LifeTyped
  <2>2. CASE Promise!Fail
    BY <2>2, FailureMoves DEF Promise!Pass, Promise!Ends, LifeTyped
  <2> QED
    BY <2>1, <2>2 DEF Promise!Next, OfJob
<1> QED
  BY <1>1, LifeSound, PTL DEF Promise!Spec, Promise!EndsAreFinal

(* What failures cost: jobs that are lost, or marked completed and still   *)
(* to be done again.                                                       *)
Damaged == {j \in Ids : phase[j] \in {"lost", "doubted"}}
LossesPaid == IsFiniteSet(Damaged) /\ Cardinality(Damaged) <= failures

(* One job more at most makes the damage one greater at most.              *)
LEMMA OneMoreDamaged ==
    ASSUME NEW D, IsFiniteSet(D), NEW n \in Nat, Cardinality(D) <= n,
           NEW x, NEW E \in SUBSET (D \cup {x})
    PROVE  IsFiniteSet(E) /\ Cardinality(E) <= n + 1
<1>1. IsFiniteSet(D \cup {x}) /\ Cardinality(D) \in Nat
      /\ Cardinality(D \cup {x}) = IF x \in D THEN Cardinality(D) ELSE Cardinality(D) + 1
  BY FS_AddElement, FS_CardinalityType
<1>2. IsFiniteSet(E) /\ Cardinality(E) <= Cardinality(D \cup {x}) /\ Cardinality(E) \in Nat
  BY <1>1, FS_Subset, FS_CardinalityType
<1> QED
  BY <1>1, <1>2

LEMMA LossesStayPaid ==
    ASSUME LifeTyped, LossesPaid, Promise!Next
    PROVE  LossesPaid'
<1>0. /\ IsFiniteSet(Damaged) /\ Cardinality(Damaged) <= failures
      /\ Cardinality(Damaged) \in Nat /\ failures \in Nat
  BY FS_CardinalityType DEF LossesPaid, LifeTyped
<1>1. ASSUME NEW j \in Ids, OfJob(j) PROVE LossesPaid'
  <2>1. Damaged' \subseteq Damaged
    BY <1>1, JobMoves DEF Promise!Pass, Damaged, LifeTyped
  <2>2. /\ IsFiniteSet(Damaged') /\ Cardinality(Damaged') \in Nat
        /\ Cardinality(Damaged') <= Cardinality(Damaged)
    BY <1>0, <2>1, FS_Subset, FS_CardinalityType
  <2>3. failures' >= failures /\ failures' \in Nat
    BY <1>0, <1>1 DEF OfJob, Promise!Enqueue, Promise!Start, Promise!Return, Promise!Complete,
                      Promise!Retry, Promise!GiveUp, Promise!Race
  <2> QED
    BY <1>0, <2>2, <2>3 DEF LossesPaid
<1>2. CASE Promise!Fail
  <2>1. \E x : Damaged' \subseteq Damaged \cup {x}
    <3>1. CASE phase' = phase
      BY <3>1 DEF Damaged
    <3>2. CASE phase' # phase
      <4>1. PICK j \in Ids : \E from, to : Promise!Pass(j, from, to)
        BY <1>2, <3>2, FailureMoves
      <4>2. Damaged' \subseteq Damaged \cup {j}
        BY <4>1 DEF Promise!Pass, Damaged, LifeTyped
      <4> QED
        BY <4>2
    <3> QED
      BY <3>1, <3>2
  <2>2. IsFiniteSet(Damaged') /\ Cardinality(Damaged') <= failures + 1
    BY <1>0, <2>1, OneMoreDamaged
  <2> QED
    BY <1>2, <2>2, FailureMoves DEF LossesPaid
<1> QED
  BY <1>1, <1>2 DEF Promise!Next, OfJob

(* A failure costs one job at most: of any number of jobs no more are lost *)
(* or doubted than there were failures.                                    *)
THEOREM LossesAreFailures == Promise!Spec => []LossesPaid
<1>1. Promise!Init => LossesPaid
  <2> SUFFICES ASSUME Promise!Init PROVE LossesPaid
    OBVIOUS
  <2>1. Damaged = {} /\ failures = 0
    BY DEF Promise!Init, Damaged
  <2> QED
    BY <2>1, FS_EmptySet DEF LossesPaid
<1>2. LifeTyped /\ LossesPaid /\ [Promise!Next]_(Promise!life) => LossesPaid'
  <2>1. CASE Promise!Next
    BY <2>1, LossesStayPaid
  <2>2. CASE UNCHANGED Promise!life
    BY <2>2 DEF Promise!life, LossesPaid, Damaged
  <2> QED
    BY <2>1, <2>2
<1> QED
  BY <1>1, <1>2, LifeSound, PTL DEF Promise!Spec

-----------------------------------------------------------------------------
(* Twins. *)

(* Whoever is about to insert found no queued job of its hash: a job of it *)
(* that is fresh now was inserted since.                                   *)
LateOnes ==
    \A c \in Clients, j \in JobIds :
        client[c].pc = "insert" /\ Fresh(j) /\ jobs[j].hash = client[c].hash => j \in crossed

(* A step that makes no job fresh, and after which no more clients wait.   *)
LEMMA NoneFresher ==
    ASSUME TwinsCrossed, LateOnes, crossed \subseteq crossed',
           \A j \in JobIds : Fresh(j)' => Fresh(j) /\ jobs'[j].hash = jobs[j].hash,
           \A c \in Clients : client'[c].pc = "insert" => client'[c] = client[c]
    PROVE  TwinsCrossed' /\ LateOnes'
<1>1. TwinsCrossed'
  BY DEF TwinsCrossed
<1>2. LateOnes'
  BY DEF LateOnes
<1> QED
  BY <1>1, <1>2

LEMMA WorkerFreshens ==
    ASSUME Typed, NEW w \in Workers, ProcessNext(w) \/ Crash(w)
    PROVE  /\ client' = client
           /\ \A j \in JobIds : Fresh(j)' => Fresh(j) /\ jobs'[j].hash = jobs[j].hash
<1>1. client' = client
  BY DEF ProcessNext, Select, MarkRunning, MarkRaises, MarkUnheard, HandlerReturns, HandlerRaises,
         Finish, Complete, CompleteRaises, CompleteUnheard, FailOrRetry, FailRaises, FailUnheard,
         Crash
<1>2. ASSUME NEW row \in Jobs, row.status # "queued" \/ row.retries # 0, worker[w].pc \in Labels,
             jobs' = [jobs EXCEPT ![worker[w].job] = row]
      PROVE  \A j \in JobIds : Fresh(j)' => Fresh(j) /\ jobs'[j].hash = jobs[j].hash
  <2>1. worker[w].job \in JobIds
    BY <1>2, InHand
  <2>2. jobs'[worker[w].job] = row /\ \A k \in JobIds \ {worker[w].job} : jobs'[k] = jobs[k]
    BY <1>2, <2>1, RowChanges
  <2> QED
    BY <1>2, <2>2 DEF Fresh, Queued
<1>3. CASE MarkRunning(w)
  <2>1. worker[w].job \in JobIds /\ jobs[worker[w].job] \in Jobs
    BY <1>3, InHand DEF MarkRunning, Labels
  <2>2. /\ jobs'[worker[w].job].status = "running"
        /\ \A k \in JobIds \ {worker[w].job} : jobs'[k] = jobs[k]
    BY <1>3, <2>1, Marks DEF Typed
  <2> QED
    BY <1>1, <2>2 DEF Fresh, Queued
<1>4. CASE MarkUnheard(w) \/ Complete(w) \/ CompleteUnheard(w)
  <2>1. PICK row \in Jobs : row.status # "queued" /\ jobs' = [jobs EXCEPT ![worker[w].job] = row]
    BY <1>4, StartsRow, CompletesRow
  <2>2. worker[w].pc \in Labels
    BY <1>4 DEF MarkUnheard, Complete, CompleteUnheard, Labels
  <2> QED
    BY <1>1, <1>2, <2>1, <2>2
<1>5. CASE FailOrRetry(w) \/ FailUnheard(w)
  <2>1. PICK row \in Jobs : row.retries = worker[w].retries + 1
                            /\ jobs' = [jobs EXCEPT ![worker[w].job] = row]
    BY <1>5, RetriesRow
  <2>2. worker[w].pc \in Labels /\ worker[w].retries \in Nat
    BY <1>5, InHand DEF FailOrRetry, FailUnheard, Labels
  <2>3. row.retries # 0
    BY <2>1, <2>2
  <2> QED
    BY <1>1, <1>2, <2>1, <2>2, <2>3
<1>6. CASE jobs' = jobs
  BY <1>1, <1>6 DEF Fresh, Queued
<1> QED
  BY <1>3, <1>4, <1>5, <1>6
     DEF ProcessNext, Select, MarkRaises, HandlerReturns, HandlerRaises, Finish, CompleteRaises,
         FailRaises, Crash

LEMMA AskCrosses ==
    ASSUME Typed, TwinsCrossed, LateOnes, crossed \subseteq crossed',
           NEW c \in Clients, NEW h \in Hashes, Ask(c, h)
    PROVE  TwinsCrossed' /\ LateOnes'
<1>1. \A j \in JobIds : Fresh(j)' <=> Fresh(j)
  BY DEF Ask, Fresh, Queued
<1>2. /\ client'[c].hash = h /\ \A d \in Clients \ {c} : client'[d] = client[d]
      /\ jobs' = jobs
  BY DEF Ask, Typed, TypeOK
<1>3. \A j \in JobIds : Fresh(j) => jobs[j].hash # h
  BY DEF Ask, SameHash, Fresh
<1>4. TwinsCrossed'
  BY <1>1, <1>2 DEF TwinsCrossed
<1>5. LateOnes'
  BY <1>1, <1>2, <1>3 DEF LateOnes
<1> QED
  BY <1>4, <1>5

LEMMA InsertCrosses ==
    ASSUME Typed, TwinsCrossed, LateOnes, crossed' = crossed \cup Crossing,
           NEW c \in Clients, NEW j \in JobIds, NEW delay \in 0..MaxDelay, Insert(c, j, delay)
    PROVE  TwinsCrossed' /\ LateOnes'
<1>1. /\ client[c].pc = "insert" /\ client'[c].pc = "idle"
      /\ \A d \in Clients \ {c} : client'[d] = client[d]
  BY DEF Insert, Typed, TypeOK, NoRequest
<1>2. /\ jobs[j] = NoJob /\ jobs'[j] # NoJob /\ jobs'[j].hash = client[c].hash
      /\ \A k \in JobIds \ {j} : jobs'[k] = jobs[k]
  BY DEF Insert, Typed, TypeOK, NoJob
<1>3. \A k \in JobIds \ {j} : Fresh(k)' <=> Fresh(k)
  BY <1>2 DEF Fresh, Queued
<1>4. ASSUME NEW k \in JobIds \ {j}, Fresh(k), jobs[k].hash = client[c].hash PROVE k \in crossed
  BY <1>1, <1>4 DEF LateOnes
<1>5. ASSUME NEW d \in Clients, client'[d].pc = "insert", client'[d].hash = jobs'[j].hash
      PROVE  j \in crossed'
  BY <1>2, <1>5 DEF Crossing
<1>6. TwinsCrossed'
  <2> SUFFICES ASSUME NEW i \in JobIds, NEW k \in JobIds, i # k, Fresh(i)', Fresh(k)',
                      jobs'[i].hash = jobs'[k].hash
               PROVE  i \in crossed' \/ k \in crossed'
    BY DEF TwinsCrossed
  <2>1. CASE i # j /\ k # j
    BY <1>2, <1>3, <2>1 DEF TwinsCrossed
  <2>2. CASE i = j
    BY <1>2, <1>3, <1>4, <2>2
  <2>3. CASE k = j
    BY <1>2, <1>3, <1>4, <2>3
  <2> QED
    BY <2>1, <2>2, <2>3
<1>7. LateOnes'
  <2> SUFFICES ASSUME NEW d \in Clients, NEW k \in JobIds, client'[d].pc = "insert", Fresh(k)',
                      jobs'[k].hash = client'[d].hash
               PROVE  k \in crossed'
    BY DEF LateOnes
  <2>1. CASE k = j
    BY <1>5, <2>1
  <2>2. CASE k # j
    <3>1. client'[d] = client[d]
      BY <1>1
    <3> QED
      BY <1>2, <1>3, <2>2, <3>1 DEF LateOnes
  <2> QED
    BY <2>1, <2>2
<1> QED
  BY <1>6, <1>7

LEMMA NextCrosses ==
    ASSUME Typed, TwinsCrossed, LateOnes, [HNext]_hvars
    PROVE  TwinsCrossed' /\ LateOnes'
<1>0. crossed \subseteq crossed' /\ (HNext => crossed' = crossed \cup Crossing)
  BY DEF HNext, hvars
<1>1. ASSUME HNext, NEW c \in Clients, Enqueue(c) PROVE TwinsCrossed' /\ LateOnes'
  <2>1. CASE InsertRaises(c)
    <3>1. /\ jobs' = jobs
          /\ \A d \in Clients : client'[d].pc = "insert" => client'[d] = client[d]
      BY <2>1 DEF InsertRaises, Typed, TypeOK, NoRequest
    <3> QED
      BY <1>0, <3>1, NoneFresher DEF Fresh, Queued
  <2> QED
    BY <1>0, <1>1, <2>1, AskCrosses, InsertCrosses DEF Enqueue
<1>2. CASE \E w \in Workers : ProcessNext(w) \/ Crash(w)
  BY <1>0, <1>2, WorkerFreshens, NoneFresher
<1>3. CASE UNCHANGED <<jobs, client>>
  BY <1>0, <1>3, NoneFresher DEF Fresh, Queued
<1> QED
  BY <1>1, <1>2, <1>3 DEF HNext, Next, Quiet, Tick, hvars, vars

(* However many clients, workers and failures interleave, two jobs of one  *)
(* hash wait for their first attempt only when their clients crossed.      *)
THEOREM TwinsAreCrossed == HSpec => []TwinsCrossed
<1>1. HInit => TwinsCrossed /\ LateOnes
  BY DEF HInit, Init, TwinsCrossed, LateOnes, Fresh, Queued, NoJob
<1>2. Typed /\ TwinsCrossed /\ LateOnes /\ [HNext]_hvars => (TwinsCrossed /\ LateOnes)'
  BY NextCrosses
<1>3. HInv => Typed
  BY DEF HInv, HTyped
<1> QED
  BY <1>1, <1>2, <1>3, HInvHolds, PTL DEF HSpec

=============================================================================
