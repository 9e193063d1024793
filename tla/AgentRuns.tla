----------------------------- MODULE AgentRuns -----------------------------
(***************************************************************************)
(* Agentic actions: services/agentic_execution.py behind the four handlers *)
(* of routes/agent_routes.py (execute, approve, cancel, retry).            *)
(*                                                                         *)
(* A request runs on a slot (a gunicorn thread) of a worker process.  Each *)
(* database round trip of the code, which opens a connection of its own,   *)
(* is one step here, so requests interleave between any two of them.  A    *)
(* round trip may fail (pool exhausted, connection lost): the code then    *)
(* uses a dictionary of the worker process, lost when the process dies.    *)
(***************************************************************************)
EXTENDS Naturals, Sequences

CONSTANTS
    Users,         \* authenticated users
    ActionIds,     \* values of agent_runs.action_id
    Names,         \* the registered action names that clients send
    Slots,         \* request threads
    Workers,       \* server processes
    WorkerOf,      \* the process a thread belongs to
    MaxRequests,   \* bound: requests started in a behaviour
    MaxFaults,     \* bound: database round trips that fail
    MaxCrashes     \* bound: processes that die

(* _ACTION_REGISTRY; the two destructive actions require approval. *)
Registry ==
    {"create_task", "update_task", "delete_task", "create_appointment",
     "delete_appointment", "send_ai_reply", "search_memory"}

RequiresApproval(name) == name \in {"delete_task", "delete_appointment"}

ASSUME ConstantsOK ==
    /\ Names \subseteq Registry
    /\ WorkerOf \in [Slots -> Workers]
    /\ MaxRequests \in Nat /\ MaxFaults \in Nat /\ MaxCrashes \in Nat

(* _get_executor: the registered actions a live route can really perform. *)
NoExecutor == "no executor"
ExecutorFor(name) ==
    IF name \in {"create_task", "update_task", "create_appointment"}
    THEN name ELSE NoExecutor

VARIABLES
    runs,      \* table agent_runs, by action_id
    mem,       \* _runs_store of each process, by action_id
    effects,   \* the writes executors committed for an action_id, in order
    req,       \* the request each slot is serving
    started,   \* requests started so far
    faults,    \* round trips that failed so far
    crashes    \* processes that died so far

vars == <<runs, mem, effects, req, started, faults, crashes>>

-----------------------------------------------------------------------------
(* Rows of agent_runs and of _runs_store. *)

Statuses == {"pending", "executing", "completed", "failed", "canceled"}
Terminal == {"completed", "failed", "denied", "canceled"}

NoRow == [status |-> "absent"]
Rows == [user : Users, name : Names, status : Statuses, closed : BOOLEAN]

(* INSERT ... ON CONFLICT (action_id) DO UPDATE: an existing row keeps its *)
(* owner and its name, whoever writes; completed_at is never cleared.      *)
UpsertedRenaming(row, u, n, st) ==
    [user |-> u, name |-> n, status |-> st, closed |-> st \in Terminal]
Upserted(row, u, n, st) ==
    IF row = NoRow
    THEN [user |-> u, name |-> n, status |-> st, closed |-> st \in Terminal]
    ELSE [row EXCEPT !.status = st, !.closed = @ \/ st \in Terminal]

(* The dictionary entry takes the owner and the name of the last writer. *)
Remembered(row, u, n, st) ==
    [user |-> u, name |-> n, status |-> st,
     closed |-> st \in Terminal \/ (row # NoRow /\ row.closed)]

(* A write committed by an executor, and whether it was read back. *)
Effects == [user : Users, name : Registry, verified : BOOLEAN]

OwnedBy(row, u) == IF row # NoRow /\ row.user = u THEN row ELSE NoRow

(* _get_run_from_db when the database answers; get_agent_run otherwise     *)
(* looks in the dictionary of its process.                                 *)
RunInDb(u, a) == OwnedBy(runs[a], u)
AgentRun(w, u, a, dbAnswers) ==
    IF dbAnswers /\ RunInDb(u, a) # NoRow
    THEN RunInDb(u, a)
    ELSE OwnedBy(mem[w][a], u)

-----------------------------------------------------------------------------
(* Requests. *)

Idle == [pc |-> "idle"]
Requests ==
    [pc : {"pick", "lookup", "check", "defer", "begin", "run", "finish", "cancel"},
     op : {"execute", "approve", "retry", "cancel"},
     user : Users, id : ActionIds,
     name : Names \cup {"unknown"}, executor : Registry \cup {NoExecutor},
     approved : BOOLEAN, outcome : {"none", "completed", "failed"}]

Goto(s, label) == req' = [req EXCEPT ![s].pc = label]
Return(s) == req' = [req EXCEPT ![s] = Idle]

(* A database round trip answers, or fails and uses one of the faults. *)
RoundTrip(dbAnswers) ==
    /\ dbAnswers \/ faults < MaxFaults
    /\ faults' = IF dbAnswers THEN faults ELSE faults + 1

(* _persist_run for the request of slot s. *)
Persist(s, st, dbAnswers) ==
    LET a == req[s].id
        u == req[s].user
        n == req[s].name
        w == WorkerOf[s]
    IN  /\ RoundTrip(dbAnswers)
        /\ IF dbAnswers
           THEN /\ runs' = [runs EXCEPT ![a] = Upserted(@, u, n, st)]
                /\ UNCHANGED mem
           ELSE /\ mem' = [mem EXCEPT ![w][a] = Remembered(@, u, n, st)]
                /\ UNCHANGED runs

Start(s, r) ==
    /\ req[s] = Idle
    /\ started < MaxRequests
    /\ started' = started + 1
    /\ req' = [req EXCEPT ![s] = r]
    /\ UNCHANGED <<runs, mem, effects, faults, crashes>>

(* POST /agent/execute: the client chooses action_id and the approved flag. *)
Execute(s, u, a, n, flag) ==
    Start(s, [pc |-> "check", op |-> "execute", user |-> u, id |-> a, name |-> n,
              executor |-> ExecutorFor(n), approved |-> flag, outcome |-> "none"])

(* POST /agent/approve and /agent/retry read the run twice: once in the    *)
(* handler to pick the executor, once in the service to decide.            *)
Resume(s, op, u, a) ==
    Start(s, [pc |-> "pick", op |-> op, user |-> u, id |-> a, name |-> "unknown",
              executor |-> NoExecutor, approved |-> FALSE, outcome |-> "none"])

(* POST /agent/cancel *)
Cancel(s, u, a) ==
    Start(s, [pc |-> "lookup", op |-> "cancel", user |-> u, id |-> a, name |-> "unknown",
              executor |-> NoExecutor, approved |-> FALSE, outcome |-> "none"])

PickExecutor(s) ==
    /\ req[s].pc = "pick"
    /\ \E dbAnswers \in BOOLEAN :
        /\ RoundTrip(dbAnswers)
        /\ LET row == AgentRun(WorkerOf[s], req[s].user, req[s].id, dbAnswers)
           IN  req' = [req EXCEPT ![s].pc = "lookup",
                                  ![s].executor = IF row = NoRow THEN NoExecutor
                                                  ELSE ExecutorFor(row.name)]
    /\ UNCHANGED <<runs, mem, effects, started, crashes>>

(* The status a run must have for the operation to go on. *)
CancelableOrDone == {"pending", "executing", "approved", "completed"}
Cancelable == {"pending", "executing", "approved"}
Admits(op, status) ==
    \/ op = "approve" /\ status = "pending"
    \/ op = "retry"   /\ status = "failed"
    \/ op = "cancel"  /\ status \in Cancelable

(* approve_action, retry_action and cancel_action up to their decision.    *)
(* Approving grants approval; a retry only keeps it where none is needed.  *)
LookUp(s) ==
    /\ req[s].pc = "lookup"
    /\ \E dbAnswers \in BOOLEAN :
        /\ RoundTrip(dbAnswers)
        /\ LET r == req[s]
               row == AgentRun(WorkerOf[s], r.user, r.id, dbAnswers)
           IN  IF row # NoRow /\ Admits(r.op, row.status)
               THEN req' = [req EXCEPT ![s] =
                     [r EXCEPT !.pc = IF r.op = "cancel" THEN "cancel" ELSE "check",
                               !.name = row.name,
                               !.approved = \/ r.op = "approve"
                                            \/ r.op = "retry" /\ ~RequiresApproval(row.name)]]
               ELSE Return(s)
    /\ UNCHANGED <<runs, mem, effects, started, crashes>>

(* cancel_action, after its decision *)
CancelWrite(s) ==
    /\ req[s].pc = "cancel"
    /\ \E dbAnswers \in BOOLEAN : Persist(s, "canceled", dbAnswers)
    /\ Return(s)
    /\ UNCHANGED <<effects, started, crashes>>

(* execute_action: the idempotency check reads the database only, and a    *)
(* failed read counts as "not completed"; then the approval gate.          *)
NeverCompleted(u, a) == FALSE
AlreadyCompleted(u, a) == RunInDb(u, a).status = "completed"
CheckCompleted(s) ==
    /\ req[s].pc = "check"
    /\ \E dbAnswers \in BOOLEAN :
        /\ RoundTrip(dbAnswers)
        /\ IF dbAnswers /\ AlreadyCompleted(req[s].user, req[s].id)
           THEN Return(s)
           ELSE Goto(s, IF RequiresApproval(req[s].name) /\ ~req[s].approved
                        THEN "defer" ELSE "begin")
    /\ UNCHANGED <<runs, mem, effects, started, crashes>>

(* The run waits for approval. *)
Defer(s) ==
    /\ req[s].pc = "defer"
    /\ \E dbAnswers \in BOOLEAN : Persist(s, "pending", dbAnswers)
    /\ Return(s)
    /\ UNCHANGED <<effects, started, crashes>>

(* The run is recorded as executing before its executor is called. *)
BeginUnrecorded(s) ==
    /\ req[s].pc = "begin"
    /\ Goto(s, "run")
    /\ UNCHANGED <<runs, mem, effects, started, faults, crashes>>
Begin(s) ==
    /\ req[s].pc = "begin"
    /\ \E dbAnswers \in BOOLEAN : Persist(s, "executing", dbAnswers)
    /\ Goto(s, "run")
    /\ UNCHANGED <<effects, started, crashes>>

(* The executor commits one write of its own; two executors then read the  *)
(* row back and note in the result whether they found it (verify_write     *)
(* never raises, and the row may be gone or the database silent) ...       *)
ReadsBack == {"create_task", "create_appointment"}
RunExecutor(s) ==
    /\ req[s].pc = "run"
    /\ req[s].executor # NoExecutor
    /\ \E verified \in BOOLEAN :
        /\ verified => req[s].executor \in ReadsBack
        /\ effects' = [effects EXCEPT ![req[s].id] =
               Append(@, [user |-> req[s].user, name |-> req[s].executor,
                          verified |-> verified])]
    /\ req' = [req EXCEPT ![s].pc = "finish", ![s].outcome = "completed"]
    /\ UNCHANGED <<runs, mem, started, faults, crashes>>

(* ... or raises before its commit. *)
ExecutorRaises(s) ==
    /\ req[s].pc = "run"
    /\ req[s].executor # NoExecutor
    /\ req' = [req EXCEPT ![s].pc = "finish", ![s].outcome = "failed"]
    /\ UNCHANGED <<runs, mem, effects, started, faults, crashes>>

(* A live route without an executor leaves the run pending. *)
SimulatedStatus == "completed"
StatusWithoutExecutor == "pending"
LeavePending(s) ==
    /\ req[s].pc = "run"
    /\ req[s].executor = NoExecutor
    /\ \E dbAnswers \in BOOLEAN : Persist(s, StatusWithoutExecutor, dbAnswers)
    /\ Return(s)
    /\ UNCHANGED <<effects, started, crashes>>

(* The outcome replaces whatever status the row has by now. *)
FinishUnrecorded(s) ==
    /\ req[s].pc = "finish"
    /\ Return(s)
    /\ UNCHANGED <<runs, mem, effects, started, faults, crashes>>
Finish(s) ==
    /\ req[s].pc = "finish"
    /\ \E dbAnswers \in BOOLEAN : Persist(s, req[s].outcome, dbAnswers)
    /\ Return(s)
    /\ UNCHANGED <<effects, started, crashes>>

(* A process dies (gunicorn kills a worker at its timeout, a deploy, the   *)
(* platform) and is restarted empty.                                       *)
Crash(w) ==
    /\ crashes < MaxCrashes
    /\ crashes' = crashes + 1
    /\ mem' = [mem EXCEPT ![w] = [a \in ActionIds |-> NoRow]]
    /\ req' = [s \in Slots |-> IF WorkerOf[s] = w THEN Idle ELSE req[s]]
    /\ UNCHANGED <<runs, effects, started, faults>>

-----------------------------------------------------------------------------

Init ==
    /\ runs = [a \in ActionIds |-> NoRow]
    /\ mem = [w \in Workers |-> [a \in ActionIds |-> NoRow]]
    /\ effects = [a \in ActionIds |-> <<>>]
    /\ req = [s \in Slots |-> Idle]
    /\ started = 0 /\ faults = 0 /\ crashes = 0

Arrive(s) ==
    \E u \in Users, a \in ActionIds :
        \/ \E n \in Names, flag \in BOOLEAN : Execute(s, u, a, n, flag)
        \/ Resume(s, "approve", u, a)
        \/ Resume(s, "retry", u, a)
        \/ Cancel(s, u, a)

Serve(s) ==
    \/ PickExecutor(s) \/ LookUp(s) \/ CancelWrite(s)
    \/ CheckCompleted(s) \/ Defer(s) \/ Begin(s)
    \/ RunExecutor(s) \/ ExecutorRaises(s) \/ LeavePending(s) \/ Finish(s)

(* The bound on requests is reached and nothing is being served. *)
Quiet ==
    /\ started = MaxRequests
    /\ \A s \in Slots : req[s] = Idle
    /\ UNCHANGED vars

Next ==
    \/ \E s \in Slots : Arrive(s) \/ Serve(s)
    \/ \E w \in Workers : Crash(w)
    \/ Quiet

Spec == Init /\ [][Next]_vars

-----------------------------------------------------------------------------
(* Properties. *)

(* Every variable has its type: rows carry a documented status, a request  *)
(* is idle or in one of its steps, counters keep their bounds.             *)
TypeOK ==
    /\ runs \in [ActionIds -> Rows \cup {NoRow}]
    /\ mem \in [Workers -> [ActionIds -> Rows \cup {NoRow}]]
    /\ effects \in [ActionIds -> Seq(Effects)]
    /\ req \in [Slots -> Requests \cup {Idle}]
    /\ started \in 0..MaxRequests
    /\ faults \in 0..MaxFaults
    /\ crashes \in 0..MaxCrashes

(* A run that is reported completed, in the table or in a fallback, really *)
(* had its effect committed: execute_action never simulates a live action. *)
CompletedHasEffect ==
    \A a \in ActionIds :
        (\/ runs[a].status = "completed"
         \/ \E w \in Workers : mem[w][a].status = "completed")
        => effects[a] # <<>>

(* Every effect has a run row to account for it, in the table or in the    *)
(* fallback of a process, unless a failed round trip put the row in a      *)
(* fallback and a process died with it ("every action persisted").         *)
EffectIsRecorded ==
    \A a \in ActionIds :
        effects[a] # <<>>
        => \/ runs[a] # NoRow
           \/ \E w \in Workers : mem[w][a] # NoRow
           \/ faults > 0 /\ crashes > 0

(* While the database answers, the executor an approval or a retry picked  *)
(* in the handler is the executor of the run the service then resumes,     *)
(* although the two read the row at different times.                       *)
ExecutorMatchesRun ==
    \A s \in Slots :
        req[s].pc \in {"check", "begin", "run", "finish"} /\ faults = 0
        => req[s].executor \in {ExecutorFor(req[s].name), NoExecutor}
=============================================================================
