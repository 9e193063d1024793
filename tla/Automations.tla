---------------------------- MODULE Automations ----------------------------
(***************************************************************************)
(* One automation of one user: services/automation.py, database path,      *)
(* behind routes/automation_routes.py.  execute_automation makes one       *)
(* transaction per helper it calls; requests interleave between them.      *)
(***************************************************************************)
EXTENDS Naturals, FiniteSets

CONSTANTS
    Callers,        \* requests served at a time
    MaxDaily,     \* automations.max_daily_executions
    MaxRuns,      \* bound: runs started
    MaxDays,      \* bound: days that begin
    MaxRaises,    \* bound: helpers that raise
    MaxCrashes    \* bound: requests cut off by the death of their process

ASSUME AutomationConstants ==
    /\ IsFiniteSet(Callers) /\ Callers # {}
    /\ MaxDaily \in Nat /\ MaxRuns \in Nat /\ MaxDays \in Nat
    /\ MaxRaises \in Nat /\ MaxCrashes \in Nat

VARIABLES
    exists,     \* whether the row of automations is there
    enabled,    \* automations.enabled
    count,      \* automations.execution_count
    rows,       \* number of rows of automation_runs, by status
    today,      \* number of completed rows created today (UTC)
    pc,         \* where each request to execute the automation is
    date, raises, crashes

automationVars == <<exists, enabled, count, rows, today, pc, date, raises, crashes>>

-----------------------------------------------------------------------------

Labels == {"idle", "count", "begin", "run", "completed", "stats", "failed"}
MoveTo(s, label) == pc' = [pc EXCEPT ![s] = label]

(* _create_run_db: the foreign key refuses a run of a deleted automation. *)
AddRow(status) ==
    /\ exists
    /\ rows' = [rows EXCEPT ![status] = @ + 1]
    /\ today' = IF status = "completed" THEN today + 1 ELSE today

(* execute_automation, its read of the automation *)
Execute(s) ==
    /\ pc[s] = "idle"
    /\ exists /\ enabled
    /\ MoveTo(s, "count")
    /\ UNCHANGED <<exists, enabled, count, rows, today, date, raises, crashes>>

(* _count_today_runs and the daily limit *)
OneTooMany(n) == n <= MaxDaily
BelowDaily(n) == n < MaxDaily
CountToday(s) ==
    /\ pc[s] = "count"
    /\ MoveTo(s, IF BelowDaily(today) THEN "begin" ELSE "idle")
    /\ UNCHANGED <<exists, enabled, count, rows, today, date, raises, crashes>>

(* The row "executing", added before the executor is called; the outcome   *)
(* is a row of its own.  The bound on runs is here.                        *)
BeginRun(s) ==
    /\ pc[s] = "begin"
    /\ rows["executing"] < MaxRuns
    /\ AddRow("executing")
    /\ MoveTo(s, "run")
    /\ UNCHANGED <<exists, enabled, count, date, raises, crashes>>

(* The automation was deleted meanwhile: the exception ends the request. *)
BeginRefused(s) ==
    /\ pc[s] = "begin"
    /\ ~ exists
    /\ MoveTo(s, "idle")
    /\ UNCHANGED <<exists, enabled, count, rows, today, date, raises, crashes>>

ExecutorReturns(s) ==
    /\ pc[s] = "run"
    /\ MoveTo(s, "completed")
    /\ UNCHANGED <<exists, enabled, count, rows, today, date, raises, crashes>>

ExecutorRaises(s) ==
    /\ pc[s] = "run"
    /\ MoveTo(s, "failed")
    /\ UNCHANGED <<exists, enabled, count, rows, today, date, raises, crashes>>

RecordCompleted(s) ==
    /\ pc[s] = "completed"
    /\ AddRow("completed")
    /\ MoveTo(s, "stats")
    /\ UNCHANGED <<exists, enabled, count, date, raises, crashes>>

(* _update_automation_stats increments in SQL; a deleted row is no error. *)
StatsTwice(n) == n + 2
StatsNext(n) == n + 1
UpdateStats(s) ==
    /\ pc[s] = "stats"
    /\ count' = IF exists THEN StatsNext(count) ELSE count
    /\ MoveTo(s, "idle")
    /\ UNCHANGED <<exists, enabled, rows, today, date, raises, crashes>>

(* Whatever raises once the run began, the statistics of a run already     *)
(* recorded as completed included, is recorded as a failed run.            *)
RecordRaises(s) ==
    /\ pc[s] \in {"completed", "stats"}
    /\ \/ pc[s] = "completed" /\ ~ exists /\ UNCHANGED raises
       \/ raises < MaxRaises /\ raises' = raises + 1
    /\ MoveTo(s, "failed")
    /\ UNCHANGED <<exists, enabled, count, rows, today, date, crashes>>

FailureDropped(s) ==
    /\ pc[s] = "failed"
    /\ exists
    /\ MoveTo(s, "idle")
    /\ UNCHANGED <<exists, enabled, count, rows, today, date, raises, crashes>>
RecordFailed(s) ==
    /\ pc[s] = "failed"
    /\ AddRow("failed")
    /\ MoveTo(s, "idle")
    /\ UNCHANGED <<exists, enabled, count, date, raises, crashes>>

(* Nothing catches an exception here: the request ends with status 500. *)
RequestRaises(s) ==
    /\ pc[s] \in {"count", "begin", "failed"}
    /\ \/ pc[s] = "failed" /\ ~ exists /\ UNCHANGED raises
       \/ raises < MaxRaises /\ raises' = raises + 1
    /\ MoveTo(s, "idle")
    /\ UNCHANGED <<exists, enabled, count, rows, today, date, crashes>>

Crash(s) ==
    /\ pc[s] # "idle"
    /\ crashes < MaxCrashes
    /\ crashes' = crashes + 1
    /\ MoveTo(s, "idle")
    /\ UNCHANGED <<exists, enabled, count, rows, today, date, raises>>

(* pause_automation and resume_automation *)
SetEnabled(flag) ==
    /\ exists
    /\ enabled' = flag
    /\ UNCHANGED <<exists, count, rows, today, pc, date, raises, crashes>>

(* delete_automation: the runs are deleted with it (ON DELETE CASCADE). *)
NoRows == [status \in {"executing", "completed", "failed"} |-> 0]
Delete ==
    /\ exists
    /\ exists' = FALSE
    /\ rows' = NoRows /\ today' = 0 /\ count' = 0
    /\ UNCHANGED <<enabled, pc, date, raises, crashes>>

DayEnds ==
    /\ date < MaxDays
    /\ date' = date + 1
    /\ today' = 0
    /\ UNCHANGED <<exists, enabled, count, rows, pc, raises, crashes>>

(* create_automation *)
AutomationInit ==
    /\ exists = TRUE /\ enabled = TRUE /\ count = 0
    /\ rows = NoRows /\ today = 0
    /\ pc = [s \in Callers |-> "idle"]
    /\ date = 0 /\ raises = 0 /\ crashes = 0

(* The automation is gone, or the bound on runs is reached. *)
NobodyCalls ==
    /\ ~ exists \/ rows["executing"] = MaxRuns
    /\ UNCHANGED automationVars

AutomationNext ==
    \/ \E s \in Callers :
        \/ Execute(s) \/ CountToday(s) \/ BeginRun(s) \/ BeginRefused(s)
        \/ ExecutorReturns(s) \/ ExecutorRaises(s) \/ RecordCompleted(s)
        \/ UpdateStats(s) \/ RecordRaises(s) \/ RecordFailed(s)
        \/ RequestRaises(s) \/ Crash(s)
    \/ \E flag \in BOOLEAN : SetEnabled(flag)
    \/ Delete
    \/ DayEnds
    \/ NobodyCalls

AutomationSpec == AutomationInit /\ [][AutomationNext]_automationVars

-----------------------------------------------------------------------------
(* Properties. *)

(* Every variable has its type. *)
AutomationTypeOK ==
    /\ exists \in BOOLEAN /\ enabled \in BOOLEAN
    /\ count \in Nat
    /\ rows \in [{"executing", "completed", "failed"} -> Nat]
    /\ today \in Nat
    /\ pc \in [Callers -> Labels]
    /\ date \in 0..MaxDays
    /\ raises \in 0..MaxRaises
    /\ crashes \in 0..MaxCrashes

(* "daily limits": no more runs complete on a day than the automation      *)
(* allows, plus one less than the requests that overlap; one request at a  *)
(* time keeps the limit, across midnight, failures and crashes.            *)
Overshoot == today < MaxDaily + Cardinality(Callers)

At(label) == Cardinality({s \in Callers : pc[s] = label})

(* execution_count is the number of completed runs in the history, up to   *)
(* the requests about to update it, unless an update was lost; no request  *)
(* makes it count a run that the history does not show.                    *)
CountMatchesHistory ==
    exists => /\ count <= rows["completed"]
              /\ raises = 0 /\ crashes = 0 => count + At("stats") = rows["completed"]

(* Each run that began has one outcome in the history, unless something    *)
(* raised or died: audit of a run is complete once its request ended.      *)
OneOutcomeEach ==
    exists /\ raises = 0 /\ crashes = 0
    => rows["executing"] = rows["completed"] + rows["failed"]
                           + At("run") + At("completed") + At("failed")
=============================================================================
