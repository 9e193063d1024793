------------------------------ MODULE Billing ------------------------------
(***************************************************************************)
(* Webhooks and the subscription of one tenant: process_webhook of         *)
(* services/billing_service.py behind POST /api/v1/billing/webhook, and    *)
(* create_subscription behind POST /api/v1/tenants/<id>/subscription.      *)
(*                                                                         *)
(* A webhook runs in one outer transaction, but the helpers it calls open  *)
(* connections of their own and commit on them before it does.             *)
(***************************************************************************)
EXTENDS Naturals

CONSTANTS
    Events,        \* event ids, each a billing event of the tenant
    Result,        \* what PaymentProvider.process_event says of each event
    Slots,         \* requests served at a time, each in a process that may die
    Plans,         \* the plans that members request over the API
    MaxFaults,     \* bound: database calls that raise
    MaxFallbacks,  \* bound: availability checks that fail
    MaxCrashes     \* bound: requests cut off by the death of their process

Statuses == {"active", "canceled", "past_due"}

(* StripeProvider.process_event: created and updated events set both       *)
(* fields, deleted and payment_failed only the status, others nothing;     *)
(* an updated event passes on a status that may not be one of the model's. *)
ProviderResults ==
    [plan : {"free", "pro"}, status : Statuses \cup {"unlisted"}]
    \cup [plan : {"none"}, status : {"canceled", "past_due", "none"}]

ASSUME ConstantsOK ==
    /\ Result \in [Events -> ProviderResults]
    /\ Plans \subseteq {"free", "pro", "pro_plus"}
    /\ "request" \notin Events
    /\ MaxFaults \in Nat /\ MaxFallbacks \in Nat /\ MaxCrashes \in Nat

VARIABLES
    sub,        \* the tenant's row of subscriptions, with who wrote what
    events,     \* billing_events: the events recorded by a commit
    request,    \* the webhook each slot is processing
    acked,      \* events answered with success, which are sent no more
    writes,     \* status writes committed for each event
    memory,     \* slots whose process has a subscription in _mem_subscriptions
    faults, fallbacks, crashes

vars == <<sub, events, request, acked, writes, memory, faults, fallbacks, crashes>>

-----------------------------------------------------------------------------

NoSub == [status |-> "absent"]
Writers == Events \cup {"request"}
Subscriptions ==
    [plan : {"free", "pro", "pro_plus"}, status : Statuses, planBy : Writers, statusBy : Writers]

Idle == [pc |-> "idle"]
Steps == {"select", "insert", "read", "status", "plan", "create", "newstatus", "commit"}
Webhooks == [pc : Steps, event : Events, locks : BOOLEAN]

(* The outer transaction has inserted the event and is not finished. *)
Open(s) == request[s].pc \in {"read", "status", "plan", "create", "newstatus", "commit"}

(* The outer transaction has updated the subscription's row: others wait. *)
RowLocked == \E s \in Slots : Open(s) /\ request[s].locks

ResultOf(s) == Result[request[s].event]
Goto(s, label) == request' = [request EXCEPT ![s].pc = label]
Leave(s) == request' = [request EXCEPT ![s] = Idle]
Acknowledge(s) == acked' = acked \cup {request[s].event}

-----------------------------------------------------------------------------

(* A delivery of an event not yet acknowledged, and the availability       *)
(* check that precedes everything.                                         *)
Deliver(s, e) ==
    /\ request[s] = Idle
    /\ e \notin acked
    /\ request' = [request EXCEPT ![s] = [pc |-> "select", event |-> e, locks |-> FALSE]]
    /\ UNCHANGED <<sub, events, acked, writes, memory, faults, fallbacks, crashes>>

(* The check fails: the event is processed in the memory of the process    *)
(* and answered like any other.                                            *)
DeliverToMemory(s, e) ==
    /\ request[s] = Idle
    /\ e \notin acked
    /\ fallbacks < MaxFallbacks
    /\ fallbacks' = fallbacks + 1
    /\ acked' = acked \cup {e}
    /\ memory' = IF Result[e].status = "none" THEN memory ELSE memory \cup {s}
    /\ UNCHANGED <<sub, events, request, writes, faults, crashes>>

(* SELECT: an event that is already recorded is a duplicate. *)
OpenTakenForDuplicate(s) ==
    /\ request[s].pc = "select"
    /\ IF \/ request[s].event \in events
          \/ \E t \in Slots : Open(t) /\ request[t].event = request[s].event
       THEN Leave(s) /\ Acknowledge(s)
       ELSE Goto(s, "insert") /\ UNCHANGED acked
    /\ UNCHANGED <<sub, events, writes, memory, faults, fallbacks, crashes>>
Select(s) ==
    /\ request[s].pc = "select"
    /\ IF request[s].event \in events
       THEN Leave(s) /\ Acknowledge(s)
       ELSE Goto(s, "insert") /\ UNCHANGED acked
    /\ UNCHANGED <<sub, events, writes, memory, faults, fallbacks, crashes>>

(* INSERT: event_id is unique, so it waits for another open transaction    *)
(* that inserted the event, and raises if that one has committed.          *)
InsertNotUnique(s) ==
    /\ request[s].pc = "insert"
    /\ Goto(s, IF ResultOf(s).status = "none" THEN "commit" ELSE "read")
    /\ UNCHANGED <<sub, events, acked, writes, memory, faults, fallbacks, crashes>>
Insert(s) ==
    LET e == request[s].event
    IN  /\ request[s].pc = "insert"
        /\ \A t \in Slots : Open(t) => request[t].event # e
        /\ IF e \in events THEN Leave(s)
           ELSE Goto(s, IF ResultOf(s).status = "none" THEN "commit" ELSE "read")
        /\ UNCHANGED <<sub, events, acked, writes, memory, faults, fallbacks, crashes>>

(* get_subscription decides between updating and creating.  Without a      *)
(* subscription an event that names no plan is rejected: ValueError, 400.  *)
WithoutSubscription(plan) == IF plan = "none" THEN "reject" ELSE "create"
Read(s) ==
    LET next == IF sub # NoSub THEN "status" ELSE WithoutSubscription(ResultOf(s).plan)
    IN  /\ request[s].pc = "read"
        /\ IF next = "reject" THEN Leave(s) ELSE Goto(s, next)
        /\ UNCHANGED <<sub, events, acked, writes, memory, faults, fallbacks, crashes>>

(* The availability check inside get_subscription fails: it answers from   *)
(* the memory of the process.                                              *)
ReadFromMemory(s) ==
    LET next == IF s \in memory THEN "status" ELSE WithoutSubscription(ResultOf(s).plan)
    IN  /\ request[s].pc = "read"
        /\ fallbacks < MaxFallbacks
        /\ fallbacks' = fallbacks + 1
        /\ IF next = "reject" THEN Leave(s) ELSE Goto(s, next)
        /\ UNCHANGED <<sub, events, acked, writes, memory, faults, crashes>>

(* update_subscription_status commits on its own connection; a status      *)
(* outside the model's is a ValueError, and so is a missing row.           *)
Listed(status) == status \in Statuses
WriteStatus(s, next) ==
    LET e == request[s].event
    IN  /\ IF Listed(ResultOf(s).status) /\ sub # NoSub
           THEN /\ ~ RowLocked
                /\ sub' = [sub EXCEPT !.status = ResultOf(s).status, !.statusBy = e]
                /\ writes' = [writes EXCEPT ![e] = @ + 1]
                /\ Goto(s, next)
           ELSE Leave(s) /\ UNCHANGED <<sub, writes>>
        /\ UNCHANGED <<events, acked, memory, faults, fallbacks, crashes>>

PlanForgotten(plan) == "commit"
AfterStatus(plan) == IF plan = "none" THEN "commit" ELSE "plan"
UpdateStatus(s) ==
    /\ request[s].pc = "status"
    /\ WriteStatus(s, AfterStatus(ResultOf(s).plan))

(* The availability check inside update_subscription_status, which follows *)
(* the check of the status, fails.                                         *)
StatusToMemory(s) ==
    LET next == IF request[s].pc = "status" THEN AfterStatus(ResultOf(s).plan) ELSE "commit"
    IN  /\ request[s].pc \in {"status", "newstatus"}
        /\ Listed(ResultOf(s).status)
        /\ fallbacks < MaxFallbacks
        /\ fallbacks' = fallbacks + 1
        /\ IF s \in memory THEN Goto(s, next) ELSE Leave(s)
        /\ UNCHANGED <<sub, events, acked, writes, memory, faults, crashes>>

(* The plan is updated in the outer transaction, which locks the row; a    *)
(* missing row is an exception.                                            *)
UpdatePlan(s) ==
    /\ request[s].pc = "plan"
    /\ ~ RowLocked
    /\ IF sub = NoSub THEN Leave(s)
       ELSE request' = [request EXCEPT ![s].pc = "commit", ![s].locks = TRUE]
    /\ UNCHANGED <<sub, events, acked, writes, memory, faults, fallbacks, crashes>>

(* create_subscription: INSERT ... ON CONFLICT DO UPDATE SET plan. *)
WithPlan(row, plan, writer) ==
    IF row = NoSub
    THEN [plan |-> plan, status |-> "active", planBy |-> writer, statusBy |-> writer]
    ELSE [row EXCEPT !.plan = plan, !.planBy = writer]

Create(s) ==
    /\ request[s].pc = "create"
    /\ ~ RowLocked
    /\ sub' = WithPlan(sub, ResultOf(s).plan, request[s].event)
    /\ Goto(s, "newstatus")
    /\ UNCHANGED <<events, acked, writes, memory, faults, fallbacks, crashes>>

(* The availability check inside create_subscription fails. *)
CreateInMemory(s) ==
    /\ request[s].pc = "create"
    /\ fallbacks < MaxFallbacks
    /\ fallbacks' = fallbacks + 1
    /\ memory' = memory \cup {s}
    /\ Goto(s, "newstatus")
    /\ UNCHANGED <<sub, events, acked, writes, faults, crashes>>

UpdateNewStatus(s) == request[s].pc = "newstatus" /\ WriteStatus(s, "commit")

(* The outer transaction commits the event and the plan it updated. *)
Commit(s) ==
    /\ request[s].pc = "commit"
    /\ events' = events \cup {request[s].event}
    /\ sub' = IF request[s].locks
              THEN WithPlan(sub, ResultOf(s).plan, request[s].event) ELSE sub
    /\ Leave(s)
    /\ Acknowledge(s)
    /\ UNCHANGED <<writes, memory, faults, fallbacks, crashes>>

(* A database call raises (no connection left, connection lost): rollback  *)
(* of the outer transaction and status 500.                                *)
Raise(s) ==
    /\ request[s] # Idle
    /\ faults < MaxFaults
    /\ faults' = faults + 1
    /\ Leave(s)
    /\ UNCHANGED <<sub, events, acked, writes, memory, fallbacks, crashes>>

Crash(s) ==
    /\ request[s] # Idle
    /\ crashes < MaxCrashes
    /\ crashes' = crashes + 1
    /\ memory' = memory \ {s}
    /\ Leave(s)
    /\ UNCHANGED <<sub, events, acked, writes, faults, fallbacks>>

(* A member sets the plan over the API. *)
RequestPlan(plan) ==
    /\ ~ RowLocked
    /\ sub' = WithPlan(sub, plan, "request")
    /\ UNCHANGED <<events, request, acked, writes, memory, faults, fallbacks, crashes>>

(* Its availability check fails: only the process of the request knows.    *)
RequestPlanInMemory(s) ==
    /\ fallbacks < MaxFallbacks
    /\ fallbacks' = fallbacks + 1
    /\ memory' = memory \cup {s}
    /\ UNCHANGED <<sub, events, request, acked, writes, faults, crashes>>

-----------------------------------------------------------------------------

Init ==
    /\ sub = NoSub
    /\ events = {} /\ acked = {}
    /\ request = [s \in Slots |-> Idle]
    /\ writes = [e \in Events |-> 0]
    /\ memory = {}
    /\ faults = 0 /\ fallbacks = 0 /\ crashes = 0

Process(s) ==
    \/ Select(s) \/ Insert(s) \/ Read(s) \/ UpdateStatus(s) \/ UpdatePlan(s)
    \/ Create(s) \/ UpdateNewStatus(s) \/ Commit(s)

(* What goes wrong for a webhook under way. *)
Interrupt(s) ==
    \/ ReadFromMemory(s) \/ StatusToMemory(s) \/ CreateInMemory(s)
    \/ Raise(s) \/ Crash(s)

(* Every event was acknowledged and nobody asks for a plan. *)
Quiet == acked = Events /\ (\A s \in Slots : request[s] = Idle) /\ UNCHANGED vars

Next ==
    \/ \E s \in Slots, e \in Events : Deliver(s, e) \/ DeliverToMemory(s, e)
    \/ \E s \in Slots : Process(s) \/ Interrupt(s)
    \/ \E plan \in Plans : RequestPlan(plan) \/ \E s \in Slots : RequestPlanInMemory(s)
    \/ Quiet

Spec == Init /\ [][Next]_vars

-----------------------------------------------------------------------------
(* Properties. *)

(* Every variable has its type. *)
TypeOK ==
    /\ sub \in Subscriptions \cup {NoSub}
    /\ events \subseteq Events /\ acked \subseteq Events
    /\ request \in [Slots -> Webhooks \cup {Idle}]
    /\ writes \in [Events -> Nat]
    /\ memory \subseteq Slots
    /\ faults \in 0..MaxFaults
    /\ fallbacks \in 0..MaxFallbacks
    /\ crashes \in 0..MaxCrashes

(* However often an event is delivered, and however its deliveries         *)
(* overlap, it writes the status once, plus once for each webhook that was *)
(* cut off before its commit.                                              *)
AppliedOncePerFailure ==
    \A e \in Events : writes[e] <= 1 + crashes + faults

(* An acknowledged event is in billing_events, unless a failed             *)
(* availability check sent it to the memory of a process.                  *)
AckedIsRecorded == fallbacks = 0 => acked \subseteq events

(* At most one open transaction has inserted an event, and none has        *)
(* inserted an event that is already recorded.                             *)
InsertedOnce ==
    \A s \in Slots : Open(s) =>
        /\ request[s].event \notin events
        /\ \A t \in Slots : Open(t) /\ request[t].event = request[s].event => t = s
=============================================================================
