---------------------------- MODULE BillingProofs ----------------------------
(***************************************************************************)
(* Proofs about Billing: the type invariant, that an event has one open    *)
(* transaction at most, that an answered event is recorded, that an event  *)
(* writes the status once, and once more for each failure, that plan and   *)
(* status come from events whose webhooks were under way together, and that*)
(* webhooks implement EventOnce, of which two promises are proved as well. *)
(***************************************************************************)
EXTENDS BillingMC, TLAPS

-----------------------------------------------------------------------------
(* How a webhook moves. *)

Requests == [Slots -> Webhooks \cup {Idle}]

(* A slot with a label of Steps serves a webhook. *)
LEMMA AtStep ==
    ASSUME NEW s \in Slots, request \in Requests, request[s].pc \in Steps
    PROVE  /\ request[s] \in Webhooks
           /\ request[s] # Idle
           /\ request[s].event \in Events
           /\ Result[request[s].event] \in ProviderResults
BY ConstantsOK DEF Requests, Webhooks, Idle, Steps

(* Goto changes the label of one webhook. *)
LEMMA GotoMoves ==
    ASSUME NEW s \in Slots, request \in Requests, request[s].pc \in Steps,
           NEW label \in Steps, Goto(s, label)
    PROVE  /\ request' \in Requests
           /\ \A t \in Slots \ {s} : request'[t] = request[t]
           /\ request'[s] \in Webhooks
           /\ request'[s].pc = label
           /\ request'[s].event = request[s].event
           /\ request'[s].locks = request[s].locks
BY AtStep DEF Goto, Requests, Webhooks, Steps

(* Leave frees one slot. *)
LEMMA LeaveMoves ==
    ASSUME NEW s \in Slots, request \in Requests, Leave(s)
    PROVE  /\ request' \in Requests
           /\ \A t \in Slots \ {s} : request'[t] = request[t]
           /\ request'[s] = Idle
           /\ request'[s].pc = "idle"
BY DEF Leave, Requests, Idle

(* WithPlan yields a subscription. *)
LEMMA WithPlanTyped ==
    ASSUME sub \in Subscriptions \cup {NoSub},
           NEW plan \in {"free", "pro", "pro_plus"}, NEW writer \in Writers
    PROVE  WithPlan(sub, plan, writer) \in Subscriptions
BY DEF WithPlan, Subscriptions, Statuses, NoSub

-----------------------------------------------------------------------------
(* Types. *)

(* A webhook that is to write the plan has an event that names one. *)
PlanNamed ==
    \A s \in Slots :
        request[s].pc \in {"plan", "create", "newstatus"}
        \/ (request[s].pc \in Steps /\ request[s].locks)
        => Result[request[s].event].plan # "none"

Typed == TypeOK /\ PlanNamed

LEMMA InitTyped == Init => Typed
BY ConstantsOK DEF Init, Typed, TypeOK, PlanNamed, Idle, Steps, NoSub

(* Conditions on the label a webhook goes to. *)
LEMMA GotoTyped ==
    ASSUME Typed, NEW s \in Slots, request[s].pc \in Steps,
           NEW label \in Steps, Goto(s, label),
           label \in {"plan", "create", "newstatus"} => Result[request[s].event].plan # "none"
    PROVE  request' \in Requests /\ PlanNamed'
<1>1. request \in Requests
  BY DEF Typed, TypeOK, Requests
<1>2. /\ request' \in Requests
      /\ \A t \in Slots \ {s} : request'[t] = request[t]
      /\ request'[s].pc = label
      /\ request'[s].event = request[s].event
      /\ request'[s].locks = request[s].locks
  BY <1>1, GotoMoves
<1>3. PlanNamed'
  <2> SUFFICES ASSUME NEW t \in Slots,
                      request'[t].pc \in {"plan", "create", "newstatus"}
                      \/ (request'[t].pc \in Steps /\ request'[t].locks)
               PROVE  Result[request'[t].event].plan # "none"
    BY DEF PlanNamed
  <2>1. CASE t = s
    BY <1>2, <2>1 DEF Typed, PlanNamed
  <2>2. CASE t # s
    BY <1>2, <2>2 DEF Typed, PlanNamed
  <2> QED
    BY <2>1, <2>2
<1> QED
  BY <1>2, <1>3

LEMMA LeaveTyped ==
    ASSUME Typed, NEW s \in Slots, Leave(s)
    PROVE  request' \in Requests /\ PlanNamed'
<1>1. request \in Requests
  BY DEF Typed, TypeOK, Requests
<1>2. /\ request' \in Requests
      /\ \A t \in Slots \ {s} : request'[t] = request[t]
      /\ request'[s].pc = "idle"
  BY <1>1, LeaveMoves
<1>3. PlanNamed'
  BY <1>2 DEF Typed, PlanNamed, Steps
<1> QED
  BY <1>2, <1>3

LEMMA DeliverTyped ==
    ASSUME Typed, NEW s \in Slots, NEW e \in Events, Deliver(s, e)
    PROVE  Typed'
<1> DEFINE r == [pc |-> "select", event |-> e, locks |-> FALSE]
<1>1. r \in Webhooks
  BY DEF Webhooks, Steps
<1>2. request' = [request EXCEPT ![s] = r] /\ request \in Requests
  BY DEF Deliver, Typed, TypeOK, Requests
<1>3. request' \in Requests
  BY <1>1, <1>2 DEF Requests
<1>4. PlanNamed'
  BY <1>2 DEF Typed, PlanNamed, Requests
<1> QED
  BY <1>3, <1>4 DEF Deliver, Typed, TypeOK, Requests

(* An update of the status leaves the row a subscription. *)
LEMMA WriteStatusTyped ==
    ASSUME Typed, NEW s \in Slots, request[s].pc \in Steps, NEW label \in Steps,
           label = "plan" => Result[request[s].event].plan # "none",
           label \notin {"create", "newstatus"},
           WriteStatus(s, label)
    PROVE  Typed'
<1>1. request \in Requests
  BY DEF Typed, TypeOK, Requests
<1>2. request[s].event \in Events
  BY <1>1, AtStep
<1>3. CASE Listed(ResultOf(s).status) /\ sub # NoSub
  <2>1. Goto(s, label) /\ UNCHANGED <<events, acked, memory, faults, fallbacks, crashes>>
    BY <1>3 DEF WriteStatus
  <2>2. sub' \in Subscriptions
    BY <1>2, <1>3 DEF WriteStatus, Typed, TypeOK, Subscriptions, Listed, Writers, NoSub
  <2>3. writes' \in [Events -> Nat]
    BY <1>2, <1>3 DEF WriteStatus, Typed, TypeOK
  <2> QED
    BY <2>1, <2>2, <2>3, GotoTyped DEF Typed, TypeOK, Requests
<1>4. CASE ~ (Listed(ResultOf(s).status) /\ sub # NoSub)
  BY <1>4, LeaveTyped DEF WriteStatus, Typed, TypeOK, Requests
<1> QED
  BY <1>3, <1>4

(* The plan a webhook writes is one of the plans. *)
LEMMA PlanOfEvent ==
    ASSUME Typed, NEW s \in Slots, request[s].pc \in Steps, ResultOf(s).plan # "none"
    PROVE  /\ ResultOf(s).plan \in {"free", "pro", "pro_plus"}
           /\ request[s].event \in Writers
<1>1. Result[request[s].event] \in ProviderResults /\ request[s].event \in Events
  BY AtStep DEF Typed, TypeOK, Requests
<1> QED
  BY <1>1 DEF ProviderResults, ResultOf, Writers

LEMMA UpdatePlanTyped ==
    ASSUME Typed, NEW s \in Slots, UpdatePlan(s)
    PROVE  Typed'
<1>1. request \in Requests /\ request[s].pc \in Steps
  BY DEF Typed, TypeOK, Requests, UpdatePlan, Steps
<1>2. CASE sub = NoSub
  BY <1>2, LeaveTyped DEF UpdatePlan, Typed, TypeOK, Requests
<1>3. CASE sub # NoSub
  <2> DEFINE r == [request[s] EXCEPT !.pc = "commit", !.locks = TRUE]
  <2>1. request' = [request EXCEPT ![s] = r]
    BY <1>1, <1>3 DEF UpdatePlan, Requests
  <2>2. r \in Webhooks /\ r.pc = "commit" /\ r.event = request[s].event
    BY <1>1, AtStep DEF Webhooks, Steps
  <2>3. request' \in Requests
    BY <1>1, <2>1, <2>2 DEF Requests
  <2>4. PlanNamed'
    <3>1. \A t \in Slots \ {s} : request'[t] = request[t]
      BY <1>1, <2>1 DEF Requests
    <3>2. request'[s].event = request[s].event
      BY <1>1, <2>1, <2>2 DEF Requests
    <3>3. Result[request[s].event].plan # "none"
      BY DEF UpdatePlan, Typed, PlanNamed
    <3> QED
      BY <3>1, <3>2, <3>3 DEF Typed, PlanNamed
  <2> QED
    BY <2>3, <2>4 DEF UpdatePlan, Typed, TypeOK, Requests
<1> QED
  BY <1>2, <1>3

LEMMA CreateTyped ==
    ASSUME Typed, NEW s \in Slots, Create(s)
    PROVE  Typed'
<1>1. request[s].pc \in Steps /\ ResultOf(s).plan # "none"
  BY DEF Create, Steps, Typed, PlanNamed, ResultOf
<1>2. request' \in Requests /\ PlanNamed'
  BY <1>1, GotoTyped DEF Create, Steps, ResultOf
<1>3. sub' \in Subscriptions
  BY <1>1, PlanOfEvent, WithPlanTyped DEF Create, Typed, TypeOK
<1> QED
  BY <1>2, <1>3 DEF Create, Typed, TypeOK, Requests

LEMMA CommitTyped ==
    ASSUME Typed, NEW s \in Slots, Commit(s)
    PROVE  Typed'
<1>1. request[s].pc \in Steps /\ request \in Requests
  BY DEF Commit, Steps, Typed, TypeOK, Requests
<1>2. request' \in Requests /\ PlanNamed'
  BY LeaveTyped DEF Commit
<1>3. sub' \in Subscriptions \cup {NoSub}
  <2>1. CASE request[s].locks
    <3>1. ResultOf(s).plan # "none"
      BY <1>1, <2>1 DEF Typed, PlanNamed, ResultOf
    <3> QED
      BY <1>1, <2>1, <3>1, PlanOfEvent, WithPlanTyped DEF Commit, Typed, TypeOK
  <2>2. CASE ~ request[s].locks
    BY <2>2 DEF Commit, Typed, TypeOK
  <2> QED
    BY <2>1, <2>2
<1>4. request[s].event \in Events
  BY <1>1, AtStep
<1> QED
  BY <1>2, <1>3, <1>4 DEF Commit, Acknowledge, Typed, TypeOK, Requests

(* The steps that go on or leave and write nothing else but counters. *)
LEMMA ProcessTyped ==
    ASSUME Typed, NEW s \in Slots, Process(s)
    PROVE  Typed'
<1>1. CASE Select(s)
  <2>1. request[s].pc \in Steps /\ request[s].event \in Events
    BY <1>1, AtStep DEF Select, Steps, Typed, TypeOK, Requests
  <2>2. request' \in Requests /\ PlanNamed'
    BY <1>1, <2>1, LeaveTyped, GotoTyped DEF Select, Steps
  <2> QED
    BY <1>1, <2>1, <2>2 DEF Select, Acknowledge, Typed, TypeOK, Requests
<1>2. CASE Insert(s)
  <2>1. request[s].pc \in Steps
    BY <1>2 DEF Insert, Steps
  <2>2. request' \in Requests /\ PlanNamed'
    BY <1>2, <2>1, LeaveTyped, GotoTyped DEF Insert, Steps
  <2> QED
    BY <1>2, <2>2 DEF Insert, Typed, TypeOK, Requests
<1>3. CASE Read(s)
  <2>1. request[s].pc \in Steps
    BY <1>3 DEF Read, Steps
  <2>2. request' \in Requests /\ PlanNamed'
    BY <1>3, <2>1, LeaveTyped, GotoTyped DEF Read, Steps, WithoutSubscription, ResultOf
  <2> QED
    BY <1>3, <2>2 DEF Read, Typed, TypeOK, Requests
<1>4. CASE UpdateStatus(s)
  BY <1>4, WriteStatusTyped DEF UpdateStatus, Steps, AfterStatus, ResultOf
<1>5. CASE UpdatePlan(s)
  BY <1>5, UpdatePlanTyped
<1>6. CASE Create(s)
  BY <1>6, CreateTyped
<1>7. CASE UpdateNewStatus(s)
  BY <1>7, WriteStatusTyped DEF UpdateNewStatus, Steps
<1>8. CASE Commit(s)
  BY <1>8, CommitTyped
<1> QED
  BY <1>1, <1>2, <1>3, <1>4, <1>5, <1>6, <1>7, <1>8 DEF Process

LEMMA InterruptTyped ==
    ASSUME Typed, NEW s \in Slots, Interrupt(s)
    PROVE  Typed'
<1>1. CASE ReadFromMemory(s)
  <2>1. request' \in Requests /\ PlanNamed'
    BY <1>1, LeaveTyped, GotoTyped DEF ReadFromMemory, Steps, WithoutSubscription, ResultOf
  <2> QED
    BY <1>1, <2>1, ConstantsOK DEF ReadFromMemory, Typed, TypeOK, Requests
<1>2. CASE StatusToMemory(s)
  <2>1. request' \in Requests /\ PlanNamed'
    BY <1>2, LeaveTyped, GotoTyped DEF StatusToMemory, Steps, AfterStatus, ResultOf
  <2> QED
    BY <1>2, <2>1, ConstantsOK DEF StatusToMemory, Typed, TypeOK, Requests
<1>3. CASE CreateInMemory(s)
  <2>1. ResultOf(s).plan # "none"
    BY <1>3 DEF CreateInMemory, Typed, PlanNamed, ResultOf
  <2>2. request' \in Requests /\ PlanNamed'
    BY <1>3, <2>1, GotoTyped DEF CreateInMemory, Steps, ResultOf
  <2> QED
    BY <1>3, <2>2, ConstantsOK DEF CreateInMemory, Typed, TypeOK, Requests
<1>4. CASE Raise(s)
  BY <1>4, LeaveTyped, ConstantsOK DEF Raise, Typed, TypeOK, Requests
<1>5. CASE Crash(s)
  BY <1>5, LeaveTyped, ConstantsOK DEF Crash, Typed, TypeOK, Requests
<1> QED
  BY <1>1, <1>2, <1>3, <1>4, <1>5 DEF Interrupt

LEMMA NextTyped == Typed /\ [Next]_vars => Typed'
<1> SUFFICES ASSUME Typed, [Next]_vars PROVE Typed'
  OBVIOUS
<1>1. CASE \E s \in Slots, e \in Events : Deliver(s, e)
  BY <1>1, DeliverTyped
<1>2. CASE \E s \in Slots, e \in Events : DeliverToMemory(s, e)
  BY <1>2, ConstantsOK DEF DeliverToMemory, Typed, TypeOK, PlanNamed
<1>3. CASE \E s \in Slots : Process(s) \/ Interrupt(s)
  BY <1>3, ProcessTyped, InterruptTyped
<1>4. CASE \E plan \in Plans : RequestPlan(plan)
  <2>1. PICK plan \in Plans : RequestPlan(plan)
    BY <1>4
  <2>2. sub' \in Subscriptions
    BY <2>1, WithPlanTyped, ConstantsOK DEF RequestPlan, Typed, TypeOK, Writers
  <2> QED
    BY <2>1, <2>2 DEF RequestPlan, Typed, TypeOK, PlanNamed
<1>5. CASE \E s \in Slots : RequestPlanInMemory(s)
  BY <1>5, ConstantsOK DEF RequestPlanInMemory, Typed, TypeOK, PlanNamed
<1>6. CASE UNCHANGED vars
  BY <1>6 DEF vars, Typed, TypeOK, PlanNamed
<1> QED
  BY <1>1, <1>2, <1>3, <1>4, <1>5, <1>6 DEF Next, Quiet

(* Every variable has its type, for any events, requests and faults. *)
THEOREM TypeCorrect == Spec => []TypeOK
<1>1. Spec => []Typed
  BY InitTyped, NextTyped, PTL DEF Spec
<1> QED
  BY <1>1, PTL DEF Typed

-----------------------------------------------------------------------------
(* One open transaction for an event. *)

Uniqueness == Typed /\ InsertedOnce

(* A webhook that goes on in its open transaction, or leaves, opens none.  *)
LEMMA StaysOnce ==
    ASSUME Uniqueness, NEW s \in Slots,
           \A t \in Slots \ {s} : request'[t] = request[t],
           Open(s)' => Open(s) /\ request'[s].event = request[s].event,
           events' = events
    PROVE  InsertedOnce'
BY DEF Uniqueness, InsertedOnce, Open

LEMMA LeaveOnce ==
    ASSUME Uniqueness, NEW s \in Slots, Leave(s), events' = events
    PROVE  InsertedOnce'
<1>1. /\ \A t \in Slots \ {s} : request'[t] = request[t]
      /\ request'[s].pc = "idle"
  BY LeaveMoves DEF Uniqueness, Typed, TypeOK, Requests
<1> QED
  BY <1>1, StaysOnce DEF Open

LEMMA GotoOnce ==
    ASSUME Uniqueness, NEW s \in Slots, NEW label \in Steps, Goto(s, label),
           Open(s) \/ (request[s].pc = "select" /\ label = "insert"), events' = events
    PROVE  InsertedOnce'
<1>1. request \in Requests /\ request[s].pc \in Steps
  BY DEF Uniqueness, Typed, TypeOK, Requests, Open, Steps
<1>2. /\ \A t \in Slots \ {s} : request'[t] = request[t]
      /\ request'[s].pc = label
      /\ request'[s].event = request[s].event
  BY <1>1, GotoMoves
<1> QED
  BY <1>2, StaysOnce DEF Open

LEMMA WriteStatusOnce ==
    ASSUME Uniqueness, NEW s \in Slots, Open(s), NEW label \in Steps, WriteStatus(s, label)
    PROVE  InsertedOnce'
BY LeaveOnce, GotoOnce DEF WriteStatus

LEMMA ProcessOnce ==
    ASSUME Uniqueness, NEW s \in Slots, Process(s)
    PROVE  InsertedOnce'
<1>0. request \in Requests
  BY DEF Uniqueness, Typed, TypeOK, Requests
<1>1. CASE Select(s)
  BY <1>1, LeaveOnce, GotoOnce DEF Select, Steps
<1>2. CASE Insert(s)
  <2>1. CASE request[s].event \in events
    BY <1>2, <2>1, LeaveOnce DEF Insert
  <2>2. CASE request[s].event \notin events
    <3> DEFINE label == IF ResultOf(s).status = "none" THEN "commit" ELSE "read"
    <3>1. Goto(s, label) /\ label \in Steps /\ events' = events
          /\ request[s].pc \in Steps
          /\ \A t \in Slots : Open(t) => request[t].event # request[s].event
      BY <1>2, <2>2 DEF Insert, Steps
    <3>2. /\ \A t \in Slots \ {s} : request'[t] = request[t]
          /\ request'[s].event = request[s].event
      BY <1>0, <3>1, GotoMoves
    <3> QED
      BY <2>2, <3>1, <3>2 DEF Uniqueness, InsertedOnce, Open
  <2> QED
    BY <2>1, <2>2
<1>3. CASE Read(s)
  BY <1>3, LeaveOnce, GotoOnce DEF Read, Steps, WithoutSubscription, Open
<1>4. CASE UpdateStatus(s)
  BY <1>4, WriteStatusOnce DEF UpdateStatus, AfterStatus, Steps, Open
<1>5. CASE UpdatePlan(s)
  <2>1. CASE sub = NoSub
    BY <1>5, <2>1, LeaveOnce DEF UpdatePlan
  <2>2. CASE sub # NoSub
    <3> DEFINE r == [request[s] EXCEPT !.pc = "commit", !.locks = TRUE]
    <3>1. request' = [request EXCEPT ![s] = r] /\ r.event = request[s].event
      BY <1>0, <1>5, <2>2, AtStep DEF UpdatePlan, Requests, Steps, Webhooks
    <3>2. /\ \A t \in Slots \ {s} : request'[t] = request[t]
          /\ request'[s].event = request[s].event
      BY <1>0, <3>1 DEF Requests
    <3> QED
      BY <1>5, <3>2, StaysOnce DEF UpdatePlan, Open
  <2> QED
    BY <2>1, <2>2
<1>6. CASE Create(s)
  BY <1>6, GotoOnce DEF Create, Steps, Open
<1>7. CASE UpdateNewStatus(s)
  BY <1>7, WriteStatusOnce DEF UpdateNewStatus, Steps, Open
<1>8. CASE Commit(s)
  <2>1. /\ \A t \in Slots \ {s} : request'[t] = request[t]
        /\ request'[s].pc = "idle"
    BY <1>0, <1>8, LeaveMoves DEF Commit
  <2>2. \A t \in Slots : Open(t)' => t # s /\ Open(t) /\ request'[t].event = request[t].event
    BY <2>1 DEF Open
  <2>3. \A t \in Slots : Open(t) /\ t # s => request[t].event # request[s].event
    BY <1>8 DEF Commit, Open, Uniqueness, InsertedOnce
  <2> QED
    BY <1>8, <2>2, <2>3 DEF Commit, Uniqueness, InsertedOnce
<1> QED
  BY <1>1, <1>2, <1>3, <1>4, <1>5, <1>6, <1>7, <1>8 DEF Process

LEMMA InterruptOnce ==
    ASSUME Uniqueness, NEW s \in Slots, Interrupt(s)
    PROVE  InsertedOnce'
<1>1. CASE ReadFromMemory(s)
  BY <1>1, LeaveOnce, GotoOnce DEF ReadFromMemory, Steps, WithoutSubscription, Open
<1>2. CASE StatusToMemory(s)
  BY <1>2, LeaveOnce, GotoOnce DEF StatusToMemory, Steps, AfterStatus, Open
<1>3. CASE CreateInMemory(s)
  BY <1>3, GotoOnce DEF CreateInMemory, Steps, Open
<1>4. CASE Raise(s) \/ Crash(s)
  BY <1>4, LeaveOnce DEF Raise, Crash
<1> QED
  BY <1>1, <1>2, <1>3, <1>4 DEF Interrupt

LEMMA NextOnce == Uniqueness /\ [Next]_vars => InsertedOnce'
<1> SUFFICES ASSUME Uniqueness, [Next]_vars PROVE InsertedOnce'
  OBVIOUS
<1>1. CASE \E s \in Slots, e \in Events : Deliver(s, e)
  <2>1. PICK s \in Slots, e \in Events : Deliver(s, e)
    BY <1>1
  <2>2. /\ \A t \in Slots \ {s} : request'[t] = request[t]
        /\ request'[s].pc = "select"
    BY <2>1 DEF Deliver, Uniqueness, Typed, TypeOK
  <2> QED
    BY <2>1, <2>2, StaysOnce DEF Open, Deliver
<1>2. CASE \E s \in Slots : Process(s) \/ Interrupt(s)
  BY <1>2, ProcessOnce, InterruptOnce
<1>3. CASE UNCHANGED <<request, events>>
  BY <1>3 DEF Uniqueness, InsertedOnce, Open
<1> QED
  BY <1>1, <1>2, <1>3 DEF Next, Quiet, vars, DeliverToMemory, RequestPlan, RequestPlanInMemory

LEMMA UniquenessHolds == Spec => []Uniqueness
<1>1. Init => Uniqueness
  BY InitTyped DEF Init, Uniqueness, InsertedOnce, Open, Idle
<1>2. Uniqueness /\ [Next]_vars => Uniqueness'
  BY NextTyped, NextOnce DEF Uniqueness
<1> QED
  BY <1>1, <1>2, PTL DEF Spec

(* Two deliveries of one event never have it inserted at the same time,    *)
(* nor one of them when it is already recorded.                            *)
THEOREM OneTransactionEach == Spec => []InsertedOnce
BY UniquenessHolds, PTL DEF Uniqueness

-----------------------------------------------------------------------------
(* An acknowledged event is recorded. *)

(* Unless a failed availability check sent it to the memory of a process,  *)
(* an event that is not sent again is in billing_events.                   *)
THEOREM AckedRecorded == Spec => []AckedIsRecorded
<1>1. Init => AckedIsRecorded
  BY DEF Init, AckedIsRecorded
<1>2. TypeOK /\ AckedIsRecorded /\ [Next]_vars => AckedIsRecorded'
  <2> SUFFICES ASSUME TypeOK, AckedIsRecorded, [Next]_vars PROVE AckedIsRecorded'
    OBVIOUS
  <2>1. fallbacks' = fallbacks \/ fallbacks' = fallbacks + 1
    BY DEF Next, Quiet, vars, Deliver, DeliverToMemory, RequestPlan, RequestPlanInMemory,
           Process, Select, Insert, Read, UpdateStatus, UpdateNewStatus, WriteStatus,
           UpdatePlan, Create, Commit, Interrupt, ReadFromMemory, StatusToMemory,
           CreateInMemory, Raise, Crash
  <2>2. fallbacks \in Nat
    BY ConstantsOK DEF TypeOK
  <2>3. fallbacks' = 0 => fallbacks = 0
    BY <2>1, <2>2
  <2>4. CASE \E s \in Slots : Select(s)
    BY <2>3, <2>4 DEF Select, Acknowledge, AckedIsRecorded
  <2>5. CASE \E s \in Slots : Commit(s)
    BY <2>3, <2>5 DEF Commit, Acknowledge, AckedIsRecorded
  <2>6. CASE UNCHANGED <<events, acked>>
    BY <2>3, <2>6 DEF AckedIsRecorded
  <2>7. CASE \E s \in Slots, e \in Events : DeliverToMemory(s, e)
    BY <2>2, <2>7 DEF DeliverToMemory, AckedIsRecorded
  <2> QED
    BY <2>4, <2>5, <2>6, <2>7
       DEF Next, Quiet, vars, Deliver, RequestPlan, RequestPlanInMemory,
           Process, Insert, Read, UpdateStatus, UpdateNewStatus, WriteStatus,
           UpdatePlan, Create, Interrupt, ReadFromMemory, StatusToMemory,
           CreateInMemory, Raise, Crash
<1> QED
  BY <1>1, <1>2, TypeCorrect, PTL DEF Spec

-----------------------------------------------------------------------------
(* An event writes the status once, and once more for each failure.        *)

(* A webhook of the event may have written the status and not committed.   *)
Wrote(s, e) == request[s].pc \in {"plan", "commit"} /\ request[s].event = e

(* Beyond one write for each failure there is the one of the webhook that  *)
(* recorded the event or still may.                                        *)
Accounted ==
    \A e \in Events :
        /\ writes[e] <= 1 + crashes + faults
        /\ e \in events \/ (\E s \in Slots : Wrote(s, e)) \/ writes[e] <= crashes + faults

Unwritten == sub = NoSub => \A e \in Events : writes[e] = 0

Counting == Uniqueness /\ Accounted /\ Unwritten

(* A webhook that has yet to write goes on or leaves.                      *)
LEMMA StillAccounted ==
    ASSUME Counting, NEW s \in Slots,
           \A t \in Slots \ {s} : request'[t] = request[t],
           request[s].pc \notin {"plan", "commit"},
           events' = events, writes' = writes, faults' = faults, crashes' = crashes
    PROVE  Accounted'
<1>1. ASSUME NEW e \in Events, NEW t \in Slots, Wrote(t, e)
      PROVE  Wrote(t, e)'
  BY <1>1 DEF Wrote
<1> QED
  BY <1>1 DEF Counting, Accounted

LEMMA LeaveAccounted ==
    ASSUME Counting, NEW s \in Slots, Leave(s), request[s].pc \notin {"plan", "commit"},
           events' = events, writes' = writes, faults' = faults, crashes' = crashes
    PROVE  Accounted'
BY LeaveMoves, StillAccounted DEF Counting, Uniqueness, Typed, TypeOK, Requests

LEMMA GotoAccounted ==
    ASSUME Counting, NEW s \in Slots, NEW label \in Steps, Goto(s, label),
           request[s].pc \in Steps \ {"plan", "commit"},
           events' = events, writes' = writes, faults' = faults, crashes' = crashes
    PROVE  Accounted'
BY GotoMoves, StillAccounted DEF Counting, Uniqueness, Typed, TypeOK, Requests

(* A failure pays for what the webhook it ends may have written.           *)
LEMMA FailureAccounted ==
    ASSUME Counting, NEW s \in Slots, Leave(s), events' = events, writes' = writes,
           \/ crashes' = crashes + 1 /\ faults' = faults
           \/ crashes' = crashes /\ faults' = faults + 1
    PROVE  Accounted'
<1>1. crashes \in Nat /\ faults \in Nat /\ writes \in [Events -> Nat]
  BY ConstantsOK DEF Counting, Uniqueness, Typed, TypeOK
<1> SUFFICES ASSUME NEW e \in Events
             PROVE  writes'[e] <= 1 + crashes' + faults' /\ writes'[e] <= crashes' + faults'
  BY DEF Accounted
<1>2. writes[e] <= 1 + crashes + faults
  BY DEF Counting, Accounted
<1>3. writes'[e] \in Nat /\ writes'[e] <= 1 + crashes + faults
  BY <1>1, <1>2
<1>4. CASE crashes' = crashes + 1 /\ faults' = faults
  BY <1>1, <1>3, <1>4
<1>5. CASE crashes' = crashes /\ faults' = faults + 1
  BY <1>1, <1>3, <1>5
<1> QED
  BY <1>4, <1>5

(* The write: no other webhook of the event is under way past its insert.  *)
LEMMA WriteAccounted ==
    ASSUME Counting, NEW s \in Slots, request[s].pc \in {"status", "newstatus"},
           NEW label \in {"plan", "commit"}, WriteStatus(s, label)
    PROVE  Accounted' /\ Unwritten'
<1> DEFINE e == request[s].event
<1>0. request \in Requests /\ request[s].pc \in Steps \ {"plan", "commit"} /\ label \in Steps
  BY DEF Counting, Uniqueness, Typed, TypeOK, Requests, Steps
<1>1. CASE Listed(ResultOf(s).status) /\ sub # NoSub
  <2>1. /\ Goto(s, label) /\ writes' = [writes EXCEPT ![e] = @ + 1]
        /\ sub' = [sub EXCEPT !.status = ResultOf(s).status, !.statusBy = e]
        /\ UNCHANGED <<events, crashes, faults>>
    BY <1>1 DEF WriteStatus
  <2>2. /\ \A t \in Slots \ {s} : request'[t] = request[t]
        /\ request'[s].pc = label
        /\ request'[s].event = e
    BY <1>0, <2>1, GotoMoves
  <2>3. e \in Events /\ e \notin events /\ ~ \E t \in Slots : Wrote(t, e)
    BY <1>0, AtStep DEF Counting, Uniqueness, InsertedOnce, Open, Wrote
  <2>4. writes[e] <= crashes + faults
    BY <2>3 DEF Counting, Accounted
  <2>5. /\ crashes \in Nat /\ faults \in Nat
        /\ writes \in [Events -> Nat]
    BY ConstantsOK DEF Counting, Uniqueness, Typed, TypeOK
  <2>6. Accounted'
    <3> SUFFICES ASSUME NEW f \in Events
                 PROVE  /\ writes'[f] <= 1 + crashes + faults
                        /\ \/ f \in events \/ \E t \in Slots : Wrote(t, f)'
                           \/ writes'[f] <= crashes + faults
      BY <2>1 DEF Accounted
    <3>1. CASE f = e
      BY <2>1, <2>2, <2>3, <2>4, <2>5, <3>1 DEF Wrote
    <3>2. CASE f # e
      <4>1. writes'[f] = writes[f]
        BY <2>1, <2>5, <3>2
      <4>2. ASSUME NEW t \in Slots, Wrote(t, f) PROVE Wrote(t, f)'
        BY <2>2, <3>2, <4>2, <1>0 DEF Wrote
      <4> QED
        BY <4>1, <4>2 DEF Counting, Accounted
    <3> QED
      BY <3>1, <3>2
  <2>7. Unwritten'
    <3>1. sub \in Subscriptions
      BY <1>1 DEF Counting, Uniqueness, Typed, TypeOK
    <3>2. sub'.plan = sub.plan /\ DOMAIN sub' = DOMAIN sub
      BY <2>1, <3>1 DEF Subscriptions
    <3>3. sub' # NoSub
      BY <3>1, <3>2 DEF Subscriptions, NoSub
    <3> QED
      BY <3>3 DEF Unwritten
  <2> QED
    BY <2>6, <2>7
<1>2. CASE ~ (Listed(ResultOf(s).status) /\ sub # NoSub)
  <2>1. Leave(s) /\ UNCHANGED <<sub, writes, events, crashes, faults>>
    BY <1>2 DEF WriteStatus
  <2> QED
    BY <2>1, <1>0, LeaveAccounted DEF Counting, Unwritten
<1> QED
  BY <1>1, <1>2

(* A row that is there stays there.                                        *)
LEMMA StaysUnwritten ==
    ASSUME Counting, writes' = writes, sub' = sub \/ sub' # NoSub
    PROVE  Unwritten'
BY DEF Counting, Unwritten

LEMMA WithPlanIsRow ==
    ASSUME sub \in Subscriptions \cup {NoSub},
           NEW plan \in {"free", "pro", "pro_plus"}, NEW writer \in Writers
    PROVE  WithPlan(sub, plan, writer) # NoSub
<1>1. WithPlan(sub, plan, writer) \in Subscriptions
  BY WithPlanTyped
<1>2. NoSub.status = "absent"
  BY DEF NoSub
<1> QED
  BY <1>1, <1>2 DEF Subscriptions, Statuses

LEMMA ProcessCounts ==
    ASSUME Counting, NEW s \in Slots, Process(s)
    PROVE  Accounted' /\ Unwritten'
<1>0. request \in Requests
  BY DEF Counting, Uniqueness, Typed, TypeOK, Requests
<1>1. CASE Select(s)
  <2>1. Accounted'
    BY <1>1, LeaveAccounted, GotoAccounted DEF Select, Steps
  <2> QED
    BY <1>1, <2>1, StaysUnwritten DEF Select
<1>2. CASE Insert(s)
  <2>1. Accounted'
    BY <1>2, LeaveAccounted, GotoAccounted DEF Insert, Steps
  <2> QED
    BY <1>2, <2>1, StaysUnwritten DEF Insert
<1>3. CASE Read(s)
  <2>1. Accounted'
    BY <1>3, LeaveAccounted, GotoAccounted DEF Read, Steps, WithoutSubscription
  <2> QED
    BY <1>3, <2>1, StaysUnwritten DEF Read
<1>4. CASE UpdateStatus(s)
  BY <1>4, WriteAccounted DEF UpdateStatus, AfterStatus
<1>5. CASE UpdatePlan(s)
  <2>1. CASE sub = NoSub
    <3>1. \A e \in Events : writes'[e] = 0
      BY <1>5, <2>1 DEF UpdatePlan, Counting, Unwritten
    <3>2. crashes' \in Nat /\ faults' \in Nat
      BY <1>5, ConstantsOK DEF UpdatePlan, Counting, Uniqueness, Typed, TypeOK
    <3>3. Accounted'
      BY <3>1, <3>2 DEF Accounted
    <3> QED
      BY <1>5, <3>3, StaysUnwritten DEF UpdatePlan
  <2>2. CASE sub # NoSub
    <3> DEFINE r == [request[s] EXCEPT !.pc = "commit", !.locks = TRUE]
    <3>1. request' = [request EXCEPT ![s] = r] /\ r.event = request[s].event /\ r.pc = "commit"
      BY <1>0, <1>5, <2>2, AtStep DEF UpdatePlan, Requests, Steps, Webhooks
    <3>2. /\ \A t \in Slots \ {s} : request'[t] = request[t]
          /\ request'[s].event = request[s].event
          /\ request'[s].pc = "commit"
      BY <1>0, <3>1 DEF Requests
    <3>3. ASSUME NEW e \in Events, NEW t \in Slots, Wrote(t, e)
          PROVE  Wrote(t, e)'
      BY <3>2, <3>3 DEF Wrote
    <3>4. Accounted'
      BY <1>5, <3>3 DEF UpdatePlan, Counting, Accounted
    <3> QED
      BY <1>5, <3>4, StaysUnwritten DEF UpdatePlan
  <2> QED
    BY <2>1, <2>2
<1>6. CASE Create(s)
  <2>1. Accounted'
    BY <1>6, GotoAccounted DEF Create, Steps
  <2>2. request[s].pc \in Steps /\ ResultOf(s).plan # "none"
    BY <1>6 DEF Create, Steps, Counting, Uniqueness, Typed, PlanNamed, ResultOf
  <2>3. sub' # NoSub
    BY <1>6, <2>2, PlanOfEvent, WithPlanIsRow DEF Create, Counting, Uniqueness, Typed, TypeOK
  <2> QED
    BY <1>6, <2>1, <2>3, StaysUnwritten DEF Create
<1>7. CASE UpdateNewStatus(s)
  BY <1>7, WriteAccounted DEF UpdateNewStatus
<1>8. CASE Commit(s)
  <2>1. \A t \in Slots \ {s} : request'[t] = request[t]
    BY <1>0, <1>8, LeaveMoves DEF Commit
  <2>2. events' = events \cup {request[s].event}
        /\ UNCHANGED <<writes, crashes, faults>>
    BY <1>8 DEF Commit
  <2>3. ASSUME NEW e \in Events, NEW t \in Slots, Wrote(t, e)
        PROVE  Wrote(t, e)' \/ e \in events'
    BY <2>1, <2>2, <2>3 DEF Wrote
  <2>4. Accounted'
    BY <2>2, <2>3 DEF Counting, Accounted
  <2>5. sub' = sub \/ sub' # NoSub
    <3>1. CASE request[s].locks
      <4>1. request[s].pc \in Steps
        BY <1>8 DEF Commit, Steps
      <4>2. ResultOf(s).plan # "none"
        BY <3>1, <4>1 DEF Counting, Uniqueness, Typed, PlanNamed, ResultOf
      <4> QED
        BY <1>8, <3>1, <4>1, <4>2, PlanOfEvent, WithPlanIsRow
           DEF Commit, Counting, Uniqueness, Typed, TypeOK
    <3>2. CASE ~ request[s].locks
      BY <1>8, <3>2 DEF Commit
    <3> QED
      BY <3>1, <3>2
  <2> QED
    BY <2>2, <2>4, <2>5, StaysUnwritten
<1> QED
  BY <1>1, <1>2, <1>3, <1>4, <1>5, <1>6, <1>7, <1>8 DEF Process

LEMMA InterruptCounts ==
    ASSUME Counting, NEW s \in Slots, Interrupt(s)
    PROVE  Accounted' /\ Unwritten'
<1>1. CASE ReadFromMemory(s)
  <2>1. Accounted'
    BY <1>1, LeaveAccounted, GotoAccounted DEF ReadFromMemory, Steps, WithoutSubscription
  <2> QED
    BY <1>1, <2>1, StaysUnwritten DEF ReadFromMemory
<1>2. CASE StatusToMemory(s)
  <2>1. Accounted'
    BY <1>2, LeaveAccounted, GotoAccounted DEF StatusToMemory, Steps, AfterStatus
  <2> QED
    BY <1>2, <2>1, StaysUnwritten DEF StatusToMemory
<1>3. CASE CreateInMemory(s)
  <2>1. Accounted'
    BY <1>3, GotoAccounted DEF CreateInMemory, Steps
  <2> QED
    BY <1>3, <2>1, StaysUnwritten DEF CreateInMemory
<1>4. CASE Raise(s) \/ Crash(s)
  <2>1. faults \in Nat /\ crashes \in Nat
    BY ConstantsOK DEF Counting, Uniqueness, Typed, TypeOK
  <2>2. Accounted'
    BY <1>4, <2>1, FailureAccounted DEF Raise, Crash
  <2> QED
    BY <1>4, <2>2, StaysUnwritten DEF Raise, Crash
<1> QED
  BY <1>1, <1>2, <1>3, <1>4 DEF Interrupt

LEMMA NextCounts == Counting /\ [Next]_vars => Accounted' /\ Unwritten'
<1> SUFFICES ASSUME Counting, [Next]_vars PROVE Accounted' /\ Unwritten'
  OBVIOUS
<1>1. CASE \E s \in Slots, e \in Events : Deliver(s, e)
  <2>1. PICK s \in Slots, e \in Events : Deliver(s, e)
    BY <1>1
  <2>2. \A t \in Slots \ {s} : request'[t] = request[t]
    BY <2>1 DEF Deliver, Counting, Uniqueness, Typed, TypeOK
  <2>3. Accounted'
    BY <2>1, <2>2, StillAccounted DEF Deliver, Idle
  <2> QED
    BY <2>1, <2>3, StaysUnwritten DEF Deliver
<1>2. CASE \E s \in Slots : Process(s) \/ Interrupt(s)
  BY <1>2, ProcessCounts, InterruptCounts
<1>3. CASE \E plan \in Plans : RequestPlan(plan)
  <2>1. PICK plan \in Plans : RequestPlan(plan)
    BY <1>3
  <2>2. sub' # NoSub
    BY <2>1, WithPlanIsRow, ConstantsOK
       DEF RequestPlan, Counting, Uniqueness, Typed, TypeOK, Writers
  <2> QED
    BY <2>1, <2>2 DEF RequestPlan, Counting, Accounted, Unwritten, Wrote
<1>4. CASE UNCHANGED <<sub, request, events, writes, faults, crashes>>
  BY <1>4 DEF Counting, Accounted, Unwritten, Wrote
<1> QED
  BY <1>1, <1>2, <1>3, <1>4 DEF Next, Quiet, vars, DeliverToMemory, RequestPlanInMemory

LEMMA CountingHolds == Spec => []Counting
<1>1. Init => Counting
  BY InitTyped
     DEF Init, Counting, Accounted, Unwritten, Uniqueness, InsertedOnce, Open, Idle
<1>2. Counting /\ [Next]_vars => Counting'
  BY NextCounts, NextTyped, NextOnce DEF Counting, Uniqueness
<1> QED
  BY <1>1, <1>2, PTL DEF Spec

(* However often an event is delivered and however its deliveries overlap, *)
(* it writes the status once, and once more for each failure.              *)
THEOREM AppliedOnce == Spec => []AppliedOncePerFailure
<1>1. Counting => AppliedOncePerFailure
  BY DEF Counting, Accounted, AppliedOncePerFailure
<1> QED
  BY <1>1, CountingHolds, PTL

-----------------------------------------------------------------------------
(* The refinement of EventOnce. *)

Written(s) == request[s].pc \in {"plan", "commit"}
StageIn(s) == IF Written(s) THEN "done" ELSE "open"

(* The stage of an event is that of the one transaction that holds it.     *)
LEMMA StageHeld ==
    ASSUME InsertedOnce, NEW s \in Slots, NEW e \in Events, Holding(s, e)
    PROVE  Stage(e) = StageIn(s) /\ e \notin events
<1>1. e \notin events /\ \A t \in Slots : Holding(t, e) => t = s
  BY DEF InsertedOnce, Holding
<1> QED
  BY <1>1 DEF Stage, StageIn, Written, Holding

LEMMA StageFree ==
    ASSUME NEW e \in Events, e \notin events, \A t \in Slots : ~ Holding(t, e)
    PROVE  Stage(e) = "new"
BY DEF Stage

(* A step of one webhook is nothing to the events it does not process.     *)
LEMMA OthersStay ==
    ASSUME NEW s \in Slots, NEW e \in Events,
           ~ Holding(s, e), ~ Holding(s, e)',
           \A t \in Slots \ {s} : request'[t] = request[t],
           e \in events' <=> e \in events
    PROVE  Stage(e)' = Stage(e)
<1>1. \A t \in Slots : Holding(t, e)' <=> Holding(t, e)
  BY DEF Holding, Open
<1>2. \A t \in Slots : Holding(t, e) => request'[t] = request[t]
  BY DEF Holding
<1> QED
  BY <1>1, <1>2 DEF Stage

(* What becomes of the event of a webhook that leaves or goes on.          *)
LEMMA StageAfter ==
    ASSUME InsertedOnce, InsertedOnce', NEW s \in Slots, NEW e \in Events, request[s].event = e,
           \A t \in Slots \ {s} : request'[t] = request[t],
           request'[s].event = e \/ ~ Open(s)',
           events' = events
    PROVE  /\ \A f \in Events \ {e} : Stage(f)' = Stage(f)
           /\ Open(s)' => Stage(e)' = StageIn(s)'
           /\ Open(s) => Stage(e) = StageIn(s)
           /\ Open(s) /\ ~ Open(s)' => Stage(e)' = "new"
           /\ ~ Open(s) /\ ~ Open(s)' => Stage(e)' = Stage(e)
<1>1. ASSUME NEW f \in Events \ {e} PROVE Stage(f)' = Stage(f)
  BY OthersStay DEF Holding
<1>2. Open(s) => Stage(e) = StageIn(s) /\ e \notin events /\ \A t \in Slots \ {s} : ~ Holding(t, e)
  BY StageHeld DEF Holding, InsertedOnce
<1>3. ASSUME Open(s)' PROVE Stage(e)' = StageIn(s)'
  <2>1. Holding(s, e)' /\ e \notin events' /\ \A t \in Slots : Holding(t, e)' => t = s
    BY <1>3 DEF Holding, InsertedOnce
  <2> QED
    BY <2>1 DEF Stage, StageIn, Written, Holding
<1>4. ASSUME Open(s), ~ Open(s)' PROVE Stage(e)' = "new"
  <2>1. \A t \in Slots : ~ Holding(t, e)'
    BY <1>2, <1>4 DEF Holding, Open
  <2> QED
    BY <1>2, <1>4, <2>1 DEF Stage
<1>5. ASSUME ~ Open(s), ~ Open(s)' PROVE Stage(e)' = Stage(e)
  BY <1>5, OthersStay DEF Holding
<1> QED
  BY <1>1, <1>2, <1>3, <1>4, <1>5

(* Nothing becomes of an event when no webhook moves and none is recorded. *)
LEMMA AllStay ==
    ASSUME UNCHANGED <<request, events>>, NEW e \in Events
    PROVE  Stage(e)' = Stage(e)
BY DEF Stage, Holding, Open

Stages == [e \in Events |-> Stage(e)]

LEMMA StagesSame ==
    ASSUME \A e \in Events : Stage(e)' = Stage(e)
    PROVE  Stages' = Stages
BY DEF Stages

LEMMA StageBecomes ==
    ASSUME NEW e \in Events, \A f \in Events \ {e} : Stage(f)' = Stage(f)
    PROVE  /\ Stages' = [Stages EXCEPT ![e] = Stage(e)']
           /\ Stages[e] = Stage(e)
           /\ Stage(e)' = Stage(e) => Stages' = Stages
BY DEF Stages

(* A webhook under way has an event. *)
LEMMA HasEvent ==
    ASSUME Uniqueness, NEW s \in Slots, request[s] # Idle
    PROVE  \E e \in Events : request[s].event = e
BY DEF Uniqueness, Typed, TypeOK, Webhooks

LEMMA LeaveStage ==
    ASSUME Uniqueness, InsertedOnce', NEW s \in Slots, NEW e \in Events, request[s].event = e,
           Leave(s), events' = events
    PROVE  /\ ~ Open(s) => Stages' = Stages
           /\ Open(s) => /\ Stages[e] = StageIn(s)
                         /\ Stages' = [Stages EXCEPT ![e] = "new"]
<1>1. (\A t \in Slots \ {s} : request'[t] = request[t]) /\ ~ Open(s)'
  BY LeaveMoves DEF Uniqueness, Typed, TypeOK, Requests, Open
<1>2. /\ \A f \in Events \ {e} : Stage(f)' = Stage(f)
      /\ Open(s) => Stage(e) = StageIn(s) /\ Stage(e)' = "new"
      /\ ~ Open(s) => Stage(e)' = Stage(e)
  BY <1>1, StageAfter DEF Uniqueness
<1> QED
  BY <1>2, StageBecomes

LEMMA GotoStage ==
    ASSUME Uniqueness, InsertedOnce', NEW s \in Slots, NEW e \in Events, request[s].event = e,
           request[s].pc \in Steps, NEW label \in Steps, Goto(s, label), events' = events
    PROVE  /\ Open(s) => Stages[e] = StageIn(s)
           /\ label \in {"select", "insert"} /\ ~ Open(s) => Stages' = Stages
           /\ label \in {"plan", "commit"} => Stages' = [Stages EXCEPT ![e] = "done"]
           /\ label \in {"read", "status", "create", "newstatus"}
              => Stages' = [Stages EXCEPT ![e] = "open"]
<1>1. /\ \A t \in Slots \ {s} : request'[t] = request[t]
      /\ request'[s].pc = label /\ request'[s].event = e
  BY GotoMoves DEF Uniqueness, Typed, TypeOK, Requests
<1>2. /\ \A f \in Events \ {e} : Stage(f)' = Stage(f)
      /\ Open(s)' => Stage(e)' = StageIn(s)'
      /\ Open(s) => Stage(e) = StageIn(s)
      /\ ~ Open(s) /\ ~ Open(s)' => Stage(e)' = Stage(e)
  BY <1>1, StageAfter DEF Uniqueness
<1>3. /\ label \in {"plan", "commit"} => Open(s)' /\ StageIn(s)' = "done"
      /\ label \in {"read", "status", "create", "newstatus"} => Open(s)' /\ StageIn(s)' = "open"
      /\ label \in {"select", "insert"} => ~ Open(s)'
  BY <1>1 DEF Open, StageIn, Written
<1> QED
  BY <1>2, <1>3, StageBecomes

(* To be what it was is to stay.                                           *)
LEMMA StageKept ==
    ASSUME NEW e \in Events, NEW to, Stages[e] = to
    PROVE  [Stages EXCEPT ![e] = to] = Stages
BY DEF Stages

OnceStep == [Once!Next]_<<Stages, writes, acked, faults + crashes, fallbacks>>

LEMMA WriteStatusSteps ==
    ASSUME Uniqueness, InsertedOnce', NEW s \in Slots, request[s].pc \in {"status", "newstatus"},
           NEW label \in {"plan", "commit"}, WriteStatus(s, label)
    PROVE  OnceStep
<1>1. Open(s) /\ request[s].pc \in Steps /\ StageIn(s) = "open" /\ label \in Steps
  BY DEF Open, Steps, StageIn, Written
<1>2. PICK e \in Events : request[s].event = e
  BY <1>1, AtStep DEF Uniqueness, Typed, TypeOK, Requests
<1>3. UNCHANGED <<events, acked, faults, crashes, fallbacks>>
  BY DEF WriteStatus
<1>4. CASE Listed(ResultOf(s).status) /\ sub # NoSub
  <2>1. Goto(s, label) /\ writes' = [writes EXCEPT ![e] = @ + 1]
    BY <1>2, <1>4 DEF WriteStatus
  <2>2. Stages[e] = "open" /\ Stages' = [Stages EXCEPT ![e] = "done"]
    BY <1>1, <1>2, <1>3, <2>1, GotoStage
  <2>3. Once!Apply(e)
    BY <1>3, <2>1, <2>2 DEF Once!Apply, Once!Become, Stages
  <2> QED
    BY <2>3 DEF OnceStep, Once!Next
<1>5. CASE ~ (Listed(ResultOf(s).status) /\ sub # NoSub)
  <2>1. Leave(s) /\ writes' = writes
    BY <1>5 DEF WriteStatus
  <2>2. Stages[e] = "open" /\ Stages' = [Stages EXCEPT ![e] = "new"]
    BY <1>1, <1>2, <1>3, <2>1, LeaveStage
  <2>3. Once!Reject(e)
    BY <1>3, <2>1, <2>2 DEF Once!Reject, Once!Become, Stages
  <2> QED
    BY <2>3 DEF OnceStep, Once!Next
<1> QED
  BY <1>4, <1>5

LEMMA SelectSteps ==
    ASSUME Uniqueness, InsertedOnce', NEW s \in Slots, Select(s)
    PROVE  OnceStep
<1>1. request[s].pc \in Steps /\ ~ Open(s) /\ "insert" \in Steps
  BY DEF Select, Steps, Open
<1>2. PICK e \in Events : request[s].event = e
  BY <1>1, AtStep DEF Uniqueness, Typed, TypeOK, Requests
<1>3. UNCHANGED <<events, writes, faults, crashes, fallbacks>>
  BY DEF Select
<1>4. CASE e \in events
  <2>1. Leave(s) /\ acked' = acked \cup {e}
    BY <1>2, <1>4 DEF Select, Acknowledge
  <2>2. Stages' = Stages
    BY <1>1, <1>2, <1>3, <2>1, LeaveStage
  <2>3. Stages[e] = "recorded"
    BY <1>4 DEF Stages, Stage
  <2>4. Once!AnswerDuplicate(e)
    BY <1>3, <2>1, <2>2, <2>3 DEF Once!AnswerDuplicate, Stages
  <2> QED
    BY <2>4 DEF OnceStep, Once!Next
<1>5. CASE e \notin events
  <2>1. Goto(s, "insert") /\ acked' = acked
    BY <1>2, <1>5 DEF Select
  <2>2. Stages' = Stages
    BY <1>1, <1>2, <1>3, <2>1, GotoStage
  <2> QED
    BY <1>3, <2>1, <2>2 DEF OnceStep
<1> QED
  BY <1>4, <1>5

LEMMA InsertSteps ==
    ASSUME Uniqueness, InsertedOnce', NEW s \in Slots, Insert(s)
    PROVE  OnceStep
<1>1. request[s].pc \in Steps /\ ~ Open(s)
  BY DEF Insert, Steps, Open
<1>2. PICK e \in Events : request[s].event = e
  BY <1>1, AtStep DEF Uniqueness, Typed, TypeOK, Requests
<1>3. UNCHANGED <<events, writes, acked, faults, crashes, fallbacks>>
  BY DEF Insert
<1>4. CASE e \in events
  <2>1. Stages' = Stages
    BY <1>1, <1>2, <1>3, <1>4, LeaveStage DEF Insert
  <2> QED
    BY <1>3, <2>1 DEF OnceStep
<1>5. CASE e \notin events
  <2>1. PICK label \in {"commit", "read"} : Goto(s, label)
    BY <1>2, <1>5 DEF Insert
  <2>2. label \in Steps
    BY DEF Steps
  <2>3. Stages[e] = "new"
    <3>1. \A t \in Slots : ~ Holding(t, e)
      BY <1>2 DEF Insert, Holding
    <3> QED
      BY <1>5, <3>1, StageFree DEF Stages
  <2>4. \E to \in {"open", "done"} : Stages' = [Stages EXCEPT ![e] = to]
    BY <1>1, <1>2, <1>3, <2>1, <2>2, GotoStage
  <2>5. Once!Begin(e)
    BY <1>3, <2>3, <2>4 DEF Once!Begin, Once!Become, Stages
  <2> QED
    BY <2>5 DEF OnceStep, Once!Next
<1> QED
  BY <1>4, <1>5

(* A webhook that has not applied its event reads on or creates, with or   *)
(* without a failed check, or is rejected.                                 *)
OpenLabels == {"read", "status", "create", "newstatus"}

LEMMA OpenSteps ==
    ASSUME Uniqueness, InsertedOnce', NEW s \in Slots, request[s].pc \in OpenLabels,
           Leave(s) \/ \E label \in OpenLabels : Goto(s, label),
           UNCHANGED <<events, acked, writes, faults, crashes>>,
           fallbacks' \in {fallbacks, fallbacks + 1}
    PROVE  OnceStep
<1>1. Open(s) /\ request[s].pc \in Steps /\ StageIn(s) = "open"
  BY DEF Open, Steps, StageIn, Written, OpenLabels
<1>2. PICK e \in Events : request[s].event = e
  BY <1>1, AtStep DEF Uniqueness, Typed, TypeOK, Requests
<1>3. CASE Leave(s)
  <2>1. Stages[e] = "open" /\ Stages' = [Stages EXCEPT ![e] = "new"]
    BY <1>1, <1>2, <1>3, LeaveStage
  <2>2. fallbacks' = fallbacks => Once!Reject(e)
    BY <2>1 DEF Once!Reject, Once!Become, Stages
  <2>3. fallbacks' = fallbacks + 1 => Once!Bypass
    BY <2>1 DEF Once!Bypass, Once!Become, Stages
  <2> QED
    BY <2>2, <2>3 DEF OnceStep, Once!Next
<1>4. ASSUME NEW label \in OpenLabels, Goto(s, label) PROVE OnceStep
  <2>1. label \in Steps
    BY DEF Steps, OpenLabels
  <2>2. Stages[e] = "open" /\ Stages' = [Stages EXCEPT ![e] = "open"]
    BY <1>1, <1>2, <1>4, <2>1, GotoStage DEF OpenLabels
  <2>3. Stages' = Stages
    BY <2>2, StageKept
  <2>4. fallbacks' = fallbacks + 1 => Once!Bypass
    BY <2>3 DEF Once!Bypass, Stages
  <2> QED
    BY <2>3, <2>4 DEF OnceStep, Once!Next
<1> QED
  BY <1>3, <1>4

(* ... or goes on to its plan or its commit without having applied it.     *)
LEMMA BypassSteps ==
    ASSUME Uniqueness, InsertedOnce', NEW s \in Slots, request[s].pc \in OpenLabels,
           NEW label \in {"plan", "commit"}, Goto(s, label),
           UNCHANGED <<events, acked, writes, faults, crashes>>, fallbacks' = fallbacks + 1
    PROVE  OnceStep
<1>1. Open(s) /\ request[s].pc \in Steps /\ StageIn(s) = "open" /\ label \in Steps
  BY DEF Open, Steps, StageIn, Written, OpenLabels
<1>2. PICK e \in Events : request[s].event = e
  BY <1>1, AtStep DEF Uniqueness, Typed, TypeOK, Requests
<1>3. Stages[e] = "open" /\ Stages' = [Stages EXCEPT ![e] = "done"]
  BY <1>1, <1>2, GotoStage
<1>4. Once!Bypass
  BY <1>3 DEF Once!Bypass, Once!Become, Stages
<1> QED
  BY <1>4 DEF OnceStep, Once!Next

LEMMA UpdatePlanSteps ==
    ASSUME Counting, InsertedOnce', NEW s \in Slots, UpdatePlan(s)
    PROVE  OnceStep
<1>1. /\ Uniqueness /\ request \in Requests
      /\ Open(s) /\ request[s].pc \in Steps /\ StageIn(s) = "done"
  BY DEF UpdatePlan, Open, Steps, StageIn, Written, Counting, Uniqueness, Typed, TypeOK, Requests
<1>2. PICK e \in Events : request[s].event = e
  BY <1>1, AtStep
<1>3. UNCHANGED <<events, writes, acked, faults, crashes, fallbacks>>
  BY DEF UpdatePlan
<1>4. CASE sub = NoSub
  <2>1. Stages[e] = "done" /\ Stages' = [Stages EXCEPT ![e] = "new"]
    BY <1>1, <1>2, <1>3, <1>4, LeaveStage DEF UpdatePlan
  <2>2. writes[e] = 0
    BY <1>4 DEF Counting, Unwritten
  <2>3. Once!Reject(e)
    BY <1>3, <2>1, <2>2 DEF Once!Reject, Once!Become, Stages
  <2> QED
    BY <2>3 DEF OnceStep, Once!Next
<1>5. CASE sub # NoSub
  <2> DEFINE r == [request[s] EXCEPT !.pc = "commit", !.locks = TRUE]
  <2>1. request' = [request EXCEPT ![s] = r] /\ r.event = e /\ r.pc = "commit"
    BY <1>1, <1>2, <1>5, AtStep DEF UpdatePlan, Requests, Steps, Webhooks
  <2>2. /\ \A t \in Slots \ {s} : request'[t] = request[t]
        /\ request'[s].event = e /\ request'[s].pc = "commit"
    BY <1>1, <2>1 DEF Requests
  <2>3. /\ \A f \in Events \ {e} : Stage(f)' = Stage(f)
        /\ Open(s)' => Stage(e)' = StageIn(s)'
        /\ Stage(e) = StageIn(s)
    BY <1>1, <1>2, <1>3, <2>2, StageAfter DEF Uniqueness
  <2>4. Open(s)' /\ StageIn(s)' = "done"
    BY <2>2 DEF Open, StageIn, Written
  <2>5. Stages' = Stages
    BY <1>1, <2>3, <2>4, StageBecomes
  <2> QED
    BY <1>3, <2>5 DEF OnceStep
<1> QED
  BY <1>4, <1>5

LEMMA CommitSteps ==
    ASSUME Uniqueness, InsertedOnce', NEW s \in Slots, Commit(s)
    PROVE  OnceStep
<1>1. Open(s) /\ request[s].pc \in Steps /\ StageIn(s) = "done" /\ request \in Requests
  BY DEF Commit, Open, Steps, StageIn, Written, Uniqueness, Typed, TypeOK, Requests
<1>2. PICK e \in Events : request[s].event = e
  BY <1>1, AtStep
<1>3. /\ events' = events \cup {e} /\ acked' = acked \cup {e} /\ Leave(s)
      /\ UNCHANGED <<writes, faults, crashes, fallbacks>>
  BY <1>2 DEF Commit, Acknowledge
<1>4. (\A t \in Slots \ {s} : request'[t] = request[t]) /\ ~ Open(s)'
  BY <1>1, <1>3, LeaveMoves DEF Open
<1>5. Holding(s, e)
  BY <1>1, <1>2 DEF Holding
<1>6. \A f \in Events \ {e} : Stage(f)' = Stage(f)
  BY <1>2, <1>3, <1>4, OthersStay DEF Holding
<1>7. Stage(e) = "done" /\ Stage(e)' = "recorded"
  <2>1. Stage(e) = "done"
    BY <1>1, <1>5, StageHeld DEF Uniqueness
  <2>2. Stage(e)' = "recorded"
    BY <1>3 DEF Stage
  <2> QED
    BY <2>1, <2>2
<1>8. Stages[e] = "done" /\ Stages' = [Stages EXCEPT ![e] = "recorded"]
  BY <1>6, <1>7, StageBecomes
<1>9. Once!Record(e)
  BY <1>3, <1>8 DEF Once!Record, Once!Become, Stages
<1> QED
  BY <1>9 DEF OnceStep, Once!Next

LEMMA FailureSteps ==
    ASSUME Uniqueness, InsertedOnce', NEW s \in Slots, Raise(s) \/ Crash(s)
    PROVE  OnceStep
<1>1. PICK e \in Events : request[s].event = e
  BY HasEvent DEF Raise, Crash
<1>2. /\ Leave(s) /\ UNCHANGED <<events, writes, acked, fallbacks>>
      /\ faults' + crashes' = faults + crashes + 1
  BY ConstantsOK DEF Raise, Crash, Uniqueness, Typed, TypeOK
<1>3. CASE ~ Open(s)
  <2>1. Stages' = Stages
    BY <1>1, <1>2, <1>3, LeaveStage
  <2>2. Once!Fail
    BY <1>2, <2>1 DEF Once!Fail, Stages
  <2> QED
    BY <2>2 DEF OnceStep, Once!Next
<1>4. CASE Open(s)
  <2>1. Stages[e] = StageIn(s) /\ Stages' = [Stages EXCEPT ![e] = "new"]
    BY <1>1, <1>2, <1>4, LeaveStage
  <2>2. Once!Held(e)
    BY <2>1 DEF Once!Held, StageIn, Stages
  <2>3. Once!Fail
    BY <1>2, <2>1, <2>2 DEF Once!Fail, Once!Become, Stages
  <2> QED
    BY <2>3 DEF OnceStep, Once!Next
<1> QED
  BY <1>3, <1>4

LEMMA DeliverSteps ==
    ASSUME Uniqueness, InsertedOnce', NEW s \in Slots, NEW d \in Events, Deliver(s, d)
    PROVE  OnceStep
<1>1. /\ \A t \in Slots \ {s} : request'[t] = request[t]
      /\ request'[s].pc = "select" /\ request[s].pc = "idle"
  BY DEF Deliver, Uniqueness, Typed, TypeOK, Idle
<1>2. ~ Open(s) /\ ~ Open(s)' /\ UNCHANGED <<events, writes, acked, faults, crashes, fallbacks>>
  BY <1>1 DEF Open, Deliver
<1>3. \A e \in Events : Stage(e)' = Stage(e)
  BY <1>1, <1>2, OthersStay DEF Holding
<1> QED
  BY <1>2, <1>3, StagesSame DEF OnceStep

LEMMA StillSteps ==
    ASSUME UNCHANGED <<request, events, writes, faults, crashes>>,
           \/ UNCHANGED <<acked, fallbacks>>
           \/ fallbacks' = fallbacks + 1
              /\ (acked' = acked \/ \E e \in Events : acked' = acked \cup {e})
    PROVE  OnceStep
<1>1. Stages' = Stages
  BY AllStay, StagesSame
<1>2. CASE UNCHANGED <<acked, fallbacks>>
  BY <1>1, <1>2 DEF OnceStep
<1>3. CASE fallbacks' = fallbacks + 1
  <2>1. Once!Bypass
    BY <1>1, <1>3 DEF Once!Bypass, Stages
  <2> QED
    BY <2>1 DEF OnceStep, Once!Next
<1> QED
  BY <1>2, <1>3

LEMMA NextSteps ==
    ASSUME Counting, InsertedOnce', [Next]_vars
    PROVE  OnceStep
<1>0. Uniqueness
  BY DEF Counting
<1>1. ASSUME NEW s \in Slots, Process(s) PROVE OnceStep
  <2>1. CASE Select(s) \/ Insert(s) \/ UpdatePlan(s) \/ Commit(s)
    BY <1>0, <2>1, SelectSteps, InsertSteps, UpdatePlanSteps, CommitSteps
  <2>2. CASE UpdateStatus(s) \/ UpdateNewStatus(s)
    BY <1>0, <2>2, WriteStatusSteps DEF UpdateStatus, UpdateNewStatus, AfterStatus
  <2>3. CASE Read(s)
    BY <1>0, <2>3, OpenSteps DEF Read, WithoutSubscription, OpenLabels
  <2>4. CASE Create(s)
    BY <1>0, <2>4, OpenSteps DEF Create, OpenLabels
  <2> QED
    BY <1>1, <2>1, <2>2, <2>3, <2>4 DEF Process
<1>2. ASSUME NEW s \in Slots, Interrupt(s) PROVE OnceStep
  <2>1. CASE ReadFromMemory(s)
    BY <1>0, <2>1, OpenSteps DEF ReadFromMemory, WithoutSubscription, OpenLabels
  <2>2. CASE StatusToMemory(s)
    BY <1>0, <2>2, OpenSteps, BypassSteps DEF StatusToMemory, AfterStatus, OpenLabels
  <2>3. CASE CreateInMemory(s)
    BY <1>0, <2>3, OpenSteps DEF CreateInMemory, OpenLabels
  <2>4. CASE Raise(s) \/ Crash(s)
    BY <1>0, <2>4, FailureSteps
  <2> QED
    BY <1>2, <2>1, <2>2, <2>3, <2>4 DEF Interrupt
<1>3. CASE \E s \in Slots, e \in Events : Deliver(s, e)
  BY <1>0, <1>3, DeliverSteps
<1>4. CASE \/ \E s \in Slots, e \in Events : DeliverToMemory(s, e)
           \/ \E plan \in Plans : RequestPlan(plan) \/ \E s \in Slots : RequestPlanInMemory(s)
           \/ UNCHANGED vars
  BY <1>4, StillSteps DEF DeliverToMemory, RequestPlan, RequestPlanInMemory, vars
<1> QED
  BY <1>1, <1>2, <1>3, <1>4 DEF Next, Quiet

LEMMA OnceInit == Init => Once!Init
BY DEF Init, Once!Init, Stage, Holding, Open, Idle

(* However its deliveries overlap, fail and come again, an event is held   *)
(* by one transaction at a time, applied once by it, and not again once it *)
(* is recorded; only a failure gives it another chance, and only a failed  *)
(* availability check has it answered unrecorded.                          *)
THEOREM WebhooksAreIdempotent == Spec => ImplementsEventOnce
<1>1. Counting /\ InsertedOnce' /\ [Next]_vars
      => [Once!Next]_<<Stages, writes, acked, faults + crashes, fallbacks>>
  BY NextSteps DEF OnceStep
<1>2. Spec => []Counting
  BY CountingHolds
<1>3. Counting => InsertedOnce
  BY DEF Counting, Uniqueness
<1> QED
  BY <1>1, <1>2, <1>3, OnceInit, PTL
     DEF Spec, ImplementsEventOnce, Once!Spec, Once!life, Stages

-----------------------------------------------------------------------------
(* What being held, applied and recorded in this way is good for. *)

VARIABLES stage, applied, answered, failures, bypasses
CONSTANT Ids
Promise == INSTANCE EventOnce

OnceTyped ==
    /\ stage \in [Ids -> {"new", "open", "done", "recorded"}]
    /\ applied \in [Ids -> Nat] /\ failures \in Nat /\ bypasses \in Nat
    /\ answered \subseteq Ids

LEMMA OnceSound == Promise!Spec => [](OnceTyped /\ Promise!Idempotent)
<1> DEFINE Inv == OnceTyped /\ Promise!Idempotent
<1>1. Promise!Init => Inv
  BY DEF Promise!Init, OnceTyped, Promise!Idempotent
<1>2. Inv /\ [Promise!Next]_Promise!life => Inv'
  <2> SUFFICES ASSUME Inv, [Promise!Next]_Promise!life PROVE Inv'
    OBVIOUS
  <2> USE DEF Promise!Become, OnceTyped, Promise!Idempotent
  <2>1. ASSUME NEW e \in Ids, Promise!Begin(e) PROVE Inv'
    BY <2>1 DEF Promise!Begin
  <2>2. ASSUME NEW e \in Ids, Promise!Apply(e) PROVE Inv'
    BY <2>2 DEF Promise!Apply
  <2>3. ASSUME NEW e \in Ids, Promise!Record(e) PROVE Inv'
    BY <2>3 DEF Promise!Record
  <2>4. ASSUME NEW e \in Ids, Promise!AnswerDuplicate(e) PROVE Inv'
    BY <2>4 DEF Promise!AnswerDuplicate
  <2>5. ASSUME NEW e \in Ids, Promise!Reject(e) PROVE Inv'
    BY <2>5 DEF Promise!Reject
  <2>6. CASE Promise!Fail
    BY <2>6 DEF Promise!Fail, Promise!Held
  <2>7. CASE Promise!Bypass
    BY <2>7 DEF Promise!Bypass
  <2>8. CASE UNCHANGED Promise!life
    BY <2>8 DEF Promise!life
  <2> QED
    BY <2>1, <2>2, <2>3, <2>4, <2>5, <2>6, <2>7, <2>8 DEF Promise!Next
<1> QED
  BY <1>1, <1>2, PTL DEF Promise!Spec

(* In every such life of events each is applied once at most, and once     *)
(* more for each failure, and answered only when it is recorded, unless    *)
(* something was bypassed.                                                 *)
THEOREM OnceMeansOnce == Promise!Spec => []Promise!Idempotent
BY OnceSound, PTL

(* ... and once recorded it is never applied again.                        *)
THEOREM RecordedForGood == Promise!Spec => Promise!RecordedIsFinal
<1>1. OnceTyped /\ [Promise!Next]_Promise!life
      => [\A e \in Ids : stage[e] = "recorded" =>
             stage'[e] = "recorded" /\ applied'[e] = applied[e]]_Promise!life
  BY DEF Promise!Next, Promise!Begin, Promise!Apply, Promise!Record, Promise!AnswerDuplicate,
         Promise!Reject, Promise!Fail, Promise!Bypass, Promise!Held, Promise!Become, OnceTyped
<1> QED
  BY <1>1, OnceSound, PTL DEF Promise!Spec, Promise!RecordedIsFinal

-----------------------------------------------------------------------------
(* Plan and status of one event, or of two that overlapped.                *)

Clean == faults = 0 /\ fallbacks = 0 /\ crashes = 0

Agree(a, b) == SetsBoth(a) /\ SetsBoth(b) => a = b \/ <<a, b>> \in overlapped

(* The webhook has yet to write the plan of an event whose status it has   *)
(* written.                                                                *)
OwesPlan(s) == request[s].pc = "plan" \/ (request[s].pc = "commit" /\ request[s].locks)

(* The events of the webhooks under way overlap.                           *)
Overlaps == \A a, b \in UnderWay : a = b \/ <<a, b>> \in overlapped

(* What is written agrees, or the writer of the status owes the plan; and  *)
(* what a webhook has yet to write agrees with what it will not write.     *)
Promised ==
    \/ Agree(sub.planBy, sub.statusBy)
    \/ \E s \in Slots : OwesPlan(s) /\ request[s].event = sub.statusBy
PlansAgree ==
    \A s \in Slots :
        OwesPlan(s) \/ request[s].pc = "create" => Agree(request[s].event, sub.statusBy)
StatusAgrees ==
    \A s \in Slots : request[s].pc = "newstatus" => Agree(sub.planBy, request[s].event)

Matched == Clean /\ sub # NoSub => Promised /\ PlansAgree /\ StatusAgrees

Matching == Typed /\ Overlaps /\ Matched

LEMMA CleanBefore ==
    ASSUME Typed, HNext, Clean'
    PROVE  Clean
<1>1. faults \in Nat /\ fallbacks \in Nat /\ crashes \in Nat
  BY ConstantsOK DEF Typed, TypeOK
<1>2. /\ faults' = faults \/ faults' = faults + 1
      /\ fallbacks' = fallbacks \/ fallbacks' = fallbacks + 1
      /\ crashes' = crashes \/ crashes' = crashes + 1
  BY DEF HNext, Next, Quiet, vars, Deliver, DeliverToMemory, RequestPlan,
         RequestPlanInMemory, Process, Select, Insert, Read, UpdateStatus,
         UpdateNewStatus, WriteStatus, UpdatePlan, Create, Commit, Interrupt,
         ReadFromMemory, StatusToMemory, CreateInMemory, Raise, Crash
<1> QED
  BY <1>1, <1>2 DEF Clean

(* Pairs are only added, those of the webhooks under way at once.          *)
LEMMA NextOverlaps ==
    ASSUME HNext
    PROVE  Overlaps' /\ overlapped \subseteq overlapped'
<1>1. overlapped' = overlapped \cup {pair \in (UnderWay \X UnderWay)' : pair[1] # pair[2]}
  BY DEF HNext
<1>2. ASSUME NEW a \in UnderWay', NEW b \in UnderWay', a # b
      PROVE  <<a, b>> \in overlapped'
  <2>1. <<a, b>> \in (UnderWay \X UnderWay)'
    BY <1>2
  <2> QED
    BY <1>1, <1>2, <2>1
<1> QED
  BY <1>1, <1>2 DEF Overlaps

LEMMA AgreeStays ==
    ASSUME NEW a, NEW b, Agree(a, b), overlapped \subseteq overlapped'
    PROVE  Agree(a, b)'
BY DEF Agree, SetsBoth

(* Two webhooks under way agree, in either order.                          *)
LEMMA BothAgree ==
    ASSUME Overlaps, NEW s \in Slots, NEW t \in Slots, request[s] # Idle, request[t] # Idle
    PROVE  Agree(request[s].event, request[t].event)
BY DEF Overlaps, UnderWay, Agree

(* A slot that owes or is to write serves a webhook.                       *)
LEMMA OwingServes ==
    ASSUME NEW s \in Slots,
           OwesPlan(s) \/ request[s].pc \in Steps
    PROVE  request[s] # Idle
BY DEF OwesPlan, Idle, Steps

(* A webhook goes on or leaves, and the row stays as it is.                *)
LEMMA RowStays ==
    ASSUME Matching, HNext, NEW s \in Slots,
           \A t \in Slots \ {s} : request'[t] = request[t],
           sub' = sub,
           OwesPlan(s) => OwesPlan(s)' /\ request'[s].event = request[s].event,
           (OwesPlan(s) \/ request[s].pc = "create")' /\ sub # NoSub
               => /\ OwesPlan(s) \/ request[s].pc = "create"
                  /\ request'[s].event = request[s].event,
           request'[s].pc # "newstatus"
    PROVE  Matched'
<1> SUFFICES ASSUME Clean', sub' # NoSub
             PROVE  (Promised /\ PlansAgree /\ StatusAgrees)'
  BY DEF Matched
<1>1. Clean /\ sub # NoSub /\ overlapped \subseteq overlapped'
  BY CleanBefore, NextOverlaps DEF Matching
<1>2. Promised /\ PlansAgree /\ StatusAgrees
  BY <1>1 DEF Matching, Matched
<1>3. Promised'
  <2>1. CASE Agree(sub.planBy, sub.statusBy)
    BY <1>1, <2>1, AgreeStays DEF Promised, Agree, SetsBoth
  <2>2. CASE \E t \in Slots : OwesPlan(t) /\ request[t].event = sub.statusBy
    BY <2>2 DEF Promised, OwesPlan
  <2> QED
    BY <1>2, <2>1, <2>2 DEF Promised
<1>4. PlansAgree'
  BY <1>1, <1>2 DEF PlansAgree, OwesPlan, Agree, SetsBoth
<1>5. StatusAgrees'
  BY <1>1, <1>2 DEF StatusAgrees, Agree, SetsBoth
<1> QED
  BY <1>3, <1>4, <1>5

LEMMA LeaveMatches ==
    ASSUME Matching, HNext, NEW s \in Slots, Leave(s), sub' = sub, ~ OwesPlan(s)
    PROVE  Matched'
<1>1. /\ \A t \in Slots \ {s} : request'[t] = request[t]
      /\ request'[s].pc = "idle"
  BY LeaveMoves DEF Matching, Typed, TypeOK, Requests
<1> QED
  BY <1>1, RowStays DEF OwesPlan

(* A failure leaves nothing to show.                                       *)
LEMMA TroubleMatches ==
    ASSUME Typed, HNext,
           faults' = faults + 1 \/ fallbacks' = fallbacks + 1 \/ crashes' = crashes + 1
    PROVE  Matched'
<1>1. faults \in Nat /\ fallbacks \in Nat /\ crashes \in Nat
  BY ConstantsOK DEF Typed, TypeOK
<1> QED
  BY <1>1 DEF Clean, Matched

(* The webhook writes the status: it was under way with all that owe a     *)
(* plan, and owes its own or found the plan of the row agreeing.           *)
LEMMA WriteMatches ==
    ASSUME Matching, HNext, NEW s \in Slots, NEW label \in Steps, WriteStatus(s, label),
           \/ request[s].pc = "status" /\ label = AfterStatus(ResultOf(s).plan)
           \/ request[s].pc = "newstatus" /\ label = "commit"
    PROVE  Matched'
<1> DEFINE e == request[s].event
<1>0. request \in Requests /\ request[s].pc \in Steps /\ ~ OwesPlan(s)
      /\ request[s] # Idle
  BY OwingServes DEF Matching, Typed, TypeOK, Requests, Steps, OwesPlan
<1>1. CASE Listed(ResultOf(s).status) /\ sub # NoSub
  <2>1. Goto(s, label) /\ sub' = [sub EXCEPT !.status = ResultOf(s).status, !.statusBy = e]
    BY <1>1 DEF WriteStatus
  <2>2. /\ \A t \in Slots \ {s} : request'[t] = request[t]
        /\ request'[s].pc = label
        /\ request'[s].event = e
    BY <1>0, <2>1, GotoMoves
  <2>3. sub'.planBy = sub.planBy /\ sub'.statusBy = e
    BY <1>1, <2>1 DEF Matching, Typed, TypeOK, Subscriptions
  <2> SUFFICES ASSUME Clean'
               PROVE  (Promised /\ PlansAgree /\ StatusAgrees)'
    BY DEF Matched
  <2>4. Clean /\ overlapped \subseteq overlapped'
    BY CleanBefore, NextOverlaps DEF Matching
  <2>5. Promised /\ PlansAgree /\ StatusAgrees
    BY <1>1, <2>4 DEF Matching, Matched
  <2>6. Promised'
    <3>1. CASE request[s].pc = "status"
      <4>1. CASE ResultOf(s).plan = "none"
        BY <2>3, <4>1 DEF Promised, Agree, SetsBoth, ResultOf
      <4>2. CASE ResultOf(s).plan # "none"
        <5>1. label = "plan"
          BY <3>1, <4>2 DEF AfterStatus
        <5> QED
          BY <2>2, <2>3, <5>1 DEF Promised, OwesPlan
      <4> QED
        BY <4>1, <4>2
    <3>2. CASE request[s].pc = "newstatus"
      <4>1. Agree(sub.planBy, e)
        BY <2>5, <3>2 DEF StatusAgrees
      <4> QED
        BY <2>3, <2>4, <4>1, AgreeStays DEF Promised, Agree, SetsBoth
    <3> QED
      BY <3>1, <3>2
  <2>7. PlansAgree'
    <3> SUFFICES ASSUME NEW t \in Slots, (OwesPlan(t) \/ request[t].pc = "create")'
                 PROVE  Agree(request[t].event, sub.statusBy)'
      BY DEF PlansAgree
    <3>1. CASE t = s
      BY <2>2, <2>3, <3>1 DEF Agree
    <3>2. CASE t # s
      <4>1. request'[t] = request[t] /\ request[t] # Idle
        BY <2>2, <3>2, OwingServes DEF OwesPlan, Steps
      <4>2. Agree(request[t].event, e)
        BY <1>0, <4>1, BothAgree DEF Matching
      <4> QED
        BY <2>3, <2>4, <4>1, <4>2 DEF Agree, SetsBoth
    <3> QED
      BY <3>1, <3>2
  <2>8. StatusAgrees'
    <3> SUFFICES ASSUME NEW t \in Slots, request'[t].pc = "newstatus"
                 PROVE  Agree(sub.planBy, request[t].event)'
      BY DEF StatusAgrees
    <3>1. t # s
      BY <2>2 DEF AfterStatus
    <3>2. Agree(sub.planBy, request[t].event) /\ request'[t] = request[t]
      BY <2>2, <2>5, <3>1 DEF StatusAgrees
    <3> QED
      BY <2>3, <2>4, <3>2 DEF Agree, SetsBoth
  <2> QED
    BY <2>6, <2>7, <2>8
<1>2. CASE ~ (Listed(ResultOf(s).status) /\ sub # NoSub)
  BY <1>0, <1>2, LeaveMatches DEF WriteStatus
<1> QED
  BY <1>1, <1>2

LEMMA UpdatePlanMatches ==
    ASSUME Matching, HNext, NEW s \in Slots, UpdatePlan(s)
    PROVE  Matched'
<1>0. request \in Requests /\ request[s].pc = "plan"
  BY DEF Matching, Typed, TypeOK, Requests, UpdatePlan
<1>1. CASE sub = NoSub
  BY <1>1 DEF UpdatePlan, Matched
<1>2. CASE sub # NoSub
  <2> DEFINE r == [request[s] EXCEPT !.pc = "commit", !.locks = TRUE]
  <2>1. request' = [request EXCEPT ![s] = r]
        /\ r.event = request[s].event /\ r.pc = "commit" /\ r.locks
    BY <1>0, <1>2, AtStep DEF UpdatePlan, Requests, Steps, Webhooks
  <2>2. /\ \A t \in Slots \ {s} : request'[t] = request[t]
        /\ request'[s].event = request[s].event
        /\ request'[s].pc = "commit"
        /\ request'[s].locks
    BY <1>0, <2>1 DEF Requests
  <2>3. OwesPlan(s) /\ OwesPlan(s)' /\ sub' = sub
    BY <1>0, <2>2 DEF OwesPlan, UpdatePlan
  <2> QED
    BY <2>2, <2>3, RowStays
<1> QED
  BY <1>1, <1>2

(* The plan of the row is an event's whose webhook was under way with all  *)
(* that write a new status.                                                *)
LEMMA PlanWritten ==
    ASSUME Matching, HNext, NEW s \in Slots, request[s] # Idle,
           OwesPlan(s) \/ request[s].pc = "create",
           \A t \in Slots \ {s} : request'[t] = request[t],
           request'[s].pc \notin {"plan", "create"},
           ~ (OwesPlan(s)' /\ request[s].pc # "create"),
           OwesPlan(s)' => request'[s].event = request[s].event,
           request'[s].pc = "newstatus" => request'[s].event = request[s].event,
           sub # NoSub, sub'.planBy = request[s].event, sub'.statusBy = sub.statusBy
    PROVE  Matched'
<1> DEFINE e == request[s].event
<1> SUFFICES ASSUME Clean'
             PROVE  (Promised /\ PlansAgree /\ StatusAgrees)'
  BY DEF Matched
<1>1. Clean /\ overlapped \subseteq overlapped'
  BY CleanBefore, NextOverlaps DEF Matching
<1>2. Promised /\ PlansAgree /\ StatusAgrees
  BY <1>1 DEF Matching, Matched
<1>3. Agree(e, sub.statusBy)
  BY <1>2 DEF PlansAgree
<1>4. Promised'
  BY <1>1, <1>3 DEF Promised, Agree, SetsBoth
<1>5. PlansAgree'
  <2> SUFFICES ASSUME NEW t \in Slots, (OwesPlan(t) \/ request[t].pc = "create")'
               PROVE  Agree(request[t].event, sub.statusBy)'
    BY DEF PlansAgree
  <2>1. CASE t = s
    BY <1>1, <1>3, <2>1 DEF Agree, SetsBoth
  <2>2. CASE t # s
    <3>1. OwesPlan(t) \/ request[t].pc = "create"
      BY <2>2 DEF OwesPlan
    <3>2. Agree(request[t].event, sub.statusBy) /\ request'[t] = request[t]
      BY <1>2, <2>2, <3>1 DEF PlansAgree
    <3> QED
      BY <1>1, <3>2 DEF Agree, SetsBoth
  <2> QED
    BY <2>1, <2>2
<1>6. StatusAgrees'
  <2> SUFFICES ASSUME NEW t \in Slots, request'[t].pc = "newstatus"
               PROVE  Agree(sub.planBy, request[t].event)'
    BY DEF StatusAgrees
  <2>1. CASE t = s
    BY <2>1 DEF Agree
  <2>2. CASE t # s
    <3>1. request'[t] = request[t] /\ request[t] # Idle
      BY <2>2, OwingServes DEF Steps
    <3>2. Agree(e, request[t].event)
      BY <3>1, BothAgree DEF Matching
    <3> QED
      BY <1>1, <3>1, <3>2 DEF Agree, SetsBoth
  <2> QED
    BY <2>1, <2>2
<1> QED
  BY <1>4, <1>5, <1>6

LEMMA CreateMatches ==
    ASSUME Matching, HNext, NEW s \in Slots, Create(s)
    PROVE  Matched'
<1> DEFINE e == request[s].event
<1>0. request \in Requests /\ request[s].pc \in Steps /\ request[s].pc = "create"
      /\ request[s] # Idle /\ "newstatus" \in Steps
  BY OwingServes DEF Matching, Typed, TypeOK, Requests, Steps, Create
<1>1. /\ \A t \in Slots \ {s} : request'[t] = request[t]
      /\ request'[s].pc = "newstatus"
      /\ request'[s].event = e
  BY <1>0, GotoMoves DEF Create
<1>2. CASE sub = NoSub
  <2>1. sub'.planBy = e /\ sub'.statusBy = e
    BY <1>2 DEF Create, WithPlan
  <2> SUFFICES ASSUME Clean'
               PROVE  (Promised /\ PlansAgree /\ StatusAgrees)'
    BY DEF Matched
  <2>2. Clean /\ overlapped \subseteq overlapped'
    BY CleanBefore, NextOverlaps DEF Matching
  <2>3. ASSUME NEW t \in Slots, t # s, request[t] # Idle
        PROVE  Agree(request[t].event, e)' /\ Agree(e, request[t].event)'
    BY <1>0, <1>1, <2>2, <2>3, BothAgree, AgreeStays DEF Matching, Agree, SetsBoth
  <2>4. ASSUME NEW t \in Slots, (OwesPlan(t) \/ request[t].pc \in Steps)', t # s
        PROVE  request[t] # Idle
    BY <1>1, <2>4, OwingServes DEF OwesPlan
  <2>5. Promised'
    BY <2>1 DEF Promised, Agree
  <2>6. PlansAgree'
    BY <1>1, <2>1, <2>3, <2>4 DEF PlansAgree, OwesPlan, Steps
  <2>7. StatusAgrees'
    <3> SUFFICES ASSUME NEW t \in Slots, request'[t].pc = "newstatus"
                 PROVE  Agree(sub.planBy, request[t].event)'
      BY DEF StatusAgrees
    <3>1. CASE t = s
      BY <1>1, <2>1, <3>1 DEF Agree
    <3>2. CASE t # s
      BY <1>1, <2>1, <2>3, <2>4, <3>2 DEF Steps, Agree
    <3> QED
      BY <3>1, <3>2
  <2> QED
    BY <2>5, <2>6, <2>7
<1>3. CASE sub # NoSub
  <2>1. sub'.planBy = e /\ sub'.statusBy = sub.statusBy
    BY <1>3 DEF Create, WithPlan, Matching, Typed, TypeOK, Subscriptions
  <2>2. ~ OwesPlan(s)'
    BY <1>1 DEF OwesPlan
  <2> QED
    BY <1>0, <1>1, <1>3, <2>1, <2>2, PlanWritten
<1> QED
  BY <1>2, <1>3

LEMMA CommitMatches ==
    ASSUME Matching, HNext, NEW s \in Slots, Commit(s)
    PROVE  Matched'
<1>0. request \in Requests /\ request[s] # Idle
  BY OwingServes DEF Matching, Typed, TypeOK, Requests, Steps, Commit
<1>1. /\ \A t \in Slots \ {s} : request'[t] = request[t]
      /\ request'[s].pc = "idle"
  BY <1>0, LeaveMoves DEF Commit
<1>2. CASE ~ request[s].locks
  BY <1>2, LeaveMatches DEF Commit, OwesPlan
<1>3. CASE request[s].locks /\ sub # NoSub
  <2>1. sub'.planBy = request[s].event /\ sub'.statusBy = sub.statusBy
    BY <1>3 DEF Commit, WithPlan, Matching, Typed, TypeOK, Subscriptions
  <2>2. OwesPlan(s) /\ ~ OwesPlan(s)'
    BY <1>1, <1>3 DEF OwesPlan, Commit
  <2> QED
    BY <1>0, <1>1, <1>3, <2>1, <2>2, PlanWritten
<1>4. CASE request[s].locks /\ sub = NoSub
  <2> PICK e : e = request[s].event
    OBVIOUS
  <2>1. sub'.planBy = e /\ sub'.statusBy = e
    BY <1>4 DEF Commit, WithPlan
  <2> SUFFICES ASSUME Clean'
               PROVE  (Promised /\ PlansAgree /\ StatusAgrees)'
    BY DEF Matched
  <2>2. overlapped \subseteq overlapped'
    BY NextOverlaps
  <2>3. ASSUME NEW t \in Slots, (OwesPlan(t) \/ request[t].pc \in Steps)'
        PROVE  Agree(request[t].event, e)' /\ Agree(e, request[t].event)'
    <3>1. t # s /\ request'[t] = request[t] /\ request[t] # Idle
      BY <1>1, <2>3, OwingServes DEF OwesPlan, Steps
    <3>2. Agree(request[t].event, e) /\ Agree(e, request[t].event)
      BY <1>0, <3>1, BothAgree DEF Matching
    <3> QED
      BY <2>2, <3>1, <3>2 DEF Agree, SetsBoth
  <2>4. Promised'
    BY <2>1 DEF Promised, Agree
  <2>5. PlansAgree'
    BY <2>1, <2>3 DEF PlansAgree, Steps
  <2>6. StatusAgrees'
    BY <2>1, <2>3 DEF StatusAgrees, Steps
  <2> QED
    BY <2>4, <2>5, <2>6
<1> QED
  BY <1>2, <1>3, <1>4

(* A webhook that neither writes nor owes: it goes on or leaves.           *)
LEMMA GotoMatches ==
    ASSUME Matching, HNext, NEW s \in Slots, NEW label \in Steps, Goto(s, label),
           request[s].pc \in Steps, sub' = sub, ~ OwesPlan(s),
           label # "newstatus",
           (label \in {"plan", "create"} \/ (label = "commit" /\ request[s].locks)) => sub = NoSub
    PROVE  Matched'
<1>1. /\ \A t \in Slots \ {s} : request'[t] = request[t]
      /\ request'[s].pc = label
      /\ request'[s].locks = request[s].locks
  BY GotoMoves DEF Matching, Typed, TypeOK, Requests
<1> QED
  BY <1>1, RowStays DEF OwesPlan

LEMMA ProcessMatches ==
    ASSUME Matching, HNext, NEW s \in Slots, Process(s)
    PROVE  Matched'
<1>1. CASE Select(s)
  <2>1. request[s].pc \in Steps /\ ~ OwesPlan(s) /\ sub' = sub
    BY <1>1 DEF Select, Steps, OwesPlan
  <2> QED
    BY <1>1, <2>1, LeaveMatches, GotoMatches DEF Select, Steps
<1>2. CASE Insert(s)
  <2>1. request[s].pc \in Steps /\ ~ OwesPlan(s) /\ sub' = sub
    BY <1>2 DEF Insert, Steps, OwesPlan
  <2>2. CASE ResultOf(s).status = "none" /\ Goto(s, "commit")
    <3>1. Result[request[s].event] \in ProviderResults
      BY <2>1, AtStep DEF Matching, Typed, TypeOK, Requests
    <3>2. ResultOf(s).plan = "none"
      BY <2>2, <3>1 DEF ProviderResults, ResultOf, Statuses
    <3>3. ~ request[s].locks
      BY <2>1, <3>2 DEF Matching, Typed, PlanNamed, ResultOf
    <3> QED
      BY <2>1, <2>2, <3>3, GotoMatches DEF Steps
  <2>3. CASE Goto(s, "read")
    BY <2>1, <2>3, GotoMatches DEF Steps
  <2>4. CASE Leave(s)
    BY <2>1, <2>4, LeaveMatches
  <2> QED
    BY <1>2, <2>2, <2>3, <2>4 DEF Insert
<1>3. CASE Read(s)
  <2>1. request[s].pc \in Steps /\ ~ OwesPlan(s) /\ sub' = sub
    BY <1>3 DEF Read, Steps, OwesPlan
  <2>2. CASE Goto(s, "status")
    BY <2>1, <2>2, GotoMatches DEF Steps
  <2>3. CASE sub = NoSub /\ Goto(s, "create")
    BY <2>1, <2>3, GotoMatches DEF Steps
  <2>4. CASE Leave(s)
    BY <2>1, <2>4, LeaveMatches
  <2> QED
    BY <1>3, <2>2, <2>3, <2>4 DEF Read, WithoutSubscription
<1>4. CASE UpdateStatus(s)
  BY <1>4, WriteMatches DEF UpdateStatus, AfterStatus, Steps
<1>5. CASE UpdatePlan(s)
  BY <1>5, UpdatePlanMatches
<1>6. CASE Create(s)
  BY <1>6, CreateMatches
<1>7. CASE UpdateNewStatus(s)
  BY <1>7, WriteMatches DEF UpdateNewStatus, Steps
<1>8. CASE Commit(s)
  BY <1>8, CommitMatches
<1> QED
  BY <1>1, <1>2, <1>3, <1>4, <1>5, <1>6, <1>7, <1>8 DEF Process

LEMMA InterruptMatches ==
    ASSUME Matching, HNext, NEW s \in Slots, Interrupt(s)
    PROVE  Matched'
BY TroubleMatches
   DEF Matching, Interrupt, ReadFromMemory, StatusToMemory, CreateInMemory, Raise, Crash

(* A new webhook owes nothing.                                             *)
LEMMA DeliverMatches ==
    ASSUME Matching, HNext, NEW s \in Slots, NEW e \in Events, Deliver(s, e)
    PROVE  Matched'
<1> PICK r : r = [pc |-> "select", event |-> e, locks |-> FALSE]
  OBVIOUS
<1>1. /\ \A t \in Slots \ {s} : request'[t] = request[t]
      /\ request'[s] = r /\ r.pc = "select"
  BY DEF Deliver, Matching, Typed, TypeOK
<1>2. ~ OwesPlan(s) /\ ~ OwesPlan(s)' /\ sub' = sub
  BY <1>1 DEF Deliver, OwesPlan, Idle
<1> QED
  BY <1>1, <1>2, RowStays DEF OwesPlan

(* A plan that a member asked for is nobody's event.                       *)
LEMMA RequestMatches ==
    ASSUME Matching, HNext, NEW plan \in Plans, RequestPlan(plan)
    PROVE  Matched'
<1>1. sub'.planBy = "request" /\ "request" \notin Events
  BY ConstantsOK
     DEF RequestPlan, WithPlan, Matching, Typed, TypeOK, Subscriptions
<1>2. request' = request
  BY DEF RequestPlan
<1>3. sub # NoSub => sub'.statusBy = sub.statusBy
  BY DEF RequestPlan, WithPlan, Matching, Typed, TypeOK, Subscriptions
<1>4. sub = NoSub => sub'.statusBy = "request"
  BY DEF RequestPlan, WithPlan
<1> SUFFICES ASSUME Clean'
             PROVE  (Promised /\ PlansAgree /\ StatusAgrees)'
  BY DEF Matched
<1>5. Clean /\ overlapped \subseteq overlapped'
  BY CleanBefore, NextOverlaps DEF Matching
<1>6. sub # NoSub => PlansAgree
  BY <1>5 DEF Matching, Matched
<1>7. (Promised /\ StatusAgrees)'
  BY <1>1 DEF Promised, StatusAgrees, Agree, SetsBoth
<1>8. PlansAgree'
  <2>1. CASE sub = NoSub
    BY <1>1, <1>4, <2>1 DEF PlansAgree, Agree, SetsBoth
  <2>2. CASE sub # NoSub
    BY <1>2, <1>3, <1>5, <1>6, <2>2 DEF PlansAgree, OwesPlan, Agree, SetsBoth
  <2> QED
    BY <2>1, <2>2
<1> QED
  BY <1>7, <1>8

LEMMA QuietMatches ==
    ASSUME Matching, HNext, UNCHANGED <<sub, request>>
    PROVE  Matched'
<1> SUFFICES ASSUME Clean', sub # NoSub
             PROVE  (Promised /\ PlansAgree /\ StatusAgrees)'
  BY DEF Matched
<1>1. Clean /\ overlapped \subseteq overlapped'
  BY CleanBefore, NextOverlaps DEF Matching
<1>2. Promised /\ PlansAgree /\ StatusAgrees
  BY <1>1 DEF Matching, Matched
<1> QED
  BY <1>1, <1>2 DEF Promised, PlansAgree, StatusAgrees, OwesPlan, Agree, SetsBoth

LEMMA NextMatches == Matching /\ [HNext]_hvars => Matching'
<1>1. ASSUME Matching, HNext
      PROVE  Matched'
  <2>1. CASE \E s \in Slots, e \in Events : Deliver(s, e)
    BY <1>1, <2>1, DeliverMatches
  <2>2. CASE \E s \in Slots : Process(s) \/ Interrupt(s)
    BY <1>1, <2>2, ProcessMatches, InterruptMatches
  <2>3. CASE \E plan \in Plans : RequestPlan(plan)
    BY <1>1, <2>3, RequestMatches
  <2>4. CASE UNCHANGED <<sub, request>>
    BY <1>1, <2>4, QuietMatches
  <2> QED
    BY <1>1, <2>1, <2>2, <2>3, <2>4
       DEF HNext, Next, Quiet, vars, DeliverToMemory, RequestPlanInMemory
<1>2. ASSUME Matching, HNext
      PROVE  Typed' /\ Overlaps'
  BY <1>2, NextTyped, NextOverlaps DEF Matching, HNext
<1>3. ASSUME Matching, UNCHANGED hvars
      PROVE  Matching'
  <2>1. Typed'
    BY <1>3, NextTyped DEF Matching, hvars, vars
  <2>2. Overlaps'
    BY <1>3 DEF Matching, Overlaps, UnderWay, hvars, vars
  <2>3. Matched'
    BY <1>3 DEF Matching, Matched, Promised, PlansAgree, StatusAgrees, Clean, OwesPlan,
                Agree, SetsBoth, hvars, vars
  <2> QED
    BY <2>1, <2>2, <2>3 DEF Matching
<1> QED
  BY <1>1, <1>2, <1>3 DEF Matching

(* While nothing fails, plan and status of a subscription come from one    *)
(* event, or from two whose webhooks were under way at the same time.      *)
THEOREM NeverMixed == HSpec => []Unmixed
<1>1. HInit => Matching
  <2>1. Init => Overlaps
    BY DEF Init, Overlaps, UnderWay
  <2>2. Init => Matched
    BY DEF Init, Matched
  <2> QED
    BY <2>1, <2>2, InitTyped DEF HInit, Matching
<1>2. Matching => Unmixed
  <2> SUFFICES ASSUME Matching, sub # NoSub, Settled,
                      SetsBoth(sub.planBy), SetsBoth(sub.statusBy)
               PROVE  \/ sub.planBy = sub.statusBy
                      \/ <<sub.planBy, sub.statusBy>> \in overlapped
    BY DEF Unmixed
  <2>1. Promised
    BY DEF Matching, Matched, Settled, Clean
  <2>2. \A s \in Slots : ~ OwesPlan(s)
    BY DEF Settled, OwesPlan, Idle
  <2> QED
    BY <2>1, <2>2 DEF Promised, Agree
<1> QED
  BY <1>1, <1>2, NextMatches, PTL DEF HSpec
=============================================================================
