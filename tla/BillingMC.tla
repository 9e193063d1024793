----------------------------- MODULE BillingMC -----------------------------
(***************************************************************************)
(* Billing for TLC: what each event asks for, a history variable that      *)
(* records which events were processed at the same time, and the           *)
(* properties that need it or fairness.                                    *)
(***************************************************************************)
EXTENDS Billing

CONSTANT MaxTroubles   \* bound on failures, fallbacks and crashes together

VARIABLE overlapped   \* pairs of events that were processed at the same time

Upgrade   == [plan |-> "pro",  status |-> "active"]
Downgrade == [plan |-> "free", status |-> "past_due"]
Trial     == [plan |-> "pro",  status |-> "unlisted"]
Deleted   == [plan |-> "none", status |-> "canceled"]
Other     == [plan |-> "none", status |-> "none"]

ResultNamed ==
    [upgrade |-> Upgrade, downgrade |-> Downgrade, trial |-> Trial,
     deleted |-> Deleted, other |-> Other]

NamedResult == [e \in Events |-> ResultNamed[e]]

UnderWay == {request[s].event : s \in {t \in Slots : request[t] # Idle}}

hvars == <<vars, overlapped>>
HInit == Init /\ overlapped = {}
HNext ==
    /\ Next
    /\ faults' + fallbacks' + crashes' <= MaxTroubles
    /\ overlapped' = overlapped \cup {pair \in (UnderWay \X UnderWay)' : pair[1] # pair[2]}
HSpec == HInit /\ [][HNext]_hvars

(* An event that needs no subscription: it names a plan and a listed       *)
(* status, or sets nothing.                                                *)
NeedsNoSub(e) ==
    \/ Result[e].plan # "none" /\ Listed(Result[e].status)
    \/ Result[e].status = "none"

(* Requests keep running; the provider sends such an event until it is     *)
(* acknowledged, whatever other events it sends.                           *)
HFairSpec ==
    /\ HSpec
    /\ \A s \in Slots : WF_vars(Process(s))
    /\ \A e \in {f \in Events : NeedsNoSub(f)} : SF_vars(\E s \in Slots : Deliver(s, e))

-----------------------------------------------------------------------------
(* Properties. *)

(* No webhook is being processed, and nothing has failed so far. *)
Settled ==
    /\ \A s \in Slots : request[s] = Idle
    /\ faults = 0 /\ fallbacks = 0 /\ crashes = 0

(* Plan and status, when both come from events that set both, come from    *)
(* one event, or from two that were processed at the same time.            *)
SetsBoth(writer) == writer \in Events /\ Result[writer].plan # "none"
Unmixed ==
    sub # NoSub /\ Settled /\ SetsBoth(sub.planBy) /\ SetsBoth(sub.statusBy)
    => \/ sub.planBy = sub.statusBy
       \/ <<sub.planBy, sub.statusBy>> \in overlapped

(* The documented promise of an event_id: the transaction that inserted it *)
(* holds it, its own status update applies it.                             *)
Holding(s, e) == Open(s) /\ request[s].event = e
Stage(e) ==
    IF e \in events THEN "recorded"
    ELSE IF \E s \in Slots : Holding(s, e) /\ request[s].pc \in {"plan", "commit"} THEN "done"
    ELSE IF \E s \in Slots : Holding(s, e) THEN "open" ELSE "new"
Once == INSTANCE EventOnce WITH Ids <- Events,
                                stage <- [e \in Events |-> Stage(e)],
                                applied <- writes,
                                answered <- acked,
                                failures <- faults + crashes,
                                bypasses <- fallbacks
ImplementsEventOnce == Once!Spec

(* An event that needs no subscription is eventually recorded, through     *)
(* failures and redeliveries, unless a failed availability check sent one  *)
(* to memory.                                                              *)
EveryEventRecorded ==
    \A e \in {f \in Events : NeedsNoSub(f)} : <>(e \in events \/ fallbacks > 0)
=============================================================================
