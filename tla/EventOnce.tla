----------------------------- MODULE EventOnce -----------------------------
(***************************************************************************)
(* What services/billing_service.py promises of a webhook event            *)
(* ("Idempotent webhook processing (dedup by event_id)"): however often it *)
(* is delivered, one transaction at a time holds it and applies it once,   *)
(* and recorded it is never applied again.  Only a failure lets what was   *)
(* applied be applied once more, and only a bypass (an availability check  *)
(* that fails) acknowledges what is not recorded.                          *)
(***************************************************************************)
EXTENDS Naturals

CONSTANT Ids

VARIABLES
    stage,      \* what has become of each event
    applied,    \* how often it was applied
    answered,   \* events the provider was told are done
    failures, bypasses

life == <<stage, applied, answered, failures, bypasses>>

Held(e) == stage[e] \in {"open", "done"}
Become(e, to) == stage' = [stage EXCEPT ![e] = to]

Init ==
    /\ stage = [e \in Ids |-> "new"]
    /\ applied = [e \in Ids |-> 0]
    /\ answered = {}
    /\ failures = 0 /\ bypasses = 0

(* A transaction takes the event, which may have nothing to apply. *)
Begin(e) ==
    /\ stage[e] = "new"
    /\ \E to \in {"open", "done"} : Become(e, to)
    /\ UNCHANGED <<applied, answered, failures, bypasses>>

Apply(e) ==
    /\ stage[e] = "open"
    /\ Become(e, "done")
    /\ applied' = [applied EXCEPT ![e] = @ + 1]
    /\ UNCHANGED <<answered, failures, bypasses>>

Record(e) ==
    /\ stage[e] = "done"
    /\ Become(e, "recorded")
    /\ answered' = answered \cup {e}
    /\ UNCHANGED <<applied, failures, bypasses>>

AnswerDuplicate(e) ==
    /\ stage[e] = "recorded"
    /\ answered' = answered \cup {e}
    /\ UNCHANGED <<stage, applied, failures, bypasses>>

(* The event is rejected, before this transaction applied it. *)
Reject(e) ==
    /\ stage[e] = "open" \/ (stage[e] = "done" /\ applied[e] = 0)
    /\ Become(e, "new")
    /\ UNCHANGED <<applied, answered, failures, bypasses>>

Fail ==
    /\ failures' = failures + 1
    /\ \/ UNCHANGED stage
       \/ \E e \in Ids : Held(e) /\ Become(e, "new")
    /\ UNCHANGED <<applied, answered, bypasses>>

Bypass ==
    /\ bypasses' = bypasses + 1
    /\ \/ UNCHANGED <<stage, answered>>
       \/ \E e \in Ids : answered' = answered \cup {e} /\ UNCHANGED stage
       \/ \E e \in Ids, to \in {"new", "done"} :
             stage[e] = "open" /\ Become(e, to) /\ UNCHANGED answered
    /\ UNCHANGED <<applied, failures>>

Next ==
    \/ \E e \in Ids : Begin(e) \/ Apply(e) \/ Record(e) \/ AnswerDuplicate(e) \/ Reject(e)
    \/ Fail \/ Bypass

Spec == Init /\ [][Next]_life

(* An event is applied once at most, and once more for each failure; it is *)
(* recorded before it is answered, unless something was bypassed.          *)
Idempotent ==
    /\ \A e \in Ids : applied[e] <= failures + IF stage[e] \in {"done", "recorded"} THEN 1 ELSE 0
    /\ bypasses = 0 => \A e \in answered : stage[e] = "recorded"

(* A recorded event is never applied again. *)
RecordedIsFinal ==
    [][\A e \in Ids : stage[e] = "recorded" =>
          stage'[e] = "recorded" /\ applied'[e] = applied[e]]_life
=============================================================================
