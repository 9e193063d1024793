----------------------------- MODULE ActionOnce -----------------------------
(***************************************************************************)
(* What the docstring of services/agentic_execution.py promises of an      *)
(* action_id: its action is attempted by one request at a time, and once   *)
(* an attempt has taken effect there is no further attempt.  The           *)
(* environment may excuse an action from the promise.                      *)
(***************************************************************************)
EXTENDS Naturals

CONSTANT ActionIds

VARIABLES
    attempt,   \* whether an attempt to perform the action is under way
    count,     \* how often the action has taken effect
    excused    \* the actions of which nothing is promised any more

Init ==
    /\ attempt = [a \in ActionIds |-> FALSE]
    /\ count = [a \in ActionIds |-> 0]
    /\ excused = {}

Attempt(a) ==
    /\ ~attempt[a] /\ count[a] = 0
    /\ attempt' = [attempt EXCEPT ![a] = TRUE]
    /\ UNCHANGED <<count, excused>>

TakeEffect(a) ==
    /\ attempt[a] /\ count[a] = 0
    /\ attempt' = [attempt EXCEPT ![a] = FALSE]
    /\ count' = [count EXCEPT ![a] = 1]
    /\ UNCHANGED excused

GiveUp(a) ==
    /\ attempt[a]
    /\ attempt' = [attempt EXCEPT ![a] = FALSE]
    /\ UNCHANGED <<count, excused>>

Excuse(A) ==
    /\ excused' = excused \cup A
    /\ attempt' = [a \in ActionIds |-> a \notin A /\ attempt[a]]
    /\ count' = [a \in ActionIds |-> IF a \in A THEN 0 ELSE count[a]]

Next ==
    \/ \E a \in ActionIds \ excused : Attempt(a) \/ TakeEffect(a) \/ GiveUp(a)
    \/ \E A \in SUBSET ActionIds : Excuse(A)

Spec == Init /\ [][Next]_<<attempt, count, excused>>
=============================================================================
