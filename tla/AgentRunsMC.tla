---------------------------- MODULE AgentRunsMC ----------------------------
(***************************************************************************)
(* AgentRuns for TLC, with a history variable that tells the action_ids    *)
(* clients used one request at a time from those they did not.             *)
(***************************************************************************)
EXTENDS AgentRuns

VARIABLE shared   \* action_ids that requests or users contended for

(* Every slot is a thread of a process of its own ... *)
OwnProcess == [s \in Slots |-> s]

(* ... or all slots are threads of one process. *)
OneProcess == [s \in Slots |-> CHOOSE w \in Workers : TRUE]

(* The request of slot s uses an action_id that another request uses too,  *)
(* or that another user has a run under.                                   *)
Contends(s) ==
    LET u == req[s].user
        a == req[s].id
    IN  \/ \E t \in Slots \ {s} : req[t] # Idle /\ req[t].id = a
        \/ OwnedBy(runs[a], u) # runs[a]
        \/ \E w \in Workers : OwnedBy(mem[w][a], u) # mem[w][a]
Contended == {req[s].id : s \in {t \in Slots : req[t] # Idle /\ Contends(t)}}

hvars == <<vars, shared>>
HInit == Init /\ shared = {}
HNext == Next /\ shared' = shared \cup Contended'
HSpec == HInit /\ [][HNext]_hvars
HFairSpec == HSpec /\ \A s \in Slots : WF_vars(Serve(s))

-----------------------------------------------------------------------------
(* Properties. *)

(* The completed run of an action_id used by one user and one request at a *)
(* time stays completed while the database answers.                        *)
CompletedIsFinal ==
    [][\A a \in ActionIds \ shared' :
          runs[a].status = "completed" /\ faults' = 0
          => runs'[a].status = "completed"]_hvars

(* The documented promise of an action_id, which the code keeps of those   *)
(* used one request at a time until something fails: an attempt is a       *)
(* request whose executor has been called and has not ended.               *)
Excused == IF faults + crashes > 0 THEN ActionIds ELSE shared
Attempting ==
    [a \in ActionIds |->
        a \notin Excused /\ \E s \in Slots : /\ req[s].pc = "run"
                                             /\ req[s].executor # NoExecutor
                                             /\ req[s].id = a]
Effected == [a \in ActionIds |-> IF a \in Excused THEN 0 ELSE Len(effects[a])]
Once == INSTANCE ActionOnce
            WITH attempt <- Attempting, count <- Effected, excused <- Excused
ImplementsActionOnce == Once!Spec

(* A run does not stay executing for ever ("no silent failures"): the row  *)
(* says how it ended, unless a round trip failed or a process died.        *)
ExecutingEnds ==
    \A a \in ActionIds :
        runs[a].status = "executing"
        ~> (runs[a].status # "executing" \/ faults > 0 \/ crashes > 0)

(* "action_id prevents duplicate execution": at most one effect each. *)
AtMostOnce == \A a \in ActionIds : Len(effects[a]) <= 1
=============================================================================
