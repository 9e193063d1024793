------------------------------ MODULE TasksMC ------------------------------
(***************************************************************************)
(* Tasks for TLC, with history variables: which changes met others of      *)
(* their row, and the rows each reminder list could have seen.             *)
(***************************************************************************)
EXTENDS Tasks

VARIABLES wanted,   \* for each row, the last committed request to name its title
          crossed,  \* changes that were under way while another one of their row was
          always,   \* for each thread, the rows there were throughout its request
          ever      \* ... and those there were at some moment of it

\* What clients ask for: one field alone, or several.
Untouched == [title |-> Keep, status |-> Keep, at |-> Keep, time |-> 0]
Retitle == [Untouched EXCEPT !.title = "set"]
Close == [Untouched EXCEPT !.status = "closed"]
Move == [Untouched EXCEPT !.at = "set", !.time = 1]
Clear == [Untouched EXCEPT !.at = "null"]
Undated == [Retitle EXCEPT !.at = "null"]
Plan == [Retitle EXCEPT !.at = "set", !.time = 1]
Redo == [Plan EXCEPT !.status = "unlisted", !.time = 0]
SomeChanges == {Retitle, Close, Move, Clear, Undated, Plan, Redo}

tracedVars == <<tasksVars, wanted, crossed, always, ever>>

ChangesUnderWay == {s \in Slots : req[s].pc \in {"select", "update"}}
Crossing == {req[s].n : s \in {t \in ChangesUnderWay : \E v \in ChangesUnderWay : v # t /\ req[v].id = req[t].id}}

Lists(s) == req[s].pc \in {"tasks", "appointments", "shown"}

\* The request, if any, that this step ends by writing its row.
Writer == {s \in Slots : At(s, "update") /\ req'[s] = Idle /\ rows' # rows}

TracedInit ==
    /\ TasksInit
    /\ wanted = [n \in Numbers |-> n] /\ crossed = {}
    /\ always = [s \in Slots |-> {}] /\ ever = [s \in Slots |-> {}]

TracedNext ==
    /\ TasksNext
    /\ wanted' = [n \in Numbers |->
                     IF \E s \in Writer : req[s].id = n /\ req[s].change.title = "set"
                     THEN req[CHOOSE s \in Writer : TRUE].n ELSE wanted[n]]
    /\ crossed' = crossed \cup Crossing'
    /\ always' = [s \in Slots |-> IF ~Lists(s)' THEN {}
                                  ELSE IF ~Lists(s) \/ req'[s].n # req[s].n THEN rows'
                                  ELSE IF At(s, "shown") THEN always[s] ELSE always[s] \cap rows']
    /\ ever' = [s \in Slots |-> IF ~Lists(s)' THEN {}
                                ELSE IF ~Lists(s) \/ req'[s].n # req[s].n THEN rows'
                                ELSE IF At(s, "shown") THEN ever[s] ELSE ever[s] \cup rows']

TracedSpec == TracedInit /\ [][TracedNext]_tracedVars

-----------------------------------------------------------------------------
(* Properties. *)

(* A title is the one that was asked for last, by a request that was       *)
(* carried out: a change that names other fields writes an old one back    *)
(* only when two changes of the row were under way at once.                *)
TitlesKept ==
    \A r \in rows : r.title = wanted[r.id] \/ wanted[r.id] \in crossed

(* A reminder list names nothing that was never due while it was made, and *)
(* misses nothing that was due all the while.                              *)
DueIn(S, r) == {q \in S : /\ q.owner = r.user /\ q.status = "open"
                          /\ q.at \in r.from..r.from + Window}
RemindersTrue ==
    \A s \in Slots :
        At(s, "shown") => /\ DueIn(always[s], req[s]) \subseteq req[s].seen
                          /\ req[s].seen \subseteq DueIn(ever[s], req[s])
=============================================================================
