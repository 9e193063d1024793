----------------------------- MODULE UserDataMC -----------------------------
(* UserData with history variables, which restrict nothing: the causes of   *)
(* leftovers, and what a request must have seen.                            *)
EXTENDS UserData

VARIABLES excused,   \* files whose request failed or died half-way
          raced,     \* users who asked to remember while their account was being deleted
          ender,     \* the process that deleted each account
          latest,    \* the last memory each user was told is set
          lasting    \* what was there all the time an export was under way

NoWorker == "none"

hvars == <<excused, raced, ender, latest, lasting>>

HInit ==
    /\ Init
    /\ excused = {} /\ raced = {}
    /\ ender = [u \in Users |-> NoWorker]
    /\ latest = [u \in Users |-> None]
    /\ lasting = [s \in Slots |-> {}]

\* Files a request has in hand, and those only a process knows.
InHand(s) ==
    CASE req[s].pc \in {"save", "check", "insert"} -> {req[s].id}
      [] req[s].pc = "unlink" -> {req[s].target}
      [] OTHER -> {}
KnownTo(w) ==
    {f.id : f \in kept[w]} \cup UNION {InHand(s) : s \in {t \in Slots : WorkerOf[t] = w}}

Died(w) == /\ crashes' # crashes /\ kept'[w] = {} /\ cached'[w] = "unknown"
           /\ req' = [s \in Slots |-> IF WorkerOf[s] = w THEN Free ELSE req[s]]
Answered(s) == req[s].pc # "idle" /\ req'[s] = Free /\ crashes' = crashes

\* Failed past its first look; an entry gone whose file was not removed; died.
HalfWay == UNION {InHand(s) : s \in {t \in Slots : Answered(t) /\ faults' # faults /\ ~At(t, "check")}}
Unlisted == {req[s].target : s \in {t \in Slots : Answered(t) /\ faults' # faults /\ kept' # kept}}
Lost == UNION {KnownTo(w) : w \in {v \in Workers : Died(v)}}
Excuse == excused' = excused \cup HalfWay \cup Unlisted \cup Lost

Race ==
    /\ raced' = raced \cup
           {u \in Users : \E s, t \in Slots : /\ At(s, "upsert") /\ req[s].user = u
                                              /\ At(t, "cascade") /\ req[t].user = u}
    /\ ender' = [u \in Users |->
           IF u \in users \ users'
           THEN WorkerOf[CHOOSE s \in Slots : At(s, "cascade") /\ Answered(s) /\ req[s].user = u]
           ELSE ender[u]]

Track ==
    latest' = [u \in Users |->
        IF \E s \in Slots : At(s, "upsert") /\ Answered(s) /\ req[s].user = u
        THEN (CHOOSE r \in {req[s] : s \in {t \in Slots : At(t, "upsert") /\ Answered(t)}} : TRUE).id
        ELSE IF \/ \E s \in Slots : At(s, "forget") /\ Answered(s) /\ req[s].user = u
                \/ \E s \in Slots : At(s, "clear") /\ ~At(s, "clear")' /\ req[s].user = u
             THEN None
             ELSE latest[u]]

Witness ==
    lasting' = [s \in Slots |->
        IF req'[s].pc \notin {"collect", "recall", "exported"} THEN {}
        ELSE IF req[s].pc \in {"collect", "recall"} /\ req'[s].pc # "collect"
             THEN lasting[s] \cap rows'
        ELSE IF req[s].pc = "exported" /\ req'[s].pc = "exported" THEN lasting[s]
        ELSE {r \in rows' : r.owner = req'[s].user /\ r.kind \in {"file", "memory"}
                            /\ (req[s].pc = "collect" => r \in lasting[s])}]

HNext == Next /\ Excuse /\ Race /\ Track /\ Witness
HSpec == HInit /\ [][HNext]_<<vars, hvars>>

-----------------------------------------------------------------------------
(* A file of a living user that no row and no dictionary knows, and no      *)
(* request has in hand, comes from a request that failed or died half-way:  *)
(* upload and removal, overlapping in every order, leave none.              *)
OrphansHaveCause ==
    \A f \in disk :
        f.owner \in users =>
            \/ \E r \in RowsNamed("file", f.id) : TRUE
            \/ \E w \in Workers : f \in kept[w]
            \/ \E s \in Slots : f.id \in InHand(s)
            \/ f.id \in excused

(* Nothing is remembered of a user who is gone: not by the process that     *)
(* deleted the account, by others only after a failure, except what was      *)
(* asked to be remembered while the account was being deleted.               *)
GoneIsForgotten ==
    \A w \in Workers, u \in Users \ users :
        store[w][u] # None => u \in raced \/ (faults > 0 /\ w # ender[u])

(* The memory a user was last told is set is in the table, or, after a      *)
(* failure, in a dictionary, unless a process died.                         *)
LatestIsSomewhere ==
    \A u \in users :
        latest[u] # None =>
            \/ \E r \in MemoryOf(u) : r.id = latest[u]
            \/ \E w \in Workers : faults > 0 /\ store[w][u] = latest[u]
            \/ crashes > 0

(* An export contains every file and memory its user had all the time it    *)
(* was under way, unless a statement failed, and nothing of anybody else.   *)
ExportIsComplete ==
    \A s \in Slots :
        At(s, "exported") =>
            /\ lasting[s] \subseteq req[s].seen \/ faults > 0
            /\ \A r \in req[s].seen : r.owner = req[s].user

Apart == CHOOSE f \in [Slots -> Workers] : \A s, t \in Slots : s # t => f[s] # f[t]
=============================================================================
