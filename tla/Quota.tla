------------------------------- MODULE Quota -------------------------------
(***************************************************************************)
(* The daily AI quota of services/usage_service.py in production, over the *)
(* connection pool of db/pool.py, as the AI routes use it: each process    *)
(* has a pool and a cached answer to "is the table there?".                *)
(***************************************************************************)
EXTENDS Naturals, FiniteSets

CONSTANTS
    Users,
    Workers,      \* processes
    Slots,        \* request threads
    WorkerOf,     \* the process of each thread
    PoolSize,     \* DB_POOL_MAX
    Limit,        \* AI_DAILY_QUOTA_PER_USER; 0 means unlimited
    MaxDay,       \* bound: the last day
    MaxCalls,     \* bound: quota checks begun
    MaxFaults     \* bound: statements and connections that fail

Days == 0..MaxDay

ASSUME ConstantsOK ==
    /\ IsFiniteSet(Slots)
    /\ WorkerOf \in [Slots -> Workers]
    /\ PoolSize \in Nat /\ Limit \in Nat
    /\ MaxDay \in Nat /\ MaxCalls \in Nat /\ MaxFaults \in Nat

VARIABLES
    calls,      \* ai_usage_events.ai_calls, by user and day
    allowed,    \* calls the check let through, by user and day
    refused,    \* <<user, day, process>> of refusals before the quota was used up
    cache,      \* _db_available of each process
    free,       \* connections left in the pool of each process
    request,    \* the check each thread is making
    day, begun, faults

vars == <<calls, allowed, refused, cache, free, request, day, begun, faults>>

-----------------------------------------------------------------------------

Idle == [pc |-> "idle"]
Checks == [pc : {"available", "probe", "connect", "upsert"}, user : Users, day : Days]

Goto(s, label) == request' = [request EXCEPT ![s].pc = label]
Leave(s) == request' = [request EXCEPT ![s] = Idle]

(* getconn takes a connection of the process and does not wait for one;    *)
(* return_connection gives it back.                                        *)
Take(w) == free[w] > 0 /\ free' = [free EXCEPT ![w] = @ - 1]
Keep(w) == UNCHANGED free
GiveBack(w) == free' = [free EXCEPT ![w] = @ + 1]

BelowLimit(n) == Limit = 0 \/ n < Limit
WithinLimit(n) == Limit = 0 \/ n <= Limit
UsedUp(u, d) == Limit > 0 /\ calls[u][d] >= Limit

(* The check answers (False, 0). *)
Refuse(s) ==
    LET u == request[s].user
        d == request[s].day
    IN  /\ refused' = refused \cup (IF UsedUp(u, d) THEN {} ELSE {<<u, d, WorkerOf[s]>>})
        /\ Leave(s)

-----------------------------------------------------------------------------

(* check_and_increment computes the date before anything else. *)
Check(s, u) ==
    /\ request[s] = Idle
    /\ begun < MaxCalls
    /\ begun' = begun + 1
    /\ request' = [request EXCEPT ![s] = [pc |-> "available", user |-> u, day |-> day]]
    /\ UNCHANGED <<calls, allowed, refused, cache, free, day, faults>>

(* _is_db_available: the first answer of the process is kept for ever. *)
UseCache(s) ==
    /\ request[s].pc = "available"
    /\ \/ cache[WorkerOf[s]] = "yes" /\ Goto(s, "connect") /\ UNCHANGED refused
       \/ cache[WorkerOf[s]] = "no"  /\ Refuse(s)
    /\ UNCHANGED <<calls, allowed, cache, free, day, begun, faults>>

Probe(s) ==
    /\ request[s].pc = "available"
    /\ cache[WorkerOf[s]] = "unknown"
    /\ Take(WorkerOf[s])
    /\ Goto(s, "probe")
    /\ UNCHANGED <<calls, allowed, refused, cache, day, begun, faults>>

(* getconn raises: the pool is empty, or the database cannot be reached. *)
Unconnected(w) ==
    \/ free[w] = 0 /\ UNCHANGED faults
    \/ faults < MaxFaults /\ faults' = faults + 1

(* An exception means that the table is not there. *)
ProbeUnconnected(s) ==
    /\ request[s].pc = "available"
    /\ cache[WorkerOf[s]] = "unknown"
    /\ Unconnected(WorkerOf[s])
    /\ cache' = [cache EXCEPT ![WorkerOf[s]] = "no"]
    /\ UNCHANGED <<calls, allowed, refused, free, request, day, begun>>

ProbeReturns(s) ==
    /\ request[s].pc = "probe"
    /\ cache' = [cache EXCEPT ![WorkerOf[s]] = "yes"]
    /\ GiveBack(WorkerOf[s])
    /\ Goto(s, "available")
    /\ UNCHANGED <<calls, allowed, refused, day, begun, faults>>

(* The query raises: the answer is no, and the handler of the exception    *)
(* does not give the connection back.                                      *)
ProbeRaises(s) ==
    /\ request[s].pc = "probe"
    /\ faults < MaxFaults
    /\ faults' = faults + 1
    /\ cache' = [cache EXCEPT ![WorkerOf[s]] = "no"]
    /\ Keep(WorkerOf[s])
    /\ Goto(s, "available")
    /\ UNCHANGED <<calls, allowed, refused, day, begun>>

Connect(s) ==
    /\ request[s].pc = "connect"
    /\ Take(WorkerOf[s])
    /\ Goto(s, "upsert")
    /\ UNCHANGED <<calls, allowed, refused, cache, day, begun, faults>>

ConnectRaises(s) ==
    /\ request[s].pc = "connect"
    /\ Unconnected(WorkerOf[s])
    /\ Refuse(s)
    /\ UNCHANGED <<calls, allowed, cache, free, day, begun>>

(* The upsert counts the call, allowed or not, and returns the new count.  *)
CountedAfterwards(u, d) == calls[u][d]
NewCount(u, d) == calls[u][d] + 1
UpsertReturns(s) ==
    LET u == request[s].user
        d == request[s].day
        n == NewCount(u, d)
    IN  /\ request[s].pc = "upsert"
        /\ calls' = [calls EXCEPT ![u][d] = @ + 1]
        /\ allowed' = IF WithinLimit(n) THEN [allowed EXCEPT ![u][d] = @ + 1] ELSE allowed
        /\ GiveBack(WorkerOf[s])
        /\ Leave(s)
        /\ UNCHANGED <<refused, cache, day, begun, faults>>

(* The upsert or its commit raises, which may have landed by then: refused, *)
(* and again the connection is not given back.                             *)
UpsertRaises(s) ==
    LET u == request[s].user
        d == request[s].day
    IN  /\ request[s].pc = "upsert"
        /\ faults < MaxFaults
        /\ faults' = faults + 1
        /\ \/ UNCHANGED calls
           \/ calls' = [calls EXCEPT ![u][d] = @ + 1]
        /\ Refuse(s)
        /\ Keep(WorkerOf[s])
        /\ UNCHANGED <<allowed, cache, day, begun>>

Midnight ==
    /\ day < MaxDay
    /\ day' = day + 1
    /\ UNCHANGED <<calls, allowed, refused, cache, free, request, begun, faults>>

Init ==
    /\ calls = [u \in Users |-> [d \in Days |-> 0]]
    /\ allowed = [u \in Users |-> [d \in Days |-> 0]]
    /\ refused = {}
    /\ cache = [w \in Workers |-> "unknown"]
    /\ free = [w \in Workers |-> PoolSize]
    /\ request = [s \in Slots |-> Idle]
    /\ day = 0 /\ begun = 0 /\ faults = 0

(* The bound on checks is reached and none is under way. *)
Quiet == begun = MaxCalls /\ (\A s \in Slots : request[s] = Idle) /\ UNCHANGED vars

Answer(s) ==
    \/ UseCache(s) \/ Probe(s) \/ ProbeUnconnected(s) \/ ProbeReturns(s) \/ ProbeRaises(s)
    \/ Connect(s) \/ ConnectRaises(s) \/ UpsertReturns(s) \/ UpsertRaises(s)

Next ==
    \/ \E s \in Slots : Answer(s) \/ \E u \in Users : Check(s, u)
    \/ Midnight
    \/ Quiet

Spec == Init /\ [][Next]_vars

-----------------------------------------------------------------------------
(* Properties. *)

(* Every variable has its type. *)
TypeOK ==
    /\ calls \in [Users -> [Days -> Nat]]
    /\ allowed \in [Users -> [Days -> Nat]]
    /\ refused \subseteq Users \X Days \X Workers
    /\ cache \in [Workers -> {"unknown", "yes", "no"}]
    /\ free \in [Workers -> 0..PoolSize]
    /\ request \in [Slots -> Checks \cup {Idle}]
    /\ day \in Days
    /\ begun \in 0..MaxCalls
    /\ faults \in 0..MaxFaults

(* No interleaving of processes lets a user make more AI calls in a day    *)
(* than the quota, and no allowed call goes uncounted.                     *)
QuotaHolds ==
    \A u \in Users, d \in Days :
        /\ allowed[u][d] <= calls[u][d]
        /\ Limit > 0 => allowed[u][d] <= Limit

(* The pools, caches and threads of all processes together are one ledger: *)
(* a check that answers takes its unit in one step, and none is refused a  *)
(* unit that is left.                                                      *)
Accounts == Users \X Days
ByAccount(f) == [a \in Accounts |-> f[a[1]][a[2]]]
Counter == INSTANCE Ledger WITH counted <- ByAccount(calls), granted <- ByAccount(allowed),
                                failed <- faults
ImplementsLedger == Counter!Spec

(* Whoever is refused without having used the quota up owes it to a        *)
(* statement that raised, or to a process with more threads than           *)
(* connections: checks that overlap never cause a refusal elsewhere.       *)
Threads(w) == Cardinality({s \in Slots : WorkerOf[s] = w})
RefusedForCause ==
    \A r \in refused : faults > 0 \/ PoolSize < Threads(r[3])

(* Connections are lost to statements that raised, and to nothing else.    *)
Busy(w) == Cardinality({s \in Slots : WorkerOf[s] = w /\ request[s].pc \in {"probe", "upsert"}})
LossesBounded == \A w \in Workers : free[w] + Busy(w) + faults >= PoolSize

(* "Callers MUST return it": while no request is served, the pool is full. *)
ConnectionsReturned ==
    (\A s \in Slots : request[s] = Idle) => \A w \in Workers : free[w] = PoolSize
=============================================================================
