---------------------------- MODULE LimitsProofs ---------------------------
(***************************************************************************)
(* The two daily limits, for any users, processes, threads, pools, limits  *)
(* and requests.  Quota: the quota holds, connections are lost to errors   *)
(* only, a refusal has a cause, and all of it implements one Ledger, whose *)
(* books balance.  Automations, at the end: how far overlapping requests   *)
(* pass the limit, and what the history of runs tells of them.             *)
(***************************************************************************)
EXTENDS Quota, Automations, FiniteSetTheorems, TLAPS

(* The threads of a process that have a connection. *)
BusySet(w) == {s \in Slots : WorkerOf[s] = w /\ request[s].pc \in {"probe", "upsert"}}
HasConnection(s) == request[s].pc \in {"probe", "upsert"}

(* A connection is free, in use, or lost to one of the faults. *)
Accounted ==
    \A w \in Workers :
        /\ free[w] + Busy(w) <= PoolSize
        /\ PoolSize <= free[w] + Busy(w) + faults

(* A process answers "no table" for the reasons that excuse a refusal. *)
Excused(w) == faults > 0 \/ PoolSize < Threads(w)
NoForCause == \A w \in Workers : cache[w] = "no" => Excused(w)

Inv == TypeOK /\ Accounted /\ NoForCause /\ QuotaHolds /\ RefusedForCause

-----------------------------------------------------------------------------
(* Counting connections in use. *)

LEMMA BusyIsNat ==
    ASSUME NEW w \in Workers
    PROVE  /\ IsFiniteSet(BusySet(w)) /\ Busy(w) = Cardinality(BusySet(w))
           /\ Busy(w) \in Nat /\ Threads(w) \in Nat
<1>1. BusySet(w) \subseteq Slots /\ {s \in Slots : WorkerOf[s] = w} \subseteq Slots
  BY DEF BusySet
<1>2. IsFiniteSet(BusySet(w)) /\ IsFiniteSet({s \in Slots : WorkerOf[s] = w})
  BY <1>1, FS_Subset, ConstantsOK
<1> QED
  BY <1>2, FS_CardinalityType DEF Busy, BusySet, Threads

(* A thread without a connection leaves room for one in a pool that has a  *)
(* connection for each thread.                                             *)
LEMMA RoomForOne ==
    ASSUME NEW s \in Slots, ~HasConnection(s)
    PROVE  Busy(WorkerOf[s]) < Threads(WorkerOf[s])
<1> DEFINE w == WorkerOf[s]
           T == {t \in Slots : WorkerOf[t] = w}
<1>1. w \in Workers /\ IsFiniteSet(T)
  BY ConstantsOK, FS_Subset
<1>2. BusySet(w) \subseteq T /\ BusySet(w) # T
  BY DEF BusySet, HasConnection
<1>3. Cardinality(BusySet(w)) < Cardinality(T)
  BY <1>1, <1>2, FS_Subset, FS_CardinalityType
<1> QED
  BY <1>1, <1>3, BusyIsNat DEF Threads

LEMMA BusyGrows ==
    ASSUME NEW s \in Slots, \A t \in Slots \ {s} : request'[t] = request[t],
           ~HasConnection(s), HasConnection(s)'
    PROVE  \A w \in Workers : Busy(w)' = IF w = WorkerOf[s] THEN Busy(w) + 1 ELSE Busy(w)
<1> SUFFICES ASSUME NEW w \in Workers
             PROVE  Busy(w)' = IF w = WorkerOf[s] THEN Busy(w) + 1 ELSE Busy(w)
  OBVIOUS
<1>1. CASE w = WorkerOf[s]
  <2>1. BusySet(w)' = BusySet(w) \cup {s} /\ s \notin BusySet(w)
    BY <1>1 DEF BusySet, HasConnection
  <2> QED
    BY <1>1, <2>1, BusyIsNat, FS_AddElement DEF Busy, BusySet
<1>2. CASE w # WorkerOf[s]
  <2>1. BusySet(w)' = BusySet(w)
    BY <1>2 DEF BusySet
  <2> QED
    BY <1>2, <2>1 DEF Busy, BusySet
<1> QED
  BY <1>1, <1>2

LEMMA BusyShrinks ==
    ASSUME NEW s \in Slots, \A t \in Slots \ {s} : request'[t] = request[t],
           HasConnection(s), ~HasConnection(s)'
    PROVE  \A w \in Workers :
              /\ Busy(w)' = IF w = WorkerOf[s] THEN Busy(w) - 1 ELSE Busy(w)
              /\ w = WorkerOf[s] => Busy(w) > 0
<1> SUFFICES ASSUME NEW w \in Workers
             PROVE  /\ Busy(w)' = IF w = WorkerOf[s] THEN Busy(w) - 1 ELSE Busy(w)
                    /\ w = WorkerOf[s] => Busy(w) > 0
  OBVIOUS
<1>1. CASE w = WorkerOf[s]
  <2>1. BusySet(w)' = BusySet(w) \ {s} /\ s \in BusySet(w)
    BY <1>1 DEF BusySet, HasConnection
  <2>2. Cardinality(BusySet(w)) # 0
    BY <2>1, BusyIsNat, FS_EmptySet
  <2>3. Cardinality(BusySet(w) \ {s}) = Cardinality(BusySet(w)) - 1
    BY <2>1, BusyIsNat, FS_RemoveElement
  <2>4. Busy(w)' = Cardinality(BusySet(w)')
    BY DEF Busy, BusySet
  <2> QED
    BY <1>1, <2>1, <2>2, <2>3, <2>4, BusyIsNat
<1>2. CASE w # WorkerOf[s]
  <2>1. BusySet(w)' = BusySet(w)
    BY <1>2 DEF BusySet
  <2> QED
    BY <1>2, <2>1 DEF Busy, BusySet
<1> QED
  BY <1>1, <1>2

LEMMA BusyStays ==
    ASSUME NEW s \in Slots, \A t \in Slots \ {s} : request'[t] = request[t],
           HasConnection(s) <=> HasConnection(s)'
    PROVE  \A w \in Workers : Busy(w)' = Busy(w)
<1> SUFFICES ASSUME NEW w \in Workers PROVE Busy(w)' = Busy(w)
  OBVIOUS
<1>1. BusySet(w)' = BusySet(w)
  BY DEF BusySet, HasConnection
<1> QED
  BY <1>1 DEF Busy, BusySet

-----------------------------------------------------------------------------
(* What a step of thread s does to its request. *)

LEMMA Serving ==
    ASSUME TypeOK, NEW s \in Slots, request[s].pc # "idle"
    PROVE  /\ request[s] \in Checks /\ request[s].user \in Users /\ request[s].day \in Days
           /\ WorkerOf[s] \in Workers
  BY ConstantsOK DEF TypeOK, Idle, Checks

LEMMA Going ==
    ASSUME TypeOK, NEW s \in Slots, request[s].pc # "idle",
           NEW label \in {"available", "probe", "connect", "upsert"}, Goto(s, label)
    PROVE  /\ request' \in [Slots -> Checks \cup {Idle}]
           /\ request'[s].pc = label
           /\ \A t \in Slots \ {s} : request'[t] = request[t]
<1>1. [request[s] EXCEPT !.pc = label] \in Checks
  BY Serving DEF Checks
<1> QED
  BY <1>1 DEF Goto, TypeOK

LEMMA Leaving ==
    ASSUME TypeOK, NEW s \in Slots, Leave(s)
    PROVE  /\ request' \in [Slots -> Checks \cup {Idle}]
           /\ request'[s].pc = "idle"
           /\ \A t \in Slots \ {s} : request'[t] = request[t]
  BY DEF Leave, TypeOK, Idle

(* A refusal is excused when the process is. *)
LEMMA Refusing ==
    ASSUME Inv, NEW s \in Slots, request[s].pc # "idle", Refuse(s),
           faults' >= faults, faults' \in Nat, Excused(WorkerOf[s])'
    PROVE  /\ RefusedForCause' /\ Leave(s)
           /\ refused' \subseteq Users \X Days \X Workers
<1>1. /\ request[s].user \in Users /\ request[s].day \in Days /\ WorkerOf[s] \in Workers
      /\ faults \in Nat /\ refused \subseteq Users \X Days \X Workers
  BY Serving, ConstantsOK DEF Inv, TypeOK
<1>2. refused' \subseteq refused \cup {<<request[s].user, request[s].day, WorkerOf[s]>>}
  BY DEF Refuse
<1>3. RefusedForCause'
  <2>1. ASSUME NEW r \in refused' PROVE faults' > 0 \/ PoolSize < Threads(r[3])
    <3>1. CASE r \in refused
      BY <1>1, <3>1 DEF Inv, RefusedForCause
    <3>2. CASE r = <<request[s].user, request[s].day, WorkerOf[s]>>
      BY <3>2 DEF Excused, Threads
    <3> QED
      BY <1>2, <2>1, <3>1, <3>2
  <2> QED
    BY <2>1 DEF RefusedForCause, Threads
<1> QED
  BY <1>1, <1>2, <1>3 DEF Refuse

(* getconn fails only where a refusal is excused. *)
LEMMA UnconnectedForCause ==
    ASSUME Inv, NEW s \in Slots, ~HasConnection(s), Unconnected(WorkerOf[s])
    PROVE  Excused(WorkerOf[s])' /\ faults' >= faults /\ faults' \in 0..MaxFaults
<1> DEFINE w == WorkerOf[s]
<1>1. /\ w \in Workers /\ faults \in 0..MaxFaults /\ PoolSize \in Nat /\ MaxFaults \in Nat
      /\ Busy(w) \in Nat /\ Threads(w) \in Nat /\ Busy(w) < Threads(w)
  BY ConstantsOK, BusyIsNat, RoomForOne DEF Inv, TypeOK
<1>2. Threads(w)' = Threads(w)
  BY DEF Threads
<1>3. CASE free[w] = 0 /\ UNCHANGED faults
  <2>1. PoolSize <= Busy(w) + faults
    BY <1>1, <1>3 DEF Inv, Accounted
  <2> QED
    BY <1>1, <1>2, <1>3, <2>1 DEF Excused
<1>4. CASE faults < MaxFaults /\ faults' = faults + 1
  BY <1>1, <1>4 DEF Excused
<1> QED
  BY <1>3, <1>4 DEF Unconnected

-----------------------------------------------------------------------------
(* The parts of the invariant that speak of connections, by what a step    *)
(* does with the connection of its thread.                                 *)

ConnectionsOK == free \in [Workers -> 0..PoolSize] /\ Accounted

LEMMA Taking ==
    ASSUME TypeOK, Accounted, NEW s \in Slots, Take(WorkerOf[s]), UNCHANGED faults,
           \A t \in Slots \ {s} : request'[t] = request[t],
           ~HasConnection(s), HasConnection(s)'
    PROVE  ConnectionsOK'
<1>1. /\ WorkerOf[s] \in Workers /\ PoolSize \in Nat /\ faults \in Nat
      /\ \A w \in Workers : Busy(w) \in Nat
  BY ConstantsOK, BusyIsNat DEF TypeOK
<1>2. \A w \in Workers : Busy(w)' = IF w = WorkerOf[s] THEN Busy(w) + 1 ELSE Busy(w)
  BY BusyGrows
<1>3. /\ free \in [Workers -> 0..PoolSize] /\ free[WorkerOf[s]] > 0
      /\ free' = [free EXCEPT ![WorkerOf[s]] = @ - 1]
  BY DEF Take, TypeOK
<1> QED
  BY <1>1, <1>2, <1>3 DEF ConnectionsOK, Accounted

LEMMA Giving ==
    ASSUME TypeOK, Accounted, NEW s \in Slots, GiveBack(WorkerOf[s]), UNCHANGED faults,
           \A t \in Slots \ {s} : request'[t] = request[t],
           HasConnection(s), ~HasConnection(s)'
    PROVE  ConnectionsOK'
<1>1. /\ WorkerOf[s] \in Workers /\ PoolSize \in Nat /\ faults \in Nat
      /\ \A w \in Workers : Busy(w) \in Nat
  BY ConstantsOK, BusyIsNat DEF TypeOK
<1>2. \A w \in Workers : /\ Busy(w)' = IF w = WorkerOf[s] THEN Busy(w) - 1 ELSE Busy(w)
                         /\ w = WorkerOf[s] => Busy(w) > 0
  BY BusyShrinks
<1>3. /\ free \in [Workers -> 0..PoolSize]
      /\ free' = [free EXCEPT ![WorkerOf[s]] = @ + 1]
  BY DEF GiveBack, TypeOK
<1> QED
  BY <1>1, <1>2, <1>3 DEF ConnectionsOK, Accounted

LEMMA Losing ==
    ASSUME TypeOK, Accounted, NEW s \in Slots, UNCHANGED free, faults' = faults + 1,
           \A t \in Slots \ {s} : request'[t] = request[t],
           HasConnection(s), ~HasConnection(s)'
    PROVE  ConnectionsOK'
<1>1. /\ WorkerOf[s] \in Workers /\ PoolSize \in Nat /\ faults \in Nat
      /\ \A w \in Workers : Busy(w) \in Nat
  BY ConstantsOK, BusyIsNat DEF TypeOK
<1>2. \A w \in Workers : /\ Busy(w)' = IF w = WorkerOf[s] THEN Busy(w) - 1 ELSE Busy(w)
                         /\ w = WorkerOf[s] => Busy(w) > 0
  BY BusyShrinks
<1> QED
  BY <1>1, <1>2 DEF ConnectionsOK, Accounted, TypeOK

LEMMA Waiting ==
    ASSUME TypeOK, Accounted, NEW s \in Slots, UNCHANGED free, faults' \in Nat, faults' >= faults,
           \A t \in Slots \ {s} : request'[t] = request[t],
           HasConnection(s) <=> HasConnection(s)'
    PROVE  ConnectionsOK'
<1>1. PoolSize \in Nat /\ faults \in Nat /\ \A w \in Workers : Busy(w) \in Nat
  BY ConstantsOK, BusyIsNat DEF TypeOK
<1>2. \A w \in Workers : Busy(w)' = Busy(w)
  BY BusyStays
<1> QED
  BY <1>1, <1>2 DEF ConnectionsOK, Accounted, TypeOK

(* The other parts survive a step that leaves their variables alone.       *)
LEMMA Patient ==
    ASSUME Inv, faults' \in 0..MaxFaults, faults' >= faults
    PROVE  /\ UNCHANGED cache => NoForCause' /\ (cache \in [Workers -> {"unknown", "yes", "no"}])'
           /\ UNCHANGED <<calls, allowed>> => QuotaHolds'
           /\ UNCHANGED refused => RefusedForCause' /\ (refused \subseteq Users \X Days \X Workers)'
<1>1. \A w \in Workers : Threads(w)' = Threads(w) /\ (Excused(w) => Excused(w)')
  BY DEF Threads, Excused, Inv, TypeOK
<1>2. faults \in Nat /\ \A r \in refused : faults > 0 => faults' > 0
  BY ConstantsOK DEF Inv, TypeOK
<1>3. \A r \in refused : Threads(r[3])' = Threads(r[3])
  BY DEF Threads
<1> QED
  BY <1>1, <1>2, <1>3 DEF Inv, NoForCause, QuotaHolds, RefusedForCause, TypeOK

(* A new answer in the cache of a process is excused if it is "no".        *)
LEMMA Caching ==
    ASSUME Inv, faults' \in 0..MaxFaults, faults' >= faults,
           NEW w \in Workers, NEW answer \in {"yes", "no"}, answer = "no" => Excused(w)',
           cache' = [cache EXCEPT ![w] = answer]
    PROVE  NoForCause' /\ (cache \in [Workers -> {"unknown", "yes", "no"}])'
<1>1. \A x \in Workers : Excused(x) => Excused(x)'
  BY ConstantsOK DEF Threads, Excused, Inv, TypeOK
<1>2. /\ cache' \in [Workers -> {"unknown", "yes", "no"}]
      /\ \A x \in Workers : cache'[x] = IF x = w THEN answer ELSE cache[x]
  BY DEF Inv, TypeOK
<1> QED
  BY <1>1, <1>2 DEF Inv, NoForCause

(* Counting one call more. *)
LEMMA Counting ==
    ASSUME NEW f \in [Users -> [Days -> Nat]], NEW u \in Users, NEW d \in Days,
           NEW g, g = [f EXCEPT ![u][d] = @ + 1]
    PROVE  /\ g \in [Users -> [Days -> Nat]]
           /\ \A v \in Users, e \in Days :
                 g[v][e] = IF v = u /\ e = d THEN f[v][e] + 1 ELSE f[v][e]
<1> DEFINE row == [f[u] EXCEPT ![d] = @ + 1]
<1>1. row \in [Days -> Nat] /\ \A e \in Days : row[e] = IF e = d THEN f[u][e] + 1 ELSE f[u][e]
  OBVIOUS
<1>2. g = [f EXCEPT ![u] = row]
  OBVIOUS
<1> HIDE DEF row
<1> QED
  BY <1>1, <1>2

-----------------------------------------------------------------------------

LEMMA InvInit == Init => Inv
<1> SUFFICES ASSUME Init PROVE Inv
  OBVIOUS
<1>1. \A w \in Workers : Busy(w) = 0
  <2> TAKE w \in Workers
  <2>1. BusySet(w) = {}
    BY DEF BusySet, Init, Idle
  <2> QED
    BY <2>1, BusyIsNat, FS_EmptySet
<1>2. TypeOK
  BY ConstantsOK DEF Init, TypeOK, Days
<1>3. Accounted
  BY <1>1, ConstantsOK DEF Init, Accounted
<1>4. NoForCause /\ QuotaHolds /\ RefusedForCause
  BY ConstantsOK DEF Init, NoForCause, QuotaHolds, RefusedForCause
<1> QED
  BY <1>2, <1>3, <1>4 DEF Inv

LEMMA InvStep == Inv /\ [Next]_vars => Inv'
<1> SUFFICES ASSUME Inv, [Next]_vars PROVE Inv'
  OBVIOUS
<1> USE DEF HasConnection
<1>0. /\ TypeOK /\ Accounted /\ faults \in 0..MaxFaults /\ MaxFaults \in Nat /\ faults \in Nat
  BY ConstantsOK DEF Inv, TypeOK
<1>1. ASSUME NEW s \in Slots, NEW u \in Users, Check(s, u) PROVE Inv'
  <2> DEFINE new == [pc |-> "available", user |-> u, day |-> day]
  <2>1. new \in Checks /\ request[s].pc = "idle"
    BY <1>0, <1>1 DEF Check, Checks, TypeOK, Idle
  <2>2. /\ request' \in [Slots -> Checks \cup {Idle}] /\ request'[s].pc = "available"
        /\ \A t \in Slots \ {s} : request'[t] = request[t]
    BY <1>0, <1>1, <2>1 DEF Check, TypeOK
  <2>3. ConnectionsOK'
    BY <1>0, <1>1, <2>1, <2>2, Waiting DEF Check
  <2>4. begun' \in 0..MaxCalls
    BY <1>0, <1>1, ConstantsOK DEF Check, TypeOK
  <2> QED
    BY <1>0, <1>1, <2>2, <2>3, <2>4, Patient DEF Check, Inv, TypeOK, ConnectionsOK
<1>2. ASSUME NEW s \in Slots, UseCache(s) PROVE Inv'
  <2>0. /\ request[s].pc = "available" /\ WorkerOf[s] \in Workers
        /\ UNCHANGED <<calls, allowed, cache, free, day, begun, faults>>
    BY <1>0, <1>2, ConstantsOK DEF UseCache
  <2>1. CASE Goto(s, "connect") /\ UNCHANGED refused
    <3>1. /\ request' \in [Slots -> Checks \cup {Idle}] /\ request'[s].pc = "connect"
          /\ \A t \in Slots \ {s} : request'[t] = request[t]
      BY <1>0, <2>0, <2>1, Going
    <3>2. ConnectionsOK'
      BY <1>0, <2>0, <3>1, Waiting
    <3> QED
      BY <1>0, <2>0, <2>1, <3>1, <3>2, Patient DEF Inv, TypeOK, ConnectionsOK
  <2>2. CASE cache[WorkerOf[s]] = "no" /\ Refuse(s)
    <3>1. Excused(WorkerOf[s])'
      BY <2>0, <2>2 DEF Inv, NoForCause, Excused, Threads
    <3>2. /\ RefusedForCause' /\ Leave(s) /\ refused' \subseteq Users \X Days \X Workers
      BY <1>0, <2>0, <2>2, <3>1, Refusing
    <3>3. /\ request' \in [Slots -> Checks \cup {Idle}] /\ request'[s].pc = "idle"
          /\ \A t \in Slots \ {s} : request'[t] = request[t]
      BY <1>0, <3>2, Leaving
    <3>4. ConnectionsOK'
      BY <1>0, <2>0, <3>3, Waiting
    <3> QED
      BY <1>0, <2>0, <3>2, <3>3, <3>4, Patient DEF Inv, TypeOK, ConnectionsOK
  <2> QED
    BY <1>2, <2>1, <2>2 DEF UseCache
<1>3. ASSUME NEW s \in Slots, Probe(s) \/ Connect(s) PROVE Inv'
  <2>1. PICK label \in {"probe", "upsert"} :
          /\ request[s].pc \in {"available", "connect"} /\ Goto(s, label) /\ Take(WorkerOf[s])
          /\ UNCHANGED <<calls, allowed, refused, cache, day, begun, faults>>
    BY <1>3 DEF Probe, Connect
  <2>2. /\ request' \in [Slots -> Checks \cup {Idle}] /\ request'[s].pc = label
        /\ \A t \in Slots \ {s} : request'[t] = request[t]
    BY <1>0, <2>1, Going
  <2>3. ConnectionsOK'
    BY <1>0, <2>1, <2>2, Taking
  <2> QED
    BY <1>0, <2>1, <2>2, <2>3, Patient DEF Inv, TypeOK, ConnectionsOK
<1>4. ASSUME NEW s \in Slots, ProbeUnconnected(s) PROVE Inv'
  <2>1. /\ request[s].pc = "available" /\ Unconnected(WorkerOf[s])
        /\ cache' = [cache EXCEPT ![WorkerOf[s]] = "no"]
        /\ UNCHANGED <<calls, allowed, refused, free, request, day, begun>>
    BY <1>4 DEF ProbeUnconnected
  <2>2. Excused(WorkerOf[s])' /\ faults' >= faults /\ faults' \in 0..MaxFaults
    BY <2>1, UnconnectedForCause
  <2>3. ConnectionsOK'
    BY <1>0, <2>1, <2>2, Waiting
  <2>4. NoForCause' /\ (cache \in [Workers -> {"unknown", "yes", "no"}])'
    BY <2>1, <2>2, Caching, ConstantsOK
  <2> QED
    BY <1>0, <2>1, <2>2, <2>3, <2>4, Patient DEF Inv, TypeOK, ConnectionsOK
<1>5. ASSUME NEW s \in Slots, ProbeReturns(s) PROVE Inv'
  <2>1. /\ request[s].pc = "probe" /\ GiveBack(WorkerOf[s]) /\ Goto(s, "available")
        /\ cache' = [cache EXCEPT ![WorkerOf[s]] = "yes"]
        /\ UNCHANGED <<calls, allowed, refused, day, begun, faults>>
    BY <1>5 DEF ProbeReturns
  <2>2. /\ request' \in [Slots -> Checks \cup {Idle}] /\ request'[s].pc = "available"
        /\ \A t \in Slots \ {s} : request'[t] = request[t]
    BY <1>0, <2>1, Going
  <2>3. ConnectionsOK'
    BY <1>0, <2>1, <2>2, Giving
  <2>4. NoForCause' /\ (cache \in [Workers -> {"unknown", "yes", "no"}])'
    <3>1. WorkerOf[s] \in Workers /\ faults' \in 0..MaxFaults /\ faults' >= faults /\ "yes" # "no"
      BY <1>0, <2>1, ConstantsOK
    <3> QED
      BY <2>1, <3>1, Caching
  <2> QED
    BY <1>0, <2>1, <2>2, <2>3, <2>4, Patient DEF Inv, TypeOK, ConnectionsOK
<1>6. ASSUME NEW s \in Slots, ProbeRaises(s) PROVE Inv'
  <2>1. /\ request[s].pc = "probe" /\ UNCHANGED free /\ Goto(s, "available")
        /\ cache' = [cache EXCEPT ![WorkerOf[s]] = "no"]
        /\ faults' = faults + 1 /\ faults' \in 0..MaxFaults
        /\ UNCHANGED <<calls, allowed, refused, day, begun>>
    BY <1>0, <1>6 DEF ProbeRaises, Keep
  <2>2. /\ request' \in [Slots -> Checks \cup {Idle}] /\ request'[s].pc = "available"
        /\ \A t \in Slots \ {s} : request'[t] = request[t]
    BY <1>0, <2>1, Going
  <2>3. ConnectionsOK'
    BY <1>0, <2>1, <2>2, Losing
  <2>4. NoForCause' /\ (cache \in [Workers -> {"unknown", "yes", "no"}])'
    <3>1. WorkerOf[s] \in Workers /\ faults' \in 0..MaxFaults /\ faults' >= faults
      BY <1>0, <2>1, ConstantsOK
    <3>2. Excused(WorkerOf[s])'
      BY <1>0, <2>1 DEF Excused
    <3> QED
      BY <2>1, <3>1, <3>2, Caching
  <2> QED
    BY <1>0, <2>1, <2>2, <2>3, <2>4, Patient DEF Inv, TypeOK, ConnectionsOK
<1>7. ASSUME NEW s \in Slots, ConnectRaises(s) PROVE Inv'
  <2>1. /\ request[s].pc = "connect" /\ Unconnected(WorkerOf[s]) /\ Refuse(s)
        /\ UNCHANGED <<calls, allowed, cache, free, day, begun>>
    BY <1>7 DEF ConnectRaises
  <2>2. Excused(WorkerOf[s])' /\ faults' >= faults /\ faults' \in 0..MaxFaults /\ faults' \in Nat
    BY <1>0, <2>1, UnconnectedForCause
  <2>3. /\ RefusedForCause' /\ Leave(s) /\ refused' \subseteq Users \X Days \X Workers
    BY <1>0, <2>1, <2>2, Refusing
  <2>4. /\ request' \in [Slots -> Checks \cup {Idle}] /\ request'[s].pc = "idle"
        /\ \A t \in Slots \ {s} : request'[t] = request[t]
    BY <1>0, <2>3, Leaving
  <2>5. ConnectionsOK'
    BY <1>0, <2>1, <2>2, <2>4, Waiting
  <2> QED
    BY <1>0, <2>1, <2>2, <2>3, <2>4, <2>5, Patient DEF Inv, TypeOK, ConnectionsOK
<1>8. ASSUME NEW s \in Slots, UpsertReturns(s) PROVE Inv'
  <2> DEFINE u == request[s].user
             d == request[s].day
  <2>1. /\ request[s].pc = "upsert" /\ GiveBack(WorkerOf[s]) /\ Leave(s)
        /\ calls' = [calls EXCEPT ![u][d] = @ + 1]
        /\ \/ WithinLimit(calls[u][d] + 1) /\ allowed' = [allowed EXCEPT ![u][d] = @ + 1]
           \/ allowed' = allowed
        /\ UNCHANGED <<refused, cache, day, begun, faults>>
    BY <1>8 DEF UpsertReturns, NewCount
  <2>2. /\ request' \in [Slots -> Checks \cup {Idle}] /\ request'[s].pc = "idle"
        /\ \A t \in Slots \ {s} : request'[t] = request[t]
    BY <1>0, <2>1, Leaving
  <2>3. ConnectionsOK'
    BY <1>0, <2>1, <2>2, Giving
  <2>4. u \in Users /\ d \in Days /\ Limit \in Nat
    BY <1>0, <2>1, Serving, ConstantsOK
  <2> HIDE DEF u, d
  <2>5. /\ calls' \in [Users -> [Days -> Nat]] /\ allowed' \in [Users -> [Days -> Nat]]
        /\ \A v \in Users, e \in Days :
              calls'[v][e] = IF v = u /\ e = d THEN calls[v][e] + 1 ELSE calls[v][e]
        /\ \A v \in Users, e \in Days :
              \/ allowed'[v][e] = allowed[v][e]
              \/ /\ v = u /\ e = d /\ WithinLimit(calls[v][e] + 1)
                 /\ allowed'[v][e] = allowed[v][e] + 1
    <3>1. calls \in [Users -> [Days -> Nat]] /\ allowed \in [Users -> [Days -> Nat]]
      BY <1>0 DEF TypeOK
    <3>2. /\ calls' \in [Users -> [Days -> Nat]]
          /\ \A v \in Users, e \in Days :
                calls'[v][e] = IF v = u /\ e = d THEN calls[v][e] + 1 ELSE calls[v][e]
      BY <2>1, <2>4, <3>1, Counting
    <3>3. CASE allowed' = allowed
      BY <3>1, <3>2, <3>3
    <3>4. CASE WithinLimit(calls[u][d] + 1) /\ allowed' = [allowed EXCEPT ![u][d] = @ + 1]
      <4>1. /\ allowed' \in [Users -> [Days -> Nat]]
            /\ \A v \in Users, e \in Days :
                  allowed'[v][e] = IF v = u /\ e = d THEN allowed[v][e] + 1 ELSE allowed[v][e]
        BY <2>4, <3>1, <3>4, Counting
      <4> QED
        BY <3>2, <3>4, <4>1
    <3> QED
      BY <2>1, <3>3, <3>4
  <2>6. QuotaHolds'
    BY <1>0, <2>4, <2>5 DEF Inv, QuotaHolds, WithinLimit, TypeOK
  <2> QED
    BY <1>0, <2>1, <2>2, <2>3, <2>5, <2>6, Patient DEF Inv, TypeOK, ConnectionsOK
<1>9. ASSUME NEW s \in Slots, UpsertRaises(s) PROVE Inv'
  <2>1. /\ request[s].pc = "upsert" /\ UNCHANGED free /\ Refuse(s)
        /\ faults' = faults + 1 /\ faults' \in 0..MaxFaults /\ faults' \in Nat
        /\ UNCHANGED <<allowed, cache, day, begun>>
    BY <1>0, <1>9 DEF UpsertRaises, Keep
  <2>2. Excused(WorkerOf[s])'
    BY <1>0, <2>1 DEF Excused
  <2>3. /\ RefusedForCause' /\ Leave(s) /\ refused' \subseteq Users \X Days \X Workers
    BY <1>0, <2>1, <2>2, Refusing
  <2>4. /\ request' \in [Slots -> Checks \cup {Idle}] /\ request'[s].pc = "idle"
        /\ \A t \in Slots \ {s} : request'[t] = request[t]
    BY <1>0, <2>3, Leaving
  <2>5. ConnectionsOK'
    BY <1>0, <2>1, <2>4, Losing
  <2>6. /\ calls' \in [Users -> [Days -> Nat]]
        /\ \A v \in Users, e \in Days : calls[v][e] <= calls'[v][e]
    <3>1. calls \in [Users -> [Days -> Nat]]
      BY <1>0 DEF TypeOK
    <3>2. CASE UNCHANGED calls
      BY <3>1, <3>2
    <3>3. CASE calls' = [calls EXCEPT ![request[s].user][request[s].day] = @ + 1]
      <4>1. request[s].user \in Users /\ request[s].day \in Days
        BY <1>0, <2>1, Serving
      <4>2. /\ calls' \in [Users -> [Days -> Nat]]
            /\ \A v \in Users, e \in Days :
                  calls'[v][e] = IF v = request[s].user /\ e = request[s].day
                                 THEN calls[v][e] + 1 ELSE calls[v][e]
        BY <3>1, <3>3, <4>1, Counting
      <4> QED
        BY <3>1, <4>2
    <3> QED
      BY <1>9, <3>2, <3>3 DEF UpsertRaises
  <2>7. QuotaHolds'
    BY <1>0, <2>1, <2>6, ConstantsOK DEF Inv, QuotaHolds, TypeOK
  <2> QED
    BY <1>0, <2>1, <2>3, <2>4, <2>5, <2>6, <2>7, Patient DEF Inv, TypeOK, ConnectionsOK
<1>10. CASE Midnight \/ UNCHANGED vars
  <2>1. /\ UNCHANGED <<calls, allowed, refused, cache, free, request, begun, faults>>
        /\ day' \in Days
    BY <1>0, <1>10, ConstantsOK DEF Midnight, vars, Days, TypeOK
  <2>2. \A w \in Workers : Busy(w)' = Busy(w)
    BY <2>1 DEF Busy
  <2>3. Accounted'
    BY <1>0, <2>1, <2>2 DEF Accounted
  <2> QED
    BY <1>0, <2>1, <2>3, Patient DEF Inv, TypeOK
<1> QED
  BY <1>1, <1>2, <1>3, <1>4, <1>5, <1>6, <1>7, <1>8, <1>9, <1>10 DEF Next, Answer, Quiet

LEMMA InvHolds == Spec => []Inv
  BY InvInit, InvStep, PTL DEF Spec

-----------------------------------------------------------------------------
(* Quota implements Ledger. *)

(* One call more, for a user and a day, is one more in that account.       *)
LEMMA AccountGrows ==
    ASSUME NEW f, NEW g, NEW u \in Users, NEW d \in Days,
           \A v \in Users, e \in Days :
               g[v][e] = IF v = u /\ e = d THEN f[v][e] + 1 ELSE f[v][e]
    PROVE  ByAccount(g) = Counter!Grow(ByAccount(f), <<u, d>>)
<1> DEFINE h == ByAccount(f)
           k == ByAccount(g)
<1>1. \A a \in Accounts : k[a] = IF a = <<u, d>> THEN h[a] + 1 ELSE h[a]
  <2> TAKE a \in Accounts
  <2> DEFINE v == a[1]
             e == a[2]
  <2>1. v \in Users /\ e \in Days /\ (a = <<u, d>> <=> v = u /\ e = d)
    BY DEF Accounts
  <2>2. k[a] = g[v][e] /\ h[a] = f[v][e]
    BY DEF ByAccount
  <2> HIDE DEF v, e
  <2> QED
    BY <2>1, <2>2
<1> QED
  BY <1>1 DEF Counter!Grow, ByAccount

LEMMA TakesUnit ==
    ASSUME TypeOK, NEW s \in Slots, UpsertReturns(s)
    PROVE  \E a \in Accounts : Counter!Take(a)
<1> DEFINE u == request[s].user
           d == request[s].day
<1>1. /\ request[s].pc = "upsert" /\ UNCHANGED faults
      /\ calls' = [calls EXCEPT ![u][d] = @ + 1]
      /\ allowed' = IF WithinLimit(calls[u][d] + 1)
                    THEN [allowed EXCEPT ![u][d] = @ + 1] ELSE allowed
  BY DEF UpsertReturns, NewCount
<1>2. u \in Users /\ d \in Days /\ <<u, d>> \in Accounts
  BY <1>1, Serving DEF Accounts
<1>3. calls \in [Users -> [Days -> Nat]] /\ allowed \in [Users -> [Days -> Nat]]
  BY DEF TypeOK
<1> HIDE DEF u, d
<1>4. ByAccount(calls)' = Counter!Grow(ByAccount(calls), <<u, d>>)
  <2>1. \A v \in Users, e \in Days :
            calls'[v][e] = IF v = u /\ e = d THEN calls[v][e] + 1 ELSE calls[v][e]
    BY <1>1, <1>2, <1>3, Counting
  <2> QED
    BY <1>2, <2>1, AccountGrows
<1>5. Counter!Left(<<u, d>>) <=> WithinLimit(calls[u][d] + 1)
  BY <1>2, <1>3, ConstantsOK DEF Counter!Left, WithinLimit, ByAccount
<1>6. CASE WithinLimit(calls[u][d] + 1)
  <2>1. ByAccount(allowed)' = Counter!Grow(ByAccount(allowed), <<u, d>>)
    <3>1. \A v \in Users, e \in Days :
              allowed'[v][e] = IF v = u /\ e = d THEN allowed[v][e] + 1 ELSE allowed[v][e]
      BY <1>1, <1>2, <1>3, <1>6, Counting
    <3> QED
      BY <1>2, <3>1, AccountGrows
  <2> QED
    BY <1>1, <1>2, <1>4, <1>5, <1>6, <2>1 DEF Counter!Take
<1>7. CASE ~WithinLimit(calls[u][d] + 1)
  <2>1. ByAccount(allowed)' = ByAccount(allowed)
    BY <1>1, <1>7
  <2> QED
    BY <1>1, <1>2, <1>4, <1>5, <1>7, <2>1 DEF Counter!Take
<1> QED
  BY <1>6, <1>7

LEMMA FailsOnce ==
    ASSUME TypeOK, NEW s \in Slots, UpsertRaises(s)
    PROVE  Counter!Fail
<1> DEFINE u == request[s].user
           d == request[s].day
<1>1. request[s].pc = "upsert" /\ faults' = faults + 1 /\ UNCHANGED allowed
  BY DEF UpsertRaises
<1>2. u \in Users /\ d \in Days /\ <<u, d>> \in Accounts
  BY <1>1, Serving DEF Accounts
<1>3. calls \in [Users -> [Days -> Nat]]
  BY DEF TypeOK
<1>4. CASE UNCHANGED calls
  BY <1>1, <1>4 DEF Counter!Fail
<1>5. CASE calls' = [calls EXCEPT ![u][d] = @ + 1]
  <2>1. ByAccount(calls)' = Counter!Grow(ByAccount(calls), <<u, d>>)
    <3>1. \A v \in Users, e \in Days :
              calls'[v][e] = IF v = u /\ e = d THEN calls[v][e] + 1 ELSE calls[v][e]
      BY <1>2, <1>3, <1>5, Counting
    <3> QED
      BY <1>2, <3>1, AccountGrows
  <2> QED
    BY <1>1, <1>2, <2>1 DEF Counter!Fail
<1> QED
  BY <1>4, <1>5 DEF UpsertRaises

LEMMA LedgerStep ==
    ASSUME TypeOK, [Next]_vars
    PROVE  Counter!Next \/ UNCHANGED <<calls, allowed, faults>>
<1>1. ASSUME NEW s \in Slots, Answer(s)
      PROVE  Counter!Next \/ UNCHANGED <<calls, allowed, faults>>
  <2>1. CASE UpsertReturns(s)
    BY <2>1, TakesUnit DEF Counter!Next
  <2>2. CASE UpsertRaises(s)
    BY <2>2, FailsOnce DEF Counter!Next
  <2>3. CASE ProbeUnconnected(s) \/ ProbeRaises(s) \/ ConnectRaises(s)
    <3>1. UNCHANGED <<calls, allowed>> /\ (faults' = faults \/ faults' = faults + 1)
      BY <2>3 DEF ProbeUnconnected, ProbeRaises, ConnectRaises, Unconnected
    <3> QED
      BY <3>1 DEF Counter!Next, Counter!Fail
  <2>4. CASE UseCache(s) \/ Probe(s) \/ ProbeReturns(s) \/ Connect(s)
    BY <2>4 DEF UseCache, Probe, ProbeReturns, Connect
  <2> QED
    BY <1>1, <2>1, <2>2, <2>3, <2>4 DEF Answer
<1>2. CASE \E s \in Slots, u \in Users : Check(s, u)
  BY <1>2 DEF Check
<1>3. CASE Midnight \/ UNCHANGED vars
  BY <1>3 DEF Midnight, vars
<1> QED
  BY <1>1, <1>2, <1>3 DEF Next, Quiet

(* However many processes and threads, pools that run dry, probes that are *)
(* cached and statements that raise are behind it, check_and_increment is  *)
(* one ledger: it counts a unit and grants it in one step, never refuses   *)
(* one that is left, and loses one only to a failure.                      *)
THEOREM QuotaIsLedger == Spec => ImplementsLedger
<1>1. Init => Counter!Init
  <2> SUFFICES ASSUME Init PROVE Counter!Init
    OBVIOUS
  <2>1. \A u \in Users, d \in Days : calls[u][d] = 0 /\ allowed[u][d] = 0
    BY DEF Init
  <2>2. \A a \in Accounts : a[1] \in Users /\ a[2] \in Days
    BY DEF Accounts
  <2>3. \A a \in Accounts : calls[a[1]][a[2]] = 0 /\ allowed[a[1]][a[2]] = 0
    BY <2>1, <2>2
  <2> QED
    BY <2>3 DEF Init, Counter!Init, ByAccount
<1>2. TypeOK /\ [Next]_vars => [Counter!Next]_<<ByAccount(calls), ByAccount(allowed), faults>>
  BY LedgerStep
<1>3. Inv => TypeOK
  BY DEF Inv
<1> QED
  BY <1>1, <1>2, <1>3, InvHolds, PTL DEF Spec, ImplementsLedger, Counter!Spec

-----------------------------------------------------------------------------
(* What a ledger is good for. *)

VARIABLES counted, granted, failed
CONSTANT Holders
Promise == INSTANCE Ledger WITH Accounts <- Holders

Kept ==
    /\ counted \in [Holders -> Nat] /\ granted \in [Holders -> Nat] /\ failed \in Nat
    /\ Promise!Balanced

(* In every behaviour of a ledger the units granted are the units counted  *)
(* up to the limit, but for one for each failure: the quota is neither     *)
(* exceeded nor kept from those who have it.                               *)
THEOREM LedgerBalances == Promise!Spec => []Promise!Balanced
<1> USE ConstantsOK DEF Promise!Grow, Promise!Left
<1>1. Promise!Init => Kept
  BY DEF Promise!Init, Kept, Promise!Balanced
<1>2. Kept /\ [Promise!Next]_<<counted, granted, failed>> => Kept'
  <2> SUFFICES ASSUME Kept, [Promise!Next]_<<counted, granted, failed>> PROVE Kept'
    OBVIOUS
  <2>1. ASSUME NEW a \in Holders, Promise!Take(a) PROVE Kept'
    BY <2>1 DEF Promise!Take, Kept, Promise!Balanced
  <2>2. CASE Promise!Fail
    BY <2>2 DEF Promise!Fail, Kept, Promise!Balanced
  <2>3. CASE UNCHANGED <<counted, granted, failed>>
    BY <2>3 DEF Kept, Promise!Balanced
  <2> QED
    BY <2>1, <2>2, <2>3 DEF Promise!Next
<1>3. Kept => Promise!Balanced
  BY DEF Kept
<1> QED
  BY <1>1, <1>2, <1>3, PTL DEF Promise!Spec

-----------------------------------------------------------------------------
(* Every variable of Quota has its type; no pool ever holds more           *)
(* connections than it was made with, whatever fails.                      *)
THEOREM TypeCorrect == Spec => []TypeOK
  BY InvHolds, PTL DEF Inv

(* The upsert of check_and_increment keeps every user within the quota,    *)
(* for any number of processes and threads, across midnight and failures.  *)
THEOREM QuotaIsKept == Spec => []QuotaHolds
  BY InvHolds, PTL DEF Inv

(* return_connection is missed on the error paths and on no other.         *)
THEOREM LossesAreFaults == Spec => []LossesBounded
<1>1. Inv => LossesBounded
  BY DEF Inv, Accounted, LossesBounded
<1> QED
  BY <1>1, InvHolds, PTL

(* A process refuses a call early only after an error or with a pool       *)
(* smaller than its threads, although getconn does not wait and the first  *)
(* answer of _is_db_available is kept for ever.                            *)
THEOREM RefusalsHaveCause == Spec => []RefusedForCause
  BY InvHolds, PTL DEF Inv

-----------------------------------------------------------------------------
(* The automations of a user, and the requests that run one. *)

(* The requests whose run is not in the history of the day yet. *)
InFlight == {s \in Callers : pc[s] \in {"begin", "run", "completed"}}

(* A request passes the limit when a run less than it has completed: the   *)
(* others may all be ahead of their outcome then.                          *)
Overlapping ==
    /\ today + Cardinality(InFlight) < MaxDaily + Cardinality(Callers)
    /\ MaxDaily = 0 => InFlight = {}

(* A completed run is counted or about to be, unless its update is lost. *)
Counted ==
    exists => /\ count + At("stats") <= rows["completed"]
              /\ raises = 0 /\ crashes = 0 => count + At("stats") = rows["completed"]

RunInv == AutomationTypeOK /\ Overlapping /\ Counted /\ OneOutcomeEach

-----------------------------------------------------------------------------
(* Counting requests by where they are. *)

Where(p, L) == {s \in Callers : p[s] \in L}
HowMany(p, L) == Cardinality(Where(p, L))
Moving(p, s, label) == [p EXCEPT ![s] = label]

LEMMA HowManyIsNat ==
    ASSUME NEW p, NEW L
    PROVE  /\ IsFiniteSet(Where(p, L)) /\ HowMany(p, L) \in Nat
           /\ Cardinality(Callers) \in Nat \ {0} /\ HowMany(p, L) <= Cardinality(Callers)
<1>1. Where(p, L) \subseteq Callers /\ IsFiniteSet(Callers) /\ Callers # {}
  BY AutomationConstants DEF Where
<1>2. IsFiniteSet(Where(p, L)) /\ Cardinality(Where(p, L)) <= Cardinality(Callers)
  BY <1>1, FS_Subset
<1> QED
  BY <1>1, <1>2, FS_CardinalityType, FS_EmptySet DEF HowMany

(* A request that goes from one place to another changes the counts of     *)
(* the sets that tell them apart.                                          *)
LEMMA Moved ==
    ASSUME NEW p \in [Callers -> Labels], NEW s \in Callers, NEW label, NEW L
    PROVE  LET q == Moving(p, s, label)
           IN  /\ (p[s] \in L <=> label \in L) => HowMany(q, L) = HowMany(p, L)
               /\ p[s] \notin L /\ label \in L => HowMany(q, L) = HowMany(p, L) + 1
               /\ p[s] \in L /\ label \notin L => HowMany(q, L) = HowMany(p, L) - 1
<1>0. PICK q : q = Moving(p, s, label)
  OBVIOUS
<1>1. (p[s] \in L <=> label \in L) => HowMany(q, L) = HowMany(p, L)
  <2>1. (p[s] \in L <=> label \in L) => Where(q, L) = Where(p, L)
    BY <1>0 DEF Where, Moving
  <2> QED
    BY <2>1 DEF HowMany
<1>2. ASSUME p[s] \notin L, label \in L PROVE HowMany(q, L) = HowMany(p, L) + 1
  <2>1. Where(q, L) = Where(p, L) \cup {s} /\ s \notin Where(p, L)
    BY <1>0, <1>2 DEF Where, Moving
  <2> QED
    BY <2>1, HowManyIsNat, FS_AddElement DEF HowMany
<1>3. ASSUME p[s] \in L, label \notin L PROVE HowMany(q, L) = HowMany(p, L) - 1
  <2>1. Where(q, L) = Where(p, L) \ {s} /\ s \in Where(p, L)
    BY <1>0, <1>3 DEF Where, Moving
  <2> QED
    BY <2>1, HowManyIsNat, FS_RemoveElement DEF HowMany
<1> QED
  BY <1>0, <1>1, <1>2, <1>3

(* The counts of the properties, and those a step changes. *)
Between == {"begin", "run", "completed"}
LEMMA CountsAreNat ==
    /\ \A label : At(label) \in Nat
           /\ Cardinality(InFlight) \in Nat
           /\ Cardinality(Callers) \in Nat \ {0} /\ Cardinality(InFlight) <= Cardinality(Callers)
<1>1. InFlight = Where(pc, Between) /\ \A label : {s \in Callers : pc[s] = label} = Where(pc, {label})
  BY DEF InFlight, Where, Between
<1>2. \A label : At(label) = HowMany(pc, {label})
  BY <1>1 DEF At, HowMany
<1> QED
  BY <1>1, <1>2, HowManyIsNat DEF HowMany

LEMMA AtMoves ==
    ASSUME AutomationTypeOK, NEW s \in Callers, NEW label, MoveTo(s, label), NEW other
    PROVE  /\ pc[s] # other /\ label # other => At(other)' = At(other)
           /\ pc[s] # other /\ label = other => At(other)' = At(other) + 1
           /\ pc[s] = other /\ label # other => At(other)' = At(other) - 1
           /\ pc[s] = other /\ label = other => At(other)' = At(other)
<1>1. PICK p \in [Callers -> Labels] : p = pc
  BY DEF AutomationTypeOK
<1>2. PICK q : q = Moving(p, s, label)
  OBVIOUS
<1>3. pc' = q
  BY <1>1, <1>2 DEF MoveTo, Moving
<1>4. At(other) = HowMany(p, {other}) /\ At(other)' = HowMany(q, {other})
  BY <1>1, <1>3 DEF At, HowMany, Where
<1>5. /\ (p[s] \in {other} <=> label \in {other}) => HowMany(q, {other}) = HowMany(p, {other})
      /\ p[s] \notin {other} /\ label \in {other} => HowMany(q, {other}) = HowMany(p, {other}) + 1
      /\ p[s] \in {other} /\ label \notin {other} => HowMany(q, {other}) = HowMany(p, {other}) - 1
  BY <1>2, Moved
<1> QED
  BY <1>1, <1>4, <1>5

LEMMA InFlightMoves ==
    ASSUME AutomationTypeOK, NEW s \in Callers, NEW label, MoveTo(s, label)
    PROVE  /\ (pc[s] \in Between <=> label \in Between)
              => Cardinality(InFlight)' = Cardinality(InFlight) /\ InFlight' = InFlight
           /\ pc[s] \notin Between /\ label \in Between
              => Cardinality(InFlight)' = Cardinality(InFlight) + 1
           /\ pc[s] \in Between /\ label \notin Between
              => /\ Cardinality(InFlight)' = Cardinality(InFlight) - 1
                 /\ InFlight' \subseteq InFlight
<1>1. PICK p \in [Callers -> Labels] : p = pc
  BY DEF AutomationTypeOK
<1>2. PICK q : q = Moving(p, s, label)
  OBVIOUS
<1>3. pc' = q
  BY <1>1, <1>2 DEF MoveTo, Moving
<1>4. InFlight = Where(p, Between) /\ InFlight' = Where(q, Between)
  BY <1>1, <1>3 DEF InFlight, Where, Between
<1>5. /\ pc[s] \notin Between /\ label \in Between
         => Cardinality(InFlight)' = Cardinality(InFlight) + 1
      /\ pc[s] \in Between /\ label \notin Between
         => Cardinality(InFlight)' = Cardinality(InFlight) - 1
  <2>1. /\ p[s] \notin Between /\ label \in Between => HowMany(q, Between) = HowMany(p, Between) + 1
        /\ p[s] \in Between /\ label \notin Between => HowMany(q, Between) = HowMany(p, Between) - 1
    BY <1>2, Moved
  <2> QED
    BY <1>1, <1>4, <2>1 DEF HowMany
<1>6. (pc[s] \in Between <=> label \in Between) => InFlight' = InFlight
  BY <1>1, <1>2, <1>4 DEF Where, Moving
<1>7. label \notin Between => InFlight' \subseteq InFlight
  BY <1>1, <1>2, <1>4 DEF Where, Moving
<1> QED
  BY <1>5, <1>6, <1>7

-----------------------------------------------------------------------------
(* The type invariant. *)

LEMMA RunTypeStep ==
    ASSUME AutomationTypeOK, [AutomationNext]_automationVars
    PROVE  AutomationTypeOK'
<1> USE AutomationConstants
    DEF AutomationTypeOK, Labels, MoveTo, AddRow, NoRows
<1>1. ASSUME NEW s \in Callers, Execute(s) \/ CountToday(s) \/ BeginRefused(s)
             \/ ExecutorReturns(s) \/ ExecutorRaises(s)
      PROVE  AutomationTypeOK'
  BY <1>1 DEF Execute, CountToday, BeginRefused, ExecutorReturns, ExecutorRaises
<1>2. ASSUME NEW s \in Callers, BeginRun(s) \/ RecordCompleted(s) \/ RecordFailed(s)
      PROVE  AutomationTypeOK'
  BY <1>2 DEF BeginRun, RecordCompleted, RecordFailed
<1>3. ASSUME NEW s \in Callers, UpdateStats(s)
      PROVE  AutomationTypeOK'
  BY <1>3 DEF UpdateStats, StatsNext
<1>4. ASSUME NEW s \in Callers, RecordRaises(s) \/ RequestRaises(s) \/ Crash(s)
      PROVE  AutomationTypeOK'
  BY <1>4 DEF RecordRaises, RequestRaises, Crash
<1>5. ASSUME NEW flag \in BOOLEAN, SetEnabled(flag)
      PROVE  AutomationTypeOK'
  BY <1>5 DEF SetEnabled
<1>6. CASE Delete
  BY <1>6 DEF Delete
<1>7. CASE DayEnds
  BY <1>7 DEF DayEnds
<1>8. CASE UNCHANGED automationVars
  BY <1>8 DEF automationVars
<1> QED
  BY <1>1, <1>2, <1>3, <1>4, <1>5, <1>6, <1>7, <1>8 DEF AutomationNext, NobodyCalls

-----------------------------------------------------------------------------
(* The invariant, action by action. *)

LEMMA RunInit == ASSUME AutomationInit PROVE RunInv
<1>1. AutomationTypeOK
  BY AutomationConstants DEF AutomationInit, AutomationTypeOK, Labels, NoRows
<1>2. InFlight = {} /\ \A label : label # "idle" => {s \in Callers : pc[s] = label} = {}
  BY DEF AutomationInit, InFlight
<1>3. Cardinality(InFlight) = 0 /\ At("stats") = 0 /\ At("run") = 0 /\ At("completed") = 0
      /\ At("failed") = 0
  BY <1>2, FS_EmptySet DEF At
<1> QED
  BY <1>1, <1>2, <1>3, CountsAreNat, AutomationConstants
    DEF AutomationInit, NoRows, RunInv, Overlapping, Counted, OneOutcomeEach

LEMMA RunQuietStep ==
    ASSUME RunInv, NEW s \in Callers,
           Execute(s) \/ BeginRefused(s) \/ ExecutorReturns(s) \/ ExecutorRaises(s)
    PROVE  Overlapping' /\ Counted' /\ OneOutcomeEach'
<1> USE CountsAreNat, AtMoves, InFlightMoves, AutomationConstants
    DEF RunInv, AutomationTypeOK, Between, Overlapping, Counted, OneOutcomeEach
<1>1. CASE Execute(s)
  BY <1>1 DEF Execute
<1>2. CASE BeginRefused(s)
  BY <1>2 DEF BeginRefused
<1>3. CASE ExecutorReturns(s)
  BY <1>3 DEF ExecutorReturns
<1>4. CASE ExecutorRaises(s)
  BY <1>4 DEF ExecutorRaises
<1> QED
  BY <1>1, <1>2, <1>3, <1>4

LEMMA RunCountStep ==
    ASSUME RunInv, NEW s \in Callers, CountToday(s)
    PROVE  Overlapping' /\ Counted' /\ OneOutcomeEach'
<1> USE CountsAreNat, AtMoves, InFlightMoves, AutomationConstants
    DEF RunInv, AutomationTypeOK, Between, Overlapping, Counted, OneOutcomeEach, CountToday
<1>1. CASE BelowDaily(today)
  <2>1. s \notin InFlight /\ InFlight \subseteq Callers
    BY DEF InFlight
  <2>2. Cardinality(InFlight) < Cardinality(Callers)
    BY <2>1, FS_Subset
  <2>3. MoveTo(s, "begin") /\ pc[s] = "count"
    BY <1>1
  <2>4. Cardinality(InFlight)' = Cardinality(InFlight) + 1
    BY <2>3
  <2>5. Overlapping'
    BY <1>1, <2>2, <2>4 DEF BelowDaily
  <2>6. \A label \in {"stats", "run", "completed", "failed"} : At(label)' = At(label)
    BY <2>3
  <2>7. Counted' /\ OneOutcomeEach'
    BY <2>6
  <2> QED
    BY <2>5, <2>7
<1>2. CASE ~BelowDaily(today)
  BY <1>2
<1> QED
  BY <1>1, <1>2

LEMMA RunRecordStep ==
    ASSUME RunInv, NEW s \in Callers,
           BeginRun(s) \/ RecordCompleted(s) \/ UpdateStats(s) \/ RecordFailed(s)
    PROVE  Overlapping' /\ Counted' /\ OneOutcomeEach'
<1> USE CountsAreNat, AtMoves, InFlightMoves, AutomationConstants
    DEF RunInv, AutomationTypeOK, Between, Overlapping, Counted, OneOutcomeEach, AddRow
<1>1. CASE BeginRun(s)
  BY <1>1 DEF BeginRun
<1>2. CASE RecordCompleted(s)
  BY <1>2 DEF RecordCompleted
<1>3. CASE UpdateStats(s)
  BY <1>3 DEF UpdateStats, StatsNext
<1>4. CASE RecordFailed(s)
  <2>1. MoveTo(s, "idle") /\ pc[s] = "failed"
    BY <1>4 DEF RecordFailed
  <2>2. /\ Cardinality(InFlight)' = Cardinality(InFlight) /\ InFlight' = InFlight
        /\ At("failed")' = At("failed") - 1
        /\ \A label \in {"stats", "run", "completed"} : At(label)' = At(label)
    BY <2>1
  <2>3. /\ rows' = [rows EXCEPT !["failed"] = @ + 1] /\ UNCHANGED <<exists, today, count, raises, crashes>>
    BY <1>4 DEF RecordFailed
  <2> HIDE AtMoves, InFlightMoves
  <2> QED
    BY <2>2, <2>3
<1> QED
  BY <1>1, <1>2, <1>3, <1>4

LEMMA RunTroubleStep ==
    ASSUME RunInv, NEW s \in Callers,
           RecordRaises(s) \/ RequestRaises(s) \/ Crash(s)
    PROVE  Overlapping' /\ Counted' /\ OneOutcomeEach'
<1> USE CountsAreNat, AtMoves, InFlightMoves, AutomationConstants
    DEF RunInv, AutomationTypeOK, Between, Overlapping, Counted, OneOutcomeEach
<1>1. CASE RecordRaises(s)
  BY <1>1 DEF RecordRaises
<1>2. CASE RequestRaises(s)
  BY <1>2 DEF RequestRaises
<1>3. CASE Crash(s)
  BY <1>3 DEF Crash, Labels
<1> QED
  BY <1>1, <1>2, <1>3

LEMMA RunOtherStep ==
    ASSUME RunInv,
           (\E flag \in BOOLEAN : SetEnabled(flag)) \/ Delete \/ DayEnds \/ UNCHANGED automationVars
    PROVE  Overlapping' /\ Counted' /\ OneOutcomeEach'
<1> USE CountsAreNat, AutomationConstants
    DEF RunInv, AutomationTypeOK, Overlapping, Counted, OneOutcomeEach, At, InFlight
<1>1. ASSUME NEW flag \in BOOLEAN, SetEnabled(flag) PROVE Overlapping' /\ Counted' /\ OneOutcomeEach'
  BY <1>1 DEF SetEnabled
<1>2. CASE Delete
  <2>1. InFlight' = InFlight /\ today' = 0 /\ exists' = FALSE
    BY <1>2 DEF Delete
  <2>2. Cardinality(InFlight)' = Cardinality(InFlight)
    BY <2>1
  <2>3. /\ today \in Nat /\ Cardinality(InFlight) \in Nat /\ Cardinality(Callers) \in Nat
        /\ today + Cardinality(InFlight) < MaxDaily + Cardinality(Callers)
        /\ MaxDaily = 0 => InFlight = {}
    OBVIOUS
  <2>4. Overlapping'
    <3> HIDE CountsAreNat DEF InFlight, RunInv, AutomationTypeOK, Counted, OneOutcomeEach
    <3> QED
      BY <2>1, <2>2, <2>3
  <2> QED
    BY <2>1, <2>4
<1>3. CASE DayEnds
  BY <1>3 DEF DayEnds
<1>4. CASE UNCHANGED automationVars
  BY <1>4 DEF automationVars
<1> QED
  BY <1>1, <1>2, <1>3, <1>4

LEMMA RunStep ==
    ASSUME RunInv, [AutomationNext]_automationVars
    PROVE  RunInv'
<1>1. AutomationTypeOK'
  BY RunTypeStep DEF RunInv
<1>2. Overlapping' /\ Counted' /\ OneOutcomeEach'
  BY RunQuietStep, RunCountStep, RunRecordStep, RunTroubleStep, RunOtherStep DEF AutomationNext, NobodyCalls
<1> QED
  BY <1>1, <1>2 DEF RunInv

LEMMA RunsAlways == AutomationSpec => []RunInv
<1>1. AutomationInit => RunInv
  BY RunInit
<1>2. RunInv /\ [AutomationNext]_automationVars => RunInv'
  BY RunStep
<1> QED
  BY <1>1, <1>2, PTL DEF AutomationSpec

(* Every variable of an automation has its type, in any behaviour of any   *)
(* number of requests.                                                     *)
THEOREM AutomationTyped == AutomationSpec => []AutomationTypeOK
<1>1. RunInv => AutomationTypeOK
  BY DEF RunInv
<1> QED
  BY <1>1, RunsAlways, PTL

(* The daily limit of an automation is passed by less than the number of   *)
(* requests that may overlap, whatever the limit: midnight, failures and   *)
(* crashes do not add to it.                                               *)
THEOREM AutomationOvershoots == AutomationSpec => []Overshoot
<1>1. RunInv => Overshoot
  BY CountsAreNat, AutomationConstants
    DEF RunInv, Overlapping, AutomationTypeOK, Overshoot
<1> QED
  BY <1>1, RunsAlways, PTL

(* execution_count is never ahead of the completed runs in the history,    *)
(* and behind them by the updates to come, or lost to faults and crashes.  *)
THEOREM HistoryCounts == AutomationSpec => []CountMatchesHistory
<1>1. RunInv => CountMatchesHistory
  BY CountsAreNat DEF RunInv, Counted, AutomationTypeOK, CountMatchesHistory
<1> QED
  BY <1>1, RunsAlways, PTL

(* Without faults and crashes, each run that began has one outcome in the  *)
(* history, or a request that is about to add it.                          *)
THEOREM OneOutcome == AutomationSpec => []OneOutcomeEach
<1>1. RunInv => OneOutcomeEach
  BY DEF RunInv
<1> QED
  BY <1>1, RunsAlways, PTL
=============================================================================
