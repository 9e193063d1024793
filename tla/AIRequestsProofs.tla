-------------------------- MODULE AIRequestsProofs --------------------------
(***************************************************************************)
(* AIRequests, for any users, threads, processes, quota and retries: every *)
(* call to the provider is paid for by a unit of the quota, recordings are *)
(* removed, answers tell what became of the task, and the units taken are  *)
(* those of one Ledger.                                                    *)
(***************************************************************************)
EXTENDS AIRequests, FiniteSetTheorems, TLAPS

(* The calls a request may have made before the completion under way. *)
Before(op, again) == IF op = "voicetask" THEN 1 ELSE IF again THEN MaxAttempts ELSE 0

(* What the place of a request in its handler says about its entry. *)
Budget(r, e) ==
    /\ r.pc \in {"gate", "count"} => e.calls = 0 /\ ~e.counted /\ ~e.fault
    /\ r.pc \in {"audio", "record", "whisper"} => e.calls = 0
    /\ r.pc = "remove" => e.calls = 1
    /\ r.pc \in {"audio", "record", "whisper", "remove"} => e.counted /\ e.op \in Voice
    /\ r.pc = "call" => /\ e.counted /\ e.op \in Ops \ {"transcribe", "confirm"}
                        /\ r.again => e.op = "smart"
                        /\ e.calls <= Before(e.op, r.again) + r.tries
    /\ r.pc \notin {"call", "insert"} => r.tries = 0 /\ ~r.again
    /\ r.pc \in {"gate", "count"} => e.op # "confirm"

WithinBudget == \A s \in Slots : req[s] # Idle => req[s].n <= asked /\ Budget(req[s], Entry(s))

(* No two threads serve one request. *)
Apart == \A s, t \in Slots : s # t /\ req[s] # Idle /\ req[t] # Idle => req[s].n # req[t].n

Bounded(e) == (e.calls > 0 => e.counted) /\ e.calls <= CallsPerUnit[e.op]
AllBounded == \A n \in 1..asked : Bounded(log[n])

(* No more requests took a unit than were counted. *)
UnitsCounted == \A u \in Users : Cardinality(Units(u)) <= used[u] /\ Cardinality(Units(u)) <= Limit

Inv == TypeOK /\ WithinBudget /\ Apart /\ AllBounded /\ UnitsCounted

-----------------------------------------------------------------------------

LEMMA InitInv == Init => Inv
<1> SUFFICES ASSUME Init PROVE Inv
  OBVIOUS
<1>1. asked = 0 /\ 1..asked = {}
  BY DEF Init
<1>2. TypeOK
  BY <1>1, AIRequestsConstants DEF Init, TypeOK
<1>3. WithinBudget /\ Apart /\ AllBounded
  BY <1>1 DEF Init, WithinBudget, Apart, AllBounded
<1>4. \A u \in Users : Units(u) = {}
  BY <1>1 DEF Units
<1>5. \A u \in Users : Cardinality(Units(u)) = 0
  BY <1>4, FS_EmptySet
<1>6. UnitsCounted
  BY <1>5, AIRequestsConstants DEF UnitsCounted, Init
<1> QED
  BY <1>2, <1>3, <1>6 DEF Inv

(* A request in hand is a typed one, and its entry is there. *)
LEMMA InHand ==
    ASSUME Inv, NEW s \in Slots, req[s] # Idle
    PROVE  req[s] \in Requests /\ req[s].n \in 1..asked /\ Entry(s) \in Entries
<1>1. req[s] \in Requests
  BY DEF Inv, TypeOK
<1>2. req[s].n \in 1..asked
  BY <1>1 DEF Inv, WithinBudget, TypeOK, Requests, Numbers
<1> QED
  BY <1>1, <1>2 DEF Inv, TypeOK, Entry

(* A step of a thread that touches only its request and its entry keeps    *)
(* the invariant if the new request and the new entry agree.               *)
LEMMA OwnStep ==
    ASSUME Inv, NEW s \in Slots, req[s] # Idle,
           NEW r \in Requests \cup {Idle}, NEW e \in Entries,
           req' = [req EXCEPT ![s] = r],
           log' = [log EXCEPT ![req[s].n] = e],
           r # Idle => r.n = req[s].n /\ Budget(r, e),
           Bounded(e),
           e.user = Entry(s).user, e.counted = Entry(s).counted,
           files' \subseteq Numbers, tasks' \subseteq Numbers,
           used' \in [Users -> Nat], \A u \in Users : used[u] <= used'[u],
           UNCHANGED <<asked, crashes>>
    PROVE  Inv'
<1> DEFINE n == req[s].n
<1>1. n \in 1..asked /\ Entry(s) \in Entries /\ asked' = asked
  BY InHand
<1>2. log' \in [1..asked -> Entries] /\ log'[n] = e /\ \A m \in 1..asked : m # n => log'[m] = log[m]
  BY <1>1 DEF Inv, TypeOK
<1>3. req' \in [Slots -> Requests \cup {Idle}] /\ req'[s] = r /\ \A t \in Slots : t # s => req'[t] = req[t]
  BY DEF Inv, TypeOK
<1>4. TypeOK'
  BY <1>1, <1>2, <1>3 DEF Inv, TypeOK
<1>5. WithinBudget'
  <2> SUFFICES ASSUME NEW t \in Slots, req'[t] # Idle
               PROVE  req'[t].n <= asked' /\ Budget(req'[t], log'[req'[t].n])
    BY DEF WithinBudget, Entry, Budget, Before
  <2>1. CASE t = s
    BY <2>1, <1>1, <1>2, <1>3
  <2>2. CASE t # s
    <3>1. req[t] # Idle /\ req[t].n # n /\ req[t].n \in 1..asked
      BY <2>2, <1>3, InHand DEF Inv, Apart
    <3> QED
      BY <3>1, <2>2, <1>1, <1>2, <1>3 DEF Inv, WithinBudget, Entry
  <2> QED
    BY <2>1, <2>2
<1>6. Apart'
  BY <1>3 DEF Inv, Apart
<1>7. AllBounded'
  BY <1>1, <1>2 DEF Inv, AllBounded, Bounded
<1>8. UnitsCounted'
  <2> SUFFICES ASSUME NEW u \in Users
               PROVE  Cardinality(Units(u)') <= used'[u] /\ Cardinality(Units(u)') <= Limit
    BY DEF UnitsCounted
  <2>1. Units(u)' = Units(u)
    BY <1>1, <1>2 DEF Units, Entry
  <2>2. Units(u) \subseteq 1..asked /\ IsFiniteSet(1..asked)
    BY FS_Interval DEF Units, Inv, TypeOK
  <2>3. Cardinality(Units(u)) \in Nat
    BY <2>2, FS_Subset, FS_CardinalityType
  <2> QED
    BY <2>1, <2>3 DEF Inv, UnitsCounted, TypeOK
<1> QED
  BY <1>4, <1>5, <1>6, <1>7, <1>8 DEF Inv

-----------------------------------------------------------------------------
(* The steps, one by one. *)

LEMMA AskKeeps == Inv /\ (\E s \in Slots, u \in Users, op \in Ops : Ask(s, u, op)) => Inv'
<1> SUFFICES ASSUME Inv, NEW s \in Slots, NEW u \in Users, NEW op \in Ops, Ask(s, u, op)
             PROVE  Inv'
  OBVIOUS
<1> DEFINE n == asked + 1
           r == [pc |-> IF op = "confirm" THEN "insert" ELSE "gate", n |-> n,
                 tries |-> 0, again |-> FALSE, heard |-> "raised"]
           e == [user |-> u, op |-> op, counted |-> FALSE, calls |-> 0,
                 fault |-> FALSE, answer |-> "none"]
<1>1. asked \in Nat /\ asked' = n /\ n \in Numbers /\ n \in 0..MaxRequests
  BY AIRequestsConstants DEF Ask, Inv, TypeOK, Numbers
<1>2. r \in Requests /\ e \in Entries
  BY <1>1, AIRequestsConstants DEF Requests, Entries, Steps, Answers
<1>3. /\ req' \in [Slots -> Requests \cup {Idle}]
      /\ req'[s] = r /\ \A t \in Slots : t # s => req'[t] = req[t]
  BY <1>2 DEF Ask, Inv, TypeOK
<1>4. /\ log' \in [1..n -> Entries]
      /\ log'[n] = e /\ \A m \in 1..asked : log'[m] = log[m] /\ m \in 1..n /\ m # n
  <2>1. log' = [m \in 1..n |-> IF m <= asked THEN log[m] ELSE e]
    BY DEF Ask
  <2>2. \A m \in 1..n : m <= asked => m \in 1..asked /\ log[m] \in Entries
    BY <1>1 DEF Inv, TypeOK
  <2>3. log' \in [1..n -> Entries]
    BY <2>1, <2>2, <1>2
  <2>4. \A m \in 1..asked : m \in 1..n /\ m # n /\ m <= asked
    BY <1>1
  <2>5. n \in 1..n /\ ~(n <= asked)
    BY <1>1
  <2> QED
    BY <2>1, <2>3, <2>4, <2>5
<1>5. TypeOK'
  BY <1>1, <1>3, <1>4 DEF Ask, Inv, TypeOK
<1>6. WithinBudget'
  <2> SUFFICES ASSUME NEW t \in Slots, req'[t] # Idle
               PROVE  req'[t].n <= asked' /\ Budget(req'[t], log'[req'[t].n])
    BY DEF WithinBudget, Entry, Budget, Before
  <2>1. CASE t = s
    <3>1. Budget(r, e)
      BY AIRequestsConstants DEF Budget
    <3> QED
      BY <2>1, <3>1, <1>1, <1>3, <1>4
  <2>2. CASE t # s
    BY <2>2, <1>1, <1>3, <1>4, InHand DEF Inv, WithinBudget, Entry
  <2> QED
    BY <2>1, <2>2
<1>7. Apart'
  BY <1>1, <1>3, InHand DEF Inv, Apart
<1>8. AllBounded'
  <2>1. Bounded(e)
    BY AIRequestsConstants DEF Bounded, CallsPerUnit, Ops
  <2>2. \A m \in 1..n : m = n \/ m \in 1..asked
    BY <1>1
  <2> QED
    BY <2>1, <2>2, <1>1, <1>4 DEF Inv, AllBounded, Bounded
<1>9. UnitsCounted'
  <2>1. \A v \in Users : Units(v)' = Units(v)
    <3>1. \A m \in 1..n : m = n \/ m \in 1..asked
      BY <1>1
    <3> QED
      BY <3>1, <1>1, <1>4 DEF Units
  <2>2. used' = used
    BY DEF Ask
  <2> QED
    BY <2>1, <2>2 DEF Inv, UnitsCounted
<1> QED
  BY <1>5, <1>6, <1>7, <1>8, <1>9 DEF Inv

(* The unit is taken: the one step that changes what a user has used. *)
LEMMA CountKeeps ==
    ASSUME Inv, NEW s \in Slots, Count(s)
    PROVE  Inv'
<1> DEFINE n == req[s].n
           u == Entry(s).user
<1>1. req[s] # Idle /\ req[s].pc = "count"
  BY DEF Count, Idle
<1>2. req[s] \in Requests /\ n \in 1..asked /\ Entry(s) \in Entries /\ u \in Users
  BY <1>1, InHand DEF Entries
<1>3. Entry(s).calls = 0 /\ ~Entry(s).counted /\ Entry(s).op # "confirm"
      /\ req[s].tries = 0 /\ ~req[s].again
  BY <1>1 DEF Inv, WithinBudget, Budget
<1>4. ASSUME NEW old \in {Entry(s), [Entry(s) EXCEPT !.fault = TRUE]},
             Answer(s, old, "refused")
      PROVE  Inv'
  <2> DEFINE e == [old EXCEPT !.answer = "refused"]
  <2>0. /\ old \in Entries /\ old.user = u /\ old.counted = Entry(s).counted
        /\ old.calls = 0 /\ old.op = Entry(s).op
    BY <1>2, <1>3, <1>4 DEF Entries
  <2>1. e \in Entries /\ Bounded(e) /\ e.user = u /\ e.counted = Entry(s).counted
    BY <2>0, AIRequestsConstants DEF Entries, Answers, Bounded, CallsPerUnit, Ops
  <2>2. used' \in [Users -> Nat] /\ \A v \in Users : used[v] <= used'[v]
    <3>1. UNCHANGED used \/ used' = [used EXCEPT ![u] = @ + 1]
      BY DEF Count
    <3> QED
      BY <1>2, <3>1 DEF Inv, TypeOK
  <2>3. req' = [req EXCEPT ![s] = Idle] /\ log' = [log EXCEPT ![n] = e]
    BY <1>4 DEF Answer, Record
  <2>4. files' \subseteq Numbers /\ tasks' \subseteq Numbers /\ UNCHANGED <<asked, crashes>>
    BY DEF Count, Inv, TypeOK
  <2> QED
    BY <1>1, <2>1, <2>2, <2>3, <2>4, OwnStep
<1>5. CASE /\ used[u] < Limit
           /\ used' = [used EXCEPT ![u] = @ + 1]
           /\ Record(s, [Entry(s) EXCEPT !.counted = TRUE])
           /\ Goto(s, IF Entry(s).op \in Voice THEN "audio" ELSE "call")
  <2> DEFINE e == [Entry(s) EXCEPT !.counted = TRUE]
             r == [req[s] EXCEPT !.pc = IF Entry(s).op \in Voice THEN "audio" ELSE "call"]
  <2>0. UNCHANGED <<files, tasks, asked, crashes>>
    BY DEF Count
  <2>1. e \in Entries /\ Bounded(e) /\ e.user = u /\ e.counted /\ e.op = Entry(s).op /\ e.calls = 0
    <3>1. e \in Entries
      BY <1>2 DEF Entries
    <3>2. e.user = u /\ e.counted /\ e.op = Entry(s).op /\ e.calls = 0 /\ e.op \in Ops
      BY <1>2, <1>3, <3>1 DEF Entries
    <3>3. Bounded(e)
      BY <3>2, AIRequestsConstants DEF Bounded, CallsPerUnit, Ops
    <3> QED
      BY <3>1, <3>2, <3>3
  <2>2. r \in Requests /\ r.n = n /\ r # Idle /\ r.tries = 0 /\ ~r.again
        /\ r.pc = IF Entry(s).op \in Voice THEN "audio" ELSE "call"
    BY <1>2, <1>3 DEF Requests, Steps, Idle
  <2>3. /\ log' \in [1..asked -> Entries] /\ log'[n] = e
        /\ \A m \in 1..asked : m # n => log'[m] = log[m]
    BY <1>2, <1>5, <2>1 DEF Record, Inv, TypeOK
  <2>4. /\ req' \in [Slots -> Requests \cup {Idle}] /\ req'[s] = r
        /\ \A t \in Slots : t # s => req'[t] = req[t]
    BY <1>5, <2>2 DEF Goto, Inv, TypeOK
  <2>5. used' \in [Users -> Nat] /\ used'[u] = used[u] + 1 /\ \A v \in Users : v # u => used'[v] = used[v]
    BY <1>2, <1>5 DEF Inv, TypeOK
  <2>6. TypeOK'
    BY <2>0, <2>3, <2>4, <2>5 DEF Inv, TypeOK
  <2>7. WithinBudget'
    <3> SUFFICES ASSUME NEW t \in Slots, req'[t] # Idle
                 PROVE  req'[t].n <= asked' /\ Budget(req'[t], log'[req'[t].n])
      BY DEF WithinBudget, Entry, Budget, Before
    <3>1. CASE t = s
      <4>1. e.op \in Ops
        BY <2>1 DEF Entries
      <4>2. Budget(r, e)
        BY <4>1, <2>1, <2>2, <1>3, AIRequestsConstants DEF Budget, Before, Voice, Ops
      <4> QED
        BY <3>1, <4>2, <1>2, <2>0, <2>2, <2>3, <2>4 DEF Inv, TypeOK
    <3>2. CASE t # s
      <4>1. req[t] # Idle /\ req[t].n # n /\ req[t].n \in 1..asked
        BY <1>1, <3>2, <2>4, InHand DEF Inv, Apart
      <4> QED
        BY <4>1, <3>2, <2>0, <2>3, <2>4 DEF Inv, WithinBudget, Entry
    <3> QED
      BY <3>1, <3>2
  <2>8. Apart'
    <3> SUFFICES ASSUME NEW a \in Slots, NEW b \in Slots, a # b, req'[a] # Idle, req'[b] # Idle
                 PROVE  req'[a].n # req'[b].n
      BY DEF Apart
    <3>1. \A t \in Slots : req'[t].n = req[t].n /\ (req'[t] # Idle => req[t] # Idle)
      BY <1>1, <2>2, <2>4
    <3> QED
      BY <3>1 DEF Inv, Apart
  <2>9. AllBounded'
    BY <2>0, <2>1, <2>3 DEF Inv, AllBounded, Bounded
  <2>10. UnitsCounted'
    <3> SUFFICES ASSUME NEW v \in Users
                 PROVE  Cardinality(Units(v)') <= used'[v] /\ Cardinality(Units(v)') <= Limit
      BY DEF UnitsCounted
    <3>1. Units(v) \subseteq 1..asked /\ IsFiniteSet(1..asked)
      BY FS_Interval DEF Units, Inv, TypeOK
    <3>2. IsFiniteSet(Units(v)) /\ Cardinality(Units(v)) \in Nat
      BY <3>1, FS_Subset, FS_CardinalityType
    <3>3. CASE v = u
      <4>1. \A m \in 1..asked : m # n => (m \in Units(v)' <=> m \in Units(v))
        BY <2>0, <2>3 DEF Units
      <4>2. n \in Units(v)' /\ n \notin Units(v)
        BY <3>3, <1>2, <1>3, <2>0, <2>1, <2>3 DEF Units, Entry
      <4>3. Units(v)' \subseteq 1..asked
        BY <2>0 DEF Units
      <4>4. Units(v)' = Units(v) \cup {n}
        BY <4>1, <4>2, <4>3, <3>1
      <4>5. Cardinality(Units(v)') = Cardinality(Units(v)) + 1
        BY <4>2, <4>4, <3>2, FS_AddElement
      <4> QED
        BY <4>5, <3>2, <3>3, <1>5, <2>5, AIRequestsConstants DEF Inv, UnitsCounted, TypeOK
    <3>4. CASE v # u
      <4>1. Units(v)' = Units(v)
        BY <3>4, <1>2, <2>0, <2>1, <2>3 DEF Units, Entry
      <4> QED
        BY <4>1, <3>4, <2>5 DEF Inv, UnitsCounted
    <3> QED
      BY <3>3, <3>4
  <2> QED
    BY <2>6, <2>7, <2>8, <2>9, <2>10 DEF Inv
<1> QED
  BY <1>4, <1>5 DEF Count

(* The answer ends the request: only the bound on its calls is left to see. *)
LEMMA AnswerKeeps ==
    ASSUME Inv, NEW s \in Slots, req[s] # Idle, NEW e \in Entries, NEW a \in Answers,
           Answer(s, e, a), Bounded(e),
           e.user = Entry(s).user, e.counted = Entry(s).counted,
           files' \subseteq Numbers, tasks' \subseteq Numbers,
           UNCHANGED <<used, asked, crashes>>
    PROVE  Inv'
<1> DEFINE f == [e EXCEPT !.answer = a]
<1>1. f \in Entries /\ f.user = e.user /\ f.counted = e.counted /\ f.calls = e.calls /\ f.op = e.op
  BY DEF Entries
<1>2. Bounded(f)
  BY <1>1 DEF Bounded
<1>3. req' = [req EXCEPT ![s] = Idle] /\ log' = [log EXCEPT ![req[s].n] = f]
  BY DEF Answer, Record
<1>4. used' \in [Users -> Nat] /\ \A u \in Users : used[u] <= used'[u]
  BY DEF Inv, TypeOK
<1> QED
  BY <1>1, <1>2, <1>3, <1>4, OwnStep

(* The request goes on, and its new place agrees with its entry. *)
LEMMA GoesOn ==
    ASSUME Inv, NEW s \in Slots, req[s] # Idle, NEW e \in Entries, NEW r \in Requests,
           req' = [req EXCEPT ![s] = r],
           log' = [log EXCEPT ![req[s].n] = e],
           r.n = req[s].n, Budget(r, e), Bounded(e),
           e.user = Entry(s).user, e.counted = Entry(s).counted,
           files' \subseteq Numbers, tasks' \subseteq Numbers,
           UNCHANGED <<used, asked, crashes>>
    PROVE  Inv'
<1>1. used' \in [Users -> Nat] /\ \A u \in Users : used[u] <= used'[u]
  BY DEF Inv, TypeOK
<1> QED
  BY <1>1, OwnStep

(* What is known of a request in hand, in the form its steps use. *)
LEMMA AtHand ==
    ASSUME Inv, NEW s \in Slots, req[s] # Idle
    PROVE  /\ req[s] \in Requests /\ Entry(s) \in Entries
           /\ req[s].n \in Numbers
           /\ Budget(req[s], Entry(s)) /\ Bounded(Entry(s))
           /\ [Entry(s) EXCEPT !.fault = TRUE] \in Entries
           /\ Bounded([Entry(s) EXCEPT !.fault = TRUE])
           /\ [log EXCEPT ![req[s].n] = Entry(s)] = log
<1>1. req[s] \in Requests /\ req[s].n \in 1..asked /\ Entry(s) \in Entries
  BY InHand
<1>2. req[s].n \in Numbers
  BY <1>1 DEF Requests
<1>3. Budget(req[s], Entry(s)) /\ Bounded(Entry(s))
  BY <1>1 DEF Inv, WithinBudget, AllBounded, Entry
<1> DEFINE f == [Entry(s) EXCEPT !.fault = TRUE]
<1>4. f \in Entries /\ f.calls = Entry(s).calls /\ f.counted = Entry(s).counted /\ f.op = Entry(s).op
  BY <1>1 DEF Entries
<1>5. Bounded(f)
  BY <1>3, <1>4 DEF Bounded
<1>6. [log EXCEPT ![req[s].n] = Entry(s)] = log
  BY <1>1 DEF Entry, Inv, TypeOK
<1> QED
  BY <1>1, <1>2, <1>3, <1>4, <1>5, <1>6

LEMMA RefusalsKeep ==
    ASSUME Inv, NEW s \in Slots, Gate(s) \/ ShortCircuit(s) \/ Audio(s)
    PROVE  Inv'
<1>1. req[s] # Idle /\ files' \subseteq Numbers /\ tasks' \subseteq Numbers /\ UNCHANGED <<used, asked, crashes>>
  BY DEF Gate, ShortCircuit, Audio, Idle, Inv, TypeOK
<1>2. CASE \E a \in {"refused", "ok"} : Answer(s, Entry(s), a)
  BY <1>1, <1>2, AtHand, AnswerKeeps DEF Answers
<1>3. CASE \E pc \in {"count", "record"} : /\ Goto(s, pc) /\ UNCHANGED log
                                           /\ req[s].pc = IF pc = "count" THEN "gate" ELSE "audio"
  <2>1. PICK pc \in {"count", "record"} :
          /\ Goto(s, pc) /\ UNCHANGED log
          /\ req[s].pc = IF pc = "count" THEN "gate" ELSE "audio"
    BY <1>3
  <2> DEFINE r == [req[s] EXCEPT !.pc = pc]
  <2>2. req[s] \in Requests /\ Budget(req[s], Entry(s))
    BY <1>1, AtHand
  <2>3. r \in Requests /\ r.n = req[s].n /\ r.pc = pc /\ r.tries = req[s].tries /\ r.again = req[s].again
    BY <2>2 DEF Requests, Steps
  <2>4. Budget(r, Entry(s))
    BY <2>1, <2>2, <2>3 DEF Budget
  <2>5. req' = [req EXCEPT ![s] = r] /\ log' = [log EXCEPT ![req[s].n] = Entry(s)]
    BY <1>1, <2>1, AtHand DEF Goto
  <2> QED
    BY <1>1, <2>3, <2>4, <2>5, AtHand, GoesOn
<1> QED
  BY <1>2, <1>3 DEF Gate, ShortCircuit, Audio

LEMMA WriteKeeps ==
    ASSUME Inv, NEW s \in Slots, Write(s)
    PROVE  Inv'
<1>1. req[s] # Idle /\ req[s].pc = "record" /\ tasks' \subseteq Numbers /\ UNCHANGED <<used, asked, crashes>>
  BY DEF Write, Idle, Inv, TypeOK
<1>2. files' \subseteq Numbers
  BY <1>1, AtHand DEF Write, Inv, TypeOK
<1>3. CASE Answer(s, [Entry(s) EXCEPT !.fault = TRUE], "error") \/ Answer(s, Entry(s), "error")
  <2>1. CASE Answer(s, Entry(s), "error")
    BY <1>1, <1>2, <2>1, AtHand, AnswerKeeps DEF Answers
  <2>2. CASE Answer(s, [Entry(s) EXCEPT !.fault = TRUE], "error")
    <3> DEFINE f == [Entry(s) EXCEPT !.fault = TRUE]
    <3>1. f \in Entries /\ Bounded(f) /\ f.user = Entry(s).user /\ f.counted = Entry(s).counted
      BY <1>1, AtHand DEF Entries
    <3> QED
      BY <1>1, <1>2, <2>2, <3>1, AnswerKeeps DEF Answers
  <2> QED
    BY <1>3, <2>1, <2>2
<1>4. CASE Goto(s, "whisper") /\ UNCHANGED log
  <2> DEFINE r == [req[s] EXCEPT !.pc = "whisper"]
  <2>1. req[s] \in Requests /\ Budget(req[s], Entry(s))
    BY <1>1, AtHand
  <2>2. r \in Requests /\ r.n = req[s].n /\ r.pc = "whisper" /\ r.tries = req[s].tries /\ r.again = req[s].again
    BY <2>1 DEF Requests, Steps
  <2>3. Budget(r, Entry(s))
    BY <1>1, <2>1, <2>2 DEF Budget
  <2>4. req' = [req EXCEPT ![s] = r] /\ log' = [log EXCEPT ![req[s].n] = Entry(s)]
    BY <1>1, <1>4, AtHand DEF Goto
  <2> QED
    BY <1>1, <1>2, <2>2, <2>3, <2>4, AtHand, GoesOn
<1> QED
  BY <1>3, <1>4 DEF Write

(* The one call of a transcription. *)
LEMMA WhisperKeeps ==
    ASSUME Inv, NEW s \in Slots, Whisper(s)
    PROVE  Inv'
<1> DEFINE e == [Entry(s) EXCEPT !.calls = @ + 1]
<1>1. req[s] # Idle /\ req[s].pc = "whisper"
      /\ files' \subseteq Numbers /\ tasks' \subseteq Numbers /\ UNCHANGED <<used, asked, crashes>>
  BY DEF Whisper, Idle, Inv, TypeOK
<1>2. req[s] \in Requests /\ Entry(s) \in Entries /\ Budget(req[s], Entry(s))
  BY <1>1, AtHand
<1>3. Entry(s).calls = 0 /\ Entry(s).counted /\ Entry(s).op \in Voice /\ req[s].tries = 0 /\ ~req[s].again
  BY <1>1, <1>2 DEF Budget
<1>4. e \in Entries /\ e.calls = 1 /\ e.counted = Entry(s).counted /\ e.op = Entry(s).op
      /\ e.user = Entry(s).user
  <2>1. Entry(s).calls + 1 = 1
    BY <1>3
  <2>2. e = [Entry(s) EXCEPT !.calls = 1]
    BY <2>1
  <2> QED
    BY <2>2, <1>2 DEF Entries
<1>5. Bounded(e)
  BY <1>3, <1>4, AIRequestsConstants DEF Bounded, CallsPerUnit, Voice
<1>6. PICK heard \in {"text", "empty", "raised"} :
         req' = [req EXCEPT ![s].pc = "remove", ![s].heard = heard]
  BY DEF Whisper
<1> DEFINE r == [req[s] EXCEPT !.pc = "remove", !.heard = heard]
<1>7. r \in Requests /\ r.n = req[s].n /\ r.pc = "remove" /\ r.tries = 0 /\ ~r.again
  BY <1>2, <1>3 DEF Requests, Steps
<1>8. Budget(r, e)
  BY <1>3, <1>4, <1>7 DEF Budget
<1>9. req' = [req EXCEPT ![s] = r] /\ log' = [log EXCEPT ![req[s].n] = e]
  <2>1. req' = [req EXCEPT ![s] = r]
    BY <1>1, <1>2, <1>6 DEF Inv, TypeOK
  <2> QED
    BY <2>1 DEF Whisper, Record
<1> QED
  BY <1>1, <1>4, <1>5, <1>7, <1>8, <1>9, GoesOn

LEMMA RemoveKeeps ==
    ASSUME Inv, NEW s \in Slots, Remove(s)
    PROVE  Inv'
<1>1. req[s] # Idle /\ req[s].pc = "remove"
      /\ files' \subseteq Numbers /\ tasks' \subseteq Numbers /\ UNCHANGED <<used, asked, crashes>>
  BY DEF Remove, Idle, Inv, TypeOK
<1>2. req[s] \in Requests /\ Entry(s) \in Entries /\ Budget(req[s], Entry(s)) /\ Bounded(Entry(s))
  BY <1>1, AtHand
<1>3. Entry(s).calls = 1 /\ Entry(s).counted /\ Entry(s).op \in Voice /\ req[s].tries = 0 /\ ~req[s].again
  BY <1>1, <1>2 DEF Budget
<1>4. PICK e \in {Entry(s), [Entry(s) EXCEPT !.fault = TRUE]} : Heard(s, e)
  BY DEF Remove
<1>5. e \in Entries /\ e.calls = 1 /\ e.counted = Entry(s).counted /\ e.op = Entry(s).op
      /\ e.user = Entry(s).user
  BY <1>2, <1>3 DEF Entries
<1>6. Bounded(e)
  BY <1>2, <1>5, <1>3 DEF Bounded
<1>7. CASE \E a \in {"error", "refused", "ok"} : Answer(s, e, a)
  BY <1>1, <1>5, <1>6, <1>7, AnswerKeeps DEF Answers
<1>8. CASE e.op = "voicetask" /\ Goto(s, "call") /\ Record(s, e)
  <2> DEFINE r == [req[s] EXCEPT !.pc = "call"]
  <2>1. r \in Requests /\ r.n = req[s].n /\ r.pc = "call" /\ r.tries = 0 /\ ~r.again
    BY <1>2, <1>3 DEF Requests, Steps
  <2>2. Budget(r, e)
    BY <1>3, <1>5, <1>8, <2>1 DEF Budget, Before, Ops
  <2>3. req' = [req EXCEPT ![s] = r] /\ log' = [log EXCEPT ![req[s].n] = e]
    BY <1>8 DEF Goto, Record
  <2> QED
    BY <1>1, <1>5, <1>6, <2>1, <2>2, <2>3, GoesOn
<1> QED
  BY <1>4, <1>7, <1>8 DEF Heard

LEMMA InsertKeeps ==
    ASSUME Inv, NEW s \in Slots, Insert(s)
    PROVE  Inv'
<1>1. req[s] # Idle /\ files' \subseteq Numbers /\ UNCHANGED <<used, asked, crashes>>
  BY DEF Insert, Idle, Inv, TypeOK
<1>2. tasks' \subseteq Numbers
  BY <1>1, AtHand DEF Insert, Inv, TypeOK
<1>3. PICK e \in {Entry(s), [Entry(s) EXCEPT !.fault = TRUE]}, a \in {"ok", "refused", "error"} :
         Answer(s, e, a)
  BY DEF Insert
<1>4. e \in Entries /\ Bounded(e) /\ e.counted = Entry(s).counted /\ e.user = Entry(s).user
  BY <1>1, AtHand DEF Entries
<1> QED
  BY <1>1, <1>2, <1>3, <1>4, AnswerKeeps DEF Answers

(* An attempt at a completion: one more call, and one less to come. *)
LEMMA CallKeeps ==
    ASSUME Inv, NEW s \in Slots, Call(s)
    PROVE  Inv'
<1> DEFINE e == [Entry(s) EXCEPT !.calls = @ + 1]
           r0 == req[s]
<1>1. req[s] # Idle /\ req[s].pc = "call"
      /\ files' \subseteq Numbers /\ tasks' \subseteq Numbers /\ UNCHANGED <<used, asked, crashes>>
  BY DEF Call, Idle, Inv, TypeOK
<1>2. r0 \in Requests /\ Entry(s) \in Entries /\ Budget(r0, Entry(s))
  BY <1>1, AtHand
<1>3. /\ Entry(s).counted /\ Entry(s).op \in Ops \ {"transcribe", "confirm"}
      /\ r0.again => Entry(s).op = "smart"
      /\ Entry(s).calls <= Before(Entry(s).op, r0.again) + r0.tries
      /\ Entry(s).calls \in Nat /\ r0.tries \in 0..MaxAttempts - 1 /\ r0.again \in BOOLEAN
  BY <1>1, <1>2 DEF Budget, Requests, Entries
<1>4. e \in Entries /\ e.calls = Entry(s).calls + 1 /\ e.counted = Entry(s).counted
      /\ e.op = Entry(s).op /\ e.user = Entry(s).user
  BY <1>2 DEF Entries
<1>5. e.calls <= Before(e.op, r0.again) + r0.tries + 1 /\ MaxAttempts \in Nat \ {0}
  BY <1>3, <1>4, AIRequestsConstants DEF Before
<1>6. Bounded(e)
  <2>1. Before(e.op, r0.again) + MaxAttempts <= CallsPerUnit[e.op]
    BY <1>3, <1>4, AIRequestsConstants DEF Before, CallsPerUnit, Ops
  <2>2. r0.tries + 1 <= MaxAttempts
    BY <1>3, <1>5
  <2>3. Before(e.op, r0.again) \in Nat /\ CallsPerUnit[e.op] \in Nat
    BY <1>3, <1>4, AIRequestsConstants DEF Before, CallsPerUnit, Ops
  <2> QED
    BY <1>3, <1>4, <1>5, <2>1, <2>2, <2>3 DEF Bounded
<1>7. CASE Answer(s, e, "ok")
  BY <1>1, <1>4, <1>6, <1>7, AnswerKeeps DEF Answers
<1>8. CASE Goto(s, "insert") /\ Record(s, e)
  <2> DEFINE r == [req[s] EXCEPT !.pc = "insert"]
  <2>1. r \in Requests /\ r.n = req[s].n /\ r.pc = "insert"
    BY <1>2 DEF Requests, Steps
  <2>2. Budget(r, e)
    BY <2>1 DEF Budget
  <2>3. req' = [req EXCEPT ![s] = r] /\ log' = [log EXCEPT ![req[s].n] = e]
    BY <1>8 DEF Goto, Record
  <2> QED
    BY <1>1, <1>4, <1>6, <2>1, <2>2, <2>3, GoesOn
<1>9. CASE Continue(s, e, "again") /\ e.op = "smart" /\ ~r0.again
  <2> DEFINE r == [req[s] EXCEPT !.again = TRUE, !.tries = 0]
  <2>1. r \in Requests /\ r.n = req[s].n /\ r.pc = "call" /\ r.again /\ r.tries = 0
    <3>1. 0 \in 0..MaxAttempts - 1
      BY AIRequestsConstants
    <3> QED
      BY <1>1, <1>2, <3>1 DEF Requests
  <2>2. e.calls <= MaxAttempts
    BY <1>3, <1>4, <1>5, <1>9, AIRequestsConstants DEF Before
  <2>3. Budget(r, e)
    BY <1>3, <1>4, <1>9, <2>1, <2>2, AIRequestsConstants DEF Budget, Before
  <2>4. req' = [req EXCEPT ![s] = r] /\ log' = [log EXCEPT ![req[s].n] = e]
    BY <1>2, <1>9 DEF Continue, Record, Inv, TypeOK
  <2> QED
    BY <1>1, <1>4, <1>6, <2>1, <2>3, <2>4, GoesOn
<1>10. CASE Continue(s, e, "retry") /\ r0.tries < MaxAttempts - 1
  <2> DEFINE r == [req[s] EXCEPT !.tries = @ + 1]
  <2>1. r \in Requests /\ r.n = req[s].n /\ r.pc = "call" /\ r.again = r0.again /\ r.tries = r0.tries + 1
    <3>1. r0.tries + 1 \in 0..MaxAttempts - 1
      BY <1>3, <1>10, AIRequestsConstants
    <3> QED
      BY <1>1, <1>2, <3>1 DEF Requests
  <2>2. e.calls <= Before(e.op, r.again) + r.tries
    BY <1>3, <1>4, <1>5, <2>1, AIRequestsConstants DEF Before
  <2>3. Budget(r, e)
    BY <1>3, <1>4, <2>1, <2>2 DEF Budget
  <2>4. req' = [req EXCEPT ![s] = r] /\ log' = [log EXCEPT ![req[s].n] = e]
    BY <1>2, <1>10 DEF Continue, Record, Inv, TypeOK
  <2> QED
    BY <1>1, <1>4, <1>6, <2>1, <2>3, <2>4, GoesOn
<1>11. CASE \E next \in {"ok", "insert"} : Continue(s, e, next)
  BY <1>7, <1>8, <1>11 DEF Continue
<1>12. CASE \E next \in Outcomes(e.op, r0.again) : Continue(s, e, next)
  <2>1. PICK next \in Outcomes(e.op, r0.again) : Continue(s, e, next)
    BY <1>12
  <2>2. next \in {"ok", "insert"} \/ (next = "again" /\ e.op = "smart" /\ ~r0.again)
    BY DEF Outcomes
  <2> QED
    BY <2>1, <2>2, <1>9, <1>11
<1>13. Fallback(e.op) \in {"ok", "insert"}
  BY DEF Fallback
<1> QED
  BY <1>10, <1>11, <1>12, <1>13 DEF Call


(* The requests of a process that dies are gone, their entries say so. *)
LEMMA CrashKeeps ==
    ASSUME Inv, NEW w \in Workers, Crash(w)
    PROVE  Inv'
<1> DEFINE hit == {s \in Slots : WorkerOf[s] = w /\ req[s] # Idle}
<1>1. /\ asked' = asked /\ used' = used /\ files' = files /\ tasks' = tasks
      /\ crashes' = crashes + 1 /\ crashes < MaxCrashes
      /\ req' = [s \in Slots |-> IF s \in hit THEN Idle ELSE req[s]]
      /\ log' = [n \in 1..asked |-> IF \E s \in hit : req[s].n = n
                                    THEN [log[n] EXCEPT !.answer = "lost"] ELSE log[n]]
  BY DEF Crash
<1>2. \A t \in Slots : req'[t] # Idle => req'[t] = req[t] /\ t \notin hit
  BY <1>1
<1>3. \A n \in 1..asked :
         /\ log'[n] \in Entries /\ log'[n].user = log[n].user /\ log'[n].op = log[n].op
         /\ log'[n].counted = log[n].counted /\ log'[n].calls = log[n].calls
         /\ log'[n].fault = log[n].fault
  <2> SUFFICES ASSUME NEW n \in 1..asked
               PROVE  /\ log'[n] \in Entries /\ log'[n].user = log[n].user /\ log'[n].op = log[n].op
                      /\ log'[n].counted = log[n].counted /\ log'[n].calls = log[n].calls
                      /\ log'[n].fault = log[n].fault
    OBVIOUS
  <2>1. log[n] \in Entries
    BY DEF Inv, TypeOK
  <2>2. log'[n] = log[n] \/ log'[n] = [log[n] EXCEPT !.answer = "lost"]
    BY <1>1
  <2> QED
    BY <2>1, <2>2 DEF Entries, Answers
<1>4. log' \in [1..asked -> Entries]
  BY <1>1, <1>3
<1>5. req' \in [Slots -> Requests \cup {Idle}]
  BY <1>1 DEF Inv, TypeOK
<1>6. TypeOK'
  <2>1. crashes + 1 \in 0..MaxCrashes
    BY <1>1, AIRequestsConstants DEF Inv, TypeOK
  <2> HIDE DEF hit
  <2> QED
    BY <1>1, <1>4, <1>5, <2>1 DEF Inv, TypeOK
<1>7. WithinBudget'
  <2> SUFFICES ASSUME NEW t \in Slots, req'[t] # Idle
               PROVE  req'[t].n <= asked' /\ Budget(req'[t], log'[req'[t].n])
    BY DEF WithinBudget, Entry, Budget, Before
  <2>1. req'[t] = req[t] /\ req[t] # Idle
    BY <1>2
  <2>2. req[t].n \in 1..asked /\ Budget(req[t], log[req[t].n])
    BY <2>1, InHand DEF Inv, WithinBudget, Entry
  <2>3. Budget(req[t], log'[req[t].n])
    BY <2>2, <1>3 DEF Budget
  <2> QED
    BY <2>1, <2>2, <2>3, <1>1 DEF Inv, TypeOK
<1>8. Apart'
  BY <1>2 DEF Inv, Apart
<1>9. AllBounded'
  BY <1>1, <1>3 DEF Inv, AllBounded, Bounded
<1>10. UnitsCounted'
  <2>1. \A u \in Users : Units(u)' = Units(u)
    BY <1>1, <1>3 DEF Units
  <2> QED
    BY <2>1, <1>1 DEF Inv, UnitsCounted
<1> QED
  BY <1>6, <1>7, <1>8, <1>9, <1>10 DEF Inv

LEMMA NextInv == Inv /\ [Next]_vars => Inv'
<1> SUFFICES ASSUME Inv, [Next]_vars PROVE Inv'
  OBVIOUS
<1>1. CASE \E s \in Slots, u \in Users, op \in Ops : Ask(s, u, op)
  BY <1>1, AskKeeps
<1>2. CASE \E s \in Slots : Serve(s)
  BY <1>2, CountKeeps, RefusalsKeep, WriteKeeps, WhisperKeeps, RemoveKeeps, CallKeeps, InsertKeeps
     DEF Serve
<1>3. CASE \E w \in Workers : Crash(w)
  BY <1>3, CrashKeeps
<1>4. CASE UNCHANGED vars
  BY <1>4 DEF vars, Inv, TypeOK, WithinBudget, Apart, AllBounded, Bounded, UnitsCounted, Units,
              Entry, Budget, Before
<1> QED
  BY <1>1, <1>2, <1>3, <1>4 DEF Next, Quiet

LEMMA InvHolds == Spec => []Inv
<1> QED
  BY InitInv, NextInv, PTL DEF Spec

-----------------------------------------------------------------------------
(* The theorems. *)

(* Every variable has its type: what the routes, the quota and the         *)
(* temporary files keep (ai_routes.py, usage_service.py).                  *)
THEOREM TypeCorrect == Spec => []TypeOK
<1>1. Inv => TypeOK
  BY DEF Inv
<1> QED
  BY <1>1, InvHolds, PTL

(* Whatever is asked at once, dies and is retried: the provider is called  *)
(* only for a request that took a unit of the quota, a unit buys a bounded *)
(* number of calls, and no user takes more units than the limit of a day   *)
(* (ai_routes.py, llm_provider.py, usage_service.py).                      *)
THEOREM CallsPaid == Spec => []CallsArePaid
<1>1. Inv => CallsArePaid
  BY DEF Inv, AllBounded, Bounded, UnitsCounted, Units, CallsArePaid
<1> QED
  BY <1>1, InvHolds, PTL

-----------------------------------------------------------------------------
(* What a request leaves behind: its file and its task. *)

AtWork(r) == r.pc \in {"whisper", "remove"}
TellsTask(op) == op \in {"totask", "confirm"}

(* A request in hand has no answer yet; who has a task was told so, or its *)
(* INSERT committed and raised.                                            *)
Unanswered == \A s \in Slots : req[s] # Idle => Entry(s).answer = "none"
Told(e) == e.answer = "ok" \/ (e.answer = "error" /\ e.fault)
TasksTold ==
    \A n \in tasks : Told(log[n])
ToldTasks ==
    \A n \in 1..asked : TellsTask(log[n].op) /\ log[n].answer = "ok" => n \in tasks

Traces ==
    /\ files \subseteq 1..asked /\ tasks \subseteq 1..asked
    /\ Unanswered /\ RecordingsRemoved /\ TasksTold /\ ToldTasks

(* The step of a request: it goes on as r or ends as Idle, its entry       *)
(* becomes e, and it touches no file or task but its own.                  *)
Becomes(s, r, e) ==
    LET n == req[s].n
    IN  /\ req' = [req EXCEPT ![s] = r]
        /\ log' = [log EXCEPT ![n] = e]
        /\ asked' = asked
        /\ e.op = Entry(s).op /\ (Entry(s).fault => e.fault)
        /\ r # Idle => r.n = n /\ e.answer = Entry(s).answer
        /\ files' \subseteq files \cup {n}
        /\ n \in files' => \/ r # Idle /\ AtWork(r)
                           \/ e.fault
                           \/ n \in files /\ ~AtWork(req[s])
        /\ tasks \subseteq tasks' /\ tasks' \subseteq tasks \cup {n}
        /\ n \in tasks' => \/ n \in tasks
                           \/ r = Idle /\ Told(e)
        /\ r = Idle /\ TellsTask(e.op) /\ e.answer = "ok" => n \in tasks'

(* How a step ends a request, and how it lets it go on. *)
LEMMA Ends ==
    ASSUME NEW s \in Slots, NEW e \in Entries, NEW a \in Answers, Answer(s, e, a)
    PROVE  \E f \in Entries : /\ req' = [req EXCEPT ![s] = Idle]
                              /\ log' = [log EXCEPT ![req[s].n] = f]
                              /\ f.op = e.op /\ f.fault = e.fault /\ f.answer = a
<1> DEFINE f == [e EXCEPT !.answer = a]
<1>1. f \in Entries /\ f.op = e.op /\ f.fault = e.fault /\ f.answer = a
  BY DEF Entries
<1>2. req' = [req EXCEPT ![s] = Idle] /\ log' = [log EXCEPT ![req[s].n] = f]
  BY DEF Answer, Record
<1> QED
  BY <1>1, <1>2

LEMMA Moves ==
    ASSUME NEW s \in Slots, req[s] \in Requests, NEW pc, Goto(s, pc)
    PROVE  \E r : /\ req' = [req EXCEPT ![s] = r]
                  /\ r # Idle /\ r.n = req[s].n /\ r.pc = pc
<1> DEFINE r == [req[s] EXCEPT !.pc = pc]
<1>1. req' = [req EXCEPT ![s] = r] /\ r.n = req[s].n /\ r.pc = pc
  BY DEF Goto, Requests
<1>2. DOMAIN r # DOMAIN Idle
  <2>1. "n" \in DOMAIN r /\ "n" \notin DOMAIN Idle
    BY DEF Requests, Idle
  <2> QED
    BY <2>1
<1> QED
  BY <1>1, <1>2

(* A raised operation leaves its mark on the entry. *)
LEMMA Marked ==
    ASSUME NEW e \in Entries
    PROVE  LET f == [e EXCEPT !.fault = TRUE]
           IN  f \in Entries /\ f.op = e.op /\ f.fault /\ f.answer = e.answer
  BY DEF Entries

LEMMA Charged ==
    ASSUME NEW e \in Entries
    PROVE  LET f == [e EXCEPT !.calls = @ + 1]
           IN  f \in Entries /\ f.op = e.op /\ f.fault = e.fault /\ f.answer = e.answer
  BY DEF Entries

LEMMA BeforeCalls ==
    ASSUME Inv, NEW s \in Slots, Gate(s) \/ Count(s) \/ ShortCircuit(s) \/ Audio(s)
    PROVE  \E r, e : Becomes(s, r, e)
<1>1. /\ req[s] # Idle /\ ~AtWork(req[s])
      /\ UNCHANGED <<files, tasks, asked>>
  BY DEF Gate, Count, ShortCircuit, Audio, Idle, AtWork
<1>2. req[s] \in Requests /\ Entry(s) \in Entries /\ req[s].n \in 1..asked
  BY <1>1, InHand
<1>3. CASE \E a \in {"refused", "ok"}, e \in {Entry(s), [Entry(s) EXCEPT !.fault = TRUE]} :
              /\ Answer(s, e, a)
              /\ a = "ok" => Entry(s).op = "smart"
  <2>1. PICK a \in {"refused", "ok"}, e \in {Entry(s), [Entry(s) EXCEPT !.fault = TRUE]} :
              /\ Answer(s, e, a)
              /\ a = "ok" => Entry(s).op = "smart"
    BY <1>3
  <2>0. e \in Entries /\ e.op = Entry(s).op /\ (Entry(s).fault => e.fault)
    BY <1>2, <2>1, Marked
  <2>2. PICK f \in Entries : /\ req' = [req EXCEPT ![s] = Idle]
                             /\ log' = [log EXCEPT ![req[s].n] = f]
                             /\ f.op = Entry(s).op /\ (Entry(s).fault => f.fault)
                             /\ f.answer = a
    BY <2>1, <2>0, Ends DEF Answers
  <2>3. Becomes(s, Idle, f)
    BY <1>1, <2>1, <2>2 DEF Becomes, TellsTask
  <2> QED
    BY <2>3
<1>4. ASSUME NEW pc, Goto(s, pc),
             NEW e \in Entries, log' = [log EXCEPT ![req[s].n] = e],
             e.op = Entry(s).op, e.fault = Entry(s).fault, e.answer = Entry(s).answer
      PROVE  \E r, f : Becomes(s, r, f)
  <2>1. PICK r : req' = [req EXCEPT ![s] = r] /\ r # Idle /\ r.n = req[s].n
    BY <1>2, <1>4, Moves
  <2>2. Becomes(s, r, e)
    BY <1>1, <1>4, <2>1 DEF Becomes
  <2> QED
    BY <2>2
<1>5. CASE \E pc : Goto(s, pc) /\ UNCHANGED log
  BY <1>1, <1>2, <1>4, <1>5, AtHand
<1>6. CASE \E pc : Goto(s, pc) /\ Record(s, [Entry(s) EXCEPT !.counted = TRUE])
  <2> DEFINE e == [Entry(s) EXCEPT !.counted = TRUE]
  <2>1. e \in Entries /\ e.op = Entry(s).op /\ e.fault = Entry(s).fault
        /\ e.answer = Entry(s).answer
    BY <1>2 DEF Entries
  <2>2. log' = [log EXCEPT ![req[s].n] = e]
    BY <1>6 DEF Record
  <2> QED
    BY <1>4, <1>6, <2>1, <2>2
<1>7. CASE Gate(s) \/ Audio(s)
  BY <1>3, <1>5, <1>7 DEF Gate, Audio
<1>8. CASE Count(s)
  BY <1>3, <1>6, <1>8 DEF Count
<1>9. CASE ShortCircuit(s)
  BY <1>3, <1>9 DEF ShortCircuit
<1> QED
  BY <1>7, <1>8, <1>9

LEMMA WithFile ==
    ASSUME Inv, NEW s \in Slots, Write(s) \/ Whisper(s) \/ Remove(s)
    PROVE  \E r, e : Becomes(s, r, e)
<1> DEFINE n == req[s].n
           marked == [Entry(s) EXCEPT !.fault = TRUE]
           charged == [Entry(s) EXCEPT !.calls = @ + 1]
<1>1. /\ req[s] # Idle /\ req[s].pc \in {"record", "whisper", "remove"}
      /\ UNCHANGED <<tasks, asked>>
  BY DEF Write, Whisper, Remove, Idle
<1>2. req[s] \in Requests /\ Entry(s) \in Entries /\ n \in 1..asked
  BY <1>1, InHand
<1>3. /\ marked \in Entries /\ marked.op = Entry(s).op /\ marked.fault
      /\ marked.answer = Entry(s).answer
  BY <1>2, Marked
<1>4. /\ charged \in Entries /\ charged.op = Entry(s).op
      /\ charged.fault = Entry(s).fault /\ charged.answer = Entry(s).answer
  BY <1>2, Charged
<1>5. Entry(s).op \in Voice
  BY <1>1, AtHand DEF Budget
<1> HIDE DEF marked, charged
<1>6. ASSUME NEW e \in Entries, NEW a \in Answers, Answer(s, e, a),
             e.op = Entry(s).op, Entry(s).fault => e.fault,
             files' \subseteq files \cup {n},
             n \in files' => e.fault \/ (n \in files /\ ~AtWork(req[s]))
      PROVE  \E r, f : Becomes(s, r, f)
  <2>1. PICK f \in Entries : /\ req' = [req EXCEPT ![s] = Idle]
                             /\ log' = [log EXCEPT ![n] = f]
                             /\ f.op = e.op /\ f.fault = e.fault
                             /\ f.answer = a
    BY <1>6, Ends
  <2>2. ~TellsTask(f.op)
    BY <1>5, <1>6, <2>1 DEF TellsTask, Voice
  <2>3. Becomes(s, Idle, f)
    BY <1>1, <1>6, <2>1, <2>2 DEF Becomes
  <2> QED
    BY <2>3
<1>7. CASE Write(s)
  <2>1. ~AtWork(req[s])
    BY <1>7 DEF Write, AtWork
  <2>2. CASE files' = files \cup {n} /\ Goto(s, "whisper") /\ UNCHANGED log
    <3>1. PICK r : /\ req' = [req EXCEPT ![s] = r]
                   /\ r # Idle /\ r.n = n /\ r.pc = "whisper"
      BY <1>2, <2>2, Moves
    <3>2. log' = [log EXCEPT ![n] = Entry(s)]
      BY <1>1, <2>2, AtHand
    <3>3. Becomes(s, r, Entry(s))
      BY <1>1, <2>2, <3>1, <3>2 DEF Becomes, AtWork
    <3> QED
      BY <3>3
  <2>3. CASE files' = files \cup {n} /\ Answer(s, marked, "error")
    BY <1>3, <1>6, <2>3 DEF Answers
  <2>4. CASE UNCHANGED files /\ Answer(s, Entry(s), "error")
    BY <1>2, <1>6, <2>1, <2>4 DEF Answers
  <2> QED
    BY <1>7, <2>2, <2>3, <2>4 DEF Write, marked
<1>8. CASE Whisper(s)
  <2>1. PICK heard : req' = [req EXCEPT ![s].pc = "remove", ![s].heard = heard]
    BY <1>8 DEF Whisper
  <2> DEFINE r == [req[s] EXCEPT !.pc = "remove", !.heard = heard]
  <2>2. /\ req' = [req EXCEPT ![s] = r] /\ r.n = n /\ r.pc = "remove"
    BY <1>2, <2>1 DEF Requests, Inv, TypeOK
  <2>3. r # Idle
    <3>1. "n" \in DOMAIN r /\ "n" \notin DOMAIN Idle
      BY <1>2 DEF Requests, Idle
    <3> QED
      BY <3>1
  <2>4. log' = [log EXCEPT ![n] = charged] /\ files' = files
    BY <1>8 DEF Whisper, Record, charged
  <2> HIDE DEF r
  <2>5. Becomes(s, r, charged)
    BY <1>1, <1>4, <2>2, <2>3, <2>4 DEF Becomes, AtWork
  <2> QED
    BY <2>5
<1>9. CASE Remove(s)
  <2>1. PICK e \in {Entry(s), marked} :
          /\ Heard(s, e)
          /\ files' \subseteq files
          /\ n \in files' => e.fault
    BY <1>3, <1>9 DEF Remove, marked
  <2>2. /\ e \in Entries /\ e.op = Entry(s).op /\ (Entry(s).fault => e.fault)
        /\ e.answer = Entry(s).answer
    BY <1>2, <1>3
  <2>3. CASE \E a \in {"error", "refused", "ok"} : Answer(s, e, a)
    BY <1>6, <2>1, <2>2, <2>3 DEF Answers
  <2>4. CASE Goto(s, "call") /\ Record(s, e)
    <3>1. PICK r : /\ req' = [req EXCEPT ![s] = r]
                   /\ r # Idle /\ r.n = n
      BY <1>2, <2>4, Moves
    <3>2. Becomes(s, r, e)
      BY <1>1, <2>1, <2>2, <2>4, <3>1 DEF Becomes, Record
    <3> QED
      BY <3>2
  <2> QED
    BY <2>1, <2>3, <2>4 DEF Heard
<1> QED
  BY <1>7, <1>8, <1>9

LEMMA Completing ==
    ASSUME Inv, NEW s \in Slots, Call(s)
    PROVE  \E r, e : Becomes(s, r, e)
<1> DEFINE n == req[s].n
           e == [Entry(s) EXCEPT !.calls = @ + 1]
<1>1. /\ req[s] # Idle /\ req[s].pc = "call" /\ ~AtWork(req[s])
      /\ UNCHANGED <<files, tasks, asked>>
  BY DEF Call, Idle, AtWork
<1>2. req[s] \in Requests /\ Entry(s) \in Entries /\ n \in 1..asked
  BY <1>1, InHand
<1>3. /\ e \in Entries /\ e.op = Entry(s).op
      /\ e.fault = Entry(s).fault /\ e.answer = Entry(s).answer
  BY <1>2, Charged
<1>4. e.op # "confirm"
  BY <1>1, <1>3, AtHand DEF Budget
<1>5. \/ Answer(s, e, "ok") /\ e.op # "totask"
      \/ Goto(s, "insert") /\ Record(s, e)
      \/ Record(s, e) /\ req' = [req EXCEPT ![s].again = TRUE, ![s].tries = 0]
      \/ Record(s, e) /\ req' = [req EXCEPT ![s].tries = @ + 1]
  BY DEF Call, Outcomes, Fallback, Continue
<1> HIDE DEF e
<1>6. CASE Answer(s, e, "ok") /\ e.op # "totask"
  <2>1. PICK f \in Entries : /\ req' = [req EXCEPT ![s] = Idle]
                             /\ log' = [log EXCEPT ![n] = f]
                             /\ f.op = e.op /\ f.fault = e.fault
                             /\ f.answer = "ok"
    BY <1>3, <1>6, Ends DEF Answers
  <2>2. Becomes(s, Idle, f)
    BY <1>1, <1>3, <1>4, <1>6, <2>1 DEF Becomes, TellsTask
  <2> QED
    BY <2>2
<1>7. ASSUME Record(s, e),
             NEW r, req' = [req EXCEPT ![s] = r], r.n = n, r # Idle
      PROVE  \E q, f : Becomes(s, q, f)
  <2>1. Becomes(s, r, e)
    BY <1>1, <1>3, <1>7 DEF Becomes, Record
  <2> QED
    BY <2>1
<1>8. CASE Goto(s, "insert") /\ Record(s, e)
  BY <1>2, <1>7, <1>8, Moves
<1>9. CASE Record(s, e) /\ req' = [req EXCEPT ![s].again = TRUE, ![s].tries = 0]
  <2> DEFINE r == [req[s] EXCEPT !.again = TRUE, !.tries = 0]
  <2>1. req' = [req EXCEPT ![s] = r] /\ r.n = n /\ r.pc = "call"
        /\ "n" \in DOMAIN r /\ "n" \notin DOMAIN Idle
    BY <1>1, <1>2, <1>9 DEF Requests, Inv, TypeOK, Idle
  <2> HIDE DEF r
  <2> QED
    BY <1>7, <1>9, <2>1
<1>10. CASE Record(s, e) /\ req' = [req EXCEPT ![s].tries = @ + 1]
  <2> DEFINE r == [req[s] EXCEPT !.tries = @ + 1]
  <2>1. req' = [req EXCEPT ![s] = r] /\ r.n = n /\ r.pc = "call"
        /\ "n" \in DOMAIN r /\ "n" \notin DOMAIN Idle
    BY <1>1, <1>2, <1>10 DEF Requests, Inv, TypeOK, Idle
  <2> HIDE DEF r
  <2> QED
    BY <1>7, <1>10, <2>1
<1> QED
  BY <1>5, <1>6, <1>8, <1>9, <1>10

LEMMA Inserting ==
    ASSUME Inv, NEW s \in Slots, Insert(s)
    PROVE  \E r, e : Becomes(s, r, e)
<1> DEFINE n == req[s].n
           marked == [Entry(s) EXCEPT !.fault = TRUE]
<1>1. /\ req[s] # Idle /\ ~AtWork(req[s])
      /\ UNCHANGED <<files, asked>>
  BY DEF Insert, Idle, AtWork
<1>2. req[s] \in Requests /\ Entry(s) \in Entries
  BY <1>1, InHand
<1>3. marked \in Entries /\ marked.op = Entry(s).op /\ marked.fault
  BY <1>2, Marked
<1>4. PICK e \in {Entry(s), marked}, a \in {"ok", "refused", "error"} :
        /\ Answer(s, e, a)
        /\ tasks' = tasks \/ tasks' = tasks \cup {n}
        /\ tasks' # tasks => a = "ok" \/ (a = "error" /\ e = marked)
        /\ a = "ok" => n \in tasks'
  BY DEF Insert
<1>5. e \in Entries /\ e.op = Entry(s).op /\ (Entry(s).fault => e.fault)
      /\ (e = marked => e.fault)
  BY <1>2, <1>3
<1> HIDE DEF marked
<1>6. PICK f \in Entries : /\ req' = [req EXCEPT ![s] = Idle]
                           /\ log' = [log EXCEPT ![n] = f]
                           /\ f.op = e.op /\ f.fault = e.fault
                           /\ f.answer = a
  BY <1>4, <1>5, Ends DEF Answers
<1>7. n \in tasks' => n \in tasks \/ f.answer = "ok" \/ (f.answer = "error" /\ f.fault)
  BY <1>4, <1>5, <1>6
<1>8. /\ f.op = Entry(s).op /\ (Entry(s).fault => f.fault)
      /\ tasks \subseteq tasks' /\ tasks' \subseteq tasks \cup {n}
      /\ f.answer = "ok" => n \in tasks'
  BY <1>4, <1>5, <1>6
<1>9. Becomes(s, Idle, f)
  BY <1>1, <1>6, <1>7, <1>8 DEF Becomes, Told
<1> QED
  BY <1>9

LEMMA ServeBecomes ==
    ASSUME Inv, NEW s \in Slots, Serve(s)
    PROVE  req[s] # Idle /\ \E r, e : Becomes(s, r, e)
<1>1. req[s] # Idle
  BY DEF Serve, Gate, Count, ShortCircuit, Audio, Write, Whisper, Remove, Call, Insert, Idle
<1> QED
  BY <1>1, BeforeCalls, WithFile, Completing, Inserting DEF Serve

(* Such a step keeps what is said of files and tasks. *)
LEMMA TracesKept ==
    ASSUME Inv, Traces, NEW s \in Slots, req[s] # Idle, NEW r, NEW e, Becomes(s, r, e)
    PROVE  Traces'
<1> DEFINE n == req[s].n
<1>1. /\ n \in 1..asked /\ Entry(s) = log[n] /\ log[n].answer = "none"
      /\ \A t \in Slots : t # s /\ req[t] # Idle => req[t].n # n
  BY InHand DEF Entry, Traces, Unanswered, Inv, Apart
<1>2. /\ req'[s] = r /\ \A t \in Slots : t # s => req'[t] = req[t]
      /\ log'[n] = e /\ \A m \in 1..asked : m # n => log'[m] = log[m]
      /\ asked' = asked
  BY <1>1 DEF Becomes, Inv, TypeOK
<1>3. Unanswered'
  BY <1>1, <1>2, InHand DEF Becomes, Traces, Unanswered, Entry
<1>4. RecordingsRemoved'
  <2> SUFFICES ASSUME NEW m \in files'
               PROVE  \/ \E t \in Slots : req'[t] # Idle /\ req'[t].n = m /\ AtWork(req'[t])
                      \/ log'[m].answer = "lost" \/ log'[m].fault
    BY DEF RecordingsRemoved, AtWork
  <2>1. CASE m # n
    <3>1. m \in files /\ m \in 1..asked
      BY <2>1 DEF Becomes, Traces
    <3>2. \/ \E t \in Slots : req[t] # Idle /\ req[t].n = m /\ AtWork(req[t])
          \/ log[m].answer = "lost" \/ log[m].fault
      BY <3>1 DEF Traces, RecordingsRemoved, AtWork
    <3> QED
      BY <1>2, <2>1, <3>1, <3>2
  <2>2. CASE m = n
    <3>1. n \in files /\ ~AtWork(req[s]) => log[n].fault
      BY <1>1 DEF Traces, RecordingsRemoved, AtWork
    <3>2. \/ r # Idle /\ AtWork(r) /\ r.n = n
          \/ e.fault
      BY <1>1, <2>2, <3>1 DEF Becomes
    <3> QED
      BY <1>2, <2>2, <3>2
  <2> QED
    BY <2>1, <2>2
<1>5. TasksTold'
  <2>1. n \notin tasks
    BY <1>1 DEF Traces, TasksTold, Told
  <2> QED
    BY <1>2, <2>1 DEF Becomes, Traces, TasksTold, Told
<1>6. ToldTasks'
  <2>1. r # Idle => e.answer = "none"
    BY <1>1 DEF Becomes
  <2> QED
    BY <1>2, <2>1 DEF Becomes, Traces, ToldTasks
<1> QED
  BY <1>1, <1>2, <1>3, <1>4, <1>5, <1>6 DEF Traces, Becomes

LEMMA TracesInv == Inv /\ Traces /\ [Next]_vars => Traces'
<1> SUFFICES ASSUME Inv, Traces, [Next]_vars PROVE Traces'
  OBVIOUS
<1>1. ASSUME NEW s \in Slots, NEW u \in Users, NEW op \in Ops, Ask(s, u, op)
      PROVE  Traces'
  <2> DEFINE e == [user |-> u, op |-> op, counted |-> FALSE, calls |-> 0,
                   fault |-> FALSE, answer |-> "none"]
  <2>1. /\ asked' = asked + 1 /\ asked \in Nat /\ UNCHANGED <<files, tasks>>
        /\ req[s] = Idle /\ req'[s].n = asked + 1
        /\ \A t \in Slots : t # s => req'[t] = req[t]
    BY <1>1 DEF Ask, Inv, TypeOK
  <2>2. /\ \A m \in 1..asked : log'[m] = log[m]
        /\ log'[asked + 1] = e
        /\ 1..asked' = (1..asked) \cup {asked + 1}
        /\ asked + 1 \notin 1..asked
    BY <1>1, <2>1 DEF Ask
  <2>3. e.answer = "none"
    OBVIOUS
  <2> HIDE DEF e
  <2>4. Unanswered'
    BY <2>1, <2>2, <2>3, InHand DEF Traces, Unanswered, Entry
  <2>5. RecordingsRemoved'
    <3> SUFFICES ASSUME NEW m \in files'
                 PROVE  \/ \E t \in Slots : req'[t] # Idle /\ req'[t].n = m /\ AtWork(req'[t])
                        \/ log'[m].answer = "lost" \/ log'[m].fault
      BY DEF RecordingsRemoved, AtWork
    <3>1. /\ m \in 1..asked
          /\ \/ \E t \in Slots : req[t] # Idle /\ req[t].n = m /\ AtWork(req[t])
             \/ log[m].answer = "lost" \/ log[m].fault
      BY <2>1 DEF Traces, RecordingsRemoved, AtWork
    <3> QED
      BY <2>1, <2>2, <3>1
  <2>6. TasksTold' /\ ToldTasks'
    BY <2>1, <2>2, <2>3 DEF Traces, TasksTold, Told, ToldTasks
  <2> QED
    BY <2>1, <2>2, <2>4, <2>5, <2>6 DEF Traces
<1>2. ASSUME NEW s \in Slots, Serve(s)
      PROVE  Traces'
  BY <1>2, ServeBecomes, TracesKept
<1>3. ASSUME NEW w \in Workers, Crash(w)
      PROVE  Traces'
  <2> DEFINE hit == {s \in Slots : WorkerOf[s] = w /\ req[s] # Idle}
             Hit(m) == \E s \in hit : req[s].n = m
  <2>1. /\ UNCHANGED <<files, tasks, asked>>
        /\ \A s \in Slots : req'[s] = IF s \in hit THEN Idle ELSE req[s]
        /\ \A m \in 1..asked :
              log'[m] = IF Hit(m) THEN [log[m] EXCEPT !.answer = "lost"] ELSE log[m]
    BY <1>3 DEF Crash
  <2>2. \A m \in 1..asked :
          /\ log'[m].fault = log[m].fault /\ log'[m].op = log[m].op
          /\ Hit(m) => log'[m].answer = "lost" /\ log[m].answer = "none"
          /\ ~Hit(m) => log'[m].answer = log[m].answer
    <3> SUFFICES ASSUME NEW m \in 1..asked
                 PROVE  /\ log'[m].fault = log[m].fault /\ log'[m].op = log[m].op
                        /\ Hit(m) => log'[m].answer = "lost" /\ log[m].answer = "none"
                        /\ ~Hit(m) => log'[m].answer = log[m].answer
      OBVIOUS
    <3>1. log[m] \in Entries
      BY DEF Inv, TypeOK
    <3>2. Hit(m) => log[m].answer = "none"
      BY DEF Traces, Unanswered, Entry
    <3> QED
      BY <2>1, <3>1, <3>2 DEF Entries
  <2>3. \A s \in hit : req[s].n \in 1..asked
    BY InHand
  <2>4. Unanswered'
    <3> SUFFICES ASSUME NEW s \in Slots, req'[s] # Idle
                 PROVE  log'[req'[s].n].answer = "none"
      BY DEF Unanswered, Entry
    <3>1. req'[s] = req[s] /\ s \notin hit /\ req[s].n \in 1..asked
      BY <2>1, InHand
    <3>2. ~Hit(req[s].n)
      BY <3>1 DEF Inv, Apart
    <3> QED
      BY <2>2, <3>1, <3>2 DEF Traces, Unanswered, Entry
  <2>5. RecordingsRemoved'
    <3> SUFFICES ASSUME NEW m \in files'
                 PROVE  \/ \E t \in Slots : req'[t] # Idle /\ req'[t].n = m /\ AtWork(req'[t])
                        \/ log'[m].answer = "lost" \/ log'[m].fault
      BY DEF RecordingsRemoved, AtWork
    <3>1. /\ m \in 1..asked
          /\ \/ \E t \in Slots : req[t] # Idle /\ req[t].n = m /\ AtWork(req[t])
             \/ log[m].answer = "lost" \/ log[m].fault
      BY <2>1 DEF Traces, RecordingsRemoved, AtWork
    <3>2. \A t \in Slots : req[t] # Idle /\ req[t].n = m /\ t \in hit => Hit(m)
      OBVIOUS
    <3> HIDE DEF hit
    <3>3. CASE Hit(m)
      BY <2>2, <3>1, <3>3
    <3>4. CASE ~Hit(m)
      BY <2>1, <2>2, <3>1, <3>2, <3>4
    <3> QED
      BY <3>3, <3>4
  <2> HIDE DEF hit
  <2>6. TasksTold'
    BY <2>1, <2>2 DEF Traces, TasksTold, Told
  <2>7. ToldTasks'
    BY <2>1, <2>2 DEF Traces, ToldTasks
  <2> QED
    BY <2>1, <2>4, <2>5, <2>6, <2>7 DEF Traces
<1>4. CASE UNCHANGED vars
  BY <1>4 DEF vars, Traces, Unanswered, RecordingsRemoved, TasksTold, Told, ToldTasks, Entry
<1> QED
  BY <1>1, <1>2, <1>3, <1>4 DEF Next, Quiet

LEMMA TracesHold == Spec => []Traces
<1>1. Init => Traces
  BY DEF Init, Traces, Unanswered, RecordingsRemoved, TasksTold, Told, ToldTasks
<1> QED
  BY <1>1, TracesInv, InvHolds, PTL DEF Spec

(* The recording of a user is on disk only while its request transcribes   *)
(* it, or after its process died or an operation on the file raised (the   *)
(* finally of the transcription in ai_routes.py).                          *)
THEOREM RecordingsGo == Spec => []RecordingsRemoved
<1>1. Traces => RecordingsRemoved
  BY DEF Traces
<1> QED
  BY <1>1, TracesHold, PTL

(* What a client is told of its task is so: told that it exists, it does,  *)
(* and told that it does not, it does not, unless the commit raised after  *)
(* the fact (insert_task and its callers in ai_routes.py).                 *)
THEOREM TasksAsTold == Spec => []AnswersTellTasks
<1>1. Traces => AnswersTellTasks
  BY DEF Traces, TasksTold, Told, ToldTasks, TellsTask, AnswersTellTasks
<1> QED
  BY <1>1, TracesHold, PTL
-----------------------------------------------------------------------------
(* AIRequests implements Ledger. *)

(* The books do not change when every entry keeps what is written in them, *)
(* and new entries have nothing to write.                                  *)
LEMMA SameBooks ==
    ASSUME asked \in Nat, asked' \in Nat, asked <= asked',
           \A n \in 1..asked : /\ log'[n].user = log[n].user
                               /\ log'[n].counted = log[n].counted
                               /\ log'[n].fault = log[n].fault,
           \A n \in 1..asked' : n > asked => ~log'[n].counted /\ ~log'[n].fault
    PROVE  Granted' = Granted /\ Faulty' = Faulty
<1>1. \A n \in 1..asked' : n \in 1..asked \/ n > asked
  OBVIOUS
<1>2. 1..asked \subseteq 1..asked'
  OBVIOUS
<1>3. \A u \in Users : Units(u)' = Units(u)
  BY <1>1, <1>2 DEF Units
<1>4. Faulty' = Faulty
  BY <1>1, <1>2 DEF Faulty
<1> QED
  BY <1>3, <1>4 DEF Granted

(* A request writes in its entry that something of it raised.              *)
LEMMA FaultGrows ==
    ASSUME Inv, NEW s \in Slots, req[s] # Idle, NEW e \in Entries,
           log' = [log EXCEPT ![req[s].n] = e], asked' = asked,
           Entry(s).fault => e.fault
    PROVE  Cardinality(Faulty)' = IF e.fault /\ ~Entry(s).fault
                                  THEN Cardinality(Faulty) + 1 ELSE Cardinality(Faulty)
<1> DEFINE n == req[s].n
<1>1. n \in 1..asked /\ log \in [1..asked -> Entries] /\ asked \in Nat
  BY InHand DEF Inv, TypeOK
<1>2. IsFiniteSet(Faulty)
  <2>1. Faulty \subseteq 1..asked /\ IsFiniteSet(1..asked)
    BY <1>1, FS_Interval DEF Faulty
  <2> QED
    BY <2>1, FS_Subset
<1>3. log'[n] = e /\ \A m \in 1..asked : m # n => log'[m] = log[m]
  BY <1>1
<1>4. CASE e.fault /\ ~Entry(s).fault
  <2>1. n \notin Faulty /\ Faulty' = Faulty \cup {n}
    BY <1>1, <1>3, <1>4 DEF Faulty, Entry
  <2> QED
    BY <1>2, <1>4, <2>1, FS_AddElement
<1>5. CASE ~(e.fault /\ ~Entry(s).fault)
  <2>1. Faulty' = Faulty
    BY <1>1, <1>3, <1>5 DEF Faulty, Entry
  <2> QED
    BY <1>5, <2>1
<1> QED
  BY <1>4, <1>5

(* A request that has kept its unit, or done without, changes no grant.    *)
LEMMA SameGrants ==
    ASSUME Inv, NEW s \in Slots, req[s] # Idle, NEW e \in Entries,
           log' = [log EXCEPT ![req[s].n] = e], asked' = asked,
           e.user = Entry(s).user, e.counted = Entry(s).counted
    PROVE  Granted' = Granted
<1>1. req[s].n \in 1..asked /\ log \in [1..asked -> Entries]
  BY InHand DEF Inv, TypeOK
<1>2. log'[req[s].n] = e /\ \A m \in 1..asked : m # req[s].n => log'[m] = log[m]
  BY <1>1
<1>3. \A u \in Users : Units(u)' = Units(u)
  BY <1>1, <1>2 DEF Units, Entry
<1> QED
  BY <1>3 DEF Granted

(* How the steps of a thread write in the entry of its request.            *)
Written(s) ==
    {Entry(s), [Entry(s) EXCEPT !.fault = TRUE], [Entry(s) EXCEPT !.calls = @ + 1]}
Writes(s, e) == UNCHANGED log \/ Record(s, e) \/ \E a \in Answers : Answer(s, e, a)

LEMMA WritesEntry ==
    ASSUME Inv, NEW s \in Slots, req[s] # Idle, NEW e \in Written(s), Writes(s, e)
    PROVE  \E f \in Entries : /\ log' = [log EXCEPT ![req[s].n] = f]
                              /\ f.user = Entry(s).user /\ f.counted = Entry(s).counted
                              /\ f.fault \in {Entry(s).fault, e.fault}
                              /\ Entry(s).fault => f.fault
<1>1. Entry(s) \in Entries /\ req[s].n \in 1..asked /\ log \in [1..asked -> Entries]
  BY InHand DEF Inv, TypeOK
<1>2. /\ e \in Entries /\ e.user = Entry(s).user /\ e.counted = Entry(s).counted
      /\ Entry(s).fault => e.fault
  <2>1. CASE e = Entry(s)
    BY <1>1, <2>1
  <2>2. CASE e = [Entry(s) EXCEPT !.fault = TRUE]
    BY <1>1, <2>2 DEF Entries
  <2>3. CASE e = [Entry(s) EXCEPT !.calls = @ + 1]
    BY <1>1, <2>3 DEF Entries
  <2> QED
    BY <2>1, <2>2, <2>3 DEF Written
<1>3. CASE UNCHANGED log
  <2>1. log' = [log EXCEPT ![req[s].n] = Entry(s)]
    BY <1>1, <1>3 DEF Entry
  <2> QED
    BY <1>1, <2>1
<1>4. CASE Record(s, e)
  BY <1>2, <1>4 DEF Record
<1>5. ASSUME NEW a \in Answers, Answer(s, e, a)
      PROVE  \E f \in Entries : /\ log' = [log EXCEPT ![req[s].n] = f]
                                /\ f.user = Entry(s).user /\ f.counted = Entry(s).counted
                                /\ f.fault \in {Entry(s).fault, e.fault}
                                /\ Entry(s).fault => f.fault
  <2> DEFINE f == [e EXCEPT !.answer = a]
  <2>1. f \in Entries /\ f.user = e.user /\ f.counted = e.counted /\ f.fault = e.fault
    BY <1>2 DEF Entries
  <2>2. log' = [log EXCEPT ![req[s].n] = f]
    BY <1>5 DEF Answer, Record
  <2> QED
    BY <1>2, <2>1, <2>2
<1> QED
  BY <1>3, <1>4, <1>5 DEF Writes

(* A step of a thread but the one that counts: no unit, one fault at most. *)
LEMMA UncountedStep ==
    ASSUME Inv, NEW s \in Slots, req[s] # Idle, NEW e \in Written(s), Writes(s, e),
           UNCHANGED <<used, asked>>
    PROVE  Counter!Fail \/ UNCHANGED <<used, Granted, Cardinality(Faulty)>>
<1>1. PICK f \in Entries : /\ log' = [log EXCEPT ![req[s].n] = f]
                           /\ f.user = Entry(s).user /\ f.counted = Entry(s).counted
                           /\ Entry(s).fault => f.fault
  BY WritesEntry
<1>2. Granted' = Granted
  BY <1>1, SameGrants
<1>3. Cardinality(Faulty)' \in {Cardinality(Faulty), Cardinality(Faulty) + 1}
  BY <1>1, FaultGrows
<1> QED
  BY <1>2, <1>3 DEF Counter!Fail

(* The unit that a request takes is granted to its user.                   *)
LEMMA UnitGranted ==
    ASSUME Inv, NEW s \in Slots, req[s] # Idle, ~Entry(s).counted, NEW e \in Entries,
           log' = [log EXCEPT ![req[s].n] = e], asked' = asked,
           e.user = Entry(s).user, e.counted
    PROVE  Granted' = Counter!Grow(Granted, Entry(s).user)
<1>1. PICK n \in 1..asked : n = req[s].n
  BY InHand
<1>0. log \in [1..asked -> Entries] /\ asked \in Nat
  BY DEF Inv, TypeOK
<1>2. PICK u \in Users : u = Entry(s).user
  BY <1>0, <1>1 DEF Entries, Entry
<1>3. log'[n] = e /\ \A m \in 1..asked : m # n => log'[m] = log[m]
  BY <1>0, <1>1
<1>4. \A v \in Users : v # u => Units(v)' = Units(v)
  BY <1>1, <1>2, <1>3 DEF Units, Entry
<1>5. n \notin Units(u) /\ Units(u)' = Units(u) \cup {n}
  <2>1. \A m \in 1..asked : m \in Units(u)' <=> m \in Units(u) \/ m = n
    BY <1>1, <1>2, <1>3 DEF Units, Entry
  <2>2. n \notin Units(u) /\ Units(u) \subseteq 1..asked /\ Units(u)' \subseteq 1..asked
    BY <1>1 DEF Units, Entry
  <2> QED
    BY <2>1, <2>2
<1>6. IsFiniteSet(Units(u))
  <2>1. Units(u) \subseteq 1..asked /\ IsFiniteSet(1..asked)
    BY <1>0, FS_Interval DEF Units
  <2> QED
    BY <2>1, FS_Subset
<1>7. Cardinality(Units(u)') = Cardinality(Units(u)) + 1
  BY <1>5, <1>6, FS_AddElement
<1>8. \A v \in Users : Granted'[v] = IF v = u THEN Granted[v] + 1 ELSE Granted[v]
  BY <1>4, <1>7 DEF Granted
<1> QED
  BY <1>2, <1>8 DEF Granted, Counter!Grow

(* check_and_increment takes the unit of a request, refuses it because     *)
(* there is none left, or fails.                                           *)
LEMMA CountStep ==
    ASSUME Inv, NEW s \in Slots, Count(s)
    PROVE  Counter!Next \/ UNCHANGED <<used, Granted, Cardinality(Faulty)>>
<1> DEFINE u == Entry(s).user
           n == req[s].n
           marked == [Entry(s) EXCEPT !.fault = TRUE]
<1>1. req[s] # Idle /\ req[s].pc = "count" /\ UNCHANGED asked
  BY DEF Count, Idle
<1>2. /\ n \in 1..asked /\ log \in [1..asked -> Entries] /\ Entry(s) \in Entries
      /\ u \in Users /\ ~Entry(s).counted /\ ~Entry(s).fault
  BY <1>1, InHand DEF Inv, TypeOK, WithinBudget, Budget, Entries
<1>3. Counter!Left(u) <=> used[u] < Limit
  BY AIRequestsConstants DEF Counter!Left
<1>4. CASE /\ used' = [used EXCEPT ![u] = @ + 1] /\ used[u] < Limit
           /\ Record(s, [Entry(s) EXCEPT !.counted = TRUE])
  <2> DEFINE e == [Entry(s) EXCEPT !.counted = TRUE]
  <2>1. e \in Entries /\ e.user = u /\ e.counted /\ e.fault = Entry(s).fault
    BY <1>2 DEF Entries
  <2>2. log' = [log EXCEPT ![n] = e]
    BY <1>4 DEF Record
  <2> HIDE DEF e
  <2>3. Granted' = Counter!Grow(Granted, u)
    BY <1>1, <1>2, <2>1, <2>2, UnitGranted
  <2>4. Cardinality(Faulty)' = Cardinality(Faulty)
    BY <1>1, <1>2, <2>1, <2>2, FaultGrows
  <2> QED
    BY <1>2, <1>3, <1>4, <2>3, <2>4 DEF Counter!Next, Counter!Take, Counter!Grow
<1>5. CASE /\ used' = [used EXCEPT ![u] = @ + 1] /\ ~(used[u] < Limit)
           /\ Answer(s, Entry(s), "refused")
  <2>1. Writes(s, Entry(s)) /\ Entry(s) \in Written(s)
    BY <1>5 DEF Writes, Written, Answers
  <2>2. PICK f \in Entries : /\ log' = [log EXCEPT ![n] = f]
                             /\ f.user = u /\ f.counted = Entry(s).counted
                             /\ f.fault = Entry(s).fault
    BY <1>1, <2>1, WritesEntry
  <2>3. Granted' = Granted /\ Cardinality(Faulty)' = Cardinality(Faulty)
    BY <1>1, <2>2, SameGrants, FaultGrows
  <2> QED
    BY <1>2, <1>3, <1>5, <2>3 DEF Counter!Next, Counter!Take, Counter!Grow
<1>6. CASE UNCHANGED used /\ Answer(s, Entry(s), "refused")
  <2>1. Writes(s, Entry(s)) /\ Entry(s) \in Written(s)
    BY <1>6 DEF Writes, Written, Answers
  <2> QED
    BY <1>1, <1>6, <2>1, UncountedStep DEF Counter!Next
<1>7. CASE used' = [used EXCEPT ![u] = @ + 1] /\ Answer(s, marked, "refused")
  <2>1. PICK f \in Entries : /\ log' = [log EXCEPT ![n] = f]
                             /\ f.user = u /\ f.counted = Entry(s).counted /\ f.fault
    <3> DEFINE f == [marked EXCEPT !.answer = "refused"]
    <3>1. f \in Entries /\ f.user = u /\ f.counted = Entry(s).counted /\ f.fault
      BY <1>2 DEF Entries, Answers
    <3>2. log' = [log EXCEPT ![n] = f]
      BY <1>7 DEF Answer, Record
    <3> QED
      BY <3>1, <3>2
  <2>2. Granted' = Granted /\ Cardinality(Faulty)' = Cardinality(Faulty) + 1
    BY <1>1, <1>2, <2>1, SameGrants, FaultGrows
  <2> QED
    BY <1>2, <1>7, <2>2 DEF Counter!Next, Counter!Fail, Counter!Grow
<1> QED
  BY <1>4, <1>5, <1>6, <1>7 DEF Count

(* Every other step of a thread leaves the quota alone.                    *)
LEMMA OtherStep ==
    ASSUME Inv, NEW s \in Slots, Serve(s), ~Count(s)
    PROVE  Counter!Next \/ UNCHANGED <<used, Granted, Cardinality(Faulty)>>
<1>1. req[s] # Idle /\ UNCHANGED <<used, asked>>
  BY DEF Serve, Gate, ShortCircuit, Audio, Write, Whisper, Remove, Call, Insert, Idle
<1>2. \E e \in Written(s) : Writes(s, e)
  <2> USE DEF Written, Writes, Answers
  <2>1. CASE Gate(s) \/ ShortCircuit(s) \/ Audio(s)
    BY <2>1 DEF Gate, ShortCircuit, Audio
  <2>2. CASE Write(s) \/ Whisper(s)
    BY <2>2 DEF Write, Whisper
  <2>3. CASE Remove(s)
    <3>1. PICK e \in {Entry(s), [Entry(s) EXCEPT !.fault = TRUE]} : Heard(s, e)
      BY <2>3 DEF Remove
    <3> QED
      BY <3>1 DEF Heard
  <2>4. CASE Call(s)
    <3> DEFINE e == [Entry(s) EXCEPT !.calls = @ + 1]
    <3>1. \E next : Continue(s, e, next) /\ next \in {"ok", "insert", "again", "retry"}
      BY <2>4 DEF Call, Outcomes, Fallback
    <3>2. Record(s, e) \/ Answer(s, e, "ok")
      BY <3>1 DEF Continue
    <3> QED
      BY <3>2
  <2>5. CASE Insert(s)
    BY <2>5 DEF Insert
  <2> QED
    BY <2>1, <2>2, <2>3, <2>4, <2>5 DEF Serve
<1> QED
  BY <1>1, <1>2, UncountedStep DEF Counter!Next

LEMMA LedgerStep ==
    ASSUME Inv, [Next]_vars
    PROVE  Counter!Next \/ UNCHANGED <<used, Granted, Cardinality(Faulty)>>
<1>0. asked \in Nat /\ log \in [1..asked -> Entries]
  BY DEF Inv, TypeOK
<1>1. CASE \E s \in Slots : Serve(s)
  BY <1>1, CountStep, OtherStep
<1>2. CASE \E s \in Slots, u \in Users, op \in Ops : Ask(s, u, op)
  <2>1. PICK u \in Users, op \in Ops :
          /\ UNCHANGED used /\ asked' = asked + 1
          /\ log' = [n \in 1..asked + 1 |->
                        IF n <= asked THEN log[n]
                        ELSE [user |-> u, op |-> op, counted |-> FALSE, calls |-> 0,
                              fault |-> FALSE, answer |-> "none"]]
    BY <1>2 DEF Ask
  <2>2. \A n \in 1..asked : log'[n] = log[n]
    BY <1>0, <2>1
  <2>3. \A n \in 1..asked' : n > asked => ~log'[n].counted /\ ~log'[n].fault
    BY <1>0, <2>1
  <2>4. Granted' = Granted /\ Faulty' = Faulty
    BY <1>0, <2>1, <2>2, <2>3, SameBooks
  <2> QED
    BY <2>1, <2>4
<1>3. CASE \E w \in Workers : Crash(w)
  <2>1. /\ UNCHANGED <<used, asked>>
        /\ \A n \in 1..asked : log'[n] = log[n] \/ log'[n] = [log[n] EXCEPT !.answer = "lost"]
    BY <1>3 DEF Crash
  <2>2. \A n \in 1..asked : /\ log'[n].user = log[n].user
                            /\ log'[n].counted = log[n].counted
                            /\ log'[n].fault = log[n].fault
    BY <1>0, <2>1 DEF Entries
  <2>3. Granted' = Granted /\ Faulty' = Faulty
    BY <1>0, <2>1, <2>2, SameBooks
  <2> QED
    BY <2>1, <2>3
<1>4. CASE UNCHANGED vars
  BY <1>4 DEF vars, Granted, Units, Faulty
<1> QED
  BY <1>1, <1>2, <1>3, <1>4 DEF Next, Quiet

(* The routes see the quota as the ledger that Quota implements: a request *)
(* takes its unit in the one step of check_and_increment, the provider is  *)
(* called for granted units only, and no death of a process, retry or      *)
(* fallback afterwards takes a unit or gives one back (ai_routes.py).      *)
THEOREM RoutesKeepLedger == Spec => ImplementsLedger
<1>1. Init => Counter!Init
  <2> SUFFICES ASSUME Init PROVE Counter!Init
    OBVIOUS
  <2>1. asked = 0 /\ 1..asked = {}
    BY DEF Init
  <2>2. Faulty = {} /\ \A u \in Users : Units(u) = {}
    BY <2>1 DEF Faulty, Units
  <2>3. Cardinality(Faulty) = 0 /\ \A u \in Users : Cardinality(Units(u)) = 0
    BY <2>2, FS_EmptySet
  <2> QED
    BY <2>3 DEF Init, Counter!Init, Granted
<1>2. Inv /\ [Next]_vars => [Counter!Next]_<<used, Granted, Cardinality(Faulty)>>
  BY LedgerStep
<1> QED
  BY <1>1, <1>2, InvHolds, PTL DEF Spec, ImplementsLedger, Counter!Spec
=============================================================================
