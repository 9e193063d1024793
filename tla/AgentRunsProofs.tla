-------------------------- MODULE AgentRunsProofs --------------------------
(***************************************************************************)
(* Proofs about AgentRuns, for any users, actions, threads, processes and  *)
(* bounds: its type invariant, the safety invariants that hold while       *)
(* requests interleave, round trips fail and processes die, and that it    *)
(* implements ActionOnce.                                                  *)
(***************************************************************************)
EXTENDS AgentRunsMC, TLAPS

(* What a request carries at its later steps: a registered name once its   *)
(* run is known, and an outcome once its executor has been called.         *)
Carries ==
    \A s \in Slots :
        /\ req[s].pc \in {"check", "defer", "begin", "run", "finish", "cancel"}
           => req[s].name \in Names
        /\ req[s].pc = "finish" => req[s].outcome \in {"completed", "failed"}

TypeInv == TypeOK /\ Carries

(* A slot that is somewhere is serving a request. *)
LEMMA Serving ==
    ASSUME TypeInv, NEW s \in Slots, req[s].pc # "idle"
    PROVE  req[s] \in Requests
  BY DEF TypeInv, TypeOK, Idle

LEMMA RowTypes ==
    ASSUME NEW row \in Rows \cup {NoRow}, NEW u \in Users, NEW n \in Names,
           NEW st \in Statuses
    PROVE  /\ Upserted(row, u, n, st) \in Rows
           /\ Remembered(row, u, n, st) \in Rows
           /\ OwnedBy(row, u) \in Rows \cup {NoRow}
<1>1. CASE row = NoRow
  BY <1>1 DEF Upserted, Remembered, OwnedBy, Rows
<1>2. CASE row # NoRow
  <2>1. row \in Rows
    BY <1>2
  <2> QED
    BY <1>2, <2>1 DEF Upserted, Remembered, OwnedBy, Rows
<1> QED
  BY <1>1, <1>2

LEMMA AgentRunType ==
    ASSUME TypeOK, NEW w \in Workers, NEW u \in Users, NEW a \in ActionIds,
           NEW b \in BOOLEAN
    PROVE  AgentRun(w, u, a, b) \in Rows \cup {NoRow}
  BY DEF TypeOK, AgentRun, RunInDb, OwnedBy

(* _persist_run keeps the types of what it writes. *)
LEMMA PersistType ==
    ASSUME TypeInv, NEW s \in Slots, req[s].pc # "idle", req[s].name \in Names,
           NEW st \in Statuses, NEW b \in BOOLEAN, Persist(s, st, b)
    PROVE  /\ runs' \in [ActionIds -> Rows \cup {NoRow}]
           /\ mem' \in [Workers -> [ActionIds -> Rows \cup {NoRow}]]
           /\ faults' \in 0..MaxFaults
<1> DEFINE a == req[s].id
           u == req[s].user
           n == req[s].name
           w == WorkerOf[s]
<1>1. a \in ActionIds /\ u \in Users /\ n \in Names /\ w \in Workers
  BY Serving, ConstantsOK DEF Requests
<1>2. faults' \in 0..MaxFaults
  BY ConstantsOK DEF Persist, RoundTrip, TypeInv, TypeOK
<1>3. CASE b
  <2>1. runs' = [runs EXCEPT ![a] = Upserted(@, u, n, st)] /\ mem' = mem
    BY <1>3 DEF Persist
  <2>2. Upserted(runs[a], u, n, st) \in Rows
    BY <1>1, RowTypes DEF TypeInv, TypeOK
  <2> QED
    BY <1>1, <1>2, <2>1, <2>2 DEF TypeInv, TypeOK
<1>4. CASE ~b
  <2>1. mem' = [mem EXCEPT ![w][a] = Remembered(@, u, n, st)] /\ runs' = runs
    BY <1>4 DEF Persist
  <2>2. Remembered(mem[w][a], u, n, st) \in Rows
    BY <1>1, RowTypes DEF TypeInv, TypeOK
  <2> QED
    BY <1>1, <1>2, <2>1, <2>2 DEF TypeInv, TypeOK
<1> QED
  BY <1>3, <1>4

(* A new request starts at one of three steps; the client of               *)
(* /agent/execute names a registered action.                               *)
LEMMA Arrives ==
    ASSUME NEW s \in Slots, Arrive(s)
    PROVE  \E r \in Requests : /\ Start(s, r) /\ r.pc \in {"pick", "lookup", "check"}
                               /\ r.pc = "check" => r.name \in Names
<1> USE DEF Registry
<1>1. PICK u \in Users, a \in ActionIds :
        \/ \E n \in Names, flag \in BOOLEAN : Execute(s, u, a, n, flag)
        \/ Resume(s, "approve", u, a)
        \/ Resume(s, "retry", u, a)
        \/ Cancel(s, u, a)
  BY DEF Arrive
<1>2. ASSUME NEW n \in Names, NEW flag \in BOOLEAN, Execute(s, u, a, n, flag)
      PROVE  \E r \in Requests : /\ Start(s, r) /\ r.pc = "check"
                                 /\ r.name \in Names
  <2> DEFINE r == [pc |-> "check", op |-> "execute", user |-> u, id |-> a, name |-> n,
                   executor |-> ExecutorFor(n), approved |-> flag, outcome |-> "none"]
  <2>1. r \in Requests /\ r.pc = "check" /\ r.name \in Names
    BY <1>2, ConstantsOK DEF Requests, ExecutorFor
  <2>2. Start(s, r)
    BY <1>2 DEF Execute
  <2> QED
    BY <2>1, <2>2
<1>3. ASSUME NEW op \in {"approve", "retry"}, Resume(s, op, u, a)
      PROVE  \E r \in Requests : Start(s, r) /\ r.pc = "pick"
  <2> DEFINE r == [pc |-> "pick", op |-> op, user |-> u, id |-> a, name |-> "unknown",
                   executor |-> NoExecutor, approved |-> FALSE, outcome |-> "none"]
  <2>1. r \in Requests /\ r.pc = "pick"
    BY DEF Requests
  <2>2. Start(s, r)
    BY <1>3 DEF Resume
  <2> QED
    BY <2>1, <2>2
<1>4. ASSUME Cancel(s, u, a)
      PROVE  \E r \in Requests : Start(s, r) /\ r.pc = "lookup"
  <2> DEFINE r == [pc |-> "lookup", op |-> "cancel", user |-> u, id |-> a,
                   name |-> "unknown", executor |-> NoExecutor, approved |-> FALSE,
                   outcome |-> "none"]
  <2>1. r \in Requests /\ r.pc = "lookup"
    BY DEF Requests
  <2>2. Start(s, r)
    BY <1>4 DEF Cancel
  <2> QED
    BY <2>1, <2>2
<1> QED
  BY <1>1, <1>2, <1>3, <1>4

(* What a step that only reads does to its request. *)
Moves(s, r) ==
    /\ req' = [req EXCEPT ![s] = r]
    /\ r.pc \in {"idle", "lookup", "cancel", "check", "defer", "begin"}
    /\ r.pc \in {"cancel", "check", "defer", "begin"} => r.name \in Names

(* The steps that only read leave rows and effects alone. *)
LEMMA Reads ==
    ASSUME TypeInv, NEW s \in Slots, PickExecutor(s) \/ LookUp(s) \/ CheckCompleted(s)
    PROVE  /\ \E r \in Requests \cup {Idle} : Moves(s, r)
           /\ faults' \in 0..MaxFaults /\ faults' >= faults
           /\ UNCHANGED <<runs, mem, effects, started, crashes>>
<1> USE DEF Registry
<1>1. req[s] \in Requests
  BY Serving DEF PickExecutor, LookUp, CheckCompleted
<1>2. faults' \in 0..MaxFaults /\ faults' >= faults
  <2>1. PICK b \in BOOLEAN : RoundTrip(b)
    BY Zenon DEF PickExecutor, LookUp, CheckCompleted
  <2> QED
    BY <2>1, ConstantsOK DEF RoundTrip, TypeInv, TypeOK
<1>3. UNCHANGED <<runs, mem, effects, started, crashes>>
  BY DEF PickExecutor, LookUp, CheckCompleted
<1>4. ASSUME PickExecutor(s)
      PROVE  \E r \in Requests \cup {Idle} : Moves(s, r)
  <2>1. PICK b \in BOOLEAN :
          /\ RoundTrip(b)
          /\ LET row == AgentRun(WorkerOf[s], req[s].user, req[s].id, b)
             IN  req' = [req EXCEPT ![s].pc = "lookup",
                                    ![s].executor = IF row = NoRow THEN NoExecutor
                                                    ELSE ExecutorFor(row.name)]
    BY <1>4 DEF PickExecutor
  <2> DEFINE row == AgentRun(WorkerOf[s], req[s].user, req[s].id, b)
             e == IF row = NoRow THEN NoExecutor ELSE ExecutorFor(row.name)
             new == [req[s] EXCEPT !.pc = "lookup", !.executor = e]
  <2>2. e \in Registry \cup {NoExecutor}
    BY DEF ExecutorFor
  <2>3. req' = [req EXCEPT ![s] = new]
    BY <2>1
  <2> HIDE DEF e
  <2>4. new \in Requests /\ new.pc = "lookup"
    BY <1>1, <2>2 DEF Requests
  <2> HIDE DEF new
  <2> QED
    BY <2>3, <2>4 DEF Moves
<1>5. ASSUME LookUp(s)
      PROVE  \E r \in Requests \cup {Idle} : Moves(s, r)
  <2>1. PICK b \in BOOLEAN :
          /\ RoundTrip(b)
          /\ LET r == req[s]
                 row == AgentRun(WorkerOf[s], r.user, r.id, b)
             IN  IF row # NoRow /\ Admits(r.op, row.status)
                 THEN req' = [req EXCEPT ![s] =
                       [r EXCEPT !.pc = IF r.op = "cancel" THEN "cancel" ELSE "check",
                                 !.name = row.name,
                                 !.approved = \/ r.op = "approve"
                                              \/ r.op = "retry" /\ ~RequiresApproval(row.name)]]
                 ELSE Return(s)
    BY <1>5 DEF LookUp
  <2> DEFINE row == AgentRun(WorkerOf[s], req[s].user, req[s].id, b)
             ok == \/ req[s].op = "approve"
                   \/ req[s].op = "retry" /\ ~RequiresApproval(row.name)
             lbl == IF req[s].op = "cancel" THEN "cancel" ELSE "check"
             new == [req[s] EXCEPT !.pc = lbl, !.name = row.name, !.approved = ok]
  <2>2. CASE row # NoRow /\ Admits(req[s].op, row.status)
    <3>1. row \in Rows
      BY <1>1, <2>2, AgentRunType, ConstantsOK DEF TypeInv, Requests
    <3>2. row.name \in Names
      BY <3>1 DEF Rows
    <3>3. ok \in BOOLEAN
      OBVIOUS
    <3> HIDE DEF row, ok
    <3>4. new \in Requests /\ new.name \in Names /\ new.pc \in {"cancel", "check"}
      BY <1>1, <3>2, <3>3 DEF Requests
    <3>5. req' = [req EXCEPT ![s] = new]
      BY <2>1, <2>2 DEF row, ok
    <3> HIDE DEF new
    <3> QED
      BY <3>4, <3>5 DEF Moves
  <2>3. CASE ~(row # NoRow /\ Admits(req[s].op, row.status))
    <3>1. req' = [req EXCEPT ![s] = Idle]
      BY <2>1, <2>3 DEF Return
    <3>2. Idle.pc = "idle"
      BY DEF Idle
    <3> QED
      BY <3>1, <3>2 DEF Moves
  <2> QED
    BY <2>2, <2>3
<1>6. ASSUME CheckCompleted(s)
      PROVE  \E r \in Requests \cup {Idle} : Moves(s, r)
  <2> DEFINE gated == RequiresApproval(req[s].name) /\ ~req[s].approved
             lbl == IF gated THEN "defer" ELSE "begin"
             new == [req[s] EXCEPT !.pc = lbl]
  <2>1. req' = [req EXCEPT ![s] = Idle] \/ req' = [req EXCEPT ![s] = new]
    BY <1>6, Zenon DEF CheckCompleted, Return, Goto
  <2>2. req[s].name \in Names
    BY <1>6 DEF CheckCompleted, TypeInv, Carries
  <2> HIDE DEF gated
  <2>3. new \in Requests /\ new.pc \in {"defer", "begin"} /\ new.name \in Names
    BY <1>1, <2>2 DEF Requests
  <2> HIDE DEF new
  <2> QED
    BY <2>1, <2>3 DEF Moves, Idle
<1> QED
  BY <1>2, <1>3, <1>4, <1>5, <1>6

(* Every step of a request, and every crash, keeps the types. *)
LEMMA TypeInvStep ==
    ASSUME TypeInv, [Next]_vars
    PROVE  TypeInv'
<1> USE DEF Statuses, Registry
<1>1. ASSUME NEW s \in Slots, Arrive(s)
      PROVE  TypeInv'
  <2>1. PICK r \in Requests : /\ Start(s, r) /\ r.pc \in {"pick", "lookup", "check"}
                              /\ r.pc = "check" => r.name \in Names
    BY <1>1, Arrives
  <2>2. started' \in 0..MaxRequests
    BY <2>1, ConstantsOK DEF Start, TypeInv, TypeOK
  <2> QED
    BY <2>1, <2>2 DEF Start, TypeInv, TypeOK, Carries
<1>2. ASSUME NEW s \in Slots, PickExecutor(s) \/ LookUp(s) \/ CheckCompleted(s)
      PROVE  TypeInv'
  <2>1. /\ faults' \in 0..MaxFaults
        /\ UNCHANGED <<runs, mem, effects, started, crashes>>
    BY <1>2, Reads
  <2>2. PICK r \in Requests \cup {Idle} : Moves(s, r)
    BY <1>2, Reads
  <2>3. req' \in [Slots -> Requests \cup {Idle}]
    BY <2>2 DEF Moves, TypeInv, TypeOK
  <2>4. Carries'
    <3>1. req'[s] = r /\ \A t \in Slots : t # s => req'[t] = req[t]
      BY <2>2 DEF Moves, TypeInv, TypeOK
    <3> QED
      BY <2>2, <3>1 DEF Moves, TypeInv, Carries
  <2> QED
    BY <2>1, <2>3, <2>4 DEF TypeInv, TypeOK
<1>3. ASSUME NEW s \in Slots, RunExecutor(s)
      PROVE  TypeInv'
  <2>1. req[s] \in Requests /\ req[s].name \in Names
    BY <1>3, Serving DEF RunExecutor, TypeInv, Carries
  <2> DEFINE e(v) == [user |-> req[s].user, name |-> req[s].executor, verified |-> v]
             a == req[s].id
  <2>2. \A v \in BOOLEAN : e(v) \in Effects
    BY <1>3, <2>1 DEF RunExecutor, Requests, Effects
  <2>3. effects' \in [ActionIds -> Seq(Effects)]
    <3>1. PICK v \in BOOLEAN : effects' = [effects EXCEPT ![a] = Append(@, e(v))]
      BY <1>3 DEF RunExecutor
    <3>2. effects \in [ActionIds -> Seq(Effects)] /\ e(v) \in Effects /\ a \in ActionIds
      BY <2>1, <2>2 DEF TypeInv, TypeOK, Requests
    <3> HIDE DEF e, a
    <3> QED
      BY <3>1, <3>2
  <2> QED
    BY <1>3, <2>1, <2>3 DEF RunExecutor, TypeInv, TypeOK, Carries, Requests
<1>4. ASSUME NEW s \in Slots, ExecutorRaises(s)
      PROVE  TypeInv'
  <2>1. req[s] \in Requests /\ req[s].name \in Names
    BY <1>4, Serving DEF ExecutorRaises, TypeInv, Carries
  <2> QED
    BY <1>4, <2>1 DEF ExecutorRaises, TypeInv, TypeOK, Carries, Requests
<1>5. ASSUME NEW s \in Slots, Begin(s)
      PROVE  TypeInv'
  <2>1. req[s] \in Requests /\ req[s].name \in Names
    BY <1>5, Serving DEF Begin, TypeInv, Carries
  <2>2. /\ runs' \in [ActionIds -> Rows \cup {NoRow}]
        /\ mem' \in [Workers -> [ActionIds -> Rows \cup {NoRow}]]
        /\ faults' \in 0..MaxFaults
    BY <1>5, <2>1, PersistType DEF Begin
  <2> QED
    BY <1>5, <2>1, <2>2 DEF Begin, Goto, TypeInv, TypeOK, Carries, Requests
<1>6. ASSUME NEW s \in Slots, CancelWrite(s) \/ Defer(s) \/ LeavePending(s) \/ Finish(s)
      PROVE  TypeInv'
  <2>1. req[s].pc # "idle" /\ req[s].name \in Names
    BY <1>6 DEF CancelWrite, Defer, LeavePending, Finish, TypeInv, Carries
  <2>2. PICK st \in Statuses, b \in BOOLEAN : Persist(s, st, b)
    BY <1>6 DEF CancelWrite, Defer, LeavePending, Finish, StatusWithoutExecutor,
                TypeInv, Carries
  <2>3. /\ runs' \in [ActionIds -> Rows \cup {NoRow}]
        /\ mem' \in [Workers -> [ActionIds -> Rows \cup {NoRow}]]
        /\ faults' \in 0..MaxFaults
    BY <2>1, <2>2, PersistType
  <2>4. req' = [req EXCEPT ![s] = Idle] /\ UNCHANGED <<effects, started, crashes>>
    BY <1>6 DEF CancelWrite, Defer, LeavePending, Finish, Return
  <2> QED
    BY <2>3, <2>4 DEF TypeInv, TypeOK, Carries, Idle
<1>7. ASSUME NEW w \in Workers, Crash(w)
      PROVE  TypeInv'
  <2>1. crashes' \in 0..MaxCrashes
    BY <1>7, ConstantsOK DEF Crash, TypeInv, TypeOK
  <2>2. mem' \in [Workers -> [ActionIds -> Rows \cup {NoRow}]]
    BY <1>7 DEF Crash, TypeInv, TypeOK
  <2>3. req' \in [Slots -> Requests \cup {Idle}]
    BY <1>7 DEF Crash, TypeInv, TypeOK
  <2> QED
    BY <1>7, <2>1, <2>2, <2>3 DEF Crash, TypeInv, TypeOK, Carries, Idle
<1>8. CASE UNCHANGED vars
  BY <1>8 DEF vars, TypeInv, TypeOK, Carries
<1> QED
  BY <1>1, <1>2, <1>3, <1>4, <1>5, <1>6, <1>7, <1>8
  DEF Next, Serve, Quiet

LEMMA TypeInvInit == Init => TypeInv
  BY ConstantsOK DEF Init, TypeInv, TypeOK, Carries, Idle

(* Whatever requests overlap, fail or die, rows carry a documented status, *)
(* a request is in one of its steps and the executed actions are           *)
(* registered ones.                                                        *)
THEOREM TypeCorrect == Spec => []TypeOK
<1>1. Spec => []TypeInv
  BY TypeInvInit, TypeInvStep, PTL DEF Spec
<1> QED
  BY <1>1, PTL DEF TypeInv

-----------------------------------------------------------------------------
(* The safety invariants, and what they need of each other to be inductive. *)

(* Only a failed round trip puts a row in the dictionary of a process. *)
FallbackNeedsFault ==
    faults = 0 => \A w \in Workers, a \in ActionIds : mem[w][a].status = "absent"

(* A request about to record "completed" has committed its effect. *)
CompletionHasEffect ==
    \A s \in Slots :
        req[s].pc = "finish" /\ req[s].outcome = "completed" => effects[req[s].id] # <<>>

(* From Begin on, the run has a row where its request can see it. *)
RunHasRow ==
    \A s \in Slots :
        req[s].pc \in {"run", "finish"}
        => \/ runs[req[s].id].status # "absent"
           \/ mem[WorkerOf[s]][req[s].id].status # "absent"

SafetyInv ==
    /\ FallbackNeedsFault /\ CompletionHasEffect /\ RunHasRow
    /\ CompletedHasEffect /\ EffectIsRecorded

(* Whoever has a status "absent" is no row, and the other way round. *)
LEMMA AbsentIsNoRow ==
    ASSUME NEW row \in Rows \cup {NoRow}
    PROVE  row = NoRow <=> row.status = "absent"
  BY DEF Rows, NoRow, Statuses

(* What _persist_run changes: the row of its action, in the table or in    *)
(* the dictionary of its process, and nothing of any other row.            *)
LEMMA PersistWrites ==
    ASSUME TypeInv, NEW s \in Slots, req[s].pc # "idle", req[s].name \in Names,
           NEW st \in Statuses, NEW b \in BOOLEAN, Persist(s, st, b)
    PROVE  /\ \A a \in ActionIds :
                 runs'[a] = runs[a] \/ (a = req[s].id /\ runs'[a].status = st)
           /\ \A w \in Workers, a \in ActionIds :
                 \/ mem'[w][a] = mem[w][a]
                 \/ a = req[s].id /\ mem'[w][a].status = st
           /\ \/ runs'[req[s].id].status = st
              \/ mem'[WorkerOf[s]][req[s].id].status = st
           /\ faults \in Nat /\ faults' \in Nat /\ faults' >= faults
           /\ faults' = 0 => faults = 0 /\ mem' = mem
<1> DEFINE a == req[s].id
           u == req[s].user
           n == req[s].name
           w == WorkerOf[s]
<1>1. a \in ActionIds /\ w \in Workers
  BY Serving, ConstantsOK DEF Requests
<1>2. /\ faults \in Nat /\ faults' \in Nat /\ faults' >= faults
      /\ b \/ faults' = faults + 1
  BY ConstantsOK DEF Persist, RoundTrip, TypeInv, TypeOK
<1>3. CASE b
  <2>1. runs' = [runs EXCEPT ![a] = Upserted(@, u, n, st)] /\ mem' = mem
    BY <1>3 DEF Persist
  <2>2. Upserted(runs[a], u, n, st).status = st
    BY <1>1 DEF Upserted, TypeInv, TypeOK, Rows
  <2> QED
    BY <1>1, <1>2, <2>1, <2>2 DEF TypeInv, TypeOK, Persist, RoundTrip
<1>4. CASE ~b
  <2>1. mem' = [mem EXCEPT ![w][a] = Remembered(@, u, n, st)] /\ runs' = runs
    BY <1>4 DEF Persist
  <2>2. Remembered(mem[w][a], u, n, st).status = st
    BY DEF Remembered
  <2> QED
    BY <1>1, <1>2, <1>4, <2>1, <2>2 DEF TypeInv, TypeOK
<1> QED
  BY <1>3, <1>4

(* A step that persists a status other than "completed", or one whose      *)
(* effect is committed, keeps the safety invariants; its request goes on   *)
(* to its executor or is over.                                             *)
LEMMA PersistSafe ==
    ASSUME TypeInv, SafetyInv,
           NEW s \in Slots, req[s].pc # "idle", req[s].name \in Names,
           NEW st \in Statuses, NEW b \in BOOLEAN, Persist(s, st, b),
           st = "completed" => effects[req[s].id] # <<>>,
           \/ req' = [req EXCEPT ![s] = Idle]
           \/ req' = [req EXCEPT ![s].pc = "run"],
           UNCHANGED <<effects, crashes>>
    PROVE  SafetyInv'
<1>1. req[s] \in Requests /\ req[s].id \in ActionIds
  BY Serving DEF Requests
<1>2. st # "absent"
  BY DEF Statuses
<1>3. /\ req'[s].pc \in {"idle", "run"}
      /\ req'[s].pc = "run" => req'[s].id = req[s].id
      /\ \A t \in Slots : t # s => req'[t] = req[t]
  BY <1>1 DEF TypeInv, TypeOK, Idle, Requests
<1>4. /\ \A a \in ActionIds :
            runs'[a] = runs[a] \/ (a = req[s].id /\ runs'[a].status = st)
      /\ \A w \in Workers, a \in ActionIds :
            mem'[w][a] = mem[w][a] \/ (a = req[s].id /\ mem'[w][a].status = st)
      /\ \/ runs'[req[s].id].status = st
         \/ mem'[WorkerOf[s]][req[s].id].status = st
      /\ faults \in Nat /\ faults' \in Nat /\ faults' >= faults
      /\ faults' = 0 => faults = 0 /\ mem' = mem
  BY PersistWrites
<1>5. \A t \in Slots : req[t].pc # "idle" => req[t].id \in ActionIds
  BY DEF TypeInv, TypeOK, Requests, Idle
<1>6. FallbackNeedsFault'
  BY <1>4 DEF SafetyInv, FallbackNeedsFault
<1>7. CompletionHasEffect'
  BY <1>3 DEF SafetyInv, CompletionHasEffect
<1>8. RunHasRow'
  BY <1>1, <1>2, <1>3, <1>4, <1>5, ConstantsOK DEF SafetyInv, RunHasRow
<1>9. CompletedHasEffect'
  BY <1>4 DEF SafetyInv, CompletedHasEffect
<1>10. EffectIsRecorded'
  <2> SUFFICES ASSUME NEW a \in ActionIds, effects[a] # <<>>,
                      runs'[a] = NoRow,
                      \A w \in Workers : mem'[w][a] = NoRow
               PROVE  faults' > 0 /\ crashes' > 0
    BY DEF EffectIsRecorded
  <2>1. a # req[s].id
    BY <1>1, <1>2, <1>4, ConstantsOK DEF NoRow
  <2>2. runs[a] = NoRow /\ \A w \in Workers : mem[w][a] = NoRow
    BY <1>4, <2>1
  <2> QED
    BY <1>4, <2>2 DEF SafetyInv, EffectIsRecorded
<1> QED
  BY <1>6, <1>7, <1>8, <1>9, <1>10 DEF SafetyInv

(* A step that leaves rows and effects alone, and takes no request past    *)
(* its begin, keeps them.                                                  *)
LEMMA QuietSafe ==
    ASSUME TypeInv, SafetyInv, UNCHANGED <<runs, mem, effects, crashes>>,
           NEW s \in Slots, req' = [req EXCEPT ![s] = req'[s]],
           \/ req'[s].pc \notin {"run", "finish"}
           \/ /\ req[s].pc = "run" /\ req'[s].pc = "finish"
              /\ req'[s].id = req[s].id /\ req'[s].outcome # "completed",
           faults' \in Nat, faults' >= faults
    PROVE  SafetyInv'
<1>1. \A t \in Slots : t # s => req'[t] = req[t]
  BY DEF TypeInv, TypeOK
<1>2. faults \in Nat
  BY ConstantsOK DEF TypeInv, TypeOK
<1>3. FallbackNeedsFault'
  BY <1>2 DEF SafetyInv, FallbackNeedsFault
<1>4. CompletionHasEffect'
  BY <1>1 DEF SafetyInv, CompletionHasEffect
<1>5. RunHasRow'
  BY <1>1 DEF SafetyInv, RunHasRow
<1>6. CompletedHasEffect' /\ EffectIsRecorded'
  BY <1>2 DEF SafetyInv, CompletedHasEffect, EffectIsRecorded
<1> QED
  BY <1>3, <1>4, <1>5, <1>6 DEF SafetyInv

LEMMA SafetyInvInit == Init => SafetyInv
  BY ConstantsOK
  DEF Init, SafetyInv, FallbackNeedsFault, CompletionHasEffect, RunHasRow,
      CompletedHasEffect, EffectIsRecorded, NoRow, Idle

LEMMA SafetyInvStep ==
    ASSUME TypeInv, SafetyInv, [Next]_vars
    PROVE  SafetyInv'
<1> USE DEF Statuses
<1>0. faults \in Nat /\ crashes \in Nat
  BY ConstantsOK DEF TypeInv, TypeOK
<1>1. ASSUME NEW s \in Slots, Arrive(s)
      PROVE  SafetyInv'
  <2>1. PICK r \in Requests : Start(s, r) /\ r.pc \in {"pick", "lookup", "check"}
    BY <1>1, Arrives
  <2>2. req'[s] = r /\ req' = [req EXCEPT ![s] = req'[s]]
    BY <2>1 DEF Start, TypeInv, TypeOK
  <2>3. UNCHANGED <<runs, mem, effects, faults, crashes>>
    BY <2>1 DEF Start
  <2> QED
    BY <1>0, <2>1, <2>2, <2>3, QuietSafe
<1>2. ASSUME NEW s \in Slots, PickExecutor(s) \/ LookUp(s) \/ CheckCompleted(s)
      PROVE  SafetyInv'
  <2>1. /\ faults' \in Nat /\ faults' >= faults
        /\ UNCHANGED <<runs, mem, effects, crashes>>
    BY <1>2, Reads, ConstantsOK
  <2>2. PICK r \in Requests \cup {Idle} : Moves(s, r)
    BY <1>2, Reads
  <2>3. req' = [req EXCEPT ![s] = req'[s]] /\ req'[s].pc \notin {"run", "finish"}
    BY <2>2 DEF Moves, TypeInv, TypeOK
  <2> QED
    BY <2>1, <2>3, QuietSafe
<1>3. ASSUME NEW s \in Slots, RunExecutor(s)
      PROVE  SafetyInv'
  <2> DEFINE a == req[s].id
             e(v) == [user |-> req[s].user, name |-> req[s].executor, verified |-> v]
  <2>1. req[s] \in Requests /\ a \in ActionIds
    BY <1>3, Serving DEF RunExecutor, Requests
  <2>2. /\ \E v \in BOOLEAN : effects' = [effects EXCEPT ![a] = Append(@, e(v))]
        /\ req' = [req EXCEPT ![s].pc = "finish", ![s].outcome = "completed"]
        /\ UNCHANGED <<runs, mem, faults, crashes>>
    BY <1>3 DEF RunExecutor
  <2>3. /\ effects'[a] # <<>>
        /\ \A b \in ActionIds : b # a => effects'[b] = effects[b]
    <3>1. effects[a] \in Seq(Effects)
      BY <2>1 DEF TypeInv, TypeOK
    <3> PICK v \in BOOLEAN : effects' = [effects EXCEPT ![a] = Append(@, e(v))]
      BY <2>2
    <3>2. effects'[a] = Append(effects[a], e(v))
      BY <2>1, <2>2 DEF TypeInv, TypeOK
    <3>3. Append(effects[a], e(v)) # <<>>
      <4> HIDE DEF a, e
      <4> QED
        BY <3>1
    <3> QED
      BY <2>2, <3>2, <3>3 DEF TypeInv, TypeOK
  <2>4. \A b \in ActionIds : effects[b] # <<>> => effects'[b] # <<>>
    BY <2>3
  <2>5. /\ req'[s].id = a
        /\ \A t \in Slots : t # s => req'[t] = req[t]
    BY <2>1, <2>2 DEF TypeInv, TypeOK, Requests
  <2>6. \A t \in Slots : req[t].pc # "idle" => req[t].id \in ActionIds
    BY DEF TypeInv, TypeOK, Requests, Idle
  <2>7. FallbackNeedsFault'
    BY <2>2 DEF SafetyInv, FallbackNeedsFault
  <2>8. CompletionHasEffect'
    BY <2>3, <2>4, <2>5, <2>6 DEF SafetyInv, CompletionHasEffect
  <2>9. RunHasRow'
    BY <1>3, <2>2, <2>5 DEF SafetyInv, RunHasRow, RunExecutor
  <2>10. CompletedHasEffect'
    BY <2>2, <2>4 DEF SafetyInv, CompletedHasEffect
  <2>11. EffectIsRecorded'
    <3>1. runs[a] # NoRow \/ mem[WorkerOf[s]][a] # NoRow
      BY <1>3 DEF RunExecutor, SafetyInv, RunHasRow, NoRow
    <3> QED
      BY <2>2, <2>3, <3>1, ConstantsOK DEF SafetyInv, EffectIsRecorded
  <2> QED
    BY <2>7, <2>8, <2>9, <2>10, <2>11 DEF SafetyInv
<1>4. ASSUME NEW s \in Slots, ExecutorRaises(s)
      PROVE  SafetyInv'
  <2>1. req[s] \in Requests /\ req[s].pc = "run"
    BY <1>4, Serving DEF ExecutorRaises
  <2>2. req' = [req EXCEPT ![s].pc = "finish", ![s].outcome = "failed"]
    BY <1>4 DEF ExecutorRaises
  <2>3. /\ req'[s].pc = "finish" /\ req'[s].outcome = "failed"
        /\ req'[s].id = req[s].id
        /\ req' = [req EXCEPT ![s] = req'[s]]
    BY <2>1, <2>2 DEF TypeInv, TypeOK, Requests
  <2>4. UNCHANGED <<runs, mem, effects, faults, crashes>>
    BY <1>4 DEF ExecutorRaises
  <2> QED
    BY <1>0, <2>1, <2>3, <2>4, QuietSafe
<1>5. ASSUME NEW s \in Slots, Begin(s)
      PROVE  SafetyInv'
  <2>1. req[s].pc # "idle" /\ req[s].name \in Names
    BY <1>5 DEF Begin, TypeInv, Carries
  <2>2. PICK b \in BOOLEAN : Persist(s, "executing", b)
    BY <1>5 DEF Begin
  <2> QED
    BY <1>5, <2>1, <2>2, PersistSafe DEF Begin, Goto
<1>6. ASSUME NEW s \in Slots, CancelWrite(s) \/ Defer(s) \/ LeavePending(s) \/ Finish(s)
      PROVE  SafetyInv'
  <2>1. req[s].pc # "idle" /\ req[s].name \in Names
    BY <1>6 DEF CancelWrite, Defer, LeavePending, Finish, TypeInv, Carries
  <2>2. PICK st \in Statuses, b \in BOOLEAN :
          Persist(s, st, b) /\ (st = "completed" => effects[req[s].id] # <<>>)
    BY <1>6 DEF CancelWrite, Defer, LeavePending, Finish, StatusWithoutExecutor,
                TypeInv, Carries, SafetyInv, CompletionHasEffect
  <2>3. req' = [req EXCEPT ![s] = Idle] /\ UNCHANGED <<effects, crashes>>
    BY <1>6 DEF CancelWrite, Defer, LeavePending, Finish, Return
  <2> QED
    BY <2>1, <2>2, <2>3, PersistSafe
<1>7. ASSUME NEW w \in Workers, Crash(w)
      PROVE  SafetyInv'
  <2>1. /\ UNCHANGED <<runs, effects, faults>> /\ crashes' = crashes + 1
        /\ \A v \in Workers, a \in ActionIds :
             mem'[v][a] = IF v = w THEN NoRow ELSE mem[v][a]
        /\ \A s \in Slots : req'[s] = IF WorkerOf[s] = w THEN Idle ELSE req[s]
    BY <1>7 DEF Crash, TypeInv, TypeOK
  <2>2. \A t \in Slots : req[t].pc # "idle" => req[t].id \in ActionIds
    BY DEF TypeInv, TypeOK, Requests, Idle
  <2>3. FallbackNeedsFault'
    BY <2>1 DEF SafetyInv, FallbackNeedsFault, NoRow
  <2>4. CompletionHasEffect'
    BY <2>1 DEF SafetyInv, CompletionHasEffect, Idle
  <2>5. RunHasRow'
    BY <2>1, <2>2, ConstantsOK DEF SafetyInv, RunHasRow, Idle
  <2>6. CompletedHasEffect'
    BY <2>1 DEF SafetyInv, CompletedHasEffect, NoRow
  <2>7. EffectIsRecorded'
    <3>1. \A v \in Workers, a \in ActionIds : faults = 0 => mem[v][a] = NoRow
      BY AbsentIsNoRow DEF SafetyInv, FallbackNeedsFault, TypeInv, TypeOK
    <3> QED
      BY <1>0, <2>1, <3>1 DEF SafetyInv, EffectIsRecorded
  <2> QED
    BY <2>3, <2>4, <2>5, <2>6, <2>7 DEF SafetyInv
<1>8. CASE UNCHANGED vars
  BY <1>8 DEF vars, SafetyInv, FallbackNeedsFault, CompletionHasEffect, RunHasRow,
              CompletedHasEffect, EffectIsRecorded
<1> QED
  BY <1>1, <1>2, <1>3, <1>4, <1>5, <1>6, <1>7, <1>8 DEF Next, Serve, Quiet

LEMMA SafetyHolds == Spec => []SafetyInv
<1>1. Init => TypeInv /\ SafetyInv
  BY TypeInvInit, SafetyInvInit
<1>2. TypeInv /\ SafetyInv /\ [Next]_vars => (TypeInv /\ SafetyInv)'
  BY TypeInvStep, SafetyInvStep
<1> QED
  BY <1>1, <1>2, PTL DEF Spec

(* execute_action never reports a run completed whose executor has not     *)
(* committed its effect, however requests interleave and fail.             *)
THEOREM CompletionIsReal == Spec => []CompletedHasEffect
  BY SafetyHolds, PTL DEF SafetyInv

(* _persist_run's record before the executor is called accounts for every  *)
(* effect: it takes a failed round trip and a dead process to lose one.    *)
THEOREM EffectsAreRecorded == Spec => []EffectIsRecorded
  BY SafetyHolds, PTL DEF SafetyInv

-----------------------------------------------------------------------------
(* The executor an approval or a retry picks is that of the run it resumes. *)

(* While no round trip has failed, the executor picked in the handler is   *)
(* none, or that of the row, whose name no later write changes.            *)
PickedTheRun ==
    faults = 0 =>
        \A s \in Slots :
            req[s].pc = "lookup" /\ req[s].op # "cancel"
            => \/ req[s].executor = NoExecutor
               \/ /\ runs[req[s].id].status # "absent"
                  /\ req[s].executor = ExecutorFor(runs[req[s].id].name)

ExecutorInv == PickedTheRun /\ ExecutorMatchesRun

(* A row that is there keeps its name. *)
LEMMA NameKept ==
    ASSUME TypeInv, [Next]_vars, NEW a \in ActionIds, runs[a].status # "absent"
    PROVE  runs'[a].status # "absent" /\ runs'[a].name = runs[a].name
<1>1. ASSUME NEW s \in Slots, NEW st \in Statuses, NEW b \in BOOLEAN,
             req[s].pc # "idle", Persist(s, st, b)
      PROVE  runs'[a].status # "absent" /\ runs'[a].name = runs[a].name
  <2> DEFINE id == req[s].id
             u == req[s].user
             n == req[s].name
  <2>1. runs' = runs \/ runs' = [runs EXCEPT ![id] = Upserted(@, u, n, st)]
    BY <1>1 DEF Persist
  <2>2. runs[a] # NoRow /\ runs[a] \in Rows
    BY DEF NoRow, TypeInv, TypeOK
  <2>3. /\ Upserted(runs[a], u, n, st).status = st
        /\ Upserted(runs[a], u, n, st).name = runs[a].name
    BY <2>2 DEF Upserted, Rows
  <2>4. st # "absent"
    BY DEF Statuses
  <2>5. runs'[a] = runs[a] \/ runs'[a] = Upserted(runs[a], u, n, st)
    BY <2>1 DEF TypeInv, TypeOK
  <2> QED
    BY <2>3, <2>4, <2>5
<1>2. ASSUME NEW s \in Slots, Serve(s)
      PROVE  \/ UNCHANGED runs
             \/ /\ req[s].pc # "idle"
                /\ \E st \in Statuses, b \in BOOLEAN : Persist(s, st, b)
  <2> USE DEF Statuses
  <2>1. CASE PickExecutor(s) \/ LookUp(s) \/ CheckCompleted(s)
    BY <2>1, Reads
  <2>2. CASE RunExecutor(s) \/ ExecutorRaises(s)
    BY <2>2 DEF RunExecutor, ExecutorRaises
  <2>3. CASE CancelWrite(s) \/ Defer(s) \/ Begin(s) \/ LeavePending(s) \/ Finish(s)
    BY <2>3 DEF CancelWrite, Defer, Begin, LeavePending, Finish, StatusWithoutExecutor,
                TypeInv, Carries
  <2> QED
    BY <1>2, <2>1, <2>2, <2>3 DEF Serve
<1>3. ASSUME NEW s \in Slots, Arrive(s)
      PROVE  UNCHANGED runs
  BY <1>3, Arrives DEF Start
<1> QED
  BY <1>1, <1>2, <1>3 DEF Next, Crash, Quiet, vars

(* What PickExecutor and LookUp read while no round trip has failed is the *)
(* row of the table, or nothing.                                           *)
LEMMA ReadsTable ==
    ASSUME TypeInv, FallbackNeedsFault, faults = 0,
           NEW w \in Workers, NEW u \in Users, NEW a \in ActionIds, NEW b \in BOOLEAN,
           AgentRun(w, u, a, b) # NoRow
    PROVE  AgentRun(w, u, a, b) = runs[a] /\ runs[a].status # "absent"
<1>1. mem[w][a] = NoRow /\ (runs[a] # NoRow => runs[a].status # "absent")
  BY AbsentIsNoRow DEF FallbackNeedsFault, TypeInv, TypeOK
<1> QED
  BY <1>1 DEF AgentRun, RunInDb, OwnedBy

LEMMA PicksExecutor ==
    ASSUME TypeInv, NEW s \in Slots, PickExecutor(s)
    PROVE  \E b \in BOOLEAN :
             LET row == AgentRun(WorkerOf[s], req[s].user, req[s].id, b)
             IN  req'[s].pc = "lookup" /\ req'[s].id = req[s].id
                 /\ req'[s].executor = IF row = NoRow THEN NoExecutor
                                       ELSE ExecutorFor(row.name)
<1>1. req[s] \in Requests
  BY Serving DEF PickExecutor
<1>2. PICK b \in BOOLEAN :
        LET row == AgentRun(WorkerOf[s], req[s].user, req[s].id, b)
        IN  req' = [req EXCEPT ![s].pc = "lookup",
                               ![s].executor = IF row = NoRow THEN NoExecutor
                                               ELSE ExecutorFor(row.name)]
  BY Zenon DEF PickExecutor
<1> DEFINE row == AgentRun(WorkerOf[s], req[s].user, req[s].id, b)
           e == IF row = NoRow THEN NoExecutor ELSE ExecutorFor(row.name)
           new == [req[s] EXCEPT !.pc = "lookup", !.executor = e]
<1>3. req' = [req EXCEPT ![s] = new]
  BY <1>2
<1>4. req'[s] = new
  <2> HIDE DEF new
  <2> QED
    BY <1>3 DEF TypeInv, TypeOK
<1> HIDE DEF e
<1>5. new.pc = "lookup" /\ new.executor = e /\ new.id = req[s].id
  BY <1>1 DEF Requests
<1> HIDE DEF new
<1> QED
  BY <1>4, <1>5 DEF e

LEMMA LooksUp ==
    ASSUME TypeInv, NEW s \in Slots, LookUp(s)
    PROVE  \/ req'[s].pc \in {"idle", "cancel"}
           \/ \E b \in BOOLEAN :
                LET row == AgentRun(WorkerOf[s], req[s].user, req[s].id, b)
                IN  /\ row # NoRow /\ req[s].op # "cancel"
                    /\ req'[s].pc = "check" /\ req'[s].id = req[s].id
                    /\ req'[s].name = row.name /\ req'[s].executor = req[s].executor
<1>1. req[s] \in Requests
  BY Serving DEF LookUp
<1>2. PICK b \in BOOLEAN :
        LET r == req[s]
            row == AgentRun(WorkerOf[s], r.user, r.id, b)
        IN  IF row # NoRow /\ Admits(r.op, row.status)
            THEN req' = [req EXCEPT ![s] =
                  [r EXCEPT !.pc = IF r.op = "cancel" THEN "cancel" ELSE "check",
                            !.name = row.name,
                            !.approved = \/ r.op = "approve"
                                         \/ r.op = "retry" /\ ~RequiresApproval(row.name)]]
            ELSE Return(s)
  BY Zenon DEF LookUp
<1> DEFINE row == AgentRun(WorkerOf[s], req[s].user, req[s].id, b)
           ok == \/ req[s].op = "approve"
                 \/ req[s].op = "retry" /\ ~RequiresApproval(row.name)
           lbl == IF req[s].op = "cancel" THEN "cancel" ELSE "check"
           new == [req[s] EXCEPT !.pc = lbl, !.name = row.name, !.approved = ok]
<1>3. CASE row # NoRow /\ Admits(req[s].op, row.status)
  <2> HIDE DEF ok, row
  <2>1. req' = [req EXCEPT ![s] = new]
    BY <1>2, <1>3 DEF ok, row
  <2>2. /\ new.pc = lbl /\ new.name = row.name /\ new.id = req[s].id
        /\ new.executor = req[s].executor
    BY <1>1 DEF Requests
  <2> HIDE DEF new
  <2>3. req'[s] = new
    BY <2>1 DEF TypeInv, TypeOK
  <2> QED
    BY <1>3, <2>2, <2>3 DEF row
<1>4. CASE ~(row # NoRow /\ Admits(req[s].op, row.status))
  <2>1. req' = [req EXCEPT ![s] = Idle]
    BY <1>2, <1>4 DEF Return
  <2>2. req'[s] = Idle
    BY <2>1 DEF TypeInv, TypeOK
  <2> QED
    BY <2>2 DEF Idle
<1> QED
  BY <1>3, <1>4

(* No step but Crash, which forgets requests, touches another's request. *)
LEMMA OthersKept ==
    ASSUME TypeInv, NEW s \in Slots, Arrive(s) \/ Serve(s), NEW t \in Slots, t # s
    PROVE  req'[t] = req[t]
<1>1. CASE Arrive(s)
  <2>1. PICK r \in Requests : Start(s, r)
    BY <1>1, Arrives
  <2> QED
    BY <2>1 DEF Start, TypeInv, TypeOK
<1>2. CASE PickExecutor(s) \/ LookUp(s) \/ CheckCompleted(s)
  <2>1. PICK r \in Requests \cup {Idle} : Moves(s, r)
    BY <1>2, Reads
  <2> QED
    BY <2>1 DEF Moves, TypeInv, TypeOK
<1>3. CASE RunExecutor(s) \/ ExecutorRaises(s) \/ Begin(s)
  BY <1>3 DEF RunExecutor, ExecutorRaises, Begin, Goto, TypeInv, TypeOK
<1>4. CASE CancelWrite(s) \/ Defer(s) \/ LeavePending(s) \/ Finish(s)
  BY <1>4 DEF CancelWrite, Defer, LeavePending, Finish, Return, TypeInv, TypeOK
<1> QED
  BY <1>1, <1>2, <1>3, <1>4 DEF Serve

(* A round trip never undoes a fault. *)
LEMMA FaultsGrow ==
    ASSUME TypeInv, [Next]_vars
    PROVE  faults' = 0 => faults = 0
<1>0. faults \in Nat
  BY ConstantsOK DEF TypeInv, TypeOK
<1>1. ASSUME NEW s \in Slots, Arrive(s)
      PROVE  faults' = faults
  BY <1>1, Arrives DEF Start
<1>2. ASSUME NEW s \in Slots, Serve(s)
      PROVE  faults' = faults \/ faults' = faults + 1
  <2>1. CASE \E b \in BOOLEAN : RoundTrip(b)
    BY <2>1 DEF RoundTrip
  <2>2. CASE RunExecutor(s) \/ ExecutorRaises(s)
    BY <2>2 DEF RunExecutor, ExecutorRaises
  <2>3. (\E b \in BOOLEAN : RoundTrip(b)) \/ RunExecutor(s) \/ ExecutorRaises(s)
    BY <1>2, Zenon
    DEF Serve, PickExecutor, LookUp, CancelWrite, CheckCompleted, Defer, Begin,
        LeavePending, Finish, Persist
  <2> QED
    BY <2>1, <2>2, <2>3
<1> QED
  BY <1>0, <1>1, <1>2 DEF Next, Crash, Quiet, vars

(* The part of the invariant about one request. *)
PickedOne(r) ==
    r.pc = "lookup" /\ r.op # "cancel"
    => \/ r.executor = NoExecutor
       \/ /\ runs[r.id].status # "absent"
          /\ r.executor = ExecutorFor(runs[r.id].name)
MatchesOne(r) ==
    r.pc \in {"check", "begin", "run", "finish"}
    => r.executor \in {ExecutorFor(r.name), NoExecutor}

LEMMA ExecutorInvStep ==
    ASSUME TypeInv, SafetyInv, ExecutorInv, [Next]_vars
    PROVE  ExecutorInv'
<1> SUFFICES ASSUME faults' = 0, NEW s \in Slots
             PROVE  PickedOne(req[s])' /\ MatchesOne(req[s])'
  BY DEF ExecutorInv, PickedTheRun, ExecutorMatchesRun, PickedOne, MatchesOne
<1>1. faults = 0
  BY FaultsGrow
<1>2. PickedOne(req[s]) /\ MatchesOne(req[s])
  BY <1>1 DEF ExecutorInv, PickedTheRun, ExecutorMatchesRun, PickedOne, MatchesOne
<1>3. CASE req'[s] = req[s]
  <2>1. req[s].pc # "idle" => req[s].id \in ActionIds
    BY Serving DEF Requests
  <2> QED
    BY <1>2, <1>3, <2>1, NameKept DEF PickedOne, MatchesOne
<1>4. CASE req'[s] = Idle
  BY <1>4 DEF PickedOne, MatchesOne, Idle
<1>5. CASE Arrive(s)
  <2>1. PICK u \in Users, a \in ActionIds :
          \/ \E n \in Names, flag \in BOOLEAN : Execute(s, u, a, n, flag)
          \/ Resume(s, "approve", u, a)
          \/ Resume(s, "retry", u, a)
          \/ Cancel(s, u, a)
    BY <1>5 DEF Arrive
  <2>2. ASSUME NEW n \in Names, NEW flag \in BOOLEAN, Execute(s, u, a, n, flag)
        PROVE  req'[s].pc = "check" /\ req'[s].executor = ExecutorFor(req'[s].name)
    BY <2>2 DEF Execute, Start, TypeInv, TypeOK
  <2>3. ASSUME NEW op, Resume(s, op, u, a)
        PROVE  req'[s].pc = "pick"
    BY <2>3 DEF Resume, Start, TypeInv, TypeOK
  <2>4. ASSUME Cancel(s, u, a)
        PROVE  req'[s].pc = "lookup" /\ req'[s].op = "cancel"
    BY <2>4 DEF Cancel, Start, TypeInv, TypeOK
  <2> QED
    BY <2>1, <2>2, <2>3, <2>4 DEF PickedOne, MatchesOne
<1>6. CASE PickExecutor(s)
  <2>1. req[s] \in Requests /\ runs' = runs
    BY <1>6, Serving DEF PickExecutor
  <2>2. PICK b \in BOOLEAN :
          LET row == AgentRun(WorkerOf[s], req[s].user, req[s].id, b)
          IN  req'[s].pc = "lookup" /\ req'[s].id = req[s].id
              /\ req'[s].executor = IF row = NoRow THEN NoExecutor
                                    ELSE ExecutorFor(row.name)
    BY <1>6, PicksExecutor
  <2> DEFINE row == AgentRun(WorkerOf[s], req[s].user, req[s].id, b)
  <2>3. row # NoRow => row = runs[req[s].id] /\ runs[req[s].id].status # "absent"
    BY <1>1, <2>1, ReadsTable, ConstantsOK DEF SafetyInv, Requests
  <2> QED
    BY <2>1, <2>2, <2>3 DEF PickedOne, MatchesOne
<1>7. CASE LookUp(s)
  <2>1. req[s] \in Requests /\ req[s].pc = "lookup"
    BY <1>7, Serving DEF LookUp
  <2>2. CASE req'[s].pc \in {"idle", "cancel"}
    BY <2>2 DEF PickedOne, MatchesOne
  <2>3. CASE \E b \in BOOLEAN :
               LET row == AgentRun(WorkerOf[s], req[s].user, req[s].id, b)
               IN  /\ row # NoRow /\ req[s].op # "cancel"
                   /\ req'[s].pc = "check" /\ req'[s].id = req[s].id
                   /\ req'[s].name = row.name /\ req'[s].executor = req[s].executor
    <3>1. PICK b \in BOOLEAN :
            LET row == AgentRun(WorkerOf[s], req[s].user, req[s].id, b)
            IN  /\ row # NoRow /\ req[s].op # "cancel"
                /\ req'[s].pc = "check" /\ req'[s].id = req[s].id
                /\ req'[s].name = row.name /\ req'[s].executor = req[s].executor
      BY <2>3
    <3> DEFINE row == AgentRun(WorkerOf[s], req[s].user, req[s].id, b)
    <3>2. row = runs[req[s].id]
      BY <1>1, <2>1, <3>1, ReadsTable, ConstantsOK DEF SafetyInv, Requests
    <3> QED
      BY <1>2, <2>1, <3>1, <3>2 DEF PickedOne, MatchesOne
  <2> QED
    BY <1>7, <2>2, <2>3, LooksUp
<1>8. CASE CheckCompleted(s)
  <2>1. req[s] \in Requests /\ req[s].pc = "check"
    BY <1>8, Serving DEF CheckCompleted
  <2>2. \/ req' = [req EXCEPT ![s] = Idle]
        \/ \E lbl : lbl \in {"defer", "begin"} /\ req' = [req EXCEPT ![s].pc = lbl]
    BY <1>8, Zenon DEF CheckCompleted, Return, Goto
  <2>3. \/ req'[s] = Idle
        \/ /\ req'[s].pc \in {"defer", "begin"}
           /\ req'[s].executor = req[s].executor /\ req'[s].name = req[s].name
    BY <2>1, <2>2 DEF Requests, TypeInv, TypeOK
  <2> QED
    BY <1>2, <1>4, <2>1, <2>3 DEF PickedOne, MatchesOne
<1>9. CASE RunExecutor(s) \/ ExecutorRaises(s) \/ Begin(s)
  <2>1. req[s] \in Requests /\ req[s].pc \in {"begin", "run"}
    BY <1>9, Serving DEF RunExecutor, ExecutorRaises, Begin
  <2>2. /\ req'[s].pc \in {"run", "finish"}
        /\ req'[s].executor = req[s].executor /\ req'[s].name = req[s].name
    BY <1>9, <2>1 DEF RunExecutor, ExecutorRaises, Begin, Goto, Requests, TypeInv, TypeOK
  <2> QED
    BY <1>2, <2>1, <2>2 DEF PickedOne, MatchesOne
<1>10. CASE CancelWrite(s) \/ Defer(s) \/ LeavePending(s) \/ Finish(s)
  <2>1. req'[s] = Idle
    BY <1>10 DEF CancelWrite, Defer, LeavePending, Finish, Return, TypeInv, TypeOK
  <2> QED
    BY <1>4, <2>1
<1>11. CASE \E t \in Slots : t # s /\ (Arrive(t) \/ Serve(t))
  BY <1>3, <1>11, OthersKept
<1>12. CASE \E w \in Workers : Crash(w)
  BY <1>3, <1>4, <1>12 DEF Crash, TypeInv, TypeOK
<1>13. CASE UNCHANGED vars
  BY <1>3, <1>13 DEF vars
<1> QED
  BY <1>5, <1>6, <1>7, <1>8, <1>9, <1>10, <1>11, <1>12, <1>13 DEF Next, Serve, Quiet

(* Although the handler of an approval or a retry and the service behind   *)
(* it read the run at different times, the executor that is called belongs *)
(* to the run that is resumed, while the database answers.                 *)
THEOREM ExecutorBelongsToRun == Spec => []ExecutorMatchesRun
<1>1. Init => TypeInv /\ SafetyInv /\ ExecutorInv
  BY TypeInvInit, SafetyInvInit
  DEF Init, ExecutorInv, PickedTheRun, ExecutorMatchesRun, Idle
<1>2. TypeInv /\ SafetyInv /\ ExecutorInv /\ [Next]_vars
      => (TypeInv /\ SafetyInv /\ ExecutorInv)'
  BY TypeInvStep, SafetyInvStep, ExecutorInvStep
<1> QED
  BY <1>1, <1>2, PTL DEF Spec, ExecutorInv

-----------------------------------------------------------------------------
(* An action_id that one request at a time uses: it takes effect once.     *)

(* A slot has decided to write the run of an action, or has run it. *)
Decided(s, a) ==
    /\ req[s].pc \in {"cancel", "defer", "begin", "run", "finish"}
    /\ req[s].id = a
Done(s, a) ==
    /\ req[s].pc = "finish" /\ req[s].outcome = "completed"
    /\ req[s].id = a

(* Who has decided saw a run that is not completed, and still sees it. *)
Undone(a) == \A s \in Slots : Decided(s, a) => runs[a].status # "completed"

(* The action has taken effect once at most; if so its run is completed,   *)
(* or the one request that ran it is about to say so.                      *)
OneEffect(a) ==
    /\ Len(effects[a]) <= 1
    /\ effects[a] # <<>> => runs[a].status = "completed" \/ \E s \in Slots : Done(s, a)
    /\ \A s \in Slots : Decided(s, a) /\ ~Done(s, a) => effects[a] = <<>>

ContendersShared == Contended \subseteq shared
NoneRedone == faults = 0 => \A a \in ActionIds \ shared : Undone(a)
EachOnce == \A a \in ActionIds \ Excused : OneEffect(a)

OnceInv ==
    /\ shared \subseteq ActionIds /\ ContendersShared
    /\ NoneRedone /\ EachOnce

(* A request that serves an action_id nobody shares is alone with it, and  *)
(* its user owns the run.                                                  *)
LEMMA Alone ==
    ASSUME TypeInv, ContendersShared, NEW s \in Slots, req[s].pc # "idle",
           req[s].id \notin shared
    PROVE  /\ \A t \in Slots : t # s /\ req[t].pc # "idle" => req[t].id # req[s].id
           /\ OwnedBy(runs[req[s].id], req[s].user) = runs[req[s].id]
<1>1. req[s] # Idle /\ \A t \in Slots : req[t].pc # "idle" => req[t] # Idle
  BY DEF Idle
<1>2. ~Contends(s)
  BY <1>1 DEF ContendersShared, Contended
<1> QED
  BY <1>1, <1>2 DEF Contends

(* What the three steps that read make of their request, while no round    *)
(* trip fails.                                                             *)
LEMMA LookUpDecides ==
    ASSUME TypeInv, SafetyInv, faults = 0, NEW s \in Slots, LookUp(s)
    PROVE  \/ req'[s] = Idle
           \/ /\ req'[s].id = req[s].id
              /\ req'[s].pc = "check"
           \/ /\ req'[s].id = req[s].id
              /\ req'[s].pc = "cancel" /\ runs[req[s].id].status # "completed"
<1>1. req[s] \in Requests
  BY Serving DEF LookUp
<1>2. PICK b \in BOOLEAN :
        LET r == req[s]
            row == AgentRun(WorkerOf[s], r.user, r.id, b)
        IN  IF row # NoRow /\ Admits(r.op, row.status)
            THEN req' = [req EXCEPT ![s] =
                  [r EXCEPT !.pc = IF r.op = "cancel" THEN "cancel" ELSE "check",
                            !.name = row.name,
                            !.approved = \/ r.op = "approve"
                                         \/ r.op = "retry" /\ ~RequiresApproval(row.name)]]
            ELSE Return(s)
  BY Zenon DEF LookUp
<1> DEFINE row == AgentRun(WorkerOf[s], req[s].user, req[s].id, b)
           ok == \/ req[s].op = "approve"
                 \/ req[s].op = "retry" /\ ~RequiresApproval(row.name)
           lbl == IF req[s].op = "cancel" THEN "cancel" ELSE "check"
           new == [req[s] EXCEPT !.pc = lbl, !.name = row.name, !.approved = ok]
<1>3. CASE row # NoRow /\ Admits(req[s].op, row.status)
  <2>1. row = runs[req[s].id]
    BY <1>1, <1>3, ReadsTable, ConstantsOK DEF SafetyInv, Requests
  <2>2. req[s].op = "cancel" => runs[req[s].id].status # "completed"
    BY <1>3, <2>1 DEF Admits, Cancelable
  <2> HIDE DEF ok, row
  <2>3. req' = [req EXCEPT ![s] = new]
    BY <1>2, <1>3 DEF ok, row
  <2>4. new.pc = lbl /\ new.id = req[s].id
    BY <1>1 DEF Requests
  <2> HIDE DEF new
  <2>5. req'[s] = new
    BY <2>3 DEF TypeInv, TypeOK
  <2> QED
    BY <2>2, <2>4, <2>5
<1>4. CASE ~(row # NoRow /\ Admits(req[s].op, row.status))
  BY <1>2, <1>4 DEF Return, TypeInv, TypeOK
<1> QED
  BY <1>3, <1>4

LEMMA PickKeepsId ==
    ASSUME TypeInv, NEW s \in Slots, PickExecutor(s)
    PROVE  req'[s].id = req[s].id /\ req'[s].pc = "lookup"
<1>1. PICK b \in BOOLEAN :
        LET row == AgentRun(WorkerOf[s], req[s].user, req[s].id, b)
        IN  req'[s].pc = "lookup" /\ req'[s].id = req[s].id
            /\ req'[s].executor = IF row = NoRow THEN NoExecutor
                                  ELSE ExecutorFor(row.name)
  BY PicksExecutor
<1> QED
  BY <1>1

LEMMA CheckDecides ==
    ASSUME TypeInv, NEW s \in Slots, CheckCompleted(s)
    PROVE  \/ req'[s] = Idle
           \/ /\ req'[s].id = req[s].id
              /\ req'[s].pc \in {"defer", "begin"}
              /\ \/ faults' # 0
                 \/ OwnedBy(runs[req[s].id], req[s].user).status # "completed"
<1>1. req[s] \in Requests /\ faults \in Nat
  BY Serving, ConstantsOK DEF CheckCompleted, TypeInv, TypeOK
<1>2. PICK b \in BOOLEAN :
        /\ RoundTrip(b)
        /\ IF b /\ AlreadyCompleted(req[s].user, req[s].id)
           THEN Return(s)
           ELSE Goto(s, IF RequiresApproval(req[s].name) /\ ~req[s].approved
                        THEN "defer" ELSE "begin")
  BY Zenon DEF CheckCompleted
<1>3. CASE b /\ AlreadyCompleted(req[s].user, req[s].id)
  BY <1>2, <1>3 DEF Return, TypeInv, TypeOK
<1>4. CASE ~(b /\ AlreadyCompleted(req[s].user, req[s].id))
  <2> DEFINE gated == RequiresApproval(req[s].name) /\ ~req[s].approved
             lbl == IF gated THEN "defer" ELSE "begin"
  <2>1. req' = [req EXCEPT ![s].pc = lbl]
    BY <1>2, <1>4 DEF Goto
  <2> HIDE DEF gated
  <2>2. req'[s].id = req[s].id /\ req'[s].pc \in {"defer", "begin"}
    BY <1>1, <2>1 DEF Requests, TypeInv, TypeOK
  <2>3. \/ faults' # 0
        \/ OwnedBy(runs[req[s].id], req[s].user).status # "completed"
    BY <1>1, <1>2, <1>4 DEF RoundTrip, AlreadyCompleted, RunInDb
  <2> QED
    BY <2>2, <2>3
<1> QED
  BY <1>3, <1>4

(* The steps that write a run: what they write, and where they go. *)
LEMMA Writes ==
    ASSUME TypeInv, NEW s \in Slots,
           CancelWrite(s) \/ Defer(s) \/ Begin(s) \/ LeavePending(s) \/ Finish(s)
    PROVE  /\ req[s] \in Requests
           /\ \/ req[s].pc \in {"cancel", "defer", "begin", "finish"}
              \/ req[s].pc = "run" /\ req[s].executor = NoExecutor
           /\ \E st \in Statuses, b \in BOOLEAN :
                /\ Persist(s, st, b)
                /\ req[s].pc = "finish" => st = req[s].outcome
                /\ req[s].pc # "finish" => st # "completed"
           /\ \/ req'[s] = Idle
              \/ /\ req[s].pc = "begin" /\ req'[s].pc = "run"
                 /\ req'[s].id = req[s].id /\ req'[s].executor = req[s].executor
           /\ UNCHANGED <<effects, crashes>>
<1> USE DEF Statuses
<1>1. req[s] \in Requests
  BY Serving DEF CancelWrite, Defer, Begin, LeavePending, Finish
<1>2. CASE CancelWrite(s)
  BY <1>1, <1>2 DEF CancelWrite, Return, TypeInv, TypeOK
<1>3. CASE Defer(s)
  BY <1>1, <1>3 DEF Defer, Return, TypeInv, TypeOK
<1>4. CASE Begin(s)
  BY <1>1, <1>4 DEF Begin, Goto, Requests, TypeInv, TypeOK
<1>5. CASE LeavePending(s)
  BY <1>1, <1>5 DEF LeavePending, StatusWithoutExecutor, Return, TypeInv, TypeOK
<1>6. CASE Finish(s)
  BY <1>1, <1>6 DEF Finish, Return, TypeInv, TypeOK, Carries
<1> QED
  BY <1>2, <1>3, <1>4, <1>5, <1>6

(* The executor returns or raises. *)
LEMMA Executes ==
    ASSUME TypeInv, NEW s \in Slots, RunExecutor(s) \/ ExecutorRaises(s)
    PROVE  /\ req[s] \in Requests
           /\ req[s].pc = "run" /\ req[s].executor # NoExecutor
           /\ req'[s].pc = "finish" /\ req'[s].id = req[s].id
           /\ UNCHANGED <<runs, mem, faults, crashes>>
           /\ \A b \in ActionIds : b # req[s].id => effects'[b] = effects[b]
           /\ \/ /\ req'[s].outcome = "completed"
                 /\ \E e \in Effects :
                      effects'[req[s].id] = Append(effects[req[s].id], e)
              \/ req'[s].outcome = "failed" /\ effects' = effects
<1> DEFINE a == req[s].id
           e(v) == [user |-> req[s].user, name |-> req[s].executor, verified |-> v]
<1>1. req[s] \in Requests /\ a \in ActionIds
  BY Serving DEF RunExecutor, ExecutorRaises, Requests
<1>2. /\ req[s].pc = "run" /\ req[s].executor # NoExecutor
      /\ UNCHANGED <<runs, mem, faults, crashes>>
  BY DEF RunExecutor, ExecutorRaises
<1>3. CASE ExecutorRaises(s)
  BY <1>1, <1>2, <1>3 DEF ExecutorRaises, Requests, TypeInv, TypeOK
<1>4. CASE RunExecutor(s)
  <2>1. req'[s].pc = "finish" /\ req'[s].id = a /\ req'[s].outcome = "completed"
    BY <1>1, <1>4 DEF RunExecutor, Requests, TypeInv, TypeOK
  <2>2. PICK v \in BOOLEAN : effects' = [effects EXCEPT ![a] = Append(@, e(v))]
    BY <1>4 DEF RunExecutor
  <2>3. e(v) \in Effects
    BY <1>1, <1>2 DEF Requests, Effects
  <2> HIDE DEF e
  <2>4. /\ effects'[a] = Append(effects[a], e(v))
        /\ \A b \in ActionIds : b # a => effects'[b] = effects[b]
    BY <1>1, <2>2 DEF TypeInv, TypeOK
  <2> QED
    BY <1>1, <1>2, <2>1, <2>3, <2>4
<1> QED
  BY <1>3, <1>4

(* A step of a request touches its own action only. *)
LEMMA ServeTouches ==
    ASSUME TypeInv, NEW s \in Slots, Serve(s)
    PROVE  /\ req[s] \in Requests /\ crashes' = crashes
           /\ req'[s] = Idle \/ req'[s].id = req[s].id
           /\ \A b \in ActionIds : b # req[s].id =>
                /\ runs'[b] = runs[b] /\ effects'[b] = effects[b]
                /\ \A w \in Workers : mem'[w][b] = mem[w][b]
<1>1. CASE PickExecutor(s) \/ CheckCompleted(s)
  <2>1. req[s] \in Requests
    BY <1>1, Serving DEF PickExecutor, CheckCompleted
  <2> QED
    BY <1>1, <2>1, Reads, PickKeepsId, CheckDecides
<1>2. CASE LookUp(s)
  <2>1. req[s] \in Requests /\ UNCHANGED <<runs, mem, effects, crashes>>
    BY <1>2, Serving DEF LookUp
  <2>2. req'[s] = Idle \/ req'[s].id = req[s].id
    <3> DEFINE new(b) ==
                 LET row == AgentRun(WorkerOf[s], req[s].user, req[s].id, b)
                 IN  [req[s] EXCEPT !.pc = IF req[s].op = "cancel" THEN "cancel" ELSE "check",
                                    !.name = row.name,
                                    !.approved = \/ req[s].op = "approve"
                                                 \/ req[s].op = "retry"
                                                    /\ ~RequiresApproval(row.name)]
    <3>1. PICK b \in BOOLEAN :
            req' = [req EXCEPT ![s] = new(b)] \/ req' = [req EXCEPT ![s] = Idle]
      BY <1>2, Zenon DEF LookUp, Return
    <3>2. new(b).id = req[s].id
      BY <2>1 DEF Requests
    <3> HIDE DEF new
    <3> QED
      BY <3>1, <3>2 DEF TypeInv, TypeOK
  <2> QED
    BY <2>1, <2>2
<1>3. CASE RunExecutor(s) \/ ExecutorRaises(s)
  BY <1>3, Executes
<1>4. CASE CancelWrite(s) \/ Defer(s) \/ Begin(s) \/ LeavePending(s) \/ Finish(s)
  <2>1. /\ req[s] \in Requests
        /\ req'[s] = Idle \/ req'[s].id = req[s].id
        /\ UNCHANGED <<effects, crashes>>
    BY <1>4, Writes
  <2>2. PICK st \in Statuses, b \in BOOLEAN : Persist(s, st, b)
    BY <1>4, Writes
  <2>3. req[s].id \in ActionIds /\ WorkerOf[s] \in Workers
    BY <2>1, ConstantsOK DEF Requests
  <2> DEFINE a == req[s].id
             w == WorkerOf[s]
             up == Upserted(runs[a], req[s].user, req[s].name, st)
             kept == Remembered(mem[w][a], req[s].user, req[s].name, st)
  <2>4. \/ runs' = [runs EXCEPT ![a] = up] /\ mem' = mem
        \/ mem' = [mem EXCEPT ![w][a] = kept] /\ runs' = runs
    BY <2>2 DEF Persist
  <2>5. \A c \in ActionIds : c # a =>
          runs'[c] = runs[c] /\ \A v \in Workers : mem'[v][c] = mem[v][c]
    <3> HIDE DEF up, kept
    <3>1. CASE runs' = [runs EXCEPT ![a] = up] /\ mem' = mem
      BY <2>3, <3>1 DEF TypeInv, TypeOK
    <3>2. CASE mem' = [mem EXCEPT ![w][a] = kept] /\ runs' = runs
      BY <2>3, <3>2 DEF TypeInv, TypeOK
    <3> QED
      BY <2>4, <3>1, <3>2
  <2> QED
    BY <2>1, <2>5
<1> QED
  BY <1>1, <1>2, <1>3, <1>4 DEF Serve

(* An attempt at an action: its executor has been called and has not ended. *)
Trying(a) ==
    \E s \in Slots : req[s].pc = "run" /\ req[s].executor # NoExecutor /\ req[s].id = a

(* The four things a step can be for an action.                            *)
Same(a) == (Trying(a)' <=> Trying(a)) /\ effects'[a] = effects[a]
Begins(a) ==
    ~Trying(a) /\ effects[a] = <<>> /\ Trying(a)' /\ effects'[a] = effects[a]
Takes(a) ==
    Trying(a) /\ effects[a] = <<>> /\ ~Trying(a)' /\ Len(effects'[a]) = 1
Fails(a) == Trying(a) /\ ~Trying(a)' /\ effects'[a] = effects[a]

(* A step that neither comes from nor leads to a decision on an action     *)
(* keeps what is said of it.                                               *)
LEMMA Away ==
    ASSUME NEW s \in Slots, \A t \in Slots : t # s => req'[t] = req[t],
           NEW a \in ActionIds, ~Decided(s, a), ~Decided(s, a)',
           runs'[a] = runs[a], effects'[a] = effects[a]
    PROVE  /\ Undone(a) => Undone(a)'
           /\ OneEffect(a) => OneEffect(a)'
           /\ Same(a)
<1>1. \A t \in Slots : /\ Decided(t, a)' <=> Decided(t, a)
                       /\ Done(t, a)' <=> Done(t, a)
  BY DEF Decided, Done
<1>2. Same(a)
  BY DEF Same, Trying, Decided
<1>3. Undone(a) => Undone(a)'
  BY <1>1 DEF Undone
<1>4. OneEffect(a) => OneEffect(a)'
  BY <1>1 DEF OneEffect
<1> QED
  BY <1>2, <1>3, <1>4

(* A step of the one request on an action, while no round trip fails. *)
LEMMA OwnUndone ==
    ASSUME TypeInv, SafetyInv, ContendersShared, NEW s \in Slots, Serve(s),
           NEW a \in ActionIds, req[s].id = a, a \notin shared, faults' = 0, faults = 0, Undone(a)
    PROVE  Undone(a)'
<1>1. req[s] \in Requests /\ req[s].pc # "idle" /\ a \in ActionIds
  BY ServeTouches DEF Requests
<1>2. \A t \in Slots : t # s => ~Decided(t, a)'
  BY <1>1, Alone, OthersKept DEF Decided
<1>3. ASSUME Decided(s, a)'
      PROVE  runs'[a].status # "completed"
  <2>1. CASE PickExecutor(s)
    BY <1>3, <2>1, PickKeepsId DEF Decided
  <2>2. CASE LookUp(s)
    BY <1>3, <2>2, LookUpDecides, Reads DEF Decided, Idle
  <2>3. CASE CheckCompleted(s)
    BY <1>1, <1>3, <2>3, CheckDecides, Reads, Alone DEF Decided, Idle
  <2>4. CASE RunExecutor(s) \/ ExecutorRaises(s)
    BY <2>4, Executes DEF Decided, Undone
  <2>5. CASE CancelWrite(s) \/ Defer(s) \/ Begin(s) \/ LeavePending(s) \/ Finish(s)
    <3>1. PICK st \in Statuses, b \in BOOLEAN :
            Persist(s, st, b) /\ (req[s].pc # "finish" => st # "completed")
      BY <2>5, Writes
    <3>2. req[s].pc = "begin"
      BY <1>3, <2>5, Writes DEF Decided, Idle
    <3>3. runs[a].status # "completed"
      BY <3>2 DEF Undone, Decided
    <3>4. req[s].name \in Names
      BY <3>2 DEF TypeInv, Carries
    <3> QED
      BY <1>1, <3>1, <3>2, <3>3, <3>4, PersistWrites
  <2> QED
    BY <2>1, <2>2, <2>3, <2>4, <2>5 DEF Serve
<1> QED
  BY <1>2, <1>3 DEF Undone

LEMMA OwnOnce ==
    ASSUME TypeInv, SafetyInv, ContendersShared, NEW s \in Slots, Serve(s),
           NEW a \in ActionIds, req[s].id = a, a \notin shared, faults' = 0, faults = 0, OneEffect(a)
    PROVE  /\ OneEffect(a)'
           /\ \/ Same(a) \/ Begins(a)
              \/ Takes(a) \/ Fails(a)
<1>1. req[s] \in Requests /\ req[s].pc # "idle" /\ a \in ActionIds
  BY ServeTouches DEF Requests
<1>2. \A t \in Slots : t # s => ~Decided(t, a) /\ ~Decided(t, a)'
  BY <1>1, Alone, OthersKept DEF Decided
<1>3. \A t \in Slots : t # s => ~Done(t, a) /\ ~Done(t, a)'
  BY <1>2 DEF Decided, Done
<1>4. /\ Trying(a) <=> req[s].pc = "run" /\ req[s].executor # NoExecutor
      /\ Trying(a)' <=> /\ req'[s].pc = "run" /\ req'[s].executor # NoExecutor
                        /\ req'[s].id = a
  BY <1>2 DEF Trying, Decided
<1>5. effects[a] \in Seq(Effects)
  BY <1>1 DEF TypeInv, TypeOK
<1>6. CASE PickExecutor(s) \/ LookUp(s) \/ CheckCompleted(s)
  <2>1. UNCHANGED <<runs, effects>> /\ req[s].pc \in {"pick", "lookup", "check"}
    BY <1>6, Reads DEF PickExecutor, LookUp, CheckCompleted
  <2>2. effects[a] # <<>> => runs[a].status = "completed"
    BY <1>3, <2>1 DEF OneEffect, Done
  <2>3. Decided(s, a)' => runs[a].status # "completed"
    <3>1. CASE PickExecutor(s)
      BY <3>1, PickKeepsId DEF Decided
    <3>2. CASE LookUp(s)
      BY <3>2, LookUpDecides DEF Decided, Idle
    <3>3. CASE CheckCompleted(s)
      BY <1>1, <3>3, CheckDecides, Alone DEF Decided, Idle
    <3> QED
      BY <1>6, <3>1, <3>2, <3>3
  <2>4. req'[s].pc # "run"
    <3>1. PICK r \in Requests \cup {Idle} : Moves(s, r)
      BY <1>6, Reads
    <3> QED
      BY <3>1 DEF Moves, TypeInv, TypeOK
  <2>5. OneEffect(a)'
    BY <1>2, <2>1, <2>2, <2>3 DEF OneEffect
  <2>6. Same(a)
    BY <1>4, <2>1, <2>4 DEF Same
  <2> QED
    BY <2>5, <2>6
<1>7. CASE RunExecutor(s) \/ ExecutorRaises(s)
  <2>1. /\ req[s].pc = "run" /\ req[s].executor # NoExecutor /\ runs' = runs
        /\ req'[s].pc = "finish" /\ req'[s].id = a
    BY <1>7, Executes
  <2>2. effects[a] = <<>>
    BY <2>1 DEF OneEffect, Decided, Done
  <2>3. CASE req'[s].outcome = "completed"
    <3>1. PICK e \in Effects : effects'[a] = Append(effects[a], e)
      BY <1>7, <2>3, Executes
    <3>2. Len(effects'[a]) = 1
      BY <1>5, <2>2, <3>1
    <3>3. Done(s, a)'
      BY <2>1, <2>3 DEF Done
    <3>4. OneEffect(a)'
      BY <1>2, <3>2, <3>3 DEF OneEffect
    <3>5. Takes(a)
      BY <1>4, <2>1, <2>2, <3>2 DEF Takes
    <3> QED
      BY <3>4, <3>5
  <2>4. CASE req'[s].outcome = "failed" /\ effects' = effects
    <3>1. OneEffect(a)'
      BY <2>1, <2>2, <2>4 DEF OneEffect
    <3>2. Fails(a)
      BY <1>4, <2>1, <2>4 DEF Fails
    <3> QED
      BY <3>1, <3>2
  <2> QED
    BY <1>7, <2>3, <2>4, Executes
<1>8. CASE CancelWrite(s) \/ Defer(s) \/ Begin(s) \/ LeavePending(s) \/ Finish(s)
  <2>1. /\ \/ req[s].pc \in {"cancel", "defer", "begin", "finish"}
           \/ req[s].pc = "run" /\ req[s].executor = NoExecutor
        /\ \/ req'[s] = Idle
           \/ /\ req[s].pc = "begin" /\ req'[s].pc = "run"
              /\ req'[s].id = a /\ req'[s].executor = req[s].executor
        /\ effects' = effects
    BY <1>8, Writes
  <2>2. CASE Done(s, a)
    <3>1. req'[s].pc = "idle"
      BY <2>1, <2>2 DEF Done, Idle
    <3>2. PICK st \in Statuses, b \in BOOLEAN :
            Persist(s, st, b) /\ st = "completed"
      BY <1>8, <2>2, Writes DEF Done
    <3>3. runs'[a].status = "completed"
      <4>1. req[s].name \in Names
        BY <2>2 DEF Done, TypeInv, Carries
      <4>2. mem[WorkerOf[s]][a].status = "absent"
        BY <1>1, ConstantsOK DEF SafetyInv, FallbackNeedsFault
      <4> QED
        BY <1>1, <3>2, <4>1, <4>2, PersistWrites
    <3>4. ~Decided(s, a)'
      BY <3>1 DEF Decided
    <3>5. OneEffect(a)'
      BY <1>2, <2>1, <3>3, <3>4 DEF OneEffect
    <3>6. Same(a)
      BY <1>4, <2>1, <2>2, <3>1 DEF Same, Done
    <3> QED
      BY <3>5, <3>6
  <2>3. CASE ~Done(s, a)
    <3>1. effects[a] = <<>>
      BY <2>1, <2>3 DEF OneEffect, Decided
    <3>2. OneEffect(a)'
      BY <2>1, <3>1 DEF OneEffect
    <3>3. CASE req'[s] = Idle
      BY <1>4, <2>1, <3>2, <3>3 DEF Same, Idle
    <3>4. CASE req[s].pc = "begin" /\ req'[s].pc = "run"
      BY <1>4, <2>1, <3>1, <3>2, <3>4 DEF Same, Begins
    <3> QED
      BY <2>1, <3>2, <3>3, <3>4
  <2> QED
    BY <2>2, <2>3
<1> QED
  BY <1>6, <1>7, <1>8 DEF Serve

(* Whose action a step is about, and what it leaves alone. *)
LEMMA StepAbout ==
    ASSUME TypeInv, NEW s \in Slots, Arrive(s) \/ Serve(s)
    PROVE  \E id \in ActionIds :
             /\ \A t \in Slots : t # s => req'[t] = req[t]
             /\ req[s].pc # "idle" => req[s].id = id
             /\ req'[s].pc # "idle" => req'[s].id = id
             /\ \A b \in ActionIds : b # id =>
                  /\ runs'[b] = runs[b] /\ effects'[b] = effects[b]
                  /\ \A w \in Workers : mem'[w][b] = mem[w][b]
             /\ crashes' = crashes
             /\ Arrive(s) => /\ UNCHANGED <<runs, mem, effects, faults>>
                             /\ ~Decided(s, id) /\ ~Decided(s, id)'
             /\ Serve(s) => req[s].id = id /\ req[s].pc # "idle"
<1>1. \A t \in Slots : t # s => req'[t] = req[t]
  BY OthersKept
<1>2. CASE Arrive(s)
  <2>1. PICK r \in Requests : Start(s, r) /\ r.pc \in {"pick", "lookup", "check"}
    BY <1>2, Arrives
  <2>2. req[s] = Idle /\ req'[s] = r /\ UNCHANGED <<runs, mem, effects, faults, crashes>>
    BY <2>1 DEF Start, TypeInv, TypeOK
  <2>3. r.id \in ActionIds
    BY DEF Requests
  <2>4. ~Decided(s, r.id) /\ ~Decided(s, r.id)'
    BY <2>1, <2>2 DEF Decided, Idle
  <2>5. ~Serve(s)
    BY <2>2 DEF Idle, Serve, PickExecutor, LookUp, CancelWrite, CheckCompleted, Defer,
                Begin, RunExecutor, ExecutorRaises, LeavePending, Finish
  <2> QED
    BY <1>1, <2>2, <2>3, <2>4, <2>5 DEF Idle
<1>3. CASE Serve(s)
  <2>1. req[s].id \in ActionIds /\ req[s].pc # "idle"
    BY <1>3, ServeTouches DEF Requests
  <2>2. ~Arrive(s)
    BY <2>1, Arrives DEF Start, Idle
  <2>3. req'[s].pc # "idle" => req'[s].id = req[s].id
    BY <1>3, ServeTouches DEF Idle
  <2> QED
    BY <1>1, <1>3, <2>1, <2>2, <2>3, ServeTouches
<1> QED
  BY <1>2, <1>3

(* A step of a request makes nobody contend for another's action. *)
LEMMA NoOtherContended ==
    ASSUME TypeInv, TypeInv', ContendersShared, NEW s \in Slots, NEW id,
           \A t \in Slots : t # s => req'[t] = req[t],
           req[s].pc # "idle" => req[s].id = id,
           req'[s].pc # "idle" => req'[s].id = id,
           \A b \in ActionIds : b # id =>
                /\ runs'[b] = runs[b]
                /\ \A w \in Workers : mem'[w][b] = mem[w][b]
    PROVE  Contended' \subseteq shared \cup {id}
<1> SUFFICES ASSUME NEW t \in Slots, (req[t] # Idle /\ Contends(t))', req'[t].id # id
             PROVE  req'[t].id \in shared
  BY DEF Contended
<1>1. \A u \in Slots : req'[u] # Idle => req'[u].pc # "idle"
  BY DEF TypeInv, TypeOK, Requests
<1>2. t # s /\ req'[t] = req[t] /\ req[t] # Idle
  BY <1>1
<1>3. req[t].id \in ActionIds /\ req[t].id # id
  BY <1>2 DEF TypeInv, TypeOK, Requests
<1>4. \A u \in Slots : req'[u] # Idle /\ req'[u].id = req[t].id
                      => req[u] # Idle /\ req[u].id = req[t].id
  BY <1>1, <1>3
<1>5. /\ runs'[req[t].id] = runs[req[t].id]
      /\ \A w \in Workers : mem'[w][req[t].id] = mem[w][req[t].id]
  BY <1>3
<1>6. Contends(t)
  BY <1>2, <1>4, <1>5 DEF Contends, OwnedBy
<1> QED
  BY <1>2, <1>6 DEF ContendersShared, Contended

-----------------------------------------------------------------------------
(* The invariant of the specification with its history variable. *)

HInv == TypeInv /\ SafetyInv /\ OnceInv

LEMMA HInvInit == HInit => HInv
<1> SUFFICES ASSUME HInit PROVE OnceInv
  BY TypeInvInit, SafetyInvInit DEF HInv, HInit
<1>1. \A s \in Slots : req[s] = Idle
  BY DEF HInit, Init
<1>2. \A s \in Slots, a \in ActionIds : ~Decided(s, a)
  BY <1>1 DEF Decided, Idle
<1>3. shared = {} /\ ContendersShared
  BY <1>1 DEF ContendersShared, Contended, HInit
<1>4. NoneRedone /\ EachOnce
  BY <1>2 DEF NoneRedone, Undone, EachOnce, OneEffect, HInit, Init
<1> QED
  BY <1>3, <1>4 DEF OnceInv

(* A step of the specification, seen from an action. *)
LEMMA StepSeen ==
    ASSUME HInv, TypeInv', NEW s \in Slots, Arrive(s) \/ Serve(s), HNext
    PROVE  \E id \in ActionIds :
             /\ Contended' \subseteq shared \cup {id}
             /\ crashes' = crashes
             /\ \A a \in ActionIds \ shared' : faults' = 0 =>
                  /\ Undone(a) => Undone(a)'
                  /\ OneEffect(a) =>
                       /\ OneEffect(a)'
                       /\ Same(a) \/ (a = id /\ (Begins(a) \/ Takes(a) \/ Fails(a)))
<1>1. PICK id \in ActionIds :
        /\ \A t \in Slots : t # s => req'[t] = req[t]
        /\ req[s].pc # "idle" => req[s].id = id
        /\ req'[s].pc # "idle" => req'[s].id = id
        /\ \A b \in ActionIds : b # id =>
             /\ runs'[b] = runs[b] /\ effects'[b] = effects[b]
             /\ \A w \in Workers : mem'[w][b] = mem[w][b]
        /\ crashes' = crashes
        /\ Arrive(s) => /\ UNCHANGED <<runs, mem, effects, faults>>
                        /\ ~Decided(s, id) /\ ~Decided(s, id)'
        /\ Serve(s) => req[s].id = id /\ req[s].pc # "idle"
  BY StepAbout DEF HInv
<1>2. Contended' \subseteq shared \cup {id}
  BY <1>1, NoOtherContended DEF HInv, OnceInv
<1>3. ASSUME NEW a \in ActionIds \ shared', faults' = 0
      PROVE  /\ Undone(a) => Undone(a)'
             /\ OneEffect(a) =>
                  /\ OneEffect(a)'
                  /\ Same(a) \/ (a = id /\ (Begins(a) \/ Takes(a) \/ Fails(a)))
  <2>1. faults = 0
    BY <1>3, FaultsGrow DEF HInv, HNext
  <2>2. a \notin shared
    BY DEF HNext
  <2>3. CASE a # id
    <3>1. ~Decided(s, a) /\ ~Decided(s, a)'
      BY <1>1, <2>3 DEF Decided
    <3> QED
      BY <1>1, <2>3, <3>1, Away
  <2>4. CASE a = id /\ Arrive(s)
    BY <1>1, <2>4, Away
  <2>5. CASE a = id /\ Serve(s)
    BY <1>1, <1>3, <2>1, <2>2, <2>5, OwnUndone, OwnOnce DEF HInv, OnceInv
  <2> QED
    BY <2>3, <2>4, <2>5
<1> QED
  BY <1>1, <1>2, <1>3

(* Everything is excused as soon as something failed. *)
LEMMA ExcusedIs ==
    ASSUME TypeInv, TypeInv'
    PROVE  /\ \/ faults = 0 /\ crashes = 0 /\ Excused = shared
              \/ faults # 0 /\ Excused = ActionIds
              \/ crashes # 0 /\ Excused = ActionIds
           /\ \/ faults' = 0 /\ crashes' = 0 /\ Excused' = shared'
              \/ faults' # 0 /\ Excused' = ActionIds
              \/ crashes' # 0 /\ Excused' = ActionIds
<1>1. faults \in Nat /\ crashes \in Nat /\ faults' \in Nat /\ crashes' \in Nat
  BY ConstantsOK DEF TypeInv, TypeOK
<1>2. \A f, c \in Nat : (f + c > 0) <=> (f # 0 \/ c # 0)
  OBVIOUS
<1> QED
  BY <1>1, <1>2, Zenon DEF Excused

(* Once excused, always excused. *)
LEMMA ExcusedGrows ==
    ASSUME HInv, TypeInv', [HNext]_hvars
    PROVE  /\ shared \subseteq shared' /\ shared' \subseteq ActionIds
           /\ faults' = 0 => faults = 0
           /\ crashes' = 0 => crashes = 0
           /\ Excused \subseteq Excused' /\ Excused' \subseteq ActionIds
<1>1. shared \subseteq shared' /\ [Next]_vars
  BY DEF HNext, hvars
<1>2. faults' = 0 => faults = 0
  BY <1>1, FaultsGrow DEF HInv
<1>3. crashes' = 0 => crashes = 0
  <2>1. ASSUME NEW s \in Slots, Arrive(s) \/ Serve(s)
        PROVE  crashes' = crashes
    BY <2>1, StepAbout DEF HInv
  <2>2. ASSUME NEW w \in Workers, Crash(w)
        PROVE  crashes' # 0
    BY <2>2, ConstantsOK DEF Crash, HInv, TypeInv, TypeOK
  <2> QED
    BY <1>1, <2>1, <2>2 DEF Next, Quiet, vars
<1>4. shared' \subseteq ActionIds
  <2>1. Contended' \subseteq ActionIds
    BY DEF Contended, TypeInv, TypeOK, Requests
  <2> QED
    BY <2>1 DEF HNext, hvars, HInv, OnceInv
<1>5. Excused \subseteq Excused' /\ Excused' \subseteq ActionIds
  BY <1>1, <1>2, <1>3, <1>4, ExcusedIs, Zenon DEF HInv, OnceInv
<1> QED
  BY <1>1, <1>2, <1>3, <1>4, <1>5

LEMMA HInvStep ==
    ASSUME HInv, [HNext]_hvars
    PROVE  HInv'
<1>1. [Next]_vars
  BY DEF HNext, hvars
<1>2. TypeInv' /\ SafetyInv'
  BY <1>1, TypeInvStep, SafetyInvStep DEF HInv
<1>3. /\ shared \subseteq shared' /\ shared' \subseteq ActionIds
      /\ faults' = 0 => faults = 0
      /\ Excused \subseteq Excused'
  BY <1>2, ExcusedGrows
<1>4. crashes \in Nat
  BY ConstantsOK DEF HInv, TypeInv, TypeOK
<1>5. \A a \in ActionIds \ Excused' : faults' = 0 /\ crashes' = 0 /\ a \notin shared'
  BY <1>2, ExcusedIs DEF HInv
<1>6. CASE UNCHANGED hvars
  <2>1. ContendersShared'
    BY <1>6 DEF hvars, vars, HInv, OnceInv, ContendersShared, Contended, Contends
  <2>2. NoneRedone'
    BY <1>6 DEF hvars, vars, HInv, OnceInv, NoneRedone, Undone, Decided
  <2>3. EachOnce'
    BY <1>6 DEF hvars, vars, HInv, OnceInv, EachOnce, OneEffect, Decided, Done, Excused
  <2> QED
    BY <1>2, <1>3, <2>1, <2>2, <2>3 DEF HInv, OnceInv
<1>7. ASSUME HNext
      PROVE  ContendersShared'
  BY <1>7 DEF HNext, ContendersShared
<1>8. ASSUME HNext, NEW s \in Slots, Arrive(s) \/ Serve(s)
      PROVE  NoneRedone' /\ EachOnce'
  <2>1. PICK id \in ActionIds :
          /\ crashes' = crashes
          /\ \A a \in ActionIds \ shared' : faults' = 0 =>
               (Undone(a) => Undone(a)') /\ (OneEffect(a) => OneEffect(a)')
    BY <1>2, <1>8, StepSeen
  <2>2. NoneRedone'
    BY <1>3, <2>1 DEF NoneRedone, HInv, OnceInv
  <2>3. EachOnce'
    <3> SUFFICES ASSUME NEW a \in ActionIds \ Excused'
                 PROVE  OneEffect(a)'
      BY DEF EachOnce
    <3>1. a \notin Excused
      BY <1>2, ExcusedGrows
    <3> QED
      BY <1>5, <2>1, <3>1 DEF EachOnce, HInv, OnceInv
  <2> QED
    BY <2>2, <2>3
<1>9. ASSUME NEW w \in Workers, Crash(w)
      PROVE  NoneRedone' /\ EachOnce'
  <2>1. /\ UNCHANGED <<runs, faults>> /\ crashes' = crashes + 1
        /\ \A s \in Slots : req'[s] = Idle \/ req'[s] = req[s]
    BY <1>9 DEF Crash
  <2>2. \A s \in Slots, a \in ActionIds : Decided(s, a)' => Decided(s, a)
    BY <2>1 DEF Decided, Idle
  <2>3. NoneRedone'
    BY <1>3, <2>1, <2>2 DEF NoneRedone, Undone, HInv, OnceInv
  <2>4. EachOnce'
    BY <1>4, <1>5, <2>1 DEF EachOnce
  <2> QED
    BY <2>3, <2>4
<1>10. ASSUME UNCHANGED vars
       PROVE  NoneRedone' /\ EachOnce'
  <2>1. NoneRedone'
    BY <1>3, <1>10 DEF vars, HInv, OnceInv, NoneRedone, Undone, Decided
  <2>2. EachOnce'
    <3>1. \A a \in ActionIds : OneEffect(a) => OneEffect(a)'
      BY <1>10 DEF vars, OneEffect, Decided, Done
    <3>2. Excused \subseteq Excused'
      BY <1>2, ExcusedGrows
    <3> QED
      BY <3>1, <3>2 DEF EachOnce, HInv, OnceInv
  <2> QED
    BY <2>1, <2>2
<1>11. ASSUME HNext
       PROVE  NoneRedone' /\ EachOnce'
  BY <1>8, <1>9, <1>10, <1>11 DEF HNext, Next, Quiet
<1> QED
  BY <1>2, <1>3, <1>6, <1>7, <1>11 DEF HInv, OnceInv

LEMMA HInvHolds == HSpec => []HInv
  BY HInvInit, HInvStep, PTL DEF HSpec

(* A run that is completed and whose action_id one user uses one request   *)
(* at a time stays completed, through deaths of processes too, while the   *)
(* database answers: nobody who has decided to write it saw it completed.  *)
THEOREM CompletedStays == HSpec => CompletedIsFinal
<1>1. ASSUME HInv, [HNext]_hvars
      PROVE  \A a \in ActionIds \ shared' :
                runs[a].status = "completed" /\ faults' = 0
                => runs'[a].status = "completed"
  <2> SUFFICES ASSUME NEW a \in ActionIds \ shared',
                      runs[a].status = "completed", faults' = 0
               PROVE  runs'[a].status = "completed"
    OBVIOUS
  <2>1. [Next]_vars /\ a \notin shared
    BY <1>1 DEF HNext, hvars
  <2>2. \A s \in Slots : ~Decided(s, a)
    BY <1>1, <2>1, FaultsGrow DEF HInv, OnceInv, NoneRedone, Undone
  <2>3. ASSUME NEW s \in Slots, Serve(s)
        PROVE  runs'[a] = runs[a]
    <3>1. CASE req[s].id # a
      BY <1>1, <2>3, <3>1, ServeTouches DEF HInv
    <3>2. CASE req[s].id = a
      <4>1. PickExecutor(s) \/ LookUp(s) \/ CheckCompleted(s)
        BY <2>2, <2>3, <3>2
        DEF Decided, Serve, CancelWrite, Defer, Begin, RunExecutor, ExecutorRaises,
            LeavePending, Finish
      <4> QED
        BY <1>1, <4>1, Reads DEF HInv
    <3> QED
      BY <3>1, <3>2
  <2>4. ASSUME NEW s \in Slots, Arrive(s)
        PROVE  runs'[a] = runs[a]
    BY <2>4, Arrives DEF Start
  <2> QED
    BY <2>1, <2>3, <2>4 DEF Next, Crash, Quiet, vars
<1>2. HInv /\ [HNext]_hvars =>
        [\A a \in ActionIds \ shared' :
            runs[a].status = "completed" /\ faults' = 0
            => runs'[a].status = "completed"]_hvars
  BY <1>1
<1> QED
  BY <1>2, HInvHolds, PTL DEF HSpec, CompletedIsFinal

-----------------------------------------------------------------------------
(* The refinement of ActionOnce. *)

LEMMA Mapped ==
    /\ Attempting = [a \in ActionIds |-> a \notin Excused /\ Trying(a)]
    /\ Effected = [a \in ActionIds |-> IF a \in Excused THEN 0 ELSE Len(effects[a])]
    /\ Attempting' = [a \in ActionIds |-> a \notin Excused' /\ Trying(a)']
    /\ Effected' = [a \in ActionIds |-> IF a \in Excused' THEN 0 ELSE Len(effects'[a])]
  BY DEF Attempting, Effected, Trying

(* Functions that differ at one argument at most. *)
LEMMA Updated ==
    ASSUME NEW S, NEW f, NEW g, f = [x \in S |-> f[x]], g = [x \in S |-> g[x]],
           NEW id \in S, \A x \in S : x # id => g[x] = f[x]
    PROVE  /\ g = [f EXCEPT ![id] = g[id]]
           /\ g[id] = f[id] => g = f
  OBVIOUS

(* A step excuses more actions and is nothing to the others, or it excuses *)
(* none and is an attempt, an effect or a failure of one.                  *)
LEMMA OneAtATime ==
    ASSUME HInv, HInv', HNext
    PROVE  \/ \A a \in ActionIds \ Excused' : Same(a)
           \/ /\ Excused' = Excused
              /\ \E id \in ActionIds \ Excused :
                   /\ Begins(id) \/ Takes(id) \/ Fails(id)
                   /\ \A a \in ActionIds \ Excused : a = id \/ Same(a)
<1>1. /\ shared \subseteq shared' /\ shared' \subseteq ActionIds
      /\ faults' = 0 => faults = 0
      /\ crashes' = 0 => crashes = 0
      /\ Excused \subseteq Excused'
  BY ExcusedGrows DEF HInv
<1>2. \A a \in ActionIds \ Excused' : faults' = 0 /\ crashes' = 0 /\ a \notin shared'
  BY ExcusedIs DEF HInv
<1>3. ASSUME NEW s \in Slots, Arrive(s) \/ Serve(s)
      PROVE  \/ \A a \in ActionIds \ Excused' : Same(a)
             \/ /\ Excused' = Excused
                /\ \E id \in ActionIds \ Excused :
                     /\ Begins(id) \/ Takes(id) \/ Fails(id)
                     /\ \A a \in ActionIds \ Excused : a = id \/ Same(a)
  <2>1. PICK id \in ActionIds :
          /\ Contended' \subseteq shared \cup {id}
          /\ \A a \in ActionIds \ shared' : faults' = 0 =>
               (OneEffect(a) =>
                  Same(a) \/ (a = id /\ (Begins(a) \/ Takes(a) \/ Fails(a))))
    BY <1>3, StepSeen DEF HInv
  <2>2. \A a \in ActionIds \ Excused' :
           Same(a) \/ (a = id /\ (Begins(a) \/ Takes(a) \/ Fails(a)))
    BY <1>1, <1>2, <2>1 DEF HInv, OnceInv, EachOnce
  <2>3. CASE \A a \in ActionIds \ Excused' : Same(a)
    BY <2>3
  <2>4. CASE id \notin Excused' /\ (Begins(id) \/ Takes(id) \/ Fails(id))
    <3>1. shared' = shared
      BY <1>2, <2>1, <2>4 DEF HNext
    <3>2. Excused' = Excused
      BY <1>1, <1>2, <2>4, <3>1, ExcusedIs DEF HInv
    <3> QED
      BY <2>2, <2>4, <3>2
  <2> QED
    BY <2>2, <2>3, <2>4
<1>4. ASSUME NEW w \in Workers, Crash(w)
      PROVE  \A a \in ActionIds \ Excused' : Same(a)
  <2>1. crashes' = crashes + 1 /\ crashes \in Nat
    BY <1>4, ConstantsOK DEF Crash, HInv, TypeInv, TypeOK
  <2> QED
    BY <1>1, <1>2, <2>1
<1>5. ASSUME UNCHANGED vars
      PROVE  \A a \in ActionIds \ Excused' : Same(a)
  BY <1>5 DEF vars, Same, Trying
<1> QED
  BY <1>3, <1>4, <1>5 DEF HNext, Next, Quiet

LEMMA RefinesStep ==
    ASSUME HInv, HInv', [HNext]_hvars
    PROVE  [Once!Next]_<<Attempting, Effected, Excused>>
<1>1. /\ Excused \subseteq Excused' /\ Excused' \subseteq ActionIds
      /\ Excused \subseteq ActionIds
  BY ExcusedGrows DEF HInv
<1>2. CASE UNCHANGED hvars
  <2>1. Excused' = Excused
    BY <1>2 DEF hvars, vars, Excused
  <2>2. Attempting' = Attempting
    BY <1>2, <2>1 DEF hvars, vars, Attempting
  <2>3. Effected' = Effected
    BY <1>2, <2>1 DEF hvars, vars, Effected
  <2> QED
    BY <2>1, <2>2, <2>3
<1>3. CASE HNext /\ \A a \in ActionIds \ Excused' : Same(a)
  <2>1. Excused' = Excused \cup Excused'
    BY <1>1
  <2>2. Attempting' = [a \in ActionIds |-> a \notin Excused' /\ Attempting[a]]
    <3>1. \A a \in ActionIds :
             (a \notin Excused' /\ Trying(a)')
             <=> (a \notin Excused' /\ a \notin Excused /\ Trying(a))
      BY <1>1, <1>3 DEF Same
    <3> QED
      BY <3>1, Mapped, Zenon
  <2>3. Effected' = [a \in ActionIds |-> IF a \in Excused' THEN 0 ELSE Effected[a]]
    <3>1. \A a \in ActionIds \ Excused' : a \notin Excused /\ effects'[a] = effects[a]
      BY <1>1, <1>3 DEF Same
    <3> QED
      BY <3>1, Mapped
  <2>4. Once!Excuse(Excused')
    BY <2>1, <2>2, <2>3 DEF Once!Excuse
  <2> QED
    BY <1>1, <2>4 DEF Once!Next
<1>4. ASSUME HNext, Excused' = Excused, NEW id \in ActionIds \ Excused,
             Begins(id) \/ Takes(id) \/ Fails(id),
             \A a \in ActionIds \ Excused : a = id \/ Same(a)
      PROVE  Once!Next
  <2>1. /\ Attempting[id] <=> Trying(id)
        /\ Effected[id] = Len(effects[id])
        /\ effects[id] = <<>> => Effected[id] = 0
    BY Mapped
  <2>2. /\ \A a \in ActionIds : a # id => Attempting'[a] = Attempting[a]
        /\ Attempting'[id] = Trying(id)'
    <3>1. \A a \in ActionIds :
             a # id => ((a \notin Excused' /\ Trying(a)') <=> (a \notin Excused /\ Trying(a)))
      BY <1>4 DEF Same
    <3>2. (id \notin Excused' /\ Trying(id)') <=> Trying(id)'
      BY <1>4
    <3>3. \A a \in ActionIds :
             /\ Attempting[a] = (a \notin Excused /\ Trying(a))
             /\ Attempting'[a] = (a \notin Excused' /\ Trying(a)')
      BY Mapped
    <3>4. \A a \in ActionIds : a # id => Attempting'[a] = Attempting[a]
      BY <3>1, <3>3, Zenon
    <3>5. Attempting'[id] = Trying(id)'
      BY <3>2, <3>3, Zenon DEF Trying
    <3> QED
      BY <3>4, <3>5
  <2>3. /\ \A a \in ActionIds : a # id => Effected'[a] = Effected[a]
        /\ Effected'[id] = Len(effects'[id])
    BY <1>4, Mapped DEF Same
  <2>4. CASE Begins(id)
    <3>1. Attempting' = [Attempting EXCEPT ![id] = TRUE]
      BY <2>2, <2>4, Mapped, Updated, Zenon DEF Begins
    <3>2. Effected' = Effected
      BY <2>1, <2>3, <2>4, Mapped, Updated DEF Begins
    <3>3. Once!Attempt(id)
      BY <1>4, <2>1, <2>4, <3>1, <3>2 DEF Begins, Once!Attempt
    <3> QED
      BY <3>3 DEF Once!Next
  <2>5. CASE Takes(id)
    <3>1. Attempting' = [Attempting EXCEPT ![id] = FALSE]
      BY <2>2, <2>5, Mapped, Updated, Zenon DEF Takes
    <3>2. Effected' = [Effected EXCEPT ![id] = 1]
      BY <2>3, <2>5, Mapped, Updated DEF Takes
    <3>3. Once!TakeEffect(id)
      BY <1>4, <2>1, <2>5, <3>1, <3>2 DEF Takes, Once!TakeEffect
    <3> QED
      BY <3>3 DEF Once!Next
  <2>6. CASE Fails(id)
    <3>1. Attempting' = [Attempting EXCEPT ![id] = FALSE]
      BY <2>2, <2>6, Mapped, Updated, Zenon DEF Fails
    <3>2. Effected' = Effected
      BY <2>1, <2>3, <2>6, Mapped, Updated DEF Fails
    <3>3. Once!GiveUp(id)
      BY <1>4, <2>1, <2>6, <3>1, <3>2 DEF Fails, Once!GiveUp
    <3> QED
      BY <3>3 DEF Once!Next
  <2> QED
    BY <1>4, <2>4, <2>5, <2>6
<1> QED
  BY <1>2, <1>3, <1>4, OneAtATime

LEMMA RefinesInit == HInit => Once!Init
<1> SUFFICES ASSUME HInit PROVE Once!Init
  OBVIOUS
<1>1. Excused = {}
  BY DEF HInit, Init, Excused
<1>2. \A a \in ActionIds : ~Trying(a)
  BY DEF HInit, Init, Trying, Idle
<1>3. Attempting = [a \in ActionIds |-> FALSE]
  BY <1>1, <1>2, Mapped
<1>4. Effected = [a \in ActionIds |-> 0]
  BY <1>1, Mapped DEF HInit, Init
<1> QED
  BY <1>1, <1>3, <1>4 DEF Once!Init

(* The docstring's promise, kept: until a round trip fails or a process    *)
(* dies, an action_id used by one user and one request at a time is        *)
(* attempted by one request at a time and never again once it has taken    *)
(* effect.                                                                 *)
THEOREM ImplementsOnce == HSpec => ImplementsActionOnce
<1>1. HInv /\ HInv' /\ [HNext]_hvars
      => [Once!Next]_<<Attempting, Effected, Excused>>
  BY RefinesStep
<1> QED
  BY <1>1, RefinesInit, HInvHolds, PTL DEF HSpec, ImplementsActionOnce, Once!Spec
=============================================================================
