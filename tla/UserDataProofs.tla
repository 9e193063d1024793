---------------------------- MODULE UserDataProofs ----------------------------
(***************************************************************************)
(* UserData, for any users, threads, processes, requests and failures:     *)
(* what is listed is there, and nothing outlives what it belongs to; and,  *)
(* with the history variables of UserDataMC, that leftovers have a cause,  *)
(* memories last and exports are complete.                                 *)
(***************************************************************************)
EXTENDS UserDataMC, TLAPS

(* The steps of each operation. *)
StepsOf == [upload |-> {"save", "check", "insert"},
            removeFile |-> {"check", "select", "delete", "unlink"},
            createWorkspace |-> {"insert"}, dropWorkspace |-> {"delete"},
            createProject |-> {"own", "insert"}, dropProject |-> {"delete"},
            remember |-> {"upsert"}, forget |-> {"forget"},
            export |-> {"collect", "recall", "exported"},
            deleteAccount |-> {"clear", "cascade"}]

Busy(s) == req[s] # Free
InPlace == \A s \in Slots : Busy(s) => req[s].pc \in StepsOf[req[s].op]

(* Numbers of requests, and of what they made: none is used twice, and a   *)
(* request is asked to remove or to extend only what came before it.       *)
Numbered ==
    /\ \A s \in Slots : Busy(s) => req[s].id \in 1..asked /\ req[s].target \in 0..asked
    /\ \A r \in rows : r.id \in 1..asked
    /\ \A w \in Workers : \A f \in kept[w] : f.id \in 1..asked
Unused ==
    \A s \in Slots : Busy(s) =>
        /\ \A r \in rows : r.id # req[s].id
        /\ \A w \in Workers : \A f \in kept[w] : f.id # req[s].id
        /\ \A t \in Slots : Busy(t) => /\ req[t].target # req[s].id
                                       /\ t # s => req[t].id # req[s].id
Unique ==
    /\ \A q, r \in rows : q.id = r.id => q = r
    /\ \A r \in rows : \A w \in Workers : \A f \in kept[w] : f.id # r.id
    /\ \A v, w \in Workers : v # w => kept[v] \cap kept[w] = {}
Ids3 == Numbered /\ Unused /\ Unique

(* An upload that is past its write has its file; a removal that is past   *)
(* its look has no other claim on the file.                                *)
SavedAt(s) ==
    Busy(s) /\ req[s].op = "upload" /\ req[s].pc \in {"check", "insert"} => FileOf(req[s]) \in disk
FileRow(r, id, u) == r.kind = "file" /\ r.id = id /\ r.owner = u
RemovedAt(s) ==
    Busy(s) /\ req[s].op = "removeFile" /\ req[s].pc \in {"delete", "unlink"} =>
        /\ \A w \in Workers : Target(req[s]) \notin kept[w]
        /\ req[s].pc = "unlink" => \A r \in rows : ~FileRow(r, req[s].target, req[s].user)
FilesInv == (\A s \in Slots : SavedAt(s) /\ RemovedAt(s)) /\ RowHasFile

(* A project about to be inserted has a workspace of its user, if any. *)
HomeOwned ==
    \A s \in Slots : Busy(s) /\ req[s].op = "createProject" /\ req[s].pc = "insert" =>
        \A w \in RowsNamed("workspace", req[s].target) : w.owner = req[s].user
RowsInv == HomeOwned /\ NothingDangles

Typed == TypeOK /\ InPlace
Inv == Typed /\ Ids3 /\ FilesInv /\ RowsInv /\ DeletedOnce

-----------------------------------------------------------------------------

LEMMA InitInv == Init => Inv
<1> SUFFICES ASSUME Init PROVE Inv
  OBVIOUS
<1>1. TypeOK
  BY UserDataConstants DEF Init, TypeOK, Ids, None
<1>2. \A s \in Slots : ~Busy(s)
  BY DEF Init, Busy
<1>3. rows = {} /\ \A w \in Workers : kept[w] = {}
  BY DEF Init
<1>4. InPlace /\ Ids3 /\ FilesInv
  BY <1>2, <1>3 DEF InPlace, Ids3, Numbered, Unused, Unique, FilesInv, SavedAt, RemovedAt, RowHasFile
<1>5. RowsInv /\ DeletedOnce
  BY <1>2, <1>3 DEF RowsInv, HomeOwned, NothingDangles, DeletedOnce, Init
<1> QED
  BY <1>1, <1>4, <1>5 DEF Inv, Typed

(* A thread at a step has a request. *)
LEMMA AtBusy ==
    ASSUME Typed, NEW s \in Slots, req[s].pc # "idle"
    PROVE  Busy(s) /\ req[s] \in Requests /\ req[s].pc \in StepsOf[req[s].op]
BY DEF Typed, TypeOK, InPlace, Busy, Free

(* What a step makes of a request: the same one further on, or none. *)
Onward(s, r) ==
    r # Free => /\ r \in Requests /\ r.pc \in StepsOf[r.op]
                /\ r.op = req[s].op /\ r.user = req[s].user
                /\ r.id = req[s].id /\ r.target = req[s].target

LEMMA GotoOnward ==
    ASSUME Typed, NEW s \in Slots, req[s].pc # "idle", NEW pc \in StepsOf[req[s].op], Goto(s, pc)
    PROVE  \E r : Onward(s, r) /\ req' = [req EXCEPT ![s] = r] /\ (r # Free => r.pc = pc)
<1> DEFINE r == [req[s] EXCEPT !.pc = pc]
<1>1. req[s] \in Requests
  BY AtBusy
<1>2. pc \in Steps
  BY <1>1 DEF StepsOf, Steps, Requests, Ops, KindOf
<1>3. r \in Requests /\ r.pc = pc /\ r.op = req[s].op /\ r.user = req[s].user
      /\ r.id = req[s].id /\ r.target = req[s].target
  BY <1>1, <1>2 DEF Requests
<1> QED
  BY <1>3 DEF Onward, Goto

LEMMA AnswerOnward ==
    ASSUME NEW s \in Slots, Answer(s)
    PROVE  \E r : Onward(s, r) /\ req' = [req EXCEPT ![s] = r] /\ r = Free
BY DEF Onward, Answer

LEMMA SeenOnward ==
    ASSUME Typed, NEW s \in Slots, Collect(s) \/ Recall(s) \/ RecallFromProcess(s)
    PROVE  \E r : Onward(s, r) /\ req' = [req EXCEPT ![s] = r] /\ r # Free
<1>1. req[s].pc \in {"collect", "recall"}
  BY DEF Collect, Recall, RecallFromProcess, At
<1>2. req[s] \in Requests /\ req[s].op = "export" /\ req[s].user \in Users /\ req[s].seen \in SUBSET Rows
  <2>1. req[s] \in Requests /\ req[s].pc \in StepsOf[req[s].op]
    BY <1>1, AtBusy
  <2>2. req[s].op \in Ops
    BY <2>1 DEF Requests
  <2>3. req[s].op = "export"
    BY <1>1, <2>1, <2>2 DEF StepsOf, Ops, KindOf
  <2> QED
    BY <2>1, <2>3 DEF Requests
<1>3. PICK pc \in {"recall", "exported"}, seen \in SUBSET Rows :
         req' = [req EXCEPT ![s].pc = pc, ![s].seen = seen]
  <2>1. CASE Collect(s)
    <3>1. {r \in RowsOf(req[s].user) : r.kind = "file"} \in SUBSET Rows
      BY DEF RowsOf, Typed, TypeOK
    <3> QED
      BY <2>1, <3>1 DEF Collect
  <2>2. CASE Recall(s)
    <3>1. req[s].seen \cup MemoryOf(req[s].user) \in SUBSET Rows
      BY <1>2 DEF MemoryOf, RowsOf, Typed, TypeOK
    <3>2. req' = [req EXCEPT ![s].pc = "exported", ![s].seen = req[s].seen \cup MemoryOf(req[s].user)]
      BY <2>2 DEF Recall
    <3> QED
      BY <3>1, <3>2
  <2>3. CASE RecallFromProcess(s)
    <3> DEFINE held == store[WorkerOf[s]][req[s].user]
               told == {[kind |-> "memory", id |-> i, owner |-> req[s].user, home |-> None] :
                        i \in {held} \ {None}}
    <3>1. held \in Ids /\ None \in Ids
      BY <1>2, UserDataConstants DEF Typed, TypeOK, None, Ids
    <3>2. told \in SUBSET Rows
      BY <1>2, <3>1 DEF Rows
    <3>3. req[s].seen \cup told \in SUBSET Rows
      BY <1>2, <3>2
    <3>4. req' = [req EXCEPT ![s].pc = "exported", ![s].seen = req[s].seen \cup told]
      BY <2>3 DEF RecallFromProcess
    <3> HIDE DEF told
    <3> QED
      BY <3>3, <3>4
  <2> QED
    BY <2>1, <2>2, <2>3
<1> DEFINE r == [req[s] EXCEPT !.pc = pc, !.seen = seen]
<1>4. r \in Requests /\ r.pc \in StepsOf[r.op] /\ r.op = req[s].op /\ r.user = req[s].user
      /\ r.id = req[s].id /\ r.target = req[s].target
  <2>1. pc \in Steps /\ pc \in StepsOf["export"]
    BY DEF Steps, StepsOf
  <2>2. r \in Requests
    BY <1>2, <2>1 DEF Requests
  <2>3. r.pc = pc /\ r.op = req[s].op /\ r.user = req[s].user
        /\ r.id = req[s].id /\ r.target = req[s].target
    BY <1>2 DEF Requests
  <2> QED
    BY <1>2, <2>1, <2>2, <2>3
<1>5. req' = [req EXCEPT ![s] = r]
  BY <1>2, <1>3 DEF Typed, TypeOK
<1>6. r # Free
  <2>1. r.pc # "idle"
    BY <1>2
  <2> QED
    BY <2>1 DEF Free
<1> QED
  BY <1>4, <1>5, <1>6 DEF Onward

LEMMA ServeOnward ==
    ASSUME Typed, NEW s \in Slots, Serve(s)
    PROVE  /\ req[s].pc # "idle"
           /\ \E r : Onward(s, r) /\ req' = [req EXCEPT ![s] = r]
<1>1. CASE Answer(s) /\ req[s].pc # "idle"
  BY <1>1, AnswerOnward
<1>2. CASE req[s].pc # "idle" /\ \E pc \in StepsOf[req[s].op] : Goto(s, pc)
  BY <1>2, GotoOnward
<1>3. CASE Collect(s) \/ Recall(s) \/ RecallFromProcess(s)
  BY <1>3, SeenOnward DEF Collect, Recall, RecallFromProcess, At
<1> DEFINE pc == req[s].pc
           op == req[s].op
<1>4. pc # "idle" => op \in Ops /\ pc \in StepsOf[op]
  BY AtBusy DEF Requests
<1>5. /\ pc = "save" => "check" \in StepsOf[op]
      /\ pc = "check" => IF op = "upload" THEN "insert" \in StepsOf[op] ELSE "select" \in StepsOf[op]
      /\ pc = "select" => "delete" \in StepsOf[op]
      /\ pc = "own" => "insert" \in StepsOf[op]
      /\ op = "removeFile" => "unlink" \in StepsOf[op]
      /\ pc = "collect" => "recall" \in StepsOf[op]
      /\ pc = "clear" => "cascade" \in StepsOf[op]
  BY <1>4 DEF StepsOf, Ops, KindOf
<1>6. CASE SaveFile(s) \/ CheckTable(s) \/ SelectFile(s) \/ CheckHome(s)
  BY <1>1, <1>2, <1>5, <1>6 DEF SaveFile, CheckTable, SelectFile, CheckHome, At
<1>7. CASE Delete(s) \/ CollectFails(s) \/ ClearMemory(s)
  BY <1>1, <1>2, <1>5, <1>7 DEF Delete, CollectFails, ClearMemory, At
<1>8. CASE SaveFails(s) \/ UseDictionary(s) \/ RemoveKept(s) \/ Unlink(s) \/ UnlinkFails(s) \/ Insert(s)
  BY <1>1, <1>8 DEF SaveFails, UseDictionary, RemoveKept, Unlink, UnlinkFails, Insert, At
<1>9. CASE Raises(s) \/ Upsert(s) \/ RememberInProcess(s) \/ Forget(s) \/ ForgetInProcess(s) \/ DeleteUser(s)
  BY <1>1, <1>9 DEF Raises, Upsert, RememberInProcess, Forget, ForgetInProcess, DeleteUser, At
<1> QED
  BY <1>3, <1>6, <1>7, <1>8, <1>9 DEF Serve

-----------------------------------------------------------------------------
(* Types. *)

LEMMA ReqTyped ==
    ASSUME Typed, NEW s \in Slots, NEW r, Onward(s, r), req' = [req EXCEPT ![s] = r]
    PROVE  req' \in [Slots -> Requests \cup {Free}] /\ InPlace'
BY DEF Onward, Typed, TypeOK, InPlace, Busy

LEMMA FaultTyped == Typed /\ (Fault \/ UNCHANGED faults) => faults' \in 0..MaxFaults
BY UserDataConstants DEF Typed, TypeOK, Fault

(* The row a request inserts. *)
LEMMA NewRowTyped ==
    ASSUME Typed, NEW s \in Slots, req[s].pc \in {"insert", "upsert"}
    PROVE  NewRow(req[s]) \in Rows
<1>1. req[s] \in Requests /\ req[s].pc \in StepsOf[req[s].op] /\ req[s].op \in Ops
  BY AtBusy DEF Requests
<1>2. KindOf[req[s].op] \in {"file", "workspace", "project", "memory"}
  BY <1>1 DEF StepsOf, KindOf, Ops
<1> QED
  BY <1>1, <1>2 DEF NewRow, Rows, Requests

LEMMA StoredTyped ==
    ASSUME Typed, NEW s \in Slots, NEW i \in Ids, req[s].pc # "idle",
           store' = [store EXCEPT ![WorkerOf[s]][req[s].user] = i]
    PROVE  store' \in [Workers -> [Users -> Ids]]
<1>1. req[s] \in Requests /\ req[s].user \in Users /\ WorkerOf[s] \in Workers
  BY AtBusy, UserDataConstants DEF Requests
<1> QED
  BY <1>1 DEF Typed, TypeOK

LEMMA ServeTyped ==
    ASSUME Typed, NEW s \in Slots, Serve(s)
    PROVE  Typed'
<1> DEFINE w == WorkerOf[s]
<1>1. req' \in [Slots -> Requests \cup {Free}] /\ InPlace' /\ req[s].pc # "idle"
  BY ServeOnward, ReqTyped
<1>2. req[s] \in Requests /\ w \in Workers /\ None \in Ids /\ req[s].id \in Ids
  BY <1>1, AtBusy, UserDataConstants DEF Requests, None, Ids
<1>3. FileOf(req[s]) \in Files /\ Target(req[s]) \in Files
  BY <1>2 DEF Requests, Files, FileOf, Target
<1>4. asked' = asked /\ crashes' = crashes /\ (Fault \/ UNCHANGED faults)
  BY DEF Serve, SaveFile, SaveFails, CheckTable, UseDictionary, RemoveKept, SelectFile, Unlink,
         UnlinkFails, CheckHome, Insert, Delete, Raises, Upsert, RememberInProcess, Forget,
         ForgetInProcess, Collect, CollectFails, Recall, RecallFromProcess, ClearMemory,
         DeleteUser, ProbeTable
<1>5. faults' \in 0..MaxFaults
  BY <1>4, FaultTyped
<1>6. CASE UNCHANGED <<users, rows, disk, store, kept, cached, audited>>
  BY <1>1, <1>4, <1>5, <1>6 DEF Typed, TypeOK
<1>7. CASE SaveFile(s) \/ SaveFails(s) \/ Unlink(s)
  <2>1. disk' \subseteq Files
    BY <1>3, <1>7 DEF SaveFile, SaveFails, Unlink, Typed, TypeOK
  <2> QED
    BY <1>1, <1>4, <1>5, <1>7, <2>1 DEF SaveFile, SaveFails, Unlink, Typed, TypeOK
<1>8. CASE CheckTable(s) \/ UseDictionary(s) \/ RemoveKept(s)
  <2>1. cached' \in [Workers -> {"unknown", "yes", "no"}]
    BY <1>8 DEF CheckTable, UseDictionary, RemoveKept, ProbeTable, Typed, TypeOK
  <2>2. kept' \in [Workers -> SUBSET Files]
    BY <1>2, <1>3, <1>8 DEF CheckTable, UseDictionary, RemoveKept, Typed, TypeOK
  <2>3. disk' \subseteq Files
    BY <1>8 DEF CheckTable, UseDictionary, RemoveKept, Typed, TypeOK
  <2>4. UNCHANGED <<users, rows, store, audited>>
    BY <1>8 DEF CheckTable, UseDictionary, RemoveKept
  <2> QED
    BY <1>1, <1>4, <1>5, <2>1, <2>2, <2>3, <2>4 DEF Typed, TypeOK
<1>9. CASE Insert(s) \/ Delete(s) \/ Upsert(s) \/ Forget(s)
  <2>0. rows \subseteq Rows
    BY DEF Typed, TypeOK
  <2>1. rows' \subseteq Rows
    <3>1. CASE Insert(s) \/ Upsert(s)
      <4>1. NewRow(req[s]) \in Rows
        BY <3>1, NewRowTyped DEF Insert, Upsert, At
      <4> QED
        BY <2>0, <3>1, <4>1 DEF Insert, Upsert
    <3>2. CASE Delete(s)
      BY <2>0, <3>2 DEF Delete
    <3>3. CASE Forget(s)
      BY <2>0, <3>3 DEF Forget
    <3> QED
      BY <1>9, <3>1, <3>2, <3>3
  <2>2. UNCHANGED <<users, disk, store, kept, cached, audited>>
    BY <1>9 DEF Insert, Delete, Upsert, Forget
  <2> QED
    BY <1>1, <1>4, <1>5, <2>1, <2>2 DEF Typed, TypeOK
<1>10. CASE RememberInProcess(s) \/ ForgetInProcess(s) \/ ClearMemory(s)
  <2>1. store' \in [Workers -> [Users -> Ids]]
    BY <1>1, <1>2, <1>10, StoredTyped DEF RememberInProcess, ForgetInProcess, ClearMemory
  <2>2. UNCHANGED <<users, rows, disk, kept, cached, audited>>
    BY <1>10 DEF RememberInProcess, ForgetInProcess, ClearMemory
  <2> QED
    BY <1>1, <1>4, <1>5, <2>1, <2>2 DEF Typed, TypeOK
<1>11. CASE DeleteUser(s)
  <2>1. users' \subseteq Users /\ rows' \subseteq Rows /\ audited' \in [Users -> Nat]
    BY <1>11 DEF DeleteUser, Typed, TypeOK
  <2>2. UNCHANGED <<disk, store, kept, cached>>
    BY <1>11 DEF DeleteUser
  <2> QED
    BY <1>1, <1>4, <1>5, <2>1, <2>2 DEF Typed, TypeOK
<1> QED
  BY <1>6, <1>7, <1>8, <1>9, <1>10, <1>11
  DEF Serve, SelectFile, UnlinkFails, CheckHome, Raises, Collect, CollectFails, Recall, RecallFromProcess

LEMMA AskTyped ==
    ASSUME Typed, NEW s \in Slots, Ask(s), Numbered
    PROVE  /\ Typed'
           /\ asked' = asked + 1 /\ UNCHANGED <<users, rows, disk, store, kept, cached, audited>>
           /\ \E r \in Requests :
                 /\ req' = [req EXCEPT ![s] = r] /\ r # Free /\ r.pc = FirstStep[r.op]
                 /\ r.id = asked + 1 /\ r.target \in 0..asked
                 /\ r.target # 0 => \/ \E q \in rows : q.id = r.target
                                    \/ \E w \in Workers : \E f \in kept[w] : f.id = r.target
<1>1. PICK u \in users, op \in Ops : \E t \in Targets(op) :
         req' = [req EXCEPT ![s] = [pc |-> FirstStep[op], op |-> op, user |-> u,
                                    id |-> asked + 1, target |-> t, seen |-> {}]]
  BY DEF Ask
<1>2. PICK t \in Targets(op) :
         req' = [req EXCEPT ![s] = [pc |-> FirstStep[op], op |-> op, user |-> u,
                                    id |-> asked + 1, target |-> t, seen |-> {}]]
  BY <1>1
<1> DEFINE r == [pc |-> FirstStep[op], op |-> op, user |-> u, id |-> asked + 1, target |-> t, seen |-> {}]
<1>3. asked < MaxRequests /\ asked' = asked + 1 /\ asked + 1 \in Ids /\ asked \in Nat
      /\ UNCHANGED <<users, rows, disk, store, kept, cached, audited, faults, crashes>>
  BY UserDataConstants DEF Ask, Typed, TypeOK, Ids
<1>4. \/ t = 0 \/ \E q \in rows : q.id = t
      \/ \E w \in Workers : \E f \in kept[w] : f.id = t
  BY DEF Targets, None
<1>5. t \in 0..asked /\ t \in Ids
  BY <1>3, <1>4, UserDataConstants DEF Numbered, Ids
<1>6. FirstStep[op] \in Steps \ {"idle"} /\ FirstStep[op] \in StepsOf[op]
  BY DEF FirstStep, Steps, StepsOf, Ops, KindOf
<1>7. r \in Requests
  BY <1>3, <1>5, <1>6 DEF Requests, Typed, TypeOK
<1>8. r # Free /\ r.pc # "idle"
  BY <1>6 DEF Free
<1>9. req' \in [Slots -> Requests \cup {Free}] /\ InPlace'
  BY <1>2, <1>6, <1>7 DEF Typed, TypeOK, InPlace, Busy
<1>10. Typed'
  BY <1>3, <1>9 DEF Typed, TypeOK
<1> QED
  BY <1>2, <1>3, <1>4, <1>5, <1>7, <1>8, <1>10

LEMMA CrashTyped ==
    ASSUME Typed, NEW w \in Workers, Crash(w)
    PROVE  Typed'
<1>1. None \in Ids
  BY UserDataConstants DEF None, Ids
<1>2. store' \in [Workers -> [Users -> Ids]] /\ kept' \in [Workers -> SUBSET Files]
      /\ cached' \in [Workers -> {"unknown", "yes", "no"}]
  BY <1>1 DEF Crash, Typed, TypeOK
<1>3. req' \in [Slots -> Requests \cup {Free}] /\ InPlace'
  BY DEF Crash, Typed, TypeOK, InPlace, Busy
<1>4. crashes' \in 0..MaxCrashes
  BY UserDataConstants DEF Crash, Typed, TypeOK
<1> QED
  BY <1>2, <1>3, <1>4 DEF Crash, Typed, TypeOK

-----------------------------------------------------------------------------
(* Numbers. *)

LEMMA IdsShrink ==
    ASSUME Ids3, asked' = asked, rows' \subseteq rows, \A w \in Workers : kept'[w] \subseteq kept[w],
           \A t \in Slots : Busy(t)' => /\ Busy(t)
                                        /\ req'[t].id = req[t].id /\ req'[t].target = req[t].target
    PROVE  Ids3'
<1>1. Numbered'
  BY DEF Ids3, Numbered
<1>2. Unused'
  BY DEF Ids3, Unused
<1>3. Unique'
  BY DEF Ids3, Unique
<1> QED
  BY <1>1, <1>2, <1>3 DEF Ids3

(* A request that ends leaves one row, or one entry, of its own number. *)
LEMMA IdsGrow ==
    ASSUME Ids3, asked' = asked, NEW s \in Slots, Busy(s), ~Busy(s)',
           \A t \in Slots \ {s} : req'[t] = req[t],
           NEW q, q.id = req[s].id, NEW w \in Workers,
           \/ /\ rows' \subseteq rows \cup {q} /\ kept' = kept
           \/ /\ rows' = rows /\ kept'[w] = kept[w] \cup {q}
              /\ \A v \in Workers \ {w} : kept'[v] = kept[v]
    PROVE  Ids3'
<1>1. \A t \in Slots : Busy(t)' => Busy(t) /\ t # s /\ req'[t] = req[t]
  BY DEF Busy
<1>2. /\ q.id \in 1..asked
      /\ \A r \in rows : r.id # q.id
      /\ \A v \in Workers : \A f \in kept[v] : f.id # q.id
      /\ \A t \in Slots \ {s} : Busy(t) => req[t].id # q.id
  BY DEF Ids3, Numbered, Unused
<1>3. \A r \in rows' : r \in rows \/ r = q
  OBVIOUS
<1>4. \A v \in Workers : \A f \in kept'[v] : f \in kept[v] \/ (f = q /\ v = w /\ rows' = rows)
  OBVIOUS
<1>5. Numbered'
  BY <1>1, <1>2, <1>3, <1>4 DEF Ids3, Numbered
<1>6. Unused'
  BY <1>1, <1>2, <1>3, <1>4 DEF Ids3, Unused
<1>7. Unique'
  <2>1. \A r, x \in rows' : r.id = x.id => r = x
    BY <1>2, <1>3 DEF Ids3, Unique
  <2>2. \A r \in rows' : \A v \in Workers : \A f \in kept'[v] : f.id # r.id
    BY <1>2, <1>3, <1>4 DEF Ids3, Unique
  <2>3. \A u, v \in Workers : u # v => kept'[u] \cap kept'[v] = {}
    BY <1>2, <1>4 DEF Ids3, Unique
  <2> QED
    BY <2>1, <2>2, <2>3 DEF Unique
<1> QED
  BY <1>5, <1>6, <1>7 DEF Ids3

LEMMA AskIds ==
    ASSUME Typed, Ids3, NEW s \in Slots, Ask(s)
    PROVE  Ids3'
<1>1. asked' = asked + 1 /\ UNCHANGED <<rows, kept>> /\ asked \in Nat
  BY AskTyped, UserDataConstants DEF Ids3, Typed, TypeOK, Ids
<1>2. PICK r \in Requests :
         /\ req' = [req EXCEPT ![s] = r] /\ r # Free
         /\ r.id = asked + 1 /\ r.target \in 0..asked
         /\ r.target # 0 => \/ \E q \in rows : q.id = r.target
                            \/ \E w \in Workers : \E f \in kept[w] : f.id = r.target
  BY AskTyped DEF Ids3
<1>3. req'[s] = r /\ \A t \in Slots : t # s => req'[t] = req[t] /\ (Busy(t)' <=> Busy(t))
  BY <1>2 DEF Busy, Typed, TypeOK
<1>4. Numbered'
  BY <1>1, <1>2, <1>3 DEF Ids3, Numbered
<1>5. \A t \in Slots : Busy(t) => /\ req[t].id # 0 /\ req[t].id # r.target
                                 /\ req[t].id # r.id /\ req[t].target # r.id
  BY <1>1, <1>2 DEF Ids3, Numbered, Unused
<1>6. r.target # r.id /\ (\A q \in rows : q.id # r.id) /\ \A w \in Workers : \A f \in kept[w] : f.id # r.id
  BY <1>1, <1>2 DEF Ids3, Numbered
<1>7. Unused'
  BY <1>1, <1>3, <1>5, <1>6 DEF Ids3, Unused
<1>8. Unique'
  BY <1>1 DEF Ids3, Unique
<1> QED
  BY <1>4, <1>7, <1>8 DEF Ids3

(* What an answer and a step onward do to the threads. *)
LEMMA Threads ==
    ASSUME Typed, NEW s \in Slots, Serve(s)
    PROVE  /\ Busy(s)
           /\ \A t \in Slots \ {s} : req'[t] = req[t] /\ (Busy(t)' <=> Busy(t))
           /\ Busy(s)' => /\ req'[s].id = req[s].id /\ req'[s].target = req[s].target
                          /\ req'[s].op = req[s].op /\ req'[s].user = req[s].user
           /\ Answer(s) => ~Busy(s)'
           /\ \A pc \in Steps : Goto(s, pc) => req'[s].pc = pc
<1>1. Busy(s) /\ req[s] \in Requests
  BY ServeOnward, AtBusy
<1>2. PICK r : Onward(s, r) /\ req' = [req EXCEPT ![s] = r]
  BY ServeOnward
<1>3. req'[s] = r /\ \A t \in Slots \ {s} : req'[t] = req[t]
  BY <1>2 DEF Typed, TypeOK
<1>4. Answer(s) => req'[s] = Free
  BY DEF Answer, Typed, TypeOK
<1>5. \A pc \in Steps : Goto(s, pc) => req'[s].pc = pc
  BY <1>1 DEF Goto, Typed, TypeOK, Requests
<1> QED
  BY <1>1, <1>2, <1>3, <1>4, <1>5 DEF Onward, Busy

LEMMA ServeIds ==
    ASSUME Typed, Ids3, NEW s \in Slots, Serve(s)
    PROVE  Ids3'
<1>1. asked' = asked
  BY DEF Serve, SaveFile, SaveFails, CheckTable, UseDictionary, RemoveKept, SelectFile, Unlink,
         UnlinkFails, CheckHome, Insert, Delete, Raises, Upsert, RememberInProcess, Forget,
         ForgetInProcess, Collect, CollectFails, Recall, RecallFromProcess, ClearMemory, DeleteUser
<1>2. CASE rows' \subseteq rows /\ \A w \in Workers : kept'[w] \subseteq kept[w]
  BY <1>1, <1>2, IdsShrink, Threads
<1>3. CASE Insert(s) \/ Upsert(s)
  <2>1. rows' \subseteq rows \cup {NewRow(req[s])} /\ kept' = kept
    BY <1>3 DEF Insert, Upsert
  <2>2. NewRow(req[s]).id = req[s].id
    BY DEF NewRow
  <2>3. WorkerOf[s] \in Workers
    BY UserDataConstants
  <2>4. Busy(s) /\ ~Busy(s)' /\ \A t \in Slots \ {s} : req'[t] = req[t]
    BY <1>3, Threads DEF Insert, Upsert
  <2> QED
    BY <1>1, <2>1, <2>2, <2>3, <2>4, IdsGrow
<1>4. CASE UseDictionary(s)
  <2>1. WorkerOf[s] \in Workers /\ FileOf(req[s]).id = req[s].id
    BY UserDataConstants DEF FileOf
  <2>2. Busy(s) /\ ~Busy(s)' /\ \A t \in Slots \ {s} : req'[t] = req[t]
    BY <1>4, Threads DEF UseDictionary
  <2>3. CASE UNCHANGED kept
    BY <1>2, <1>4, <2>3 DEF UseDictionary
  <2>4. CASE kept' = [kept EXCEPT ![WorkerOf[s]] = @ \cup {FileOf(req[s])}]
    <3>1. kept'[WorkerOf[s]] = kept[WorkerOf[s]] \cup {FileOf(req[s])}
          /\ \A v \in Workers \ {WorkerOf[s]} : kept'[v] = kept[v]
      BY <2>1, <2>4 DEF Typed, TypeOK
    <3>2. rows' = rows
      BY <1>4 DEF UseDictionary
    <3> QED
      BY <1>1, <2>1, <2>2, <3>1, <3>2, IdsGrow
  <2> QED
    BY <1>4, <2>3, <2>4 DEF UseDictionary
<1>5. CASE RemoveKept(s)
  <2>1. \A w \in Workers : kept'[w] \subseteq kept[w]
    BY <1>5 DEF RemoveKept, Typed, TypeOK
  <2> QED
    BY <1>2, <1>5, <2>1 DEF RemoveKept
<1>6. CASE Delete(s) \/ Forget(s) \/ DeleteUser(s)
  BY <1>2, <1>6 DEF Delete, Forget, DeleteUser
<1>7. CASE UNCHANGED <<rows, kept>>
  BY <1>2, <1>7
<1> QED
  BY <1>3, <1>4, <1>5, <1>6, <1>7
  DEF Serve, SaveFile, SaveFails, CheckTable, SelectFile, Unlink, UnlinkFails, CheckHome, Raises,
      RememberInProcess, ForgetInProcess, Collect, CollectFails, Recall, RecallFromProcess, ClearMemory

LEMMA CrashIds ==
    ASSUME Typed, Ids3, NEW w \in Workers, Crash(w)
    PROVE  Ids3'
<1>1. asked' = asked /\ rows' = rows
  BY DEF Crash
<1>2. \A v \in Workers : kept'[v] \subseteq kept[v]
  BY DEF Crash, Typed, TypeOK
<1>3. \A t \in Slots : Busy(t)' => Busy(t) /\ req'[t] = req[t]
  BY DEF Crash, Busy
<1> QED
  BY <1>1, <1>2, <1>3, IdsShrink

-----------------------------------------------------------------------------
(* Files. *)

(* Which operation a step belongs to. *)
LEMMA Place ==
    ASSUME Typed, NEW s \in Slots, req[s].pc # "idle"
    PROVE  /\ req[s].pc = "save" => req[s].op = "upload"
           /\ req[s].pc = "check" => req[s].op \in {"upload", "removeFile"}
           /\ req[s].pc = "insert" => req[s].op \in {"upload", "createWorkspace", "createProject"}
           /\ req[s].pc \in {"select", "unlink"} => req[s].op = "removeFile"
           /\ req[s].pc = "own" => req[s].op = "createProject"
           /\ req[s].pc = "upsert" => req[s].op = "remember"
           /\ req[s].pc \in {"forget", "collect", "recall", "clear", "cascade"} =>
                 req[s].op \in {"forget", "export", "deleteAccount"}
<1>1. req[s].op \in Ops /\ req[s].pc \in StepsOf[req[s].op]
  BY AtBusy DEF Requests
<1> QED
  BY <1>1 DEF StepsOf, Ops, KindOf

(* A step that adds no claim to a file and takes no file away. *)
LEMMA FilesShrink ==
    ASSUME Typed, FilesInv, NEW s \in Slots, Serve(s), disk \subseteq disk',
           \A r \in rows' : r.kind = "file" => r \in rows,
           \A w \in Workers : kept'[w] \subseteq kept[w],
           Busy(s)' => SavedAt(s)' /\ RemovedAt(s)'
    PROVE  FilesInv'
<1>1. \A t \in Slots : SavedAt(t)' /\ RemovedAt(t)'
  <2> SUFFICES ASSUME NEW t \in Slots, Busy(t)' PROVE SavedAt(t)' /\ RemovedAt(t)'
    BY DEF SavedAt, RemovedAt
  <2>1. CASE t = s
    BY <2>1
  <2>2. CASE t # s
    <3>1. req'[t] = req[t] /\ Busy(t)
      BY <2>2, Threads
    <3>2. SavedAt(t) /\ RemovedAt(t)
      BY DEF FilesInv
    <3>3. SavedAt(t)'
      BY <3>1, <3>2 DEF SavedAt, FileOf
    <3>4. RemovedAt(t)'
      BY <3>1, <3>2 DEF RemovedAt, Target, FileRow
    <3> QED
      BY <3>3, <3>4
  <2> QED
    BY <2>1, <2>2
<1>2. RowHasFile'
  BY DEF FilesInv, RowHasFile
<1> QED
  BY <1>1, <1>2 DEF FilesInv

(* A request that is over, or not about a file, claims none. *)
LEMMA NoClaim ==
    ASSUME Typed, NEW s \in Slots, Serve(s),
           Answer(s) \/ req[s].op \notin {"upload", "removeFile"}
    PROVE  Busy(s)' => SavedAt(s)' /\ RemovedAt(s)'
BY Threads DEF SavedAt, RemovedAt

LEMMA SavingKeeps ==
    ASSUME Typed, FilesInv, NEW s \in Slots, Serve(s),
           SaveFile(s) \/ SaveFails(s) \/ CheckTable(s)
    PROVE  FilesInv'
<1>1. disk \subseteq disk' /\ rows' = rows /\ kept' = kept
  BY DEF SaveFile, SaveFails, CheckTable
<1>2. CASE Answer(s)
  BY <1>1, <1>2, FilesShrink, NoClaim
<1>3. CASE SaveFile(s)
  <2>1. req[s].op = "upload" /\ Busy(s)' => req'[s].pc = "check" /\ req'[s].op = "upload"
        /\ req'[s].id = req[s].id /\ req'[s].user = req[s].user
    BY <1>3, Threads DEF SaveFile, Steps
  <2>2. req[s].op = "upload"
    BY <1>3, Place DEF SaveFile, At
  <2>3. FileOf(req[s]) \in disk'
    BY <1>3 DEF SaveFile
  <2>4. Busy(s)' => SavedAt(s)' /\ RemovedAt(s)'
    BY <2>1, <2>2, <2>3 DEF SavedAt, RemovedAt, FileOf
  <2> QED
    BY <1>1, <2>4, FilesShrink
<1>4. CASE CheckTable(s)
  <2>1. Busy(s)' => /\ req'[s].pc = (IF req[s].op = "upload" THEN "insert" ELSE "select")
                    /\ req'[s].op = req[s].op /\ req'[s].id = req[s].id /\ req'[s].user = req[s].user
    BY <1>4, Threads DEF CheckTable, Steps
  <2>2. Busy(s) /\ req[s].pc = "check" /\ SavedAt(s)
    BY <1>4, Threads DEF CheckTable, At, FilesInv
  <2>3. Busy(s)' => SavedAt(s)' /\ RemovedAt(s)'
    BY <1>1, <2>1, <2>2 DEF SavedAt, RemovedAt, FileOf
  <2> QED
    BY <1>1, <2>3, FilesShrink
<1> QED
  BY <1>2, <1>3, <1>4 DEF SaveFails

(* A removal looks, deletes its row, and only then removes the file. *)
LEMMA RemovalKeeps ==
    ASSUME Typed, Ids3, FilesInv, NEW s \in Slots, Serve(s), SelectFile(s) \/ Delete(s)
    PROVE  FilesInv'
<1>1. disk' = disk /\ kept' = kept /\ rows' \subseteq rows
  BY DEF SelectFile, Delete
<1>2. CASE Answer(s)
  BY <1>1, <1>2, FilesShrink, NoClaim
<1>3. CASE SelectFile(s) /\ ~Answer(s)
  <2>1. PICK r \in rows : FileRow(r, req[s].target, req[s].user)
    BY <1>3 DEF SelectFile, RowsNamed, FileRow
  <2>2. \A w \in Workers : Target(req[s]) \notin kept[w]
    BY <2>1 DEF Ids3, Unique, FileRow, Target
  <2>3. Busy(s)' => req'[s].pc = "delete" /\ req'[s].op = req[s].op
                    /\ req'[s].target = req[s].target /\ req'[s].user = req[s].user
    BY <1>3, Threads DEF SelectFile, Steps
  <2>4. Busy(s)' => SavedAt(s)' /\ RemovedAt(s)'
    BY <1>1, <2>2, <2>3 DEF SavedAt, RemovedAt, Target
  <2> QED
    BY <1>1, <2>4, FilesShrink
<1>4. CASE Delete(s) /\ req[s].op = "removeFile"
  <2> DEFINE gone == {r \in RowsNamed("file", req[s].target) : r.owner = req[s].user}
  <2>1. req[s].pc = "delete" /\ rows' = rows \ WithProjects(gone) /\ Goto(s, "unlink")
    BY <1>4 DEF Delete, At, KindOf
  <2>2. \A r \in rows' : ~FileRow(r, req[s].target, req[s].user)
    BY <2>1 DEF WithProjects, RowsNamed, FileRow
  <2>3. \A w \in Workers : Target(req[s]) \notin kept[w]
    BY <1>4, <2>1, Threads DEF FilesInv, RemovedAt
  <2>4. Busy(s)' => req'[s].pc = "unlink" /\ req'[s].op = req[s].op
                    /\ req'[s].target = req[s].target /\ req'[s].user = req[s].user
    BY <2>1, Threads DEF Steps
  <2>5. SavedAt(s)'
    BY <1>4, <2>4 DEF SavedAt
  <2>6. RemovedAt(s)'
    BY <1>1, <2>2, <2>3, <2>4 DEF RemovedAt, Target
  <2> QED
    BY <1>1, <2>5, <2>6, FilesShrink
<1> QED
  BY <1>2, <1>3, <1>4 DEF Delete

(* A file goes only when nothing claims it: no row, no entry, no upload. *)
LEMMA UnlinkKeeps ==
    ASSUME Typed, Ids3, FilesInv, NEW s \in Slots, Serve(s), Unlink(s) \/ RemoveKept(s)
    PROVE  FilesInv'
<1> DEFINE x == Target(req[s])
<1>1. Busy(s) /\ ~Busy(s)' /\ rows' = rows /\ disk \ {x} \subseteq disk'
      /\ \A t \in Slots \ {s} : req'[t] = req[t] /\ (Busy(t)' <=> Busy(t))
  BY Threads DEF Unlink, RemoveKept
<1>2. x.id = req[s].target
  BY DEF Target
<1>3. \A w \in Workers : kept'[w] \subseteq kept[w] /\ x \notin kept'[w]
  <2>1. CASE Unlink(s)
    <3>1. req[s].op = "removeFile" /\ req[s].pc = "unlink" /\ kept' = kept
      BY <2>1, Place DEF Unlink, At
    <3> QED
      BY <1>1, <3>1 DEF FilesInv, RemovedAt
  <2>2. CASE RemoveKept(s)
    <3> DEFINE v == WorkerOf[s]
    <3>1. v \in Workers /\ x \in kept[v]
      BY <2>2, UserDataConstants DEF RemoveKept
    <3>2. kept'[v] = kept[v] \ {x} /\ \A w \in Workers \ {v} : kept'[w] = kept[w]
      BY <2>2, <3>1 DEF RemoveKept, Typed, TypeOK
    <3>3. \A w \in Workers \ {v} : x \notin kept[w]
      BY <3>1 DEF Ids3, Unique
    <3> QED
      BY <3>2, <3>3
  <2> QED
    BY <2>1, <2>2
<1>4. \A r \in rows : r.kind = "file" => [id |-> r.id, owner |-> r.owner] # x
  <2>1. CASE Unlink(s)
    <3>1. req[s].op = "removeFile" /\ req[s].pc = "unlink"
      BY <2>1, Place DEF Unlink, At
    <3>2. \A r \in rows : ~FileRow(r, req[s].target, req[s].user)
      BY <1>1, <3>1 DEF FilesInv, RemovedAt
    <3> QED
      BY <3>2 DEF FileRow, Target
  <2>2. CASE RemoveKept(s)
    <3>1. WorkerOf[s] \in Workers /\ x \in kept[WorkerOf[s]]
      BY <2>2, UserDataConstants DEF RemoveKept
    <3>2. \A r \in rows : x.id # r.id
      BY <3>1 DEF Ids3, Unique
    <3> QED
      BY <3>2
  <2> QED
    BY <2>1, <2>2
<1>5. RowHasFile'
  BY <1>1, <1>3, <1>4 DEF FilesInv, RowHasFile
<1>6. ASSUME NEW t \in Slots, Busy(t)'
      PROVE  SavedAt(t)' /\ RemovedAt(t)'
  <2>1. Busy(t) /\ t # s /\ req'[t] = req[t]
    BY <1>1, <1>6
  <2>2. FileOf(req[t]) # x
    <3>1. req[s].target # req[t].id
      BY <1>1, <2>1 DEF Ids3, Unused
    <3> QED
      BY <3>1 DEF FileOf, Target
  <2>3. SavedAt(t) /\ RemovedAt(t)
    BY DEF FilesInv
  <2>4. SavedAt(t)'
    BY <1>1, <2>1, <2>2, <2>3 DEF SavedAt, FileOf
  <2>5. RemovedAt(t)'
    BY <1>1, <1>3, <2>1, <2>3 DEF RemovedAt, Target
  <2> QED
    BY <2>4, <2>5
<1>7. \A t \in Slots : SavedAt(t)' /\ RemovedAt(t)'
  BY <1>6 DEF SavedAt, RemovedAt
<1> QED
  BY <1>5, <1>7 DEF FilesInv

(* The row or the entry of an upload comes after its file. *)
LEMMA UploadKeeps ==
    ASSUME Typed, Ids3, FilesInv, NEW s \in Slots, Serve(s), Insert(s) \/ UseDictionary(s)
    PROVE  FilesInv'
<1> DEFINE n == req[s].id
           w == WorkerOf[s]
<1>1. disk' = disk /\ Busy(s) /\ Answer(s) /\ ~Busy(s)' /\ w \in Workers
      /\ \A t \in Slots \ {s} : req'[t] = req[t] /\ (Busy(t)' <=> Busy(t))
  BY Threads, UserDataConstants DEF Insert, UseDictionary
<1>2. SavedAt(s) /\ req[s].pc \in {"check", "insert"}
  BY DEF Insert, UseDictionary, At, FilesInv
<1>3. CASE UNCHANGED rows /\ \A v \in Workers : kept'[v] \subseteq kept[v]
  BY <1>1, <1>3, FilesShrink, NoClaim
<1>4. CASE Insert(s) /\ rows' = rows \cup {NewRow(req[s])} /\ UNCHANGED kept
  <2>1. NewRow(req[s]).kind = KindOf[req[s].op] /\ NewRow(req[s]).id = n /\ NewRow(req[s]).owner = req[s].user
    BY DEF NewRow
  <2>2. NewRow(req[s]).kind = "file" => FileOf(req[s]) \in disk
    <3>1. req[s].op \in Ops
      BY <1>2, AtBusy DEF Requests
    <3>2. KindOf[req[s].op] = "file" => req[s].op \in {"upload", "removeFile"}
      BY <3>1 DEF KindOf, Ops
    <3>3. req[s].pc = "insert"
      BY <1>4 DEF Insert, At
    <3>4. req[s].op # "removeFile"
      BY <1>2, <3>3, Place
    <3> QED
      BY <1>1, <1>2, <2>1, <3>2, <3>4 DEF SavedAt
  <2>3. RowHasFile'
    BY <1>1, <1>4, <2>1, <2>2 DEF FilesInv, RowHasFile, FileOf
  <2>4. ASSUME NEW t \in Slots, Busy(t)'
        PROVE  SavedAt(t)' /\ RemovedAt(t)'
    <3>1. Busy(t) /\ t # s /\ req'[t] = req[t] /\ SavedAt(t) /\ RemovedAt(t)
      BY <1>1, <2>4 DEF FilesInv
    <3>2. req[t].target # n
      BY <1>1, <3>1 DEF Ids3, Unused
    <3>3. SavedAt(t)'
      BY <1>1, <3>1 DEF SavedAt, FileOf
    <3>4. RemovedAt(t)'
      BY <1>4, <2>1, <3>1, <3>2 DEF RemovedAt, Target, FileRow
    <3> QED
      BY <3>3, <3>4
  <2> QED
    BY <2>3, <2>4 DEF FilesInv, SavedAt, RemovedAt
<1>5. CASE UNCHANGED rows /\ req[s].op = "upload" /\ kept' = [kept EXCEPT ![w] = @ \cup {FileOf(req[s])}]
  <2>1. \A v \in Workers : kept'[v] \subseteq kept[v] \cup {FileOf(req[s])}
    BY <1>5 DEF Typed, TypeOK
  <2>2. FileOf(req[s]) \in disk /\ FileOf(req[s]).id = n
    BY <1>1, <1>2, <1>5 DEF SavedAt, FileOf
  <2>3. RowHasFile'
    BY <1>1, <1>5, <2>1, <2>2 DEF FilesInv, RowHasFile
  <2>4. ASSUME NEW t \in Slots, Busy(t)'
        PROVE  SavedAt(t)' /\ RemovedAt(t)'
    <3>1. Busy(t) /\ t # s /\ req'[t] = req[t] /\ SavedAt(t) /\ RemovedAt(t)
      BY <1>1, <2>4 DEF FilesInv
    <3>2. req[t].target # n
      BY <1>1, <3>1 DEF Ids3, Unused
    <3>3. Target(req[t]) # FileOf(req[s])
      BY <3>2 DEF Target, FileOf
    <3>4. SavedAt(t)'
      BY <1>1, <3>1 DEF SavedAt, FileOf
    <3>5. RemovedAt(t)'
      BY <1>5, <2>1, <3>1, <3>3 DEF RemovedAt, Target
    <3> QED
      BY <3>4, <3>5
  <2> QED
    BY <2>3, <2>4 DEF FilesInv, SavedAt, RemovedAt
<1> QED
  BY <1>3, <1>4, <1>5 DEF Insert, UseDictionary

LEMMA ServeFiles ==
    ASSUME Typed, Ids3, FilesInv, NEW s \in Slots, Serve(s)
    PROVE  FilesInv'
<1>1. CASE SaveFile(s) \/ SaveFails(s) \/ CheckTable(s)
  BY <1>1, SavingKeeps
<1>2. CASE SelectFile(s) \/ Delete(s)
  BY <1>2, RemovalKeeps
<1>3. CASE Unlink(s) \/ RemoveKept(s)
  BY <1>3, UnlinkKeeps
<1>4. CASE Insert(s) \/ UseDictionary(s)
  BY <1>4, UploadKeeps
<1>5. ASSUME disk' = disk, kept' = kept, \A r \in rows' : r.kind = "file" => r \in rows,
             Answer(s) \/ req[s].op \notin {"upload", "removeFile"}
      PROVE  FilesInv'
  BY <1>5, FilesShrink, NoClaim
<1>6. CASE UnlinkFails(s) \/ Raises(s) \/ RememberInProcess(s) \/ Forget(s) \/ ForgetInProcess(s) \/ DeleteUser(s)
  BY <1>5, <1>6 DEF UnlinkFails, Raises, RememberInProcess, Forget, ForgetInProcess, DeleteUser
<1>7. CASE Upsert(s)
  <2>1. req[s].op = "remember"
    BY <1>7, Place DEF Upsert, At
  <2>2. NewRow(req[s]).kind # "file"
    BY <2>1 DEF NewRow, KindOf
  <2> QED
    BY <1>5, <1>7, <2>2 DEF Upsert
<1>8. CASE CheckHome(s) \/ Collect(s) \/ CollectFails(s) \/ Recall(s) \/ RecallFromProcess(s) \/ ClearMemory(s)
  <2>1. req[s].op \notin {"upload", "removeFile"}
    BY <1>8, Place DEF CheckHome, Collect, CollectFails, Recall, RecallFromProcess, ClearMemory, At
  <2> QED
    BY <1>5, <1>8, <2>1 DEF CheckHome, Collect, CollectFails, Recall, RecallFromProcess, ClearMemory
<1> QED
  BY <1>1, <1>2, <1>3, <1>4, <1>6, <1>7, <1>8 DEF Serve

-----------------------------------------------------------------------------
(* Rows and what they belong to. *)

LEMMA ServeRowsGrow ==
    ASSUME NEW s \in Slots, Serve(s)
    PROVE  rows' \subseteq rows \cup {NewRow(req[s])}
BY DEF Serve, SaveFile, SaveFails, CheckTable, UseDictionary, RemoveKept, SelectFile, Unlink,
       UnlinkFails, CheckHome, Insert, Delete, Raises, Upsert, RememberInProcess, Forget,
       ForgetInProcess, Collect, CollectFails, Recall, RecallFromProcess, ClearMemory, DeleteUser

LEMMA ServeHomes ==
    ASSUME Typed, Ids3, HomeOwned, NEW s \in Slots, Serve(s)
    PROVE  HomeOwned'
<1> SUFFICES ASSUME NEW t \in Slots, Busy(t)', req'[t].op = "createProject", req'[t].pc = "insert",
                    NEW w \in rows', w.kind = "workspace", w.id = req'[t].target
             PROVE  w.owner = req'[t].user
  BY DEF HomeOwned, RowsNamed
<1>1. Busy(s) /\ Busy(t) /\ req'[t].id = req[t].id /\ req'[t].target = req[t].target
      /\ req'[t].op = req[t].op /\ req'[t].user = req[t].user
  BY Threads
<1>2. w \in RowsNamed("workspace", req[t].target)
  <2>1. NewRow(req[s]).id = req[s].id
    BY DEF NewRow
  <2>2. req[t].target # req[s].id
    BY <1>1 DEF Ids3, Unused
  <2> QED
    BY <1>1, <2>1, <2>2, ServeRowsGrow DEF RowsNamed
<1>3. CASE t # s
  BY <1>1, <1>2, <1>3, Threads DEF HomeOwned
<1>4. CASE t = s
  <2>1. req[s].pc \in {"own", "insert"} /\ ~Answer(s)
    <3>1. req[s].pc \in StepsOf[req[s].op] /\ req[s].op = "createProject"
      BY <1>1, <1>4, ServeOnward, AtBusy
    <3> QED
      BY <1>4, <3>1, Threads DEF StepsOf
  <2>2. CheckHome(s)
    BY <2>1 DEF Serve, SaveFile, SaveFails, CheckTable, UseDictionary, RemoveKept, SelectFile, Unlink,
       UnlinkFails, Insert, Delete, Raises, Upsert, RememberInProcess, Forget,
       ForgetInProcess, Collect, CollectFails, Recall, RecallFromProcess, ClearMemory, DeleteUser, At
  <2>3. PICK v \in RowsNamed("workspace", req[s].target) : v.owner = req[s].user
    BY <2>1, <2>2 DEF CheckHome
  <2>4. v = w
    BY <1>2, <1>4, <2>3 DEF RowsNamed, Ids3, Unique
  <2> QED
    BY <1>1, <1>4, <2>3, <2>4
<1> QED
  BY <1>3, <1>4

LEMMA ServeDangles ==
    ASSUME Typed, Ids3, HomeOwned, NothingDangles, NEW s \in Slots, Serve(s)
    PROVE  NothingDangles'
<1> DEFINE Kept(r) == r.kind = "project" => \E w \in RowsNamed("workspace", r.home) : w.owner = r.owner
<1>1. CASE UNCHANGED <<users, rows>>
  BY <1>1 DEF NothingDangles, RowsNamed
<1>2. CASE Insert(s)
  <2> DEFINE q == NewRow(req[s])
  <2>1. CASE ~KeysHold(req[s])
    BY <1>1, <1>2, <2>1 DEF Insert
  <2>2. CASE KeysHold(req[s])
    <3>1. users' = users /\ rows' = rows \cup {q} /\ req[s].user \in users
      BY <1>2, <2>2 DEF Insert, KeysHold
    <3>2. q.owner = req[s].user /\ q.kind = KindOf[req[s].op] /\ q.home = req[s].target
      BY DEF NewRow
    <3>3. q.kind = "project" => req[s].op = "createProject"
      <4>1. req[s].op \in {"upload", "createWorkspace", "createProject"}
        BY <1>2, Place DEF Insert, At
      <4> QED
        BY <3>2, <4>1 DEF KindOf
    <3>4. Kept(q)
      <4> SUFFICES ASSUME q.kind = "project"
                   PROVE  \E w \in RowsNamed("workspace", q.home) : w.owner = q.owner
        OBVIOUS
      <4>1. Busy(s) /\ req[s].op = "createProject" /\ req[s].pc = "insert"
        BY <1>2, <3>3, Threads DEF Insert, At
      <4>2. \A w \in RowsNamed("workspace", req[s].target) : w.owner = req[s].user
        BY <4>1 DEF HomeOwned
      <4>3. RowsNamed("workspace", req[s].target) # {}
        BY <2>2, <4>1 DEF KeysHold
      <4> QED
        BY <3>2, <4>2, <4>3
    <3>5. \A r \in rows \cup {q} : r.owner \in users /\ Kept(r)
      BY <3>1, <3>2, <3>4 DEF NothingDangles
    <3> QED
      BY <3>1, <3>5 DEF NothingDangles, RowsNamed
  <2> QED
    BY <2>1, <2>2
<1>3. CASE Delete(s)
  <2> DEFINE gone == {r \in RowsNamed(KindOf[req[s].op], req[s].target) : r.owner = req[s].user}
  <2>1. users' = users /\ rows' = rows \ WithProjects(gone)
    BY <1>3 DEF Delete
  <2> SUFFICES ASSUME NEW r \in rows'
               PROVE  /\ r.owner \in users'
                      /\ r.kind = "project" => \E w \in rows' : /\ w.kind = "workspace" /\ w.id = r.home
                                                               /\ w.owner = r.owner
    BY DEF NothingDangles, RowsNamed
  <2>2. r \in rows /\ r \notin WithProjects(gone) /\ r.owner \in users'
    BY <2>1 DEF NothingDangles
  <2>3. ASSUME r.kind = "project"
        PROVE  \E w \in rows' : w.kind = "workspace" /\ w.id = r.home /\ w.owner = r.owner
    <3>1. PICK w \in rows : w.kind = "workspace" /\ w.id = r.home /\ w.owner = r.owner
      BY <2>2, <2>3 DEF NothingDangles, RowsNamed
    <3> HIDE DEF gone
    <3>2. w \notin WithProjects(gone)
      BY <2>2, <2>3, <3>1 DEF WithProjects
    <3> QED
      BY <2>1, <3>1, <3>2
  <2> QED
    BY <2>2, <2>3
<1>4. CASE Upsert(s) \/ Forget(s)
  <2>1. \A r \in rows' : r \in rows \/ (r.kind = "memory" /\ r.owner \in users)
    <3>1. CASE Forget(s)
      BY <3>1 DEF Forget
    <3>2. CASE Upsert(s)
      <4>1. req[s].op = "remember" /\ req[s].user \in users
        BY <3>2, Place DEF Upsert, At
      <4>2. NewRow(req[s]).kind = "memory" /\ NewRow(req[s]).owner \in users
        BY <4>1 DEF NewRow, KindOf
      <4> QED
        BY <3>2, <4>2 DEF Upsert
    <3> QED
      BY <1>4, <3>1, <3>2
  <2>2. users' = users /\ \A w \in rows : w.kind = "workspace" => w \in rows'
    BY <1>4 DEF Upsert, Forget, MemoryOf, RowsOf
  <2> QED
    BY <2>1, <2>2 DEF NothingDangles, RowsNamed
<1>5. CASE DeleteUser(s)
  <2>1. users' = users \ {req[s].user} /\ rows' = {r \in rows : r.owner # req[s].user}
    BY <1>5 DEF DeleteUser, RowsOf
  <2> QED
    BY <2>1 DEF NothingDangles, RowsNamed
<1> QED
  BY <1>1, <1>2, <1>3, <1>4, <1>5
  DEF Serve, SaveFile, SaveFails, CheckTable, UseDictionary, RemoveKept, SelectFile, Unlink, UnlinkFails,
      CheckHome, Raises, RememberInProcess, ForgetInProcess, Collect, CollectFails, Recall,
      RecallFromProcess, ClearMemory

LEMMA ServeDeletes ==
    ASSUME Typed, DeletedOnce, NEW s \in Slots, Serve(s)
    PROVE  DeletedOnce'
<1>1. CASE UNCHANGED <<users, audited>>
  BY <1>1 DEF DeletedOnce
<1>2. CASE DeleteUser(s)
  <2>1. req[s].user \in Users
    BY <1>2, AtBusy DEF DeleteUser, At, Requests
  <2> QED
    BY <1>2, <2>1 DEF DeleteUser, DeletedOnce, Typed, TypeOK
<1> QED
  BY <1>1, <1>2
  DEF Serve, SaveFile, SaveFails, CheckTable, UseDictionary, RemoveKept, SelectFile, Unlink, UnlinkFails,
      CheckHome, Insert, Delete, Upsert, Forget, Raises, RememberInProcess, ForgetInProcess, Collect,
      CollectFails, Recall, RecallFromProcess, ClearMemory

-----------------------------------------------------------------------------
(* All of it. *)

LEMMA AskInv ==
    ASSUME Inv, NEW s \in Slots, Ask(s)
    PROVE  Inv'
<1>1. Typed' /\ Ids3' /\ UNCHANGED <<users, rows, disk, kept, audited>>
  BY AskTyped, AskIds DEF Inv, Ids3
<1>2. PICK r \in Requests : req' = [req EXCEPT ![s] = r] /\ r.pc = FirstStep[r.op]
  BY AskTyped DEF Inv, Ids3
<1>3. req'[s] = r /\ \A t \in Slots : t # s => req'[t] = req[t]
  BY <1>2 DEF Inv, Typed, TypeOK
<1>4. /\ r.op = "upload" => r.pc = "save"
      /\ r.op = "removeFile" => r.pc = "check"
      /\ r.op = "createProject" => r.pc = "own"
  BY <1>2 DEF FirstStep, Requests
<1>5. \A t \in Slots : SavedAt(t)' /\ RemovedAt(t)'
  <2> SUFFICES ASSUME NEW t \in Slots PROVE SavedAt(t)' /\ RemovedAt(t)'
    OBVIOUS
  <2>1. CASE t = s
    BY <1>3, <1>4, <2>1 DEF SavedAt, RemovedAt
  <2>2. CASE t # s
    <3>1. SavedAt(t) /\ RemovedAt(t) /\ req'[t] = req[t]
      BY <1>3, <2>2 DEF Inv, FilesInv
    <3> QED
      BY <1>1, <3>1 DEF SavedAt, RemovedAt, Busy, FileOf, Target, FileRow
  <2> QED
    BY <2>1, <2>2
<1>6. RowHasFile' /\ NothingDangles' /\ DeletedOnce'
  BY <1>1 DEF Inv, FilesInv, RowsInv, RowHasFile, NothingDangles, RowsNamed, DeletedOnce
<1>7. HomeOwned'
  BY <1>1, <1>3, <1>4 DEF Inv, RowsInv, HomeOwned, Busy, RowsNamed
<1> QED
  BY <1>1, <1>5, <1>6, <1>7 DEF Inv, FilesInv, RowsInv

LEMMA CrashInv ==
    ASSUME Inv, NEW w \in Workers, Crash(w)
    PROVE  Inv'
<1>1. Typed' /\ Ids3' /\ UNCHANGED <<users, rows, disk, audited>>
  BY CrashTyped, CrashIds DEF Inv, Crash
<1>2. \A v \in Workers : kept'[v] \subseteq kept[v]
  BY DEF Crash, Inv, Typed, TypeOK
<1>3. \A t \in Slots : Busy(t)' => Busy(t) /\ req'[t] = req[t]
  BY DEF Crash, Busy
<1>4. \A t \in Slots : SavedAt(t)' /\ RemovedAt(t)'
  <2> SUFFICES ASSUME NEW t \in Slots, Busy(t)' PROVE SavedAt(t)' /\ RemovedAt(t)'
    BY DEF SavedAt, RemovedAt
  <2>1. SavedAt(t) /\ RemovedAt(t) /\ req'[t] = req[t] /\ Busy(t)
    BY <1>3 DEF Inv, FilesInv
  <2> QED
    BY <1>1, <1>2, <2>1 DEF SavedAt, RemovedAt, FileOf, Target, FileRow
<1>5. RowHasFile' /\ NothingDangles' /\ DeletedOnce'
  BY <1>1, <1>2 DEF Inv, FilesInv, RowsInv, RowHasFile, NothingDangles, RowsNamed, DeletedOnce
<1>6. HomeOwned'
  BY <1>1, <1>3 DEF Inv, RowsInv, HomeOwned, RowsNamed
<1> QED
  BY <1>1, <1>4, <1>5, <1>6 DEF Inv, FilesInv, RowsInv

LEMMA NextInv == Inv /\ [Next]_vars => Inv'
<1> SUFFICES ASSUME Inv, [Next]_vars PROVE Inv'
  OBVIOUS
<1>1. CASE \E s \in Slots : Ask(s)
  BY <1>1, AskInv
<1>2. CASE \E s \in Slots : Serve(s)
  BY <1>2, ServeTyped, ServeIds, ServeFiles, ServeHomes, ServeDangles, ServeDeletes DEF Inv, RowsInv
<1>3. CASE \E w \in Workers : Crash(w)
  BY <1>3, CrashInv
<1>4. CASE UNCHANGED vars
  <2>1. UNCHANGED <<users, rows, disk, store, kept, cached, audited, req, asked, faults, crashes>>
    BY <1>4 DEF vars
  <2>2. Typed' /\ Ids3'
    BY <2>1 DEF Inv, Typed, TypeOK, InPlace, Ids3, Numbered, Unused, Unique, Busy
  <2>3. FilesInv'
    BY <2>1 DEF Inv, FilesInv, SavedAt, RemovedAt, RowHasFile, Busy
  <2>4. RowsInv' /\ DeletedOnce'
    BY <2>1 DEF Inv, RowsInv, HomeOwned, NothingDangles, RowsNamed, DeletedOnce, Busy
  <2> QED
    BY <2>2, <2>3, <2>4 DEF Inv
<1> QED
  BY <1>1, <1>2, <1>3, <1>4 DEF Next, Quiet

LEMMA InvHolds == Spec => []Inv
<1> QED
  BY InitInv, NextInv, PTL DEF Spec

-----------------------------------------------------------------------------
(* The theorems. *)

(* Every variable has its type: users, files, workspaces, memories and the *)
(* processes' dictionaries (file_service.py, workspace_service.py,         *)
(* memory_engine.py, privacy.py).                                          *)
THEOREM TypeCorrect == Spec => []TypeOK
<1>1. Inv => TypeOK
  BY DEF Inv, Typed
<1> QED
  BY <1>1, InvHolds, PTL

(* Whoever lists a file can have it, whatever overlaps, fails or dies      *)
(* between the disk and the table (file_service.py).                       *)
THEOREM FilesAreThere == Spec => []RowHasFile
<1>1. Inv => RowHasFile
  BY DEF Inv, FilesInv
<1> QED
  BY <1>1, InvHolds, PTL

(* No row outlives its owner's account, no project its workspace or the    *)
(* owner of it, although workspace and insert are two transactions         *)
(* (workspace_service.py create_project, db/schema.py).                    *)
THEOREM NoneDangles == Spec => []NothingDangles
<1>1. Inv => NothingDangles
  BY DEF Inv, RowsInv
<1> QED
  BY <1>1, InvHolds, PTL

(* An account that several requests delete is deleted, logged and          *)
(* acknowledged once (privacy.py delete_user_account).                     *)
THEOREM DeletionsOnce == Spec => []DeletedOnce
<1>1. Inv => DeletedOnce
  BY DEF Inv
<1> QED
  BY <1>1, InvHolds, PTL

-----------------------------------------------------------------------------
(* With the history variables. *)

(* The counters of what went wrong only grow. *)
LEMMA FaultsGrow ==
    ASSUME Typed, [Next]_vars
    PROVE  /\ faults \in Nat /\ crashes \in Nat
           /\ faults' = faults \/ faults' = faults + 1
           /\ crashes' = crashes \/ crashes' = crashes + 1
           /\ faults' = 0 => faults = 0
           /\ crashes' = 0 => crashes = 0
<1>1. faults \in Nat /\ crashes \in Nat
  BY UserDataConstants DEF Typed, TypeOK
<1>2. /\ faults' = faults \/ faults' = faults + 1
      /\ crashes' = crashes \/ crashes' = crashes + 1
  BY DEF Next, Ask, Serve, SaveFile, SaveFails, CheckTable, UseDictionary, RemoveKept, SelectFile, Unlink,
         UnlinkFails, CheckHome, Insert, Delete, Raises, Upsert, RememberInProcess, Forget,
         ForgetInProcess, Collect, CollectFails, Recall, RecallFromProcess, ClearMemory,
         DeleteUser, ProbeTable, Fault, Crash, Quiet, vars
<1> QED
  BY <1>1, <1>2

(* What a step makes of the request of a thread that it does not free. *)
LEMMA Moves ==
    ASSUME Inv, [Next]_vars, NEW t \in Slots, req'[t] # Free
    PROVE  \/ req'[t] = req[t] /\ Busy(t)
           \/ Ask(t) /\ req[t].pc \in {"idle", "exported"} /\ req'[t].seen = {}
              /\ req'[t].user \in users /\ req'[t].pc = FirstStep[req'[t].op] /\ req'[t].op \in Ops
           \/ Serve(t) /\ Busy(t) /\ ~Answer(t) /\ req'[t].user = req[t].user /\ req'[t].op = req[t].op
<1>1. CASE \E s \in Slots : Ask(s)
  <2>1. PICK s \in Slots : Ask(s)
    BY <1>1
  <2>2. PICK u \in users, op \in Ops : \E i \in Targets(op) :
           req' = [req EXCEPT ![s] = [pc |-> FirstStep[op], op |-> op, user |-> u,
                                      id |-> asked + 1, target |-> i, seen |-> {}]]
    BY <2>1 DEF Ask
  <2> PICK i, r : /\ r = [pc |-> FirstStep[op], op |-> op, user |-> u,
                          id |-> asked + 1, target |-> i, seen |-> {}]
                  /\ req' = [req EXCEPT ![s] = r]
    BY <2>2
  <2>3. req'[s] = r /\ \A x \in Slots \ {s} : req'[x] = req[x]
    BY DEF Inv, Typed, TypeOK
  <2>4. CASE t = s
    <3>1. req[s].pc \in {"idle", "exported"}
      BY <2>1 DEF Ask
    <3> QED
      BY <2>1, <2>3, <2>4, <3>1
  <2>5. CASE t # s
    BY <2>3, <2>5 DEF Busy
  <2> QED
    BY <2>4, <2>5
<1>2. CASE \E s \in Slots : Serve(s)
  <2>1. PICK s \in Slots : Serve(s)
    BY <1>2
  <2>2. /\ Busy(s) /\ \A x \in Slots \ {s} : req'[x] = req[x]
        /\ Busy(s)' => req'[s].op = req[s].op /\ req'[s].user = req[s].user
        /\ Answer(s) => ~Busy(s)'
    BY <2>1, Threads DEF Inv
  <2> QED
    BY <2>1, <2>2 DEF Busy
<1>3. CASE \E w \in Workers : Crash(w)
  BY <1>3 DEF Crash, Busy
<1>4. CASE UNCHANGED vars
  BY <1>4 DEF vars, Busy
<1> QED
  BY <1>1, <1>2, <1>3, <1>4 DEF Next, Quiet

-----------------------------------------------------------------------------
(* Exports. *)

(* What was there all the time is in the tables until it is read, and in   *)
(* the export after that.                                                  *)
Exporting(s) ==
    Busy(s) =>
        /\ \A r \in req[s].seen : r.owner = req[s].user
        /\ req[s].pc \in {"collect", "recall", "exported"} =>
               \A r \in lasting[s] : r.owner = req[s].user /\ r.kind \in {"file", "memory"}
        /\ req[s].pc \in {"collect", "recall"} => lasting[s] \subseteq rows
        /\ req[s].pc = "recall" /\ faults = 0 =>
               \A r \in lasting[s] : r.kind = "file" => r \in req[s].seen
        /\ req[s].pc = "exported" => lasting[s] \subseteq req[s].seen \/ faults > 0

LEMMA LastingIs ==
    ASSUME Witness, NEW s \in Slots
    PROVE  /\ req[s].pc \in {"collect", "recall"} /\ req'[s].pc \in {"recall", "exported"}
                 => lasting'[s] = lasting[s] \cap rows'
           /\ req[s].pc = "exported" /\ req'[s].pc = "exported" => lasting'[s] = lasting[s]
           /\ req'[s].pc = "collect" =>
                 lasting'[s] = {r \in rows' : r.owner = req'[s].user /\ r.kind \in {"file", "memory"}
                                              /\ (req[s].pc = "collect" => r \in lasting[s])}
BY DEF Witness

LEMMA ExportWaits ==
    ASSUME Inv, HNext, NEW s \in Slots, Exporting(s), req'[s] = req[s]
    PROVE  Exporting(s)'
<1> SUFFICES ASSUME Busy(s) PROVE Exporting(s)'
  BY DEF Exporting, Busy
<1>1. faults \in Nat /\ faults' \in Nat /\ (faults' = 0 => faults = 0) /\ Witness
  BY FaultsGrow DEF Inv, HNext
<1>2. CASE req[s].pc = "collect"
  BY <1>1, <1>2, LastingIs DEF Exporting
<1>3. CASE req[s].pc = "recall"
  BY <1>1, <1>3, LastingIs DEF Exporting
<1>4. CASE req[s].pc = "exported"
  BY <1>1, <1>4, LastingIs DEF Exporting
<1>5. CASE req[s].pc \notin {"collect", "recall", "exported"}
  BY <1>5 DEF Exporting
<1> QED
  BY <1>2, <1>3, <1>4, <1>5

LEMMA ExportAsked ==
    ASSUME Inv, HNext, NEW s \in Slots, Ask(s), req[s].pc \in {"idle", "exported"}, req'[s].seen = {},
           req'[s].op \in Ops, req'[s].pc = FirstStep[req'[s].op]
    PROVE  Exporting(s)'
<1>1. req'[s].pc \notin {"recall", "exported"}
  BY DEF FirstStep, Ops, KindOf
<1>2. req'[s].pc = "collect" =>
         lasting'[s] = {r \in rows' : r.owner = req'[s].user /\ r.kind \in {"file", "memory"}}
  BY LastingIs DEF HNext
<1> QED
  BY <1>1, <1>2 DEF Exporting

LEMMA ExportGoes ==
    ASSUME Inv, HNext, NEW s \in Slots, Exporting(s), Serve(s), ~Answer(s), Busy(s),
           req'[s].user = req[s].user
    PROVE  Exporting(s)'
<1>1. faults \in Nat /\ faults' \in Nat /\ (faults' = 0 => faults = 0) /\ Witness
  BY FaultsGrow DEF Inv, HNext
<1>2. req[s] \in Requests
  BY AtBusy, ServeOnward DEF Inv
<1>3. ASSUME NEW pc \in {"check", "insert", "select", "delete", "unlink", "cascade"}, Goto(s, pc)
      PROVE  Exporting(s)'
  <2>1. req'[s].pc = pc /\ req'[s].seen = req[s].seen
    BY <1>2, <1>3 DEF Goto, Inv, Typed, TypeOK, Requests
  <2> QED
    BY <2>1 DEF Exporting
<1>4. CASE Collect(s)
  <2> PICK files : files = {r \in RowsOf(req[s].user) : r.kind = "file"}
    OBVIOUS
  <2>1. req' = [req EXCEPT ![s].pc = "recall", ![s].seen = files] /\ req[s].pc = "collect" /\ rows' = rows
    BY <1>4 DEF Collect, At
  <2>2. req'[s].pc = "recall" /\ req'[s].seen = files
    BY <1>2, <2>1 DEF Inv, Typed, TypeOK, Requests
  <2>3. lasting'[s] = lasting[s] \cap rows'
    BY <1>1, <2>1, <2>2, LastingIs
  <2> QED
    BY <2>1, <2>2, <2>3 DEF Exporting, RowsOf
<1>5. CASE CollectFails(s)
  <2>1. req'[s].pc = "recall" /\ req'[s].seen = req[s].seen /\ req[s].pc = "collect" /\ faults' = faults + 1
    BY <1>2, <1>5 DEF CollectFails, Goto, At, Fault, Inv, Typed, TypeOK, Requests
  <2>2. lasting'[s] = lasting[s] \cap rows'
    BY <1>1, <2>1, LastingIs
  <2> QED
    BY <1>1, <2>1, <2>2 DEF Exporting
<1>6. CASE Recall(s)
  <2> PICK all : all = req[s].seen \cup MemoryOf(req[s].user)
    OBVIOUS
  <2>1. req' = [req EXCEPT ![s].pc = "exported", ![s].seen = all] /\ req[s].pc = "recall" /\ rows' = rows
        /\ faults' = faults
    BY <1>6 DEF Recall, At
  <2>2. req'[s].pc = "exported" /\ req'[s].seen = all
    BY <1>2, <2>1 DEF Inv, Typed, TypeOK, Requests
  <2>3. lasting'[s] = lasting[s] \cap rows'
    BY <1>1, <2>1, <2>2, LastingIs
  <2>4. \A r \in all : r.owner = req[s].user
    BY DEF Exporting, MemoryOf, RowsOf
  <2>5. faults = 0 => lasting[s] \subseteq all
    <3>1. ASSUME faults = 0, NEW r \in lasting[s]
          PROVE  r \in all
      BY <2>1, <3>1 DEF Exporting, MemoryOf, RowsOf
    <3> QED
      BY <3>1
  <2>6. \A r \in lasting'[s] : r.owner = req[s].user /\ r.kind \in {"file", "memory"}
    BY <2>1, <2>3 DEF Exporting
  <2>7. lasting'[s] \subseteq all \/ faults' > 0
    BY <1>1, <2>3, <2>5
  <2> QED
    BY <2>2, <2>4, <2>6, <2>7 DEF Exporting
<1>7. CASE RecallFromProcess(s)
  <2> PICK told : told = {[kind |-> "memory", id |-> i, owner |-> req[s].user, home |-> None] :
                          i \in {store[WorkerOf[s]][req[s].user]} \ {None}}
    OBVIOUS
  <2>1. req' = [req EXCEPT ![s].pc = "exported", ![s].seen = @ \cup told] /\ req[s].pc = "recall"
        /\ faults' = faults + 1
    BY <1>7 DEF RecallFromProcess, At, Fault
  <2>2. req'[s].pc = "exported" /\ req'[s].seen = req[s].seen \cup told
    BY <1>2, <2>1 DEF Inv, Typed, TypeOK, Requests
  <2>3. lasting'[s] = lasting[s] \cap rows'
    BY <1>1, <2>1, <2>2, LastingIs
  <2>4. \A r \in told : r.owner = req[s].user
    OBVIOUS
  <2>5. \A r \in lasting'[s] : r.owner = req[s].user /\ r.kind \in {"file", "memory"}
    BY <2>1, <2>3 DEF Exporting
  <2>6. \A r \in req[s].seen \cup told : r.owner = req[s].user
    BY <2>4 DEF Exporting
  <2>7. faults' > 0
    BY <1>1, <2>1
  <2> QED
    BY <2>2, <2>5, <2>6, <2>7 DEF Exporting
<1> QED
  BY <1>3, <1>4, <1>5, <1>6, <1>7
     DEF Serve, SaveFile, SaveFails, CheckTable, UseDictionary, RemoveKept, SelectFile, Unlink,
         UnlinkFails, CheckHome, Insert, Delete, Raises, Upsert, RememberInProcess, Forget,
         ForgetInProcess, ClearMemory, DeleteUser

LEMMA NextExports ==
    ASSUME Inv, HNext, NEW s \in Slots, Exporting(s)
    PROVE  Exporting(s)'
<1>1. CASE req'[s] = Free
  BY <1>1 DEF Exporting, Busy
<1>2. CASE req'[s] # Free
  BY <1>2, Moves, ExportWaits, ExportAsked, ExportGoes DEF HNext
<1> QED
  BY <1>1, <1>2

-----------------------------------------------------------------------------
(* Memories. *)

(* Only the thread that serves answers. *)
LEMMA Answering ==
    ASSUME Inv, Next, NEW s \in Slots, Answered(s)
    PROVE  Serve(s) /\ \A t \in Slots : Answered(t) => t = s
<1>1. ASSUME NEW t \in Slots, Answered(t) PROVE req'[t] # req[t] /\ req'[t] = Free
  BY <1>1 DEF Answered, Free
<1>2. CASE \E x \in Slots : Serve(x)
  <2>1. PICK x \in Slots : Serve(x)
    BY <1>2
  <2>2. \A t \in Slots \ {x} : req'[t] = req[t]
    BY <2>1, Threads DEF Inv
  <2> QED
    BY <1>1, <2>1, <2>2
<1>3. CASE \E x \in Slots : Ask(x)
  <2>1. PICK x \in Slots : Ask(x)
    BY <1>3
  <2>2. PICK r \in Requests : req' = [req EXCEPT ![x] = r] /\ r # Free
    BY <2>1, AskTyped DEF Inv, Ids3
  <2>3. req'[x] = r /\ \A t \in Slots \ {x} : req'[t] = req[t]
    BY <2>2 DEF Inv, Typed, TypeOK
  <2> QED
    BY <1>1, <2>2, <2>3
<1>4. CASE \E w \in Workers : Crash(w)
  <2>1. crashes' = crashes + 1 /\ crashes \in Nat
    BY <1>4, UserDataConstants DEF Crash, Inv, Typed, TypeOK
  <2> QED
    BY <2>1 DEF Answered
<1>5. CASE UNCHANGED vars
  BY <1>1, <1>5 DEF vars
<1> QED
  BY <1>2, <1>3, <1>4, <1>5 DEF Next, Quiet

LEMMA AnswerAnswered ==
    ASSUME Inv, NEW s \in Slots, Serve(s), Answer(s)
    PROVE  Answered(s)
<1>1. req[s].pc # "idle"
  BY ServeOnward DEF Inv
<1>2. req'[s] = Free
  BY DEF Answer, Inv, Typed, TypeOK
<1>3. crashes' = crashes
  BY DEF Serve, SaveFile, SaveFails, CheckTable, UseDictionary, RemoveKept, SelectFile, Unlink,
         UnlinkFails, CheckHome, Insert, Delete, Raises, Upsert, RememberInProcess, Forget,
         ForgetInProcess, Collect, CollectFails, Recall, RecallFromProcess, ClearMemory, DeleteUser
<1> QED
  BY <1>1, <1>2, <1>3 DEF Answered

(* What is served at the steps of memories and of the end of an account. *)
LEMMA ServedAt ==
    ASSUME Inv, NEW s \in Slots, Serve(s)
    PROVE  /\ At(s, "upsert") => Upsert(s) \/ RememberInProcess(s)
           /\ At(s, "cascade") => DeleteUser(s) \/ (Raises(s) /\ users' = users)
BY DEF Serve, SaveFile, SaveFails, CheckTable, UseDictionary, RemoveKept, SelectFile, Unlink,
       UnlinkFails, CheckHome, Insert, Delete, Raises, Upsert, RememberInProcess, Forget,
       ForgetInProcess, Collect, CollectFails, Recall, RecallFromProcess, ClearMemory, DeleteUser, At

(* A memory leaves the table when its user sets or forgets it, or is gone. *)
LEMMA MemoryGoes ==
    ASSUME Inv, Next, NEW m \in rows, m.kind = "memory", m \notin rows'
    PROVE  \E s \in Slots :
               /\ Serve(s) /\ req[s].user = m.owner
               /\ \/ At(s, "upsert") /\ Answer(s)
                  \/ At(s, "forget") /\ Answer(s)
                  \/ m.owner \notin users'
<1>1. PICK s \in Slots : Serve(s)
  <2>1. CASE \E s \in Slots : Ask(s)
    BY <2>1 DEF Ask
  <2>2. CASE \E w \in Workers : Crash(w)
    BY <2>2 DEF Crash
  <2> QED
    BY <2>1, <2>2 DEF Next, Quiet, vars
<1>2. CASE Upsert(s)
  BY <1>1, <1>2 DEF Upsert, MemoryOf, RowsOf
<1>3. CASE Forget(s)
  BY <1>1, <1>3 DEF Forget, MemoryOf, RowsOf
<1>4. CASE DeleteUser(s)
  BY <1>1, <1>4 DEF DeleteUser, RowsOf
<1>5. CASE Delete(s)
  <2>1. req[s].op \in {"removeFile", "dropWorkspace", "dropProject"}
    <3>1. req[s].pc = "delete" /\ req[s].pc \in StepsOf[req[s].op] /\ req[s].op \in Ops
      BY <1>5, AtBusy DEF Delete, At, Inv, Requests
    <3> QED
      BY <3>1 DEF StepsOf, Ops, KindOf
  <2>2. KindOf[req[s].op] # "memory"
    BY <2>1 DEF KindOf
  <2> QED
    BY <1>5, <2>2 DEF Delete, WithProjects, RowsNamed
<1>6. CASE Insert(s)
  BY <1>6 DEF Insert
<1> QED
  BY <1>1, <1>2, <1>3, <1>4, <1>5, <1>6
  DEF Serve, SaveFile, SaveFails, CheckTable, UseDictionary, RemoveKept, SelectFile, Unlink, UnlinkFails,
      CheckHome, Raises, RememberInProcess, ForgetInProcess, Collect, CollectFails, Recall,
      RecallFromProcess, ClearMemory

(* What a process holds of a user changes when the user sets or forgets it *)
(* there, ends the account there, or the process dies.                     *)
LEMMA StoreMoves ==
    ASSUME Inv, Next, NEW w \in Workers, NEW u \in Users, store'[w][u] # store[w][u]
    PROVE  \/ store'[w][u] = None /\ crashes' # crashes
           \/ \E s \in Slots :
                 /\ Serve(s) /\ w = WorkerOf[s] /\ req[s].user = u
                 /\ \/ RememberInProcess(s) /\ store'[w][u] = req[s].id
                    \/ ForgetInProcess(s) /\ store'[w][u] = None
                    \/ ClearMemory(s) /\ store'[w][u] = None
<1>1. CASE \E v \in Workers : Crash(v)
  <2>1. PICK v \in Workers : Crash(v)
    BY <1>1
  <2>2. crashes' = crashes + 1 /\ crashes \in Nat
    BY <2>1, UserDataConstants DEF Crash, Inv, Typed, TypeOK
  <2>3. store' = [store EXCEPT ![v] = [x \in Users |-> None]] /\ store \in [Workers -> [Users -> Ids]]
    BY <2>1 DEF Crash, Inv, Typed, TypeOK
  <2> QED
    BY <2>2, <2>3
<1>2. CASE \E s \in Slots : Serve(s)
  <2>1. PICK s \in Slots : Serve(s)
    BY <1>2
  <2>2. req[s] \in Requests /\ req[s].user \in Users /\ WorkerOf[s] \in Workers
    BY <2>1, ServeOnward, AtBusy, UserDataConstants DEF Inv, Requests
  <2>3. ASSUME NEW i, store' = [store EXCEPT ![WorkerOf[s]][req[s].user] = i]
        PROVE  w = WorkerOf[s] /\ u = req[s].user /\ store'[w][u] = i
    BY <2>2, <2>3 DEF Inv, Typed, TypeOK
  <2>4. CASE RememberInProcess(s)
    BY <2>1, <2>3, <2>4 DEF RememberInProcess
  <2>5. CASE ForgetInProcess(s)
    BY <2>1, <2>3, <2>5 DEF ForgetInProcess
  <2>6. CASE ClearMemory(s)
    BY <2>1, <2>3, <2>6 DEF ClearMemory
  <2> QED
    BY <2>1, <2>4, <2>5, <2>6
    DEF Serve, SaveFile, SaveFails, CheckTable, UseDictionary, RemoveKept, SelectFile, Unlink, UnlinkFails,
        CheckHome, Insert, Delete, Raises, Upsert, Forget, Collect, CollectFails, Recall,
        RecallFromProcess, DeleteUser
<1> QED
  BY <1>1, <1>2 DEF Next, Ask, Quiet, vars

(* Users only go, by the deletion of their account. *)
LEMMA UsersGo ==
    ASSUME Next
    PROVE  /\ users' \subseteq users
           /\ \A u \in users \ users' : /\ store' = store
                                        /\ \E s \in Slots : Serve(s) /\ DeleteUser(s) /\ req[s].user = u
BY DEF Next, Quiet, vars, Ask, Crash, Serve, SaveFile, SaveFails, CheckTable, UseDictionary, RemoveKept,
       SelectFile, Unlink, UnlinkFails, CheckHome, Insert, Delete, Raises, Upsert, RememberInProcess,
       Forget, ForgetInProcess, Collect, CollectFails, Recall, RecallFromProcess, ClearMemory, DeleteUser

LEMMA LatestIs ==
    ASSUME Inv, HNext, NEW u \in Users
    PROVE  /\ \A s \in Slots : At(s, "upsert") /\ Answered(s) /\ req[s].user = u => latest'[u] = req[s].id
           /\ \A s \in Slots : req[s].user = u /\ \/ At(s, "forget") /\ Answered(s)
                                                  \/ At(s, "clear") /\ ~At(s, "clear")'
                  => latest'[u] = None \/ \E t \in Slots : At(t, "upsert") /\ Answered(t) /\ req[t].user = u
           /\ \/ latest'[u] = latest[u]
              \/ latest'[u] = None
              \/ \E s \in Slots : At(s, "upsert") /\ Answered(s) /\ req[s].user = u
<1>1. ASSUME NEW s \in Slots, At(s, "upsert"), Answered(s), req[s].user = u
      PROVE  latest'[u] = req[s].id
  <2>1. {req[t] : t \in {x \in Slots : At(x, "upsert") /\ Answered(x)}} = {req[s]}
    BY <1>1, Answering DEF HNext
  <2>2. (CHOOSE r \in {req[t] : t \in {x \in Slots : At(x, "upsert") /\ Answered(x)}} : TRUE) = req[s]
    BY <2>1
  <2> QED
    BY <1>1, <2>2 DEF HNext, Track
<1> QED
  BY <1>1 DEF HNext, Track

LEMMA NextLatest ==
    ASSUME Inv, HNext, LatestIsSomewhere
    PROVE  LatestIsSomewhere'
<1> SUFFICES ASSUME NEW u \in users', latest'[u] # None, crashes' = 0
             PROVE  \/ \E r \in rows' : r.kind = "memory" /\ r.owner = u /\ r.id = latest'[u]
                    \/ \E w \in Workers : faults' > 0 /\ store'[w][u] = latest'[u]
  BY FaultsGrow DEF LatestIsSomewhere, MemoryOf, RowsOf, Inv, HNext
<1>0. Next /\ u \in users /\ u \in Users /\ crashes = 0 /\ crashes' = crashes /\ faults \in Nat
      /\ (faults' = faults \/ faults' = faults + 1)
  BY FaultsGrow, UsersGo DEF HNext, Inv, Typed, TypeOK
<1>1. CASE \E s \in Slots : At(s, "upsert") /\ Answered(s) /\ req[s].user = u
  <2>1. PICK s \in Slots : At(s, "upsert") /\ Answered(s) /\ req[s].user = u
    BY <1>1
  <2>2. latest'[u] = req[s].id /\ Serve(s)
    BY <1>0, <2>1, LatestIs, Answering
  <2>3. CASE Upsert(s)
    <3>1. req[s].op = "remember"
      BY <2>1, Place DEF At, Inv
    <3>2. NewRow(req[s]) \in rows' /\ NewRow(req[s]).kind = "memory" /\ NewRow(req[s]).owner = u
          /\ NewRow(req[s]).id = latest'[u]
      BY <2>1, <2>2, <2>3, <3>1 DEF Upsert, NewRow, KindOf
    <3> QED
      BY <3>2
  <2>4. CASE RememberInProcess(s)
    <3>1. faults' = faults + 1 /\ store' = [store EXCEPT ![WorkerOf[s]][u] = req[s].id] /\ WorkerOf[s] \in Workers
      BY <1>0, <2>1, <2>4, UserDataConstants DEF RememberInProcess, Fault
    <3>2. store'[WorkerOf[s]][u] = latest'[u]
      BY <1>0, <2>2, <3>1 DEF Inv, Typed, TypeOK
    <3> QED
      BY <1>0, <3>1, <3>2
  <2> QED
    BY <2>1, <2>2, <2>3, <2>4, ServedAt
<1>2. CASE ~ \E s \in Slots : At(s, "upsert") /\ Answered(s) /\ req[s].user = u
  <2>1. latest'[u] = latest[u]
    BY <1>0, <1>2, LatestIs
  <2>2. \A s \in Slots : req[s].user = u => /\ ~(At(s, "forget") /\ Answered(s))
                                            /\ ~(At(s, "clear") /\ ~At(s, "clear")')
    BY <1>0, <1>2, LatestIs
  <2>3. CASE \E r \in MemoryOf(u) : r.id = latest[u]
    <3>1. PICK r \in rows : r.kind = "memory" /\ r.owner = u /\ r.id = latest[u]
      BY <2>3 DEF MemoryOf, RowsOf
    <3>2. r \in rows'
      BY <1>0, <1>2, <2>2, <3>1, MemoryGoes, AnswerAnswered
    <3> QED
      BY <2>1, <3>1, <3>2
  <2>4. CASE \E w \in Workers : faults > 0 /\ store[w][u] = latest[u]
    <3>1. PICK w \in Workers : faults > 0 /\ store[w][u] = latest[u]
      BY <2>4
    <3>2. store'[w][u] = store[w][u]
      <4> SUFFICES ASSUME store'[w][u] # store[w][u] PROVE FALSE
        OBVIOUS
      <4>1. PICK s \in Slots :
               /\ Serve(s) /\ req[s].user = u
               /\ RememberInProcess(s) \/ ForgetInProcess(s) \/ ClearMemory(s)
        BY <1>0, StoreMoves
      <4>2. CASE RememberInProcess(s) \/ ForgetInProcess(s)
        BY <1>2, <2>2, <4>1, <4>2, AnswerAnswered DEF RememberInProcess, ForgetInProcess
      <4>3. CASE ClearMemory(s)
        <5>1. At(s, "clear") /\ req'[s].pc = "cascade"
          BY <4>1, <4>3, Threads DEF ClearMemory, Steps, Inv
        <5> QED
          BY <2>2, <4>1, <5>1 DEF At
      <4> QED
        BY <4>1, <4>2, <4>3
    <3> QED
      BY <1>0, <2>1, <3>1, <3>2
  <2> QED
    BY <1>0, <2>1, <2>3, <2>4 DEF LatestIsSomewhere
<1> QED
  BY <1>1, <1>2

-----------------------------------------------------------------------------
(* What is left of a user who is gone. *)

(* A process knows a living user only after a failure; the one that is     *)
(* about to end an account has cleared it, and who still asks to remember  *)
(* for a user who is gone asked before.                                    *)
HeldAfterFault == \A w \in Workers, u \in users : store[w][u] # None => faults > 0
Cleared ==
    \A s \in Slots : At(s, "cascade") /\ req[s].user \in users =>
        store[WorkerOf[s]][req[s].user] = None \/ req[s].user \in raced
AskedBefore == \A s \in Slots : At(s, "upsert") => req[s].user \in users \cup raced

Forgetting == HeldAfterFault /\ Cleared /\ AskedBefore /\ GoneIsForgotten

LEMMA Racing ==
    ASSUME Race
    PROVE  /\ raced \subseteq raced'
           /\ \A s, t \in Slots : At(s, "upsert") /\ At(t, "cascade") /\ req[t].user = req[s].user
                                  /\ req[s].user \in Users => req[s].user \in raced'
BY DEF Race

LEMMA AtStays ==
    ASSUME Inv, Next, NEW s \in Slots, req'[s] # Free
    PROVE  /\ At(s, "upsert")' => \/ At(s, "upsert") /\ req'[s] = req[s]
                                  \/ Ask(s) /\ req'[s].user \in users
           /\ At(s, "cascade")' => \/ At(s, "cascade") /\ req'[s] = req[s]
                                   \/ ClearMemory(s) /\ req'[s].user = req[s].user
<1>1. \/ req'[s] = req[s] /\ Busy(s)
      \/ Ask(s) /\ req[s].pc \in {"idle", "exported"} /\ req'[s].seen = {}
         /\ req'[s].user \in users /\ req'[s].pc = FirstStep[req'[s].op] /\ req'[s].op \in Ops
      \/ Serve(s) /\ Busy(s) /\ ~Answer(s) /\ req'[s].user = req[s].user /\ req'[s].op = req[s].op
  BY Moves
<1>2. CASE req'[s] = req[s]
  BY <1>2 DEF At
<1>3. CASE Ask(s) /\ req'[s].user \in users /\ req'[s].pc = FirstStep[req'[s].op] /\ req'[s].op \in Ops
  BY <1>3 DEF At, FirstStep, Ops, KindOf
<1>4. CASE Serve(s) /\ ~Answer(s) /\ req'[s].user = req[s].user /\ req'[s].op = req[s].op
  <2>1. req[s].pc \in StepsOf[req[s].op] /\ req[s].op \in Ops /\ req'[s].pc \in StepsOf[req[s].op]
    BY <1>4, AtBusy, ServeOnward, ServeTyped DEF Inv, Requests, Typed, InPlace, Busy
  <2>2. req'[s].pc = "upsert" => req[s].pc = "upsert"
    BY <2>1 DEF StepsOf, Ops, KindOf
  <2>3. req'[s].pc = "cascade" => req[s].pc \in {"clear", "cascade"}
    BY <2>1 DEF StepsOf, Ops, KindOf
  <2>4. req[s].pc \notin {"upsert", "cascade"}
    BY <1>4, ServedAt DEF At, Upsert, RememberInProcess, DeleteUser, Raises
  <2>5. req[s].pc = "clear" => ClearMemory(s)
    BY <1>4 DEF Serve, SaveFile, SaveFails, CheckTable, UseDictionary, RemoveKept, SelectFile, Unlink,
         UnlinkFails, CheckHome, Insert, Delete, Raises, Upsert, RememberInProcess, Forget,
         ForgetInProcess, Collect, CollectFails, Recall, RecallFromProcess, DeleteUser, At
  <2> QED
    BY <1>4, <2>2, <2>3, <2>4, <2>5 DEF At
<1> QED
  BY <1>1, <1>2, <1>3, <1>4

LEMMA NextHeld ==
    ASSUME Inv, Next, HeldAfterFault
    PROVE  HeldAfterFault'
<1> SUFFICES ASSUME NEW w \in Workers, NEW u \in users', store'[w][u] # None
             PROVE  faults' > 0
  BY DEF HeldAfterFault
<1>1. u \in users /\ u \in Users /\ faults \in Nat /\ (faults' = faults \/ faults' = faults + 1)
  BY UsersGo, FaultsGrow DEF Inv, Typed, TypeOK
<1>2. CASE store'[w][u] = store[w][u]
  BY <1>1, <1>2 DEF HeldAfterFault
<1>3. CASE store'[w][u] # store[w][u]
  <2>1. PICK s \in Slots : RememberInProcess(s) /\ req[s].user = u
    BY <1>1, <1>3, StoreMoves
  <2> QED
    BY <1>1, <2>1 DEF RememberInProcess, Fault
<1> QED
  BY <1>2, <1>3

LEMMA NextCleared ==
    ASSUME Inv, HNext, Cleared
    PROVE  Cleared'
<1> SUFFICES ASSUME NEW s \in Slots, At(s, "cascade")', req'[s].user \in users'
             PROVE  store'[WorkerOf[s]][req'[s].user] = None \/ req'[s].user \in raced'
  BY DEF Cleared
<1>1. Next /\ Race /\ raced \subseteq raced' /\ WorkerOf[s] \in Workers /\ req'[s] # Free
      /\ users' \subseteq users /\ users \subseteq Users
  BY Racing, UsersGo, UserDataConstants DEF HNext, At, Free, Inv, Typed, TypeOK
<1>2. CASE At(s, "cascade") /\ req'[s] = req[s]
  <2> DEFINE u == req[s].user
             w == WorkerOf[s]
  <2>1. u \in users /\ u \in Users /\ (store[w][u] = None \/ u \in raced)
    BY <1>1, <1>2 DEF Cleared
  <2>2. CASE store'[w][u] = store[w][u]
    BY <1>1, <1>2, <2>1, <2>2
  <2>3. CASE store'[w][u] # store[w][u] /\ store'[w][u] # None
    <3>1. PICK t \in Slots : RememberInProcess(t) /\ req[t].user = u
      BY <1>1, <2>1, <2>3, StoreMoves
    <3> QED
      BY <1>1, <1>2, <2>1, <3>1, Racing DEF RememberInProcess
  <2> QED
    BY <1>2, <2>2, <2>3
<1>3. CASE ClearMemory(s) /\ req'[s].user = req[s].user
  <2>1. store' = [store EXCEPT ![WorkerOf[s]][req[s].user] = None] /\ req[s].user \in Users
    BY <1>1, <1>3 DEF ClearMemory
  <2> QED
    BY <1>1, <1>3, <2>1 DEF Inv, Typed, TypeOK
<1> QED
  BY <1>1, <1>2, <1>3, AtStays

LEMMA NextAsked ==
    ASSUME Inv, HNext, AskedBefore
    PROVE  AskedBefore'
<1> SUFFICES ASSUME NEW s \in Slots, At(s, "upsert")'
             PROVE  req'[s].user \in users' \cup raced'
  BY DEF AskedBefore
<1>1. Next /\ Race /\ raced \subseteq raced' /\ req'[s] # Free /\ users \subseteq Users
  BY Racing DEF HNext, At, Free, Inv, Typed, TypeOK
<1>2. CASE At(s, "upsert") /\ req'[s] = req[s]
  <2>1. req[s].user \in users \cup raced
    BY <1>2 DEF AskedBefore
  <2>2. CASE req[s].user \in users \ users'
    <3>1. PICK t \in Slots : DeleteUser(t) /\ req[t].user = req[s].user
      BY <1>1, <2>2, UsersGo
    <3> QED
      BY <1>1, <1>2, <2>2, <3>1, Racing DEF DeleteUser
  <2> QED
    BY <1>1, <1>2, <2>1, <2>2
<1>3. CASE Ask(s) /\ req'[s].user \in users
  BY <1>3 DEF Ask
<1> QED
  BY <1>1, <1>2, <1>3, AtStays

LEMMA NextGone ==
    ASSUME Inv, HNext, Forgetting
    PROVE  GoneIsForgotten'
<1> SUFFICES ASSUME NEW w \in Workers, NEW u \in Users \ users', store'[w][u] # None
             PROVE  u \in raced' \/ (faults' > 0 /\ w # ender'[u])
  BY DEF GoneIsForgotten
<1>1. Next /\ Race /\ raced \subseteq raced' /\ faults \in Nat /\ (faults' = faults \/ faults' = faults + 1)
  BY Racing, FaultsGrow DEF HNext, Inv
<1>2. CASE u \notin users
  <2>1. CASE store'[w][u] = store[w][u]
    <3>1. ender'[u] = ender[u]
      BY <1>1, <1>2 DEF Race
    <3> QED
      BY <1>1, <1>2, <2>1, <3>1 DEF Forgetting, GoneIsForgotten
  <2>2. CASE store'[w][u] # store[w][u]
    <3>1. PICK s \in Slots : RememberInProcess(s) /\ req[s].user = u
      BY <1>1, <2>2, StoreMoves
    <3> QED
      BY <1>1, <1>2, <3>1 DEF RememberInProcess, Forgetting, AskedBefore
  <2> QED
    BY <2>1, <2>2
<1>3. CASE u \in users
  <2>1. store' = store /\ \E s \in Slots : Serve(s) /\ DeleteUser(s) /\ req[s].user = u
    BY <1>1, <1>3, UsersGo
  <2>2. PICK s \in Slots : Serve(s) /\ DeleteUser(s) /\ req[s].user = u
    BY <2>1
  <2>3. At(s, "cascade") /\ Answered(s)
    BY <2>2, AnswerAnswered DEF DeleteUser
  <2>4. ender'[u] = WorkerOf[s]
    <3>1. \A t \in Slots : At(t, "cascade") /\ Answered(t) /\ req[t].user = u <=> t = s
      BY <1>1, <2>2, <2>3, Answering
    <3>2. (CHOOSE t \in Slots : At(t, "cascade") /\ Answered(t) /\ req[t].user = u) = s
      BY <3>1
    <3> QED
      BY <1>1, <1>3, <3>2 DEF Race
  <2>5. faults' > 0
    BY <1>1, <1>3, <2>1 DEF Forgetting, HeldAfterFault
  <2>6. w = WorkerOf[s] => u \in raced
    BY <1>3, <2>1, <2>2, <2>3 DEF Forgetting, Cleared
  <2> QED
    BY <1>1, <2>4, <2>5, <2>6
<1> QED
  BY <1>2, <1>3

-----------------------------------------------------------------------------
(* Files that nothing claims. *)

(* A file bears the number of the upload that wrote it, as no other file   *)
(* does; who is about to remove a file is its owner.                       *)
Stamped ==
    /\ \A f \in disk : f.id \in 1..asked
    /\ \A f \in disk, s \in Slots :
           Busy(s) /\ req[s].id = f.id => req[s].op = "upload" /\ req[s].user = f.owner
    /\ \A f, g \in disk : f.id = g.id => f = g
TargetOwned ==
    \A s \in Slots : Busy(s) /\ req[s].op = "removeFile" /\ req[s].pc \in {"delete", "unlink"} =>
        \A f \in disk : f.id = req[s].target => f.owner = req[s].user

(* The claims on a file. *)
Claimed(f) ==
    \/ \E r \in rows : r.kind = "file" /\ r.id = f.id
    \/ \E w \in Workers : f \in kept[w]
    \/ \E s \in Slots : f.id \in InHand(s)
    \/ f.id \in excused
Claims == \A f \in disk : f.owner \in users => Claimed(f)

Orphans == Stamped /\ TargetOwned /\ Claims

LEMMA ClaimsOrphans == Claims <=> OrphansHaveCause
BY DEF Claims, Claimed, OrphansHaveCause, RowsNamed

(* Only an upload at its write puts a file on disk, with its own number.   *)
LEMMA DiskGrows ==
    ASSUME Inv, Next, NEW f \in disk', f \notin disk
    PROVE  \E s \in Slots : /\ SaveFile(s) \/ SaveFails(s)
                            /\ Serve(s) /\ f = FileOf(req[s]) /\ req[s].op = "upload"
<1>1. PICK s \in Slots : Serve(s) /\ (SaveFile(s) \/ SaveFails(s)) /\ f = FileOf(req[s])
  <2>1. PICK s \in Slots : Serve(s)
    BY DEF Next, Quiet, vars, Ask, Crash
  <2>2. CASE SaveFile(s) \/ SaveFails(s)
    <3>1. f = FileOf(req[s])
      BY <2>2 DEF SaveFile, SaveFails
    <3> QED
      BY <2>1, <2>2, <3>1
  <2>3. CASE disk' \subseteq disk
    BY <2>3
  <2>4. CASE Unlink(s) \/ RemoveKept(s)
    BY <2>3, <2>4 DEF Unlink, RemoveKept
  <2> QED
    BY <2>1, <2>2, <2>3, <2>4
    DEF Serve, CheckTable, UseDictionary, SelectFile, UnlinkFails, CheckHome, Insert, Delete, Raises,
        Upsert, RememberInProcess, Forget, ForgetInProcess, Collect, CollectFails, Recall,
        RecallFromProcess, ClearMemory, DeleteUser
<1>2. req[s].op = "upload"
  BY <1>1, Place DEF SaveFile, SaveFails, At, Inv
<1> QED
  BY <1>1, <1>2

(* The numbers of the requests under way after a step. *)
LEMMA NumbersMove ==
    ASSUME Inv, [Next]_vars, NEW t \in Slots, Busy(t)'
    PROVE  \/ req'[t] = req[t] /\ Busy(t)
           \/ Ask(t) /\ req'[t].id = asked + 1 /\ req'[t].pc = FirstStep[req'[t].op] /\ req'[t].op \in Ops
              /\ disk' = disk /\ asked' = asked + 1
           \/ Serve(t) /\ Busy(t) /\ ~Answer(t) /\ req'[t].user = req[t].user /\ req'[t].op = req[t].op
              /\ req'[t].id = req[t].id /\ req'[t].target = req[t].target
<1>1. CASE Ask(t)
  <2>1. asked' = asked + 1 /\ disk' = disk
    BY <1>1 DEF Ask
  <2>2. PICK r \in Requests : req' = [req EXCEPT ![t] = r] /\ r.pc = FirstStep[r.op] /\ r.id = asked + 1
    BY <1>1, AskTyped DEF Inv, Ids3
  <2>3. req'[t] = r /\ r.op \in Ops
    BY <2>2 DEF Inv, Typed, TypeOK, Requests
  <2> QED
    BY <1>1, <2>1, <2>2, <2>3
<1>2. CASE Serve(t) /\ ~Answer(t)
  BY <1>2, Threads DEF Inv
<1>3. CASE req'[t] = req[t] /\ Busy(t)
  BY <1>3
<1> QED
  BY <1>1, <1>2, <1>3, Moves DEF Busy

LEMMA NextStamped ==
    ASSUME Inv, Next, Stamped
    PROVE  Stamped'
<1>0. asked \in Nat /\ asked' \in Nat /\ (asked' = asked \/ asked' = asked + 1)
  <2>1. asked' = asked \/ asked' = asked + 1
    BY DEF Next, Quiet, vars, Ask, Crash, Serve, SaveFile, SaveFails, CheckTable, UseDictionary, RemoveKept,
       SelectFile, Unlink, UnlinkFails, CheckHome, Insert, Delete, Raises, Upsert, RememberInProcess,
       Forget, ForgetInProcess, Collect, CollectFails, Recall, RecallFromProcess, ClearMemory, DeleteUser
  <2>2. asked \in Nat
    BY UserDataConstants DEF Inv, Typed, TypeOK, Ids
  <2> QED
    BY <2>1, <2>2
<1>1. ASSUME NEW f \in disk', f \notin disk
      PROVE  f.id \in 1..asked /\ \A g \in disk' : g.id = f.id => g = f
  <2>1. PICK s \in Slots : Serve(s) /\ f = FileOf(req[s]) /\ req[s].op = "upload"
                           /\ (SaveFile(s) \/ SaveFails(s))
    BY <1>1, DiskGrows
  <2>2. Busy(s) /\ f.id = req[s].id /\ f.owner = req[s].user
    BY <2>1, Threads DEF Inv, FileOf
  <2>3. f.id \in 1..asked
    BY <2>2 DEF Inv, Ids3, Numbered
  <2>4. ASSUME NEW g \in disk, g.id = f.id PROVE g = f
    <3>1. g.owner = f.owner
      BY <2>2, <2>4 DEF Stamped
    <3>2. g \in Files
      BY DEF Inv, Typed, TypeOK
    <3> QED
      BY <2>1, <2>2, <2>4, <3>1, <3>2 DEF FileOf, Files
  <2>5. disk' \subseteq disk \cup {f}
    BY <2>1 DEF SaveFile, SaveFails
  <2> QED
    BY <2>3, <2>4, <2>5
<1>2. \A f \in disk' : f.id \in 1..asked'
  BY <1>0, <1>1 DEF Stamped
<1>3. \A f, g \in disk' : f.id = g.id => f = g
  BY <1>1 DEF Stamped
<1>4. ASSUME NEW f \in disk', NEW t \in Slots, Busy(t)', req'[t].id = f.id
      PROVE  req'[t].op = "upload" /\ req'[t].user = f.owner
  <2>1. \/ req'[t] = req[t] /\ Busy(t)
        \/ Ask(t) /\ req'[t].id = asked + 1 /\ disk' = disk
        \/ Serve(t) /\ Busy(t) /\ req'[t].user = req[t].user /\ req'[t].op = req[t].op
           /\ req'[t].id = req[t].id
    BY <1>4, NumbersMove
  <2>2. CASE f \in disk
    BY <1>0, <1>4, <2>1, <2>2 DEF Stamped
  <2>3. CASE f \notin disk
    <3>1. PICK s \in Slots : Serve(s) /\ f = FileOf(req[s]) /\ req[s].op = "upload"
      BY <2>3, DiskGrows
    <3>2. Busy(s) /\ f.id = req[s].id /\ f.owner = req[s].user
      BY <3>1, Threads DEF Inv, FileOf
    <3>3. f.id \in 1..asked
      BY <1>1, <2>3
    <3>4. Busy(t) /\ req'[t].id = req[t].id /\ req'[t].op = req[t].op /\ req'[t].user = req[t].user
      BY <1>0, <1>4, <2>1, <3>3
    <3>5. t = s
      BY <1>4, <3>2, <3>4 DEF Inv, Ids3, Unused
    <3> QED
      BY <3>1, <3>2, <3>4, <3>5
  <2> QED
    BY <2>2, <2>3
<1> QED
  BY <1>2, <1>3, <1>4 DEF Stamped

LEMMA NextTargets ==
    ASSUME Inv, Next, Stamped, TargetOwned
    PROVE  TargetOwned'
<1> SUFFICES ASSUME NEW t \in Slots, Busy(t)', req'[t].op = "removeFile",
                    req'[t].pc \in {"delete", "unlink"}, NEW f \in disk', f.id = req'[t].target
             PROVE  f.owner = req'[t].user
  BY DEF TargetOwned
<1>1. \/ req'[t] = req[t] /\ Busy(t)
      \/ Serve(t) /\ Busy(t) /\ ~Answer(t) /\ req'[t].user = req[t].user /\ req'[t].op = req[t].op
         /\ req'[t].id = req[t].id /\ req'[t].target = req[t].target
  <2>1. FirstStep["removeFile"] \notin {"delete", "unlink"}
    BY DEF FirstStep
  <2> QED
    BY <2>1, NumbersMove
<1>2. f \in disk
  <2> SUFFICES ASSUME f \notin disk PROVE FALSE
    OBVIOUS
  <2>1. PICK s \in Slots : Serve(s) /\ f = FileOf(req[s])
    BY DiskGrows
  <2>2. Busy(s) /\ f.id = req[s].id
    BY <2>1, Threads DEF Inv, FileOf
  <2> QED
    BY <1>1, <2>2 DEF Inv, Ids3, Unused
<1>3. CASE req'[t] = req[t] /\ Busy(t)
  BY <1>2, <1>3 DEF TargetOwned
<1>4. CASE Serve(t) /\ Busy(t) /\ ~Answer(t) /\ req'[t].user = req[t].user /\ req'[t].op = req[t].op
           /\ req'[t].target = req[t].target
  <2>1. req[t].pc \in {"check", "select", "delete", "unlink"}
    BY <1>4, AtBusy, ServeOnward DEF Inv, StepsOf
  <2>2. CASE req[t].pc \in {"delete", "unlink"}
    BY <1>2, <1>4, <2>2 DEF TargetOwned
  <2>3. CASE req[t].pc = "check"
    <3>1. CheckTable(t)
      BY <1>4, <2>3 DEF Serve, SaveFile, SaveFails, UseDictionary, RemoveKept, SelectFile, Unlink,
         UnlinkFails, CheckHome, Insert, Delete, Raises, Upsert, RememberInProcess, Forget,
         ForgetInProcess, Collect, CollectFails, Recall, RecallFromProcess, ClearMemory, DeleteUser, At
    <3>2. req'[t].pc \in {"insert", "select"}
      BY <1>4, <3>1, Threads DEF CheckTable, Steps, Inv
    <3> QED
      BY <3>2
  <2>4. CASE req[t].pc = "select"
    <3>1. SelectFile(t)
      BY <1>4, <2>4 DEF Serve, SaveFile, SaveFails, CheckTable, UseDictionary, RemoveKept, Unlink,
         UnlinkFails, CheckHome, Insert, Delete, Raises, Upsert, RememberInProcess, Forget,
         ForgetInProcess, Collect, CollectFails, Recall, RecallFromProcess, ClearMemory, DeleteUser, At
    <3>2. PICK r \in rows : r.kind = "file" /\ r.id = req[t].target /\ r.owner = req[t].user
      BY <1>4, <3>1 DEF SelectFile, RowsNamed
    <3> DEFINE g == [id |-> r.id, owner |-> r.owner]
    <3>3. g \in disk /\ g.id = f.id /\ g.owner = req[t].user
      BY <1>4, <3>2 DEF Inv, FilesInv, RowHasFile
    <3>4. f = g
      BY <1>2, <3>3 DEF Stamped
    <3> QED
      BY <1>4, <3>3, <3>4
  <2> QED
    BY <2>1, <2>2, <2>3, <2>4
<1> QED
  BY <1>1, <1>3, <1>4

LEMMA Excusing ==
    ASSUME Excuse
    PROVE  /\ excused \subseteq excused'
           /\ \A s \in Slots : Answered(s) /\ faults' # faults /\ ~At(s, "check") => InHand(s) \subseteq excused'
           /\ \A s \in Slots : Answered(s) /\ faults' # faults /\ kept' # kept => req[s].target \in excused'
           /\ \A w \in Workers : Died(w) => KnownTo(w) \subseteq excused'
<1>1. excused \subseteq excused'
  BY DEF Excuse
<1>2. ASSUME NEW s \in Slots, Answered(s), faults' # faults, ~At(s, "check"), NEW i \in InHand(s)
      PROVE  i \in excused'
  <2>1. i \in HalfWay
    BY <1>2 DEF HalfWay
  <2> QED
    BY <2>1 DEF Excuse
<1>3. ASSUME NEW s \in Slots, Answered(s), faults' # faults, kept' # kept
      PROVE  req[s].target \in excused'
  <2>1. req[s].target \in Unlisted
    BY <1>3 DEF Unlisted
  <2> QED
    BY <2>1 DEF Excuse
<1>4. ASSUME NEW w \in Workers, Died(w), NEW i \in KnownTo(w)
      PROVE  i \in excused'
  <2>1. i \in Lost
    BY <1>4 DEF Lost
  <2> QED
    BY <2>1 DEF Excuse
<1> QED
  BY <1>1, <1>2, <1>3, <1>4

(* A request that fails with a file in hand excuses it. *)
LEMMA FailsExcused ==
    ASSUME Inv, Excuse, NEW s \in Slots, Serve(s), Answer(s), Fault, ~At(s, "check"), NEW i \in InHand(s)
    PROVE  i \in excused'
<1>1. faults' # faults
  BY UserDataConstants DEF Fault, Inv, Typed, TypeOK
<1> QED
  BY <1>1, AnswerAnswered, Excusing

(* What becomes of the claims of a thread that serves. *)
LEMMA UploadClaims ==
    ASSUME Inv, Excuse, Stamped, NEW s \in Slots, Serve(s), NEW f \in disk \cup disk', f.owner \in users',
           f.id = req[s].id, req[s].op = "upload", req[s].user = f.owner, f \in Files,
           req[s].pc \in {"save", "check", "insert"}
    PROVE  Claimed(f)'
<1>1. f.id \in InHand(s)
  BY DEF InHand
<1>2. ASSUME NEW pc \in {"check", "insert"}, Goto(s, pc)
      PROVE  Claimed(f)'
  <2>1. req'[s].pc = pc /\ req'[s].id = req[s].id
    BY <1>2, Threads DEF Inv, Steps, Busy, Free
  <2>2. InHand(s)' = {f.id}
    BY <2>1 DEF InHand
  <2> QED
    BY <2>2 DEF Claimed
<1>3. CASE req[s].pc = "save"
  <2>1. SaveFile(s) \/ SaveFails(s)
    BY <1>3 DEF Serve, CheckTable, UseDictionary, RemoveKept, SelectFile, Unlink,
       UnlinkFails, CheckHome, Insert, Delete, Raises, Upsert, RememberInProcess, Forget,
       ForgetInProcess, Collect, CollectFails, Recall, RecallFromProcess, ClearMemory, DeleteUser, At
  <2>2. CASE SaveFile(s)
    BY <1>2, <2>2 DEF SaveFile
  <2>3. CASE SaveFails(s)
    <3>1. f.id \in excused'
      BY <1>1, <1>3, <2>3, FailsExcused DEF SaveFails, At
    <3> QED
      BY <3>1 DEF Claimed
  <2> QED
    BY <2>1, <2>2, <2>3
<1>4. CASE req[s].pc = "check"
  <2>1. CheckTable(s) \/ UseDictionary(s)
    BY <1>4 DEF Serve, SaveFile, SaveFails, RemoveKept, SelectFile, Unlink,
       UnlinkFails, CheckHome, Insert, Delete, Raises, Upsert, RememberInProcess, Forget,
       ForgetInProcess, Collect, CollectFails, Recall, RecallFromProcess, ClearMemory, DeleteUser, At
  <2>2. CASE CheckTable(s)
    BY <1>2, <2>2 DEF CheckTable
  <2>3. CASE UseDictionary(s)
    <3>1. kept' = [kept EXCEPT ![WorkerOf[s]] = @ \cup {FileOf(req[s])}] /\ WorkerOf[s] \in Workers
      BY <2>3, UserDataConstants DEF UseDictionary
    <3>2. f = FileOf(req[s])
      BY DEF FileOf, Files
    <3>3. f \in kept'[WorkerOf[s]]
      BY <3>1, <3>2 DEF Inv, Typed, TypeOK
    <3> QED
      BY <3>1, <3>3 DEF Claimed
  <2> QED
    BY <2>1, <2>2, <2>3
<1>5. CASE req[s].pc = "insert"
  <2>1. Insert(s) \/ Raises(s)
    BY <1>5 DEF Serve, SaveFile, SaveFails, CheckTable, UseDictionary, RemoveKept, SelectFile, Unlink,
       UnlinkFails, CheckHome, Delete, Upsert, RememberInProcess, Forget,
       ForgetInProcess, Collect, CollectFails, Recall, RecallFromProcess, ClearMemory, DeleteUser, At
  <2>2. CASE Insert(s)
    <3>1. users' = users
      BY <2>2 DEF Insert
    <3>2. KeysHold(req[s])
      BY <3>1 DEF KeysHold
    <3>3. NewRow(req[s]) \in rows' /\ NewRow(req[s]).kind = "file" /\ NewRow(req[s]).id = f.id
      BY <2>2, <3>2 DEF Insert, NewRow, KindOf
    <3> QED
      BY <3>3 DEF Claimed
  <2>3. CASE Raises(s)
    <3>1. f.id \in excused'
      BY <1>1, <1>5, <2>3, FailsExcused DEF Raises, At
    <3> QED
      BY <3>1 DEF Claimed
  <2> QED
    BY <2>1, <2>2, <2>3
<1> QED
  BY <1>3, <1>4, <1>5

(* A row of a file goes with its file in hand, or with its owner. *)
LEMMA RowClaims ==
    ASSUME Inv, Stamped, NEW s \in Slots, Serve(s), NEW f \in disk, f.owner \in users',
           NEW r \in rows, r.kind = "file", r.id = f.id
    PROVE  Claimed(f)'
<1>1. f.owner = r.owner
  <2> DEFINE g == [id |-> r.id, owner |-> r.owner]
  <2>1. g \in disk
    BY DEF Inv, FilesInv, RowHasFile
  <2>2. f = g
    BY <2>1 DEF Stamped
  <2> QED
    BY <2>2
<1>2. CASE r \in rows'
  BY <1>2 DEF Claimed
<1>3. CASE r \notin rows'
  <2>1. CASE Delete(s)
    <3>1. req[s].op \in {"removeFile", "dropWorkspace", "dropProject"}
      <4>1. req[s].pc = "delete" /\ req[s].pc \in StepsOf[req[s].op] /\ req[s].op \in Ops
        BY <2>1, AtBusy DEF Delete, At, Inv, Requests
      <4> QED
        BY <4>1 DEF StepsOf, Ops, KindOf
    <3>2. r \in RowsNamed(KindOf[req[s].op], req[s].target)
      BY <1>3, <2>1 DEF Delete, WithProjects, RowsNamed
    <3>3. req[s].op = "removeFile" /\ r.id = req[s].target
      BY <3>1, <3>2 DEF RowsNamed, KindOf
    <3>4. Goto(s, "unlink")
      BY <2>1, <3>3 DEF Delete
    <3>5. req'[s].pc = "unlink" /\ req'[s].target = req[s].target
      BY <3>4, Threads DEF Inv, Steps, Busy, Free
    <3>6. InHand(s)' = {f.id}
      BY <3>3, <3>5 DEF InHand
    <3> QED
      BY <3>6 DEF Claimed
  <2>2. CASE DeleteUser(s)
    BY <1>1, <1>3, <2>2 DEF DeleteUser, RowsOf
  <2>3. CASE Upsert(s) \/ Forget(s)
    BY <1>3, <2>3 DEF Upsert, Forget, MemoryOf
  <2> QED
    BY <1>3, <2>1, <2>2, <2>3
    DEF Serve, SaveFile, SaveFails, CheckTable, UseDictionary, RemoveKept, SelectFile, Unlink, UnlinkFails,
        CheckHome, Insert, Raises, RememberInProcess, ForgetInProcess, Collect, CollectFails, Recall,
        RecallFromProcess, ClearMemory
<1> QED
  BY <1>2, <1>3

(* An entry of a dictionary goes with its file, or after a failure. *)
LEMMA KeptClaims ==
    ASSUME Inv, Excuse, NEW s \in Slots, Serve(s), NEW f \in disk',
           NEW w \in Workers, f \in kept[w]
    PROVE  Claimed(f)'
<1>1. CASE f \in kept'[w]
  BY <1>1 DEF Claimed
<1>2. CASE f \notin kept'[w]
  <2>1. RemoveKept(s)
    <3>1. ~ UseDictionary(s)
      <4>1. WorkerOf[s] \in Workers
        BY UserDataConstants
      <4> QED
        BY <1>2, <4>1 DEF UseDictionary, Inv, Typed, TypeOK
    <3> QED
      BY <1>2, <3>1
      DEF Serve, SaveFile, SaveFails, CheckTable, SelectFile, Unlink, UnlinkFails, CheckHome, Insert, Delete,
          Raises, Upsert, RememberInProcess, Forget, ForgetInProcess, Collect, CollectFails, Recall,
          RecallFromProcess, ClearMemory, DeleteUser
  <2>2. f = Target(req[s]) /\ kept' # kept
    BY <1>2, <2>1, UserDataConstants DEF RemoveKept, Inv, Typed, TypeOK
  <2>3. Fault /\ faults' # faults
    BY <2>1, <2>2, UserDataConstants DEF RemoveKept, Fault, Inv, Typed, TypeOK
  <2>4. f.id \in excused'
    BY <2>1, <2>2, <2>3, AnswerAnswered, Excusing DEF RemoveKept, Target
  <2> QED
    BY <2>4 DEF Claimed
<1> QED
  BY <1>1, <1>2

(* A removal at its last step takes the file, or fails. *)
LEMMA UnlinkClaims ==
    ASSUME Inv, Excuse, TargetOwned, NEW s \in Slots, Serve(s), NEW f \in disk, f \in disk', f \in Files,
           req[s].pc = "unlink", f.id = req[s].target
    PROVE  Claimed(f)'
<1>1. Unlink(s) \/ UnlinkFails(s)
  BY DEF Serve, SaveFile, SaveFails, CheckTable, UseDictionary, RemoveKept, SelectFile,
       CheckHome, Insert, Delete, Raises, Upsert, RememberInProcess, Forget,
       ForgetInProcess, Collect, CollectFails, Recall, RecallFromProcess, ClearMemory, DeleteUser, At
<1>2. f = Target(req[s])
  <2>1. Busy(s) /\ req[s].op = "removeFile"
    BY Place, Threads DEF Inv
  <2>2. f.owner = req[s].user
    BY <2>1 DEF TargetOwned
  <2> QED
    BY <2>2 DEF Target, Files
<1>3. UnlinkFails(s)
  BY <1>1, <1>2 DEF Unlink
<1>4. f.id \in InHand(s)
  BY DEF InHand
<1>5. f.id \in excused'
  BY <1>3, <1>4, FailsExcused DEF UnlinkFails, At
<1> QED
  BY <1>5 DEF Claimed

LEMMA ServeClaims ==
    ASSUME Inv, Excuse, Next, Orphans, NEW s \in Slots, Serve(s)
    PROVE  Claims'
<1> SUFFICES ASSUME NEW f \in disk', f.owner \in users' PROVE Claimed(f)'
  BY DEF Claims
<1>1. f \in Files
  BY ServeTyped DEF Inv, Typed, TypeOK
<1>2. users' \subseteq users /\ Stamped /\ TargetOwned /\ excused \subseteq excused'
  BY UsersGo, Excusing DEF Orphans
<1>3. CASE f \notin disk
  <2>1. PICK t \in Slots : /\ SaveFile(t) \/ SaveFails(t)
                           /\ Serve(t) /\ f = FileOf(req[t]) /\ req[t].op = "upload"
    BY <1>3, DiskGrows
  <2>2. req[t].pc = "save" /\ f.id = req[t].id /\ req[t].user = f.owner
    BY <2>1 DEF SaveFile, SaveFails, At, FileOf
  <2> QED
    BY <1>1, <1>2, <2>1, <2>2, UploadClaims
<1>4. CASE f \in disk
  <2>1. Claimed(f)
    BY <1>2, <1>4 DEF Orphans, Claims
  <2>2. CASE \E r \in rows : r.kind = "file" /\ r.id = f.id
    BY <1>2, <1>4, <2>2, RowClaims
  <2>3. CASE \E w \in Workers : f \in kept[w]
    BY <2>3, KeptClaims
  <2>4. CASE \E t \in Slots \ {s} : f.id \in InHand(t)
    <3>1. PICK t \in Slots \ {s} : f.id \in InHand(t)
      BY <2>4
    <3>2. req'[t] = req[t]
      BY Threads DEF Inv
    <3>3. InHand(t)' = InHand(t)
      BY <3>2 DEF InHand
    <3> QED
      BY <3>1, <3>3 DEF Claimed
  <2>5. CASE f.id \in InHand(s)
    <3>1. CASE req[s].pc = "unlink"
      <4>1. f.id = req[s].target
        BY <2>5, <3>1 DEF InHand
      <4> QED
        BY <1>1, <1>2, <1>4, <3>1, <4>1, UnlinkClaims
    <3>2. CASE req[s].pc # "unlink"
      <4>1. req[s].pc \in {"save", "check", "insert"} /\ f.id = req[s].id
        BY <2>5, <3>2 DEF InHand
      <4>2. Busy(s)
        BY Threads DEF Inv
      <4>3. req[s].op = "upload" /\ req[s].user = f.owner
        BY <1>2, <1>4, <4>1, <4>2 DEF Stamped
      <4> QED
        BY <1>1, <1>2, <1>4, <4>1, <4>3, UploadClaims
    <3> QED
      BY <3>1, <3>2
  <2>6. CASE f.id \in excused
    BY <1>2, <2>6 DEF Claimed
  <2> QED
    BY <2>1, <2>2, <2>3, <2>4, <2>5, <2>6 DEF Claimed
<1> QED
  BY <1>3, <1>4

LEMMA AskClaims ==
    ASSUME Inv, Excuse, Claims, NEW s \in Slots, Ask(s)
    PROVE  Claims'
<1>1. UNCHANGED <<users, rows, disk, kept>> /\ req[s].pc \in {"idle", "exported"}
  BY DEF Ask
<1>2. PICK r : req' = [req EXCEPT ![s] = r]
  BY AskTyped DEF Inv, Ids3
<1>3. \A t \in Slots \ {s} : req'[t] = req[t]
  BY <1>2 DEF Inv, Typed, TypeOK
<1>4. InHand(s) = {}
  BY <1>1 DEF InHand
<1>5. \A t \in Slots \ {s} : InHand(t)' = InHand(t)
  BY <1>3 DEF InHand
<1> QED
  BY <1>1, <1>4, <1>5, Excusing DEF Claims, Claimed

LEMMA CrashClaims ==
    ASSUME Inv, Excuse, Claims, NEW w \in Workers, Crash(w)
    PROVE  Claims'
<1>1. UNCHANGED <<users, rows, disk>> /\ req' = [s \in Slots |-> IF WorkerOf[s] = w THEN Free ELSE req[s]]
      /\ \A v \in Workers \ {w} : kept'[v] = kept[v]
  BY DEF Crash, Inv, Typed, TypeOK
<1>2. Died(w)
  BY UserDataConstants DEF Crash, Died, Inv, Typed, TypeOK
<1>3. KnownTo(w) \subseteq excused' /\ excused \subseteq excused'
  BY <1>2, Excusing
<1>4. \A s \in Slots : WorkerOf[s] # w => InHand(s)' = InHand(s)
  BY <1>1 DEF InHand
<1>5. \A s \in Slots : WorkerOf[s] = w => InHand(s) \subseteq excused'
  BY <1>3 DEF KnownTo
<1>6. \A f \in kept[w] : f.id \in excused'
  BY <1>3 DEF KnownTo
<1> QED
  BY <1>1, <1>3, <1>4, <1>5, <1>6 DEF Claims, Claimed

LEMMA NextClaims ==
    ASSUME Inv, HNext, Orphans
    PROVE  Claims'
<1>1. Next /\ Excuse /\ Claims
  BY DEF HNext, Orphans
<1>2. CASE UNCHANGED vars
  <2>1. UNCHANGED <<users, rows, disk, kept, req>>
    BY <1>2 DEF vars
  <2>2. \A s \in Slots : InHand(s)' = InHand(s)
    BY <2>1 DEF InHand
  <2> QED
    BY <1>1, <2>1, <2>2, Excusing DEF Claims, Claimed
<1> QED
  BY <1>1, <1>2, AskClaims, ServeClaims, CrashClaims DEF Next, Quiet

-----------------------------------------------------------------------------
(* All of it, with the history. *)

HInv == Inv /\ (\A s \in Slots : Exporting(s)) /\ LatestIsSomewhere /\ Forgetting /\ Orphans

LEMMA InitHInv == HInit => HInv
<1> SUFFICES ASSUME HInit PROVE HInv
  OBVIOUS
<1>1. Inv
  BY InitInv DEF HInit
<1>2. \A s \in Slots : ~Busy(s) /\ req[s].pc = "idle"
  BY DEF HInit, Init, Busy, Free
<1>3. disk = {} /\ users = Users /\ (\A u \in Users : latest[u] = None)
      /\ \A w \in Workers, u \in Users : store[w][u] = None
  BY DEF HInit, Init
<1>4. (\A s \in Slots : Exporting(s)) /\ LatestIsSomewhere
  BY <1>2, <1>3 DEF Exporting, LatestIsSomewhere
<1>5. Forgetting
  BY <1>2, <1>3 DEF Forgetting, HeldAfterFault, Cleared, AskedBefore, GoneIsForgotten, At
<1>6. Orphans
  BY <1>2, <1>3 DEF Orphans, Stamped, TargetOwned, Claims
<1> QED
  BY <1>1, <1>4, <1>5, <1>6 DEF HInv

LEMMA HInvStep == HInv /\ HNext => HInv'
<1> SUFFICES ASSUME HInv, HNext PROVE HInv'
  OBVIOUS
<1>1. Inv' /\ Next /\ Inv
  BY NextInv DEF HInv, HNext
<1>2. \A s \in Slots : Exporting(s)'
  BY NextExports DEF HInv
<1>3. LatestIsSomewhere'
  BY NextLatest DEF HInv
<1>4. Forgetting'
  BY <1>1, NextHeld, NextCleared, NextAsked, NextGone DEF HInv, Forgetting
<1>5. Orphans'
  BY <1>1, NextStamped, NextTargets, NextClaims DEF HInv, Orphans
<1> QED
  BY <1>1, <1>2, <1>3, <1>4, <1>5 DEF HInv

LEMMA HInvStutter == HInv /\ UNCHANGED <<vars, hvars>> => HInv'
<1> SUFFICES ASSUME HInv, UNCHANGED <<vars, hvars>> PROVE HInv'
  OBVIOUS
<1>1. Inv'
  BY NextInv DEF HInv
<1>2. UNCHANGED <<users, rows, disk, store, kept, req, asked, faults, crashes,
                  excused, raced, ender, latest, lasting>>
  BY DEF vars, hvars
<1>3. \A s \in Slots : Exporting(s)'
  BY <1>2 DEF HInv, Exporting, Busy
<1>4. LatestIsSomewhere'
  BY <1>2 DEF HInv, LatestIsSomewhere, MemoryOf, RowsOf
<1>5. Forgetting'
  BY <1>2 DEF HInv, Forgetting, HeldAfterFault, Cleared, AskedBefore, GoneIsForgotten, At
<1>6. \A s \in Slots : InHand(s)' = InHand(s)
  BY <1>2 DEF InHand
<1>7. Orphans'
  BY <1>2, <1>6 DEF HInv, Orphans, Stamped, TargetOwned, Claims, Claimed, Busy
<1> QED
  BY <1>1, <1>3, <1>4, <1>5, <1>7 DEF HInv

LEMMA HInvHolds == HSpec => []HInv
BY InitHInv, HInvStep, HInvStutter, PTL DEF HSpec

(* An export has every file and memory its user had all the time, unless a *)
(* statement failed, and nothing of anybody else (privacy.py               *)
(* export_user_data).                                                      *)
THEOREM ExportsComplete == HSpec => []ExportIsComplete
<1>1. HInv => ExportIsComplete
  <2> SUFFICES ASSUME HInv, NEW s \in Slots, At(s, "exported")
               PROVE  /\ lasting[s] \subseteq req[s].seen \/ faults > 0
                      /\ \A r \in req[s].seen : r.owner = req[s].user
    BY DEF ExportIsComplete
  <2>1. Busy(s) /\ Exporting(s)
    BY AtBusy DEF HInv, Inv, At
  <2> QED
    BY <2>1 DEF Exporting, At
<1> QED
  BY <1>1, HInvHolds, PTL

(* The memory a user was told last is in the table, or after a failure in  *)
(* a dictionary, unless a process died (memory_engine.py set_memory).      *)
THEOREM LatestRemembered == HSpec => []LatestIsSomewhere
<1>1. HInv => LatestIsSomewhere
  BY DEF HInv
<1> QED
  BY <1>1, HInvHolds, PTL

(* Nothing is remembered of a user who is gone, but after a failure in     *)
(* another process, or what was asked to be remembered while the account   *)
(* was being deleted (privacy.py delete_user_account).                     *)
THEOREM GoneForgotten == HSpec => []GoneIsForgotten
<1>1. HInv => GoneIsForgotten
  BY DEF HInv, Forgetting
<1> QED
  BY <1>1, HInvHolds, PTL

(* A file of a living user that nothing claims comes from a request that   *)
(* failed or died half-way (file_service.py).                              *)
THEOREM OrphansCaused == HSpec => []OrphansHaveCause
<1>1. HInv => OrphansHaveCause
  BY ClaimsOrphans DEF HInv, Orphans
<1> QED
  BY <1>1, HInvHolds, PTL
=============================================================================
