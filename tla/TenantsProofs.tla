---------------------------- MODULE TenantsProofs ----------------------------
(***************************************************************************)
(* Tenants, for any users, threads, processes, requests and faults: a      *)
(* tenant keeps its creator, no member is left without user or tenant,     *)
(* memberships come from inside, plans from a member or a webhook, and     *)
(* what is granted was paid.                                               *)
(***************************************************************************)
EXTENDS TenantsMC, FiniteSetTheorems, TLAPS

(* A request that checks access is one that has a second step. *)
OpFits == \A s \in Slots : req[s].pc = "access" => req[s].op \in DOMAIN SecondStep

MemoryFinite == \A w \in Workers : IsFiniteSet(memory[w].tenants)

(* CreatorStaysMember in three parts. *)
TablesKeep == \A t \in tenants : IsMember(InTables, t.id, t.owner)
DictionariesKeep == \A w \in Workers : \A t \in memory[w].tenants : IsMember(memory[w], t.id, t.owner)
MembersBelong == \A m \in members : m.user \in users /\ \E t \in tenants : t.id = m.tenant

(* A plan is one of a tenant that is there. *)
PlansBelong == \A i \in Ids : plans[i] # NoPlan => \E t \in tenants : t.id = i

Typed == TypeOK /\ OpFits /\ MemoryFinite
Inv == Typed /\ TablesKeep /\ DictionariesKeep /\ MembersBelong

-----------------------------------------------------------------------------
(* Types. *)

LEMMA InitTyped == Init => Typed
<1> SUFFICES ASSUME Init PROVE Typed
  OBVIOUS
<1>1. Unwritten \in [Ids -> PlanNames \cup {NoPlan}]
  BY DEF Unwritten
<1>2. Empty \in Dictionaries /\ Empty.tenants = {}
  BY <1>1 DEF Empty, Dictionaries
<1>3. TypeOK
  BY <1>1, <1>2, TenantsConstants DEF Init, TypeOK
<1>4. MemoryFinite
  BY <1>2, FS_EmptySet DEF Init, MemoryFinite
<1> QED
  BY <1>3, <1>4 DEF Init, Typed, OpFits, Free

(* What the tables or the dictionaries of a process hold is typed. *)
LEMMA SourceTyped ==
    ASSUME Typed, NEW s \in Slots, NEW here \in Sources(s)
    PROVE  here \in Dictionaries
BY TenantsConstants DEF Typed, TypeOK, Sources, InTables, Dictionaries

(* The step tells a user's request from an event. *)
LEMMA IsRequest ==
    ASSUME Typed, NEW s \in Slots, req[s].pc \in Steps
    PROVE  req[s] \in Requests
BY DEF Typed, TypeOK, Steps, EventSteps, Notices, Free

LEMMA IsNotice ==
    ASSUME Typed, NEW s \in Slots, req[s].pc \in EventSteps
    PROVE  req[s] \in Notices
BY DEF Typed, TypeOK, Steps, EventSteps, Requests, Free

(* A thread that goes on, or is free again, keeps the requests typed. *)
LEMMA StepTyped ==
    ASSUME Typed, NEW s \in Slots, NEW r \in Requests \cup Notices \cup {Free},
           r.pc = "access" => r.op \in DOMAIN SecondStep,
           req' = [req EXCEPT ![s] = r]
    PROVE  req' \in [Slots -> Requests \cup Notices \cup {Free}] /\ OpFits'
BY DEF Typed, TypeOK, OpFits

LEMMA Answered ==
    ASSUME Typed, NEW s \in Slots, Answer(s)
    PROVE  req' \in [Slots -> Requests \cup Notices \cup {Free}] /\ OpFits'
BY StepTyped DEF Answer, Free

LEMMA WentOn ==
    ASSUME Typed, NEW s \in Slots, NEW pc \in Steps \ {"access"}, req[s].pc \in Steps, Goto(s, pc)
    PROVE  req' \in [Slots -> Requests \cup Notices \cup {Free}] /\ OpFits'
<1> DEFINE r == [req[s] EXCEPT !.pc = pc]
<1>1. r \in Requests /\ r.pc = pc
  BY IsRequest DEF Requests
<1> QED
  BY <1>1, StepTyped DEF Goto

LEMMA EventWentOn ==
    ASSUME Typed, NEW s \in Slots, NEW pc \in EventSteps, req[s].pc \in EventSteps, Goto(s, pc)
    PROVE  req' \in [Slots -> Requests \cup Notices \cup {Free}] /\ OpFits'
<1> DEFINE r == [req[s] EXCEPT !.pc = pc]
<1>1. r \in Notices /\ r.pc = pc
  BY IsNotice DEF Notices
<1> QED
  BY <1>1, StepTyped DEF Goto, EventSteps

(* Most steps leave the dictionaries alone. *)
LEMMA SameMemory == Typed /\ memory' = memory => MemoryFinite'
BY DEF Typed, MemoryFinite

LEMMA AskTyped ==
    ASSUME Typed, NEW s \in Slots, Ask(s)
    PROVE  Typed'
<1>1. PICK u \in users, op \in Ops :
      \E t \in IF op \in {"create", "gate"} THEN {1}
               ELSE {x.id : x \in tenants \cup UNION {memory[w].tenants : w \in Workers}} :
      \E v \in IF op = "invite" THEN Users ELSE {u},
         role \in IF op = "invite" THEN Roles ELSE {"member"},
         plan \in IF op = "subscribe" THEN PlanNames ELSE {"free"} :
           req' = [req EXCEPT ![s] = [pc |-> FirstStep[op], op |-> op, user |-> u, tenant |-> t,
                                      slug |-> 0, whom |-> v, role |-> role, plan |-> plan]]
  BY DEF Ask
<1>2. PICK t \in IF op \in {"create", "gate"} THEN {1}
                 ELSE {x.id : x \in tenants \cup UNION {memory[w].tenants : w \in Workers}},
           v \in IF op = "invite" THEN Users ELSE {u},
           role \in IF op = "invite" THEN Roles ELSE {"member"},
           plan \in IF op = "subscribe" THEN PlanNames ELSE {"free"} :
           req' = [req EXCEPT ![s] = [pc |-> FirstStep[op], op |-> op, user |-> u, tenant |-> t,
                                      slug |-> 0, whom |-> v, role |-> role, plan |-> plan]]
  BY <1>1
<1> DEFINE r == [pc |-> FirstStep[op], op |-> op, user |-> u, tenant |-> t,
                 slug |-> 0, whom |-> v, role |-> role, plan |-> plan]
<1>3. t \in Nat
  <2>1. \A w \in Workers : memory[w].tenants \subseteq Tenant
    BY DEF Typed, TypeOK, Dictionaries
  <2>2. \A x \in tenants \cup UNION {memory[w].tenants : w \in Workers} : x.id \in Nat
    BY <2>1 DEF Typed, TypeOK, Tenant
  <2> QED
    BY <2>2
<1>4. v \in Users /\ u \in Users /\ role \in Roles /\ plan \in PlanNames
  BY DEF Typed, TypeOK, Roles, PlanNames
<1>5. FirstStep[op] \in Steps /\ (FirstStep[op] = "access" => op \in DOMAIN SecondStep)
  BY DEF FirstStep, SecondStep, Steps, Ops
<1>6. r \in Requests /\ (r.pc = "access" => r.op \in DOMAIN SecondStep)
  BY <1>3, <1>4, <1>5 DEF Requests
<1>7. req' \in [Slots -> Requests \cup Notices \cup {Free}] /\ OpFits'
  BY <1>2, <1>6, StepTyped
<1>8. asked' \in 0..MaxRequests
  BY TenantsConstants DEF Ask, Typed, TypeOK
<1> QED
  BY <1>7, <1>8, SameMemory DEF Ask, Typed, TypeOK

LEMMA ReceiveTyped ==
    ASSUME Typed, NEW s \in Slots, Receive(s)
    PROVE  Typed'
<1>1. PICK t \in Ids, plan \in PlanNames :
        req' = [req EXCEPT ![s] = [pc |-> "event", op |-> "webhook", tenant |-> t, plan |-> plan]]
  BY DEF Receive
<1> DEFINE r == [pc |-> "event", op |-> "webhook", tenant |-> t, plan |-> plan]
<1>2. r \in Notices /\ r.pc # "access"
  BY DEF Notices, EventSteps, Ids
<1>3. req' \in [Slots -> Requests \cup Notices \cup {Free}] /\ OpFits'
  BY <1>1, <1>2, StepTyped
<1>4. asked' \in 0..MaxRequests
  BY TenantsConstants DEF Receive, Typed, TypeOK
<1> QED
  BY <1>3, <1>4, SameMemory DEF Receive, Typed, TypeOK

LEMMA FaultTyped == Typed /\ (Fault \/ UNCHANGED faults) => faults' \in 0..MaxFaults
BY TenantsConstants DEF Typed, TypeOK, Fault

(* The reading steps: the tables and the dictionaries stay as they are. *)
LEMMA ReadersTyped ==
    ASSUME Typed, NEW s \in Slots,
           \/ CheckAccess(s) \/ CheckRole(s) \/ Read(s) \/ Raises(s) \/ FirstTenant(s)
           \/ CheckPlan(s) \/ RecordEvent(s) \/ FindPlan(s)
    PROVE  Typed'
<1>1. UNCHANGED <<users, tenants, members, plans, memory, lastId, asked, crashes>>
  BY DEF CheckAccess, CheckRole, Read, Raises, FirstTenant, CheckPlan, RecordEvent, FindPlan
<1>2. Fault \/ UNCHANGED faults
  BY DEF CheckAccess, CheckRole, Read, Raises, FirstTenant, CheckPlan, RecordEvent, FindPlan, Looks
<1>3. req' \in [Slots -> Requests \cup Notices \cup {Free}] /\ OpFits'
  <2>1. CASE Answer(s)
    BY <2>1, Answered
  <2>2. CASE req[s].pc = "access" /\ Goto(s, SecondStep[req[s].op])
    <3>1. SecondStep[req[s].op] \in Steps \ {"access"} /\ req[s].pc \in Steps
      BY <2>2 DEF Typed, OpFits, SecondStep, Steps
    <3> QED
      BY <2>2, <3>1, WentOn
  <2>3. CASE req[s].pc \in {"role", "plan"} /\ \E pc \in {"invite", "granted"} : Goto(s, pc)
    BY <2>3, WentOn DEF Steps
  <2>4. CASE /\ At(s, "tenants")
             /\ \E here \in Sources(s) : \E t \in here.tenants :
                   req' = [req EXCEPT ![s].pc = "plan", ![s].tenant = t.id]
    <3>0. PICK here \in Sources(s) : \E t \in here.tenants :
             req' = [req EXCEPT ![s].pc = "plan", ![s].tenant = t.id]
      BY <2>4
    <3>1. PICK t \in here.tenants :
             req' = [req EXCEPT ![s].pc = "plan", ![s].tenant = t.id]
      BY <3>0
    <3> DEFINE r == [req[s] EXCEPT !.pc = "plan", !.tenant = t.id]
    <3>2. t.id \in Nat
      BY SourceTyped DEF Dictionaries, Tenant
    <3>3. req[s] \in Requests
      BY <2>4, IsRequest DEF At, Steps
    <3>4. r \in Requests /\ r.pc = "plan"
      BY <3>2, <3>3 DEF Requests, Steps
    <3>5. req' = [req EXCEPT ![s] = r]
      BY <3>1, <3>3 DEF Typed, TypeOK
    <3> QED
      BY <3>4, <3>5, StepTyped
  <2>5. CASE CheckAccess(s)
    BY <2>1, <2>2, <2>5 DEF CheckAccess, At
  <2>6. CASE CheckRole(s) \/ CheckPlan(s)
    BY <2>1, <2>3, <2>6 DEF CheckRole, CheckPlan, At
  <2>7. CASE FirstTenant(s)
    <3>1. PICK here \in Sources(s) :
             \/ Answer(s)
             \/ \E t \in TenantsOf(here, req[s].user) :
                   req' = [req EXCEPT ![s].pc = "plan", ![s].tenant = t.id]
      BY <2>7 DEF FirstTenant
    <3>2. TenantsOf(here, req[s].user) \subseteq here.tenants
      BY DEF TenantsOf
    <3> QED
      BY <2>1, <2>4, <2>7, <3>1, <3>2 DEF FirstTenant
  <2>8. CASE RecordEvent(s) \/ FindPlan(s)
    <3>1. CASE \E pc \in {"current", "change", "renew"} : Goto(s, pc)
      BY <2>8, <3>1, EventWentOn DEF RecordEvent, FindPlan, At, EventSteps
    <3> QED
      BY <2>1, <2>8, <3>1 DEF RecordEvent, FindPlan
  <2> QED
    BY <2>1, <2>5, <2>6, <2>7, <2>8 DEF Read, Raises
<1> QED
  BY <1>1, <1>2, <1>3, FaultTyped, SameMemory DEF Typed, TypeOK

LEMMA TrySlugTyped ==
    ASSUME Typed, NEW s \in Slots, TrySlug(s)
    PROVE  Typed'
<1>1. req[s] \in Requests
  BY IsRequest DEF TrySlug, At, Steps
<1> DEFINE r1 == [req[s] EXCEPT !.slug = @ + 1]
           r2 == [req[s] EXCEPT !.pc = "insert"]
<1>2. r1 \in Requests /\ r1.pc = "slug" /\ r2 \in Requests /\ r2.pc = "insert"
  BY <1>1 DEF Requests, Steps, TrySlug, At
<1>3. req' = [req EXCEPT ![s] = r1] \/ req' = [req EXCEPT ![s] = r2]
  BY DEF TrySlug, Goto
<1>4. req' \in [Slots -> Requests \cup Notices \cup {Free}] /\ OpFits'
  BY <1>2, <1>3, StepTyped
<1> QED
  BY <1>4, SameMemory DEF TrySlug, Typed, TypeOK

(* What an insert, an invitation or a subscription writes is typed. *)
LEMMA WritersTyped ==
    ASSUME Typed, NEW s \in Slots, InsertTenant(s) \/ Invite(s) \/ Subscribe(s) \/ ChangePlan(s)
    PROVE  Typed'
<1>1. /\ InsertTenant(s) \/ Invite(s) => req[s] \in Requests
      /\ Subscribe(s) \/ ChangePlan(s) => req[s] \in Requests \cup Notices
  BY IsRequest, IsNotice DEF InsertTenant, Invite, Subscribe, ChangePlan, At, Steps, EventSteps
<1>2. req' \in [Slots -> Requests \cup Notices \cup {Free}] /\ OpFits'
  BY Answered DEF InsertTenant, Invite, Subscribe, ChangePlan
<1>3. memory' = memory /\ UNCHANGED <<users, asked, faults, crashes>>
  BY DEF InsertTenant, Invite, Subscribe, ChangePlan
<1>4. tenants' \subseteq Tenant /\ lastId' \in Nat
  BY <1>1 DEF InsertTenant, Invite, Subscribe, ChangePlan, Typed, TypeOK, Tenant, Requests
<1>5. members' \subseteq Member
  <2>1. ASSUME req[s] \in Requests
        PROVE  Upserted(members, MemberAsked(req[s])) \subseteq Member
    <3>1. MemberAsked(req[s]) \in Member
      BY <2>1 DEF MemberAsked, Member, Requests
    <3> QED
      BY <3>1 DEF Upserted, Typed, TypeOK
  <2>2. ASSUME req[s] \in Requests
        PROVE  [tenant |-> lastId + 1, user |-> req[s].user, role |-> "owner"] \in Member
    BY <2>2 DEF Member, Requests, Roles, Typed, TypeOK
  <2> QED
    BY <1>1, <2>1, <2>2 DEF InsertTenant, Invite, Subscribe, ChangePlan, Typed, TypeOK
<1>6. plans' \in [Ids -> PlanNames \cup {NoPlan}]
  BY <1>1 DEF InsertTenant, Invite, Subscribe, ChangePlan, Typed, TypeOK, Requests, Notices
<1> QED
  BY <1>2, <1>3, <1>4, <1>5, <1>6, SameMemory DEF Typed, TypeOK

LEMMA DictionariesTyped ==
    ASSUME Typed, NEW s \in Slots,
           CreateInMemory(s) \/ InviteInMemory(s) \/ SubscribeInMemory(s) \/ EventInMemory(s)
    PROVE  Typed'
<1> DEFINE w == WorkerOf[s]
           here == memory[w]
<1>1. w \in Workers /\ here \in Dictionaries
  BY TenantsConstants DEF Typed, TypeOK
<1>0. /\ CreateInMemory(s) \/ InviteInMemory(s) => req[s] \in Requests
      /\ SubscribeInMemory(s) \/ EventInMemory(s) => req[s] \in Requests \cup Notices
  BY IsRequest, IsNotice
     DEF CreateInMemory, InviteInMemory, SubscribeInMemory, EventInMemory, At, Steps, EventSteps
<1>2. req' \in [Slots -> Requests \cup Notices \cup {Free}] /\ OpFits'
  BY Answered DEF CreateInMemory, InviteInMemory, SubscribeInMemory, EventInMemory
<1>3. UNCHANGED <<users, tenants, members, plans, lastId, asked, crashes>> /\ Fault
  BY DEF CreateInMemory, InviteInMemory, SubscribeInMemory, EventInMemory
<1>4. memory' \in [Workers -> Dictionaries] /\ MemoryFinite'
  <2>1. CASE \E d \in Dictionaries : IsFiniteSet(d.tenants) /\ memory' = [memory EXCEPT ![w] = d]
    BY <2>1, <1>1 DEF Typed, TypeOK, MemoryFinite
  <2>2. CASE CreateInMemory(s)
    <3>1. PICK k \in 0..MaxRequests :
             memory' = [memory EXCEPT
                 ![w].tenants = @ \cup {[id |-> Cardinality(here.tenants) + 1, slug |-> k, owner |-> req[s].user]},
                 ![w].members = @ \cup {[tenant |-> Cardinality(here.tenants) + 1, user |-> req[s].user, role |-> "owner"]}]
      BY <2>2 DEF CreateInMemory
    <3> DEFINE t == [id |-> Cardinality(here.tenants) + 1, slug |-> k, owner |-> req[s].user]
               m == [tenant |-> Cardinality(here.tenants) + 1, user |-> req[s].user, role |-> "owner"]
               d == [here EXCEPT !.tenants = @ \cup {t}, !.members = @ \cup {m}]
    <3>2. IsFiniteSet(here.tenants) /\ Cardinality(here.tenants) \in Nat
      BY <1>1, FS_CardinalityType DEF Typed, MemoryFinite
    <3>3. t \in Tenant /\ m \in Member
      BY <1>0, <2>2, <3>2, TenantsConstants DEF Tenant, Member, Requests, Roles
    <3>4. d \in Dictionaries /\ d.tenants = here.tenants \cup {t}
      BY <1>1, <3>3 DEF Dictionaries
    <3>5. IsFiniteSet(d.tenants)
      <4>1. IsFiniteSet(here.tenants \cup {t})
        BY <3>2, FS_AddElement
      <4> QED
        BY <4>1, <3>4
    <3>6. memory' = [memory EXCEPT ![w] = d]
      BY <1>1, <3>1 DEF Typed, TypeOK
    <3> QED
      BY <2>1, <3>4, <3>5, <3>6
  <2>3. CASE InviteInMemory(s)
    <3> DEFINE d == [here EXCEPT !.members = Upserted(@, MemberAsked(req[s]))]
    <3>1. MemberAsked(req[s]) \in Member
      BY <1>0, <2>3 DEF MemberAsked, Member, Requests
    <3>2. Upserted(here.members, MemberAsked(req[s])) \subseteq Member
      BY <1>1, <3>1 DEF Upserted, Dictionaries
    <3>3. d \in Dictionaries /\ d.tenants = here.tenants
      BY <1>1, <3>2 DEF Dictionaries
    <3>4. memory' = [memory EXCEPT ![w] = d]
      BY <2>3 DEF InviteInMemory
    <3> QED
      BY <1>1, <2>1, <3>3, <3>4 DEF Typed, MemoryFinite
  <2>4. CASE SubscribeInMemory(s) \/ EventInMemory(s)
    <3> DEFINE d == [here EXCEPT !.plans[req[s].tenant] = req[s].plan]
    <3>1. d \in Dictionaries /\ d.tenants = here.tenants
      BY <1>0, <1>1, <2>4 DEF Dictionaries, Requests, Notices
    <3>2. memory' = [memory EXCEPT ![w] = d] \/ memory' = memory
      BY <2>4 DEF SubscribeInMemory, EventInMemory
    <3> QED
      BY <1>1, <2>1, <3>1, <3>2, SameMemory DEF Typed, TypeOK, MemoryFinite
  <2> QED
    BY <2>2, <2>3, <2>4
<1> QED
  BY <1>2, <1>3, <1>4, FaultTyped DEF Typed, TypeOK

(* The cascade, and the death of a process. *)
LEMMA LossesTyped ==
    ASSUME Typed, (\E u \in Users : DeleteAccount(u)) \/ (\E w \in Workers : Crash(w))
    PROVE  Typed'
<1>1. CASE \E u \in Users : DeleteAccount(u)
  <2>1. PICK u \in Users : DeleteAccount(u)
    BY <1>1
  <2>2. users' \subseteq Users /\ tenants' \subseteq Tenant /\ members' \subseteq Member
    BY <2>1 DEF DeleteAccount, Typed, TypeOK
  <2>3. plans' \in [Ids -> PlanNames \cup {NoPlan}]
    BY <2>1 DEF DeleteAccount, Typed, TypeOK
  <2>4. UNCHANGED <<memory, lastId, req, asked, faults, crashes>>
    BY <2>1 DEF DeleteAccount
  <2> QED
    BY <2>2, <2>3, <2>4, SameMemory DEF Typed, TypeOK, OpFits
<1>2. CASE \E w \in Workers : Crash(w)
  <2>1. PICK w \in Workers : Crash(w)
    BY <1>2
  <2>2. Empty \in Dictionaries /\ IsFiniteSet(Empty.tenants)
    BY FS_EmptySet DEF Empty, Unwritten, Dictionaries
  <2>3. memory' \in [Workers -> Dictionaries] /\ MemoryFinite'
    BY <2>1, <2>2 DEF Crash, Typed, TypeOK, MemoryFinite
  <2>4. req' \in [Slots -> Requests \cup Notices \cup {Free}] /\ OpFits'
    BY <2>1 DEF Crash, Typed, TypeOK, OpFits, Free
  <2>5. crashes' \in 0..MaxCrashes
    BY <2>1, TenantsConstants DEF Crash, Typed, TypeOK
  <2>6. UNCHANGED <<users, tenants, members, plans, lastId, asked, faults>>
    BY <2>1 DEF Crash
  <2> QED
    BY <2>3, <2>4, <2>5, <2>6 DEF Typed, TypeOK
<1> QED
  BY <1>1, <1>2

LEMMA NextTyped == Typed /\ [Next]_vars => Typed'
<1> SUFFICES ASSUME Typed, [Next]_vars PROVE Typed'
  OBVIOUS
<1>1. CASE \E s \in Slots : Ask(s) \/ Receive(s) \/ Serve(s)
  BY <1>1, AskTyped, ReceiveTyped, ReadersTyped, TrySlugTyped, WritersTyped, DictionariesTyped DEF Serve
<1>2. CASE (\E u \in Users : DeleteAccount(u)) \/ (\E w \in Workers : Crash(w))
  BY <1>2, LossesTyped
<1>3. CASE UNCHANGED vars
  BY <1>3 DEF vars, Typed, TypeOK, OpFits, MemoryFinite
<1> QED
  BY <1>1, <1>2, <1>3 DEF Next, Quiet

-----------------------------------------------------------------------------
(* The creator. *)

LEMMA InitKeeps == Init => TablesKeep /\ DictionariesKeep /\ MembersBelong
BY DEF Init, Empty, TablesKeep, DictionariesKeep, MembersBelong

(* Adding or changing a member takes nobody's membership away. *)
LEMMA UpsertKeepsMembers ==
    ASSUME NEW M, NEW m, NEW e \in M
    PROVE  \E n \in Upserted(M, m) : n.tenant = e.tenant /\ n.user = e.user
BY DEF Upserted

LEMMA TablesStep ==
    ASSUME Inv, [Next]_vars
    PROVE  TablesKeep' /\ MembersBelong'
<1> USE DEF TablesKeep, MembersBelong, IsMember, InTables
<1>1. CASE UNCHANGED <<users, tenants, members>>
  BY <1>1 DEF Inv
<1>2. ASSUME NEW s \in Slots, InsertTenant(s)
      PROVE  TablesKeep' /\ MembersBelong'
  <2> DEFINE t == [id |-> lastId + 1, slug |-> req[s].slug, owner |-> req[s].user]
             m == [tenant |-> t.id, user |-> req[s].user, role |-> "owner"]
  <2>1. CASE UNCHANGED <<tenants, members>>
    BY <1>1, <1>2, <2>1 DEF InsertTenant
  <2>2. CASE req[s].user \in users /\ tenants' = tenants \cup {t} /\ members' = members \cup {m}
    <3>1. users' = users
      BY <1>2 DEF InsertTenant
    <3>2. m.tenant = t.id /\ m.user = t.owner /\ m.user = req[s].user /\ m \in members' /\ t \in tenants'
      BY <2>2
    <3>3. TablesKeep'
      <4> SUFFICES ASSUME NEW x \in tenants'
                   PROVE  \E n \in members' : n.tenant = x.id /\ n.user = x.owner
        OBVIOUS
      <4>1. CASE x = t
        BY <4>1, <3>2
      <4>2. CASE x \in tenants
        BY <4>2, <2>2 DEF Inv
      <4> QED
        BY <2>2, <4>1, <4>2
    <3>4. MembersBelong'
      <4> SUFFICES ASSUME NEW n \in members'
                   PROVE  n.user \in users' /\ \E x \in tenants' : x.id = n.tenant
        OBVIOUS
      <4>1. CASE n = m
        BY <4>1, <2>2, <3>1, <3>2
      <4>2. CASE n \in members
        BY <4>2, <2>2, <3>1 DEF Inv
      <4> QED
        BY <2>2, <4>1, <4>2
    <3> QED
      BY <3>3, <3>4
  <2> QED
    BY <1>2, <2>1, <2>2 DEF InsertTenant
<1>3. ASSUME NEW s \in Slots, Invite(s)
      PROVE  TablesKeep' /\ MembersBelong'
  <2> DEFINE m == MemberAsked(req[s])
  <2>1. CASE UNCHANGED members
    BY <1>1, <1>3, <2>1 DEF Invite
  <2>2. CASE /\ req[s].whom \in users /\ \E t \in tenants : t.id = req[s].tenant
             /\ members' = Upserted(members, m)
    <3>1. UNCHANGED <<users, tenants>>
      BY <1>3 DEF Invite
    <3>2. TablesKeep'
      BY <2>2, <3>1, UpsertKeepsMembers DEF Inv
    <3>3. MembersBelong'
      BY <2>2, <3>1 DEF Inv, Upserted, MemberAsked
    <3> QED
      BY <3>2, <3>3
  <2> QED
    BY <1>3, <2>1, <2>2 DEF Invite
<1>4. ASSUME NEW u \in Users, DeleteAccount(u)
      PROVE  TablesKeep' /\ MembersBelong'
  <2> DEFINE gone == {t.id : t \in {x \in tenants : x.owner = u}}
  <2>1. /\ users' = users \ {u}
        /\ tenants' = {t \in tenants : t.id \notin gone}
        /\ members' = {m \in members : m.tenant \notin gone /\ m.user # u}
    BY <1>4 DEF DeleteAccount
  <2>2. \A t \in tenants' : t.owner # u
    BY <2>1
  <2>3. TablesKeep'
    BY <2>1, <2>2 DEF Inv
  <2>4. MembersBelong'
    BY <2>1 DEF Inv
  <2> QED
    BY <2>3, <2>4
<1>5. \A s \in Slots : Ask(s) \/ Receive(s) \/ (Serve(s) /\ ~InsertTenant(s) /\ ~Invite(s))
                         => UNCHANGED <<users, tenants, members>>
  BY DEF Ask, Receive, Serve, TrySlug, CreateInMemory, CheckAccess, CheckRole, InviteInMemory,
         Subscribe, SubscribeInMemory, Read, Raises, FirstTenant, CheckPlan, RecordEvent,
         EventInMemory, FindPlan, ChangePlan
<1>6. \A w \in Workers : Crash(w) => UNCHANGED <<users, tenants, members>>
  BY DEF Crash
<1>7. UNCHANGED vars => UNCHANGED <<users, tenants, members>>
  BY DEF vars
<1> HIDE DEF TablesKeep, MembersBelong
<1> QED
  BY <1>1, <1>2, <1>3, <1>4, <1>5, <1>6, <1>7 DEF Next, Quiet

LEMMA DictionariesStep ==
    ASSUME Inv, [Next]_vars
    PROVE  DictionariesKeep'
<1> USE DEF DictionariesKeep, IsMember
<1>1. CASE UNCHANGED memory
  BY <1>1 DEF Inv
<1>2. ASSUME NEW w \in Workers, NEW d, memory' = [memory EXCEPT ![w] = d],
             \A t \in d.tenants : IsMember(d, t.id, t.owner)
      PROVE  DictionariesKeep'
  BY <1>2 DEF Inv, Typed, TypeOK
<1>3. \A s \in Slots : WorkerOf[s] \in Workers /\ memory[WorkerOf[s]] \in Dictionaries
  BY TenantsConstants DEF Inv, Typed, TypeOK
<1>4. ASSUME NEW s \in Slots, CreateInMemory(s)
      PROVE  DictionariesKeep'
  <2> DEFINE w == WorkerOf[s]
             here == memory[w]
             id == Cardinality(here.tenants) + 1
  <2>1. PICK k \in 0..MaxRequests :
           memory' = [memory EXCEPT
               ![w].tenants = @ \cup {[id |-> id, slug |-> k, owner |-> req[s].user]},
               ![w].members = @ \cup {[tenant |-> id, user |-> req[s].user, role |-> "owner"]}]
    BY <1>4 DEF CreateInMemory
  <2> DEFINE t == [id |-> id, slug |-> k, owner |-> req[s].user]
             m == [tenant |-> id, user |-> req[s].user, role |-> "owner"]
             d == [here EXCEPT !.tenants = @ \cup {t}, !.members = @ \cup {m}]
  <2>2. d.tenants = here.tenants \cup {t} /\ d.members = here.members \cup {m}
    BY <1>3 DEF Dictionaries
  <2>3. m.tenant = t.id /\ m.user = t.owner
    OBVIOUS
  <2>4. \A x \in d.tenants : IsMember(d, x.id, x.owner)
    <3> SUFFICES ASSUME NEW x \in d.tenants
                 PROVE  \E n \in d.members : n.tenant = x.id /\ n.user = x.owner
      OBVIOUS
    <3>1. CASE x = t
      BY <3>1, <2>2, <2>3
    <3>2. CASE x \in here.tenants
      BY <3>2, <2>2, <1>3 DEF Inv
    <3> QED
      BY <2>2, <3>1, <3>2
  <2>5. memory' = [memory EXCEPT ![w] = d]
    BY <1>3, <2>1 DEF Inv, Typed, TypeOK
  <2> HIDE DEF d
  <2> QED
    BY <1>2, <1>3, <2>4, <2>5
<1>5. ASSUME NEW s \in Slots, InviteInMemory(s)
      PROVE  DictionariesKeep'
  <2> DEFINE here == memory[WorkerOf[s]]
             d == [here EXCEPT !.members = Upserted(@, MemberAsked(req[s]))]
  <2>1. d.tenants = here.tenants /\ d.members = Upserted(here.members, MemberAsked(req[s]))
    BY <1>3 DEF Dictionaries
  <2>2. \A x \in d.tenants : IsMember(d, x.id, x.owner)
    BY <1>3, <2>1, UpsertKeepsMembers DEF Inv
  <2>3. memory' = [memory EXCEPT ![WorkerOf[s]] = d]
    BY <1>5 DEF InviteInMemory
  <2> QED
    BY <1>2, <1>3, <2>2, <2>3
<1>6. ASSUME NEW s \in Slots, SubscribeInMemory(s) \/ EventInMemory(s)
      PROVE  DictionariesKeep'
  <2> DEFINE here == memory[WorkerOf[s]]
             d == [here EXCEPT !.plans[req[s].tenant] = req[s].plan]
  <2>1. d.tenants = here.tenants /\ d.members = here.members
    BY <1>3 DEF Dictionaries
  <2>2. \A x \in d.tenants : IsMember(d, x.id, x.owner)
    BY <1>3, <2>1 DEF Inv
  <2>3. memory' = [memory EXCEPT ![WorkerOf[s]] = d] \/ UNCHANGED memory
    BY <1>6 DEF SubscribeInMemory, EventInMemory
  <2>4. CASE memory' = [memory EXCEPT ![WorkerOf[s]] = d]
    BY <1>2, <1>3, <2>2, <2>4
  <2> QED
    BY <1>1, <2>3, <2>4
<1>7. ASSUME NEW w \in Workers, Crash(w)
      PROVE  DictionariesKeep'
  <2>1. Empty.tenants = {}
    BY DEF Empty
  <2> QED
    BY <1>2, <1>7, <2>1 DEF Crash
<1>8. \A s \in Slots :
         \/ Ask(s) \/ Receive(s)
         \/ Serve(s) /\ ~CreateInMemory(s) /\ ~InviteInMemory(s) /\ ~SubscribeInMemory(s)
                    /\ ~EventInMemory(s)
         => UNCHANGED memory
  BY DEF Ask, Receive, Serve, TrySlug, InsertTenant, CheckAccess, CheckRole, Invite, Subscribe,
         Read, Raises, FirstTenant, CheckPlan, RecordEvent, FindPlan, ChangePlan
<1>9. (\A u \in Users : DeleteAccount(u) => UNCHANGED memory) /\ (UNCHANGED vars => UNCHANGED memory)
  BY DEF DeleteAccount, vars
<1> HIDE DEF DictionariesKeep
<1> QED
  BY <1>1, <1>4, <1>5, <1>6, <1>7, <1>8, <1>9 DEF Next, Quiet

LEMMA InvHolds == Spec => []Inv
<1>1. Init => Inv
  BY InitTyped, InitKeeps DEF Inv
<1>2. Inv /\ [Next]_vars => Inv'
  BY NextTyped, TablesStep, DictionariesStep DEF Inv
<1> QED
  BY <1>1, <1>2, PTL DEF Spec

-----------------------------------------------------------------------------
(* The theorems. *)

(* Every variable has its type: the tables of tenants and the dictionaries *)
(* that stand in for them (tenant_service.py, billing_service.py).         *)
THEOREM TypeCorrect == Spec => []TypeOK
<1>1. Inv => TypeOK
  BY DEF Inv, Typed
<1> QED
  BY <1>1, InvHolds, PTL

(* However many invite, promote, demote, delete their accounts, fail and   *)
(* die at once: the creator of a tenant is one of its members, in the      *)
(* tables and in every dictionary, and no member is left without user or   *)
(* tenant (tenant_service.py create_tenant, add_member; db/schema.py).     *)
THEOREM CreatorStays == Spec => []CreatorStaysMember
<1>1. Inv => CreatorStaysMember
  BY DEF Inv, CreatorStaysMember, TablesKeep, DictionariesKeep, MembersBelong
<1> QED
  BY <1>1, InvHolds, PTL

-----------------------------------------------------------------------------
(* Who changes a tenant: the invariant of the specification with its       *)
(* history variables.                                                      *)

(* The table numbers its tenants in the order of their creation, and there *)
(* is a request behind each number: none is beyond Ids.                    *)
Creating == {s \in Slots : req[s].pc \in {"slug", "insert"}}
Numbered ==
    /\ IsFiniteSet(Creating) /\ lastId + Cardinality(Creating) <= asked
    /\ \A t \in tenants : t.id \in 1..lastId

(* What a request has seen so far is in the history, unless too many looks *)
(* failed.                                                                 *)
Passed(r) ==
    /\ r.pc \in {"role", "subscribe"} => WasMember(r.tenant, r.user) \/ faults > 1
    /\ r.pc = "invite" => MayInvite(r)
    /\ r.pc = "plan" => \/ r.tenant \in Ids /\ WasMember(r.tenant, r.user)
                        \/ faults > 1
    /\ r.pc = "granted" => \/ \E t \in bought : WasMember(t, r.user)
                           \/ faults > 1

(* A dictionary is filled by a call whose question for the tables failed. *)
FilledByFault == \A w \in Workers : memory[w] # Empty => faults > 0

History ==
    /\ members \subseteq ever
    /\ \A t \in Ids : plans[t] \in Paid => t \in bought

HInv ==
    /\ Typed /\ Numbered /\ FilledByFault /\ History /\ PlansBelong
    /\ \A s \in Slots : Passed(req[s])

LEMMA HInvInit == HInit => HInv
<1> SUFFICES ASSUME HInit PROVE HInv
  OBVIOUS
<1> DEFINE t == [id |-> 1, slug |-> 0, owner |-> Founder]
           m == [tenant |-> 1, user |-> Founder, role |-> "owner"]
<1>1. Founder \in Users
  BY TenantsMCConstants DEF Founder
<1>2. t \in Tenant /\ m \in Member /\ 1 \in 0..MaxRequests
  BY <1>1, TenantsConstants, TenantsMCConstants DEF Tenant, Member, Roles
<1>3. Unwritten \in [Ids -> PlanNames \cup {NoPlan}]
  BY DEF Unwritten
<1>4. Empty \in Dictionaries /\ Empty.tenants = {}
  BY <1>3 DEF Empty, Dictionaries
<1>5. /\ users = Users /\ tenants = {t} /\ members = {m} /\ plans = Unwritten
      /\ memory = [w \in Workers |-> Empty] /\ lastId = 1
      /\ req = [s \in Slots |-> Free]
      /\ asked = 1 /\ faults = 0 /\ crashes = 0
      /\ ever = members /\ bought = {}
  BY DEF HInit, Founded
<1>6. t.id = 1
  OBVIOUS
<1> HIDE DEF t, m
<1>7. TypeOK
  BY <1>2, <1>3, <1>4, <1>5, TenantsConstants DEF TypeOK
<1>8. Typed
  BY <1>4, <1>5, <1>7, FS_EmptySet DEF Typed, OpFits, MemoryFinite, Free
<1>9. Creating = {}
  BY <1>5 DEF Creating, Free
<1>10. Numbered
  BY <1>5, <1>6, <1>9, FS_EmptySet DEF Numbered
<1>11. FilledByFault /\ History /\ PlansBelong
  BY <1>5 DEF FilledByFault, History, PlansBelong, Unwritten, NoPlan, Paid
<1> QED
  BY <1>5, <1>8, <1>10, <1>11 DEF HInv, Passed, Free

-----------------------------------------------------------------------------
(* Numbers. *)

LEMMA CreatingCounts ==
    ASSUME Numbered, Typed, Typed',
           \/ /\ Creating' \subseteq Creating /\ lastId' = lastId
              /\ asked' = asked
           \/ \E s \in Slots :
                \/ /\ Creating' \subseteq Creating \cup {s}
                   /\ lastId' = lastId /\ asked' = asked + 1
                \/ /\ s \in Creating /\ Creating' = Creating \ {s}
                   /\ lastId' = lastId + 1 /\ asked' = asked
    PROVE  IsFiniteSet(Creating') /\ lastId' + Cardinality(Creating') <= asked'
<1>1. /\ IsFiniteSet(Creating) /\ Cardinality(Creating) \in Nat
      /\ lastId \in Nat /\ asked \in Nat
      /\ lastId + Cardinality(Creating) <= asked
  BY FS_CardinalityType DEF Numbered, Typed, TypeOK
<1>2. CASE Creating' \subseteq Creating /\ lastId' = lastId /\ asked' = asked
  <2>1. /\ IsFiniteSet(Creating') /\ Cardinality(Creating') <= Cardinality(Creating)
        /\ Cardinality(Creating') \in Nat
    BY <1>1, <1>2, FS_Subset, FS_CardinalityType
  <2> QED
    BY <1>1, <1>2, <2>1
<1>3. ASSUME NEW s \in Slots, Creating' \subseteq Creating \cup {s},
             lastId' = lastId, asked' = asked + 1
      PROVE  IsFiniteSet(Creating') /\ lastId' + Cardinality(Creating') <= asked'
  <2>1. /\ IsFiniteSet(Creating \cup {s})
        /\ \/ Cardinality(Creating \cup {s}) = Cardinality(Creating)
           \/ Cardinality(Creating \cup {s}) = Cardinality(Creating) + 1
    BY <1>1, FS_AddElement
  <2>2. /\ IsFiniteSet(Creating') /\ Cardinality(Creating') \in Nat
        /\ Cardinality(Creating') <= Cardinality(Creating \cup {s})
        /\ Cardinality(Creating \cup {s}) \in Nat
    BY <1>3, <2>1, FS_Subset, FS_CardinalityType
  <2> QED
    BY <1>1, <1>3, <2>1, <2>2
<1>4. ASSUME NEW s \in Creating, Creating' = Creating \ {s},
             lastId' = lastId + 1, asked' = asked
      PROVE  IsFiniteSet(Creating') /\ lastId' + Cardinality(Creating') <= asked'
  <2>1. IsFiniteSet(Creating') /\ Cardinality(Creating') = Cardinality(Creating) - 1
    BY <1>1, <1>4, FS_RemoveElement
  <2> QED
    BY <1>1, <1>4, <2>1
<1> QED
  BY <1>2, <1>3, <1>4

(* A step of a thread is about its own request. *)
LEMMA OneSlot ==
    ASSUME Typed, NEW s \in Slots, Ask(s) \/ Receive(s) \/ Serve(s)
    PROVE  /\ \A t \in Slots : t # s => req'[t] = req[t]
           /\ \E r : req' = [req EXCEPT ![s] = r]
<1>1. Ask(s) \/ Receive(s) => \E r : req' = [req EXCEPT ![s] = r]
  BY DEF Ask, Receive
<1>2. TrySlug(s) => \E r : req' = [req EXCEPT ![s] = r]
  BY DEF TrySlug, Goto, Typed, TypeOK
<1>3. FirstTenant(s) => \E r : req' = [req EXCEPT ![s] = r]
  BY DEF FirstTenant, Answer, Typed, TypeOK
<1>4. Serve(s) /\ ~TrySlug(s) /\ ~FirstTenant(s) => \E r : req' = [req EXCEPT ![s] = r]
  BY DEF Serve, InsertTenant, CreateInMemory, CheckAccess, CheckRole, Invite,
         InviteInMemory, Subscribe, SubscribeInMemory, Read, Raises, CheckPlan,
         RecordEvent, EventInMemory, FindPlan, ChangePlan, Goto, Answer
<1>5. \E r : req' = [req EXCEPT ![s] = r]
  BY <1>1, <1>2, <1>3, <1>4
<1> QED
  BY <1>5 DEF Typed, TypeOK

LEMMA NumberedStep ==
    ASSUME Typed, Typed', Numbered, [Next]_vars
    PROVE  Numbered'
<1> USE DEF Typed, TypeOK
<1>1. ASSUME tenants' \subseteq tenants, lastId' = lastId, asked' = asked,
             Creating' \subseteq Creating
      PROVE  Numbered'
  BY <1>1, CreatingCounts DEF Numbered
<1>2. ASSUME NEW s \in Slots, Ask(s) \/ Receive(s)
      PROVE  Numbered'
  <2>1. UNCHANGED <<tenants, lastId>> /\ asked' = asked + 1
    BY <1>2 DEF Ask, Receive
  <2>2. Creating' \subseteq Creating \cup {s}
    BY <1>2, OneSlot DEF Creating
  <2> QED
    BY <2>1, <2>2, CreatingCounts DEF Numbered
<1>3. ASSUME NEW s \in Slots, InsertTenant(s)
      PROVE  Numbered'
  <2>1. /\ s \in Creating /\ req'[s] = Free /\ asked' = asked
        /\ \A t \in Slots : t # s => req'[t] = req[t]
    BY <1>3, OneSlot DEF InsertTenant, At, Answer, Creating, Serve
  <2>2. Creating' = Creating \ {s}
    BY <2>1 DEF Creating, Free
  <2>3. CASE UNCHANGED <<lastId, tenants>>
    BY <1>1, <2>1, <2>2, <2>3
  <2>4. CASE /\ lastId' = lastId + 1
             /\ tenants' = tenants \cup {[id |-> lastId + 1, slug |-> req[s].slug,
                                          owner |-> req[s].user]}
    <3>1. \A t \in tenants' : t.id \in 1..lastId'
      BY <2>4 DEF Numbered
    <3> QED
      BY <2>1, <2>2, <2>4, <3>1, CreatingCounts DEF Numbered
  <2> QED
    BY <1>3, <2>3, <2>4 DEF InsertTenant
<1>4. ASSUME NEW s \in Slots, Serve(s), ~InsertTenant(s)
      PROVE  Numbered'
  <2>1. UNCHANGED <<tenants, lastId, asked>>
    BY <1>4 DEF Serve, TrySlug, CreateInMemory, CheckAccess, CheckRole, Invite,
                InviteInMemory, Subscribe, SubscribeInMemory, Read, Raises,
                FirstTenant, CheckPlan, RecordEvent, EventInMemory, FindPlan, ChangePlan
  <2>2. req'[s].pc \in {"slug", "insert"} => req[s].pc \in {"slug", "insert"}
    <3>1. CASE TrySlug(s)
      BY <3>1 DEF TrySlug, At
    <3>2. CASE FirstTenant(s)
      <4>1. req'[s] = Free \/ \E n : req'[s] = [req[s] EXCEPT !.pc = "plan", !.tenant = n]
        BY <3>2 DEF FirstTenant, Answer
      <4>2. req[s] \in Requests
        BY <3>2, IsRequest DEF FirstTenant, At, Steps
      <4>3. ASSUME NEW n, req'[s] = [req[s] EXCEPT !.pc = "plan", !.tenant = n]
            PROVE  req'[s].pc = "plan"
        BY <4>2, <4>3 DEF Requests
      <4>4. req'[s] = Free \/ req'[s].pc = "plan"
        BY <4>1, <4>3
      <4> QED
        BY <4>4 DEF Free
    <3>3. CASE CheckAccess(s)
      <4>1. req[s] \in Requests /\ SecondStep[req[s].op] \in {"role", "subscribe", "read"}
        BY <3>3, IsRequest DEF CheckAccess, At, Steps, OpFits, SecondStep
      <4>2. req[s] \in Requests
        BY <4>1
      <4>3. \/ req'[s] = Free
            \/ \E pc \in {"role", "subscribe", "read"} : req'[s] = [req[s] EXCEPT !.pc = pc]
        BY <3>3, <4>1 DEF CheckAccess, Answer, Goto
      <4> QED
        BY <4>2, <4>3 DEF Free, Requests
    <3>4. CASE CheckRole(s) \/ CheckPlan(s)
      <4>1. \/ req'[s] = Free
            \/ \E pc \in {"invite", "granted"} : req'[s] = [req[s] EXCEPT !.pc = pc]
        BY <3>4 DEF CheckRole, CheckPlan, Answer, Goto
      <4>2. req[s] \in Requests
        BY <3>4, IsRequest DEF CheckRole, CheckPlan, At, Steps
      <4> QED
        BY <4>1, <4>2 DEF Free, Requests
    <3>5. CASE \/ CreateInMemory(s) \/ Invite(s) \/ InviteInMemory(s) \/ Subscribe(s)
               \/ SubscribeInMemory(s) \/ Read(s) \/ Raises(s) \/ EventInMemory(s) \/ ChangePlan(s)
      BY <3>5 DEF CreateInMemory, Invite, InviteInMemory, Subscribe, SubscribeInMemory,
                  Read, Raises, EventInMemory, ChangePlan, Answer, Free
    <3>6. CASE RecordEvent(s) \/ FindPlan(s)
      <4>1. \/ req'[s] = Free
            \/ \E pc \in {"current", "change", "renew"} : req'[s] = [req[s] EXCEPT !.pc = pc]
        BY <3>6 DEF RecordEvent, FindPlan, Answer, Goto
      <4>2. req[s] \in Notices
        BY <3>6, IsNotice DEF RecordEvent, FindPlan, At, EventSteps
      <4> QED
        BY <4>1, <4>2 DEF Free, Notices
    <3> QED
      BY <1>4, <3>1, <3>2, <3>3, <3>4, <3>5, <3>6 DEF Serve
  <2>3. Creating' \subseteq Creating
    BY <1>4, <2>2, OneSlot DEF Creating
  <2> QED
    BY <1>1, <2>1, <2>3
<1>5. ASSUME NEW u \in Users, DeleteAccount(u)
      PROVE  Numbered'
  BY <1>1, <1>5 DEF DeleteAccount, Creating
<1>6. ASSUME NEW w \in Workers, Crash(w)
      PROVE  Numbered'
  BY <1>1, <1>6 DEF Crash, Creating, Free
<1>7. CASE UNCHANGED vars
  BY <1>1, <1>7 DEF vars, Creating
<1> QED
  BY <1>2, <1>3, <1>4, <1>5, <1>6, <1>7 DEF Next, Quiet

-----------------------------------------------------------------------------
(* What requests have passed. *)

(* The history only grows. *)
Grows ==
    ever \subseteq ever' /\ bought \subseteq bought' /\ faults \in Nat /\ faults' \in Nat
    /\ faults <= faults'

LEMMA PassedGrows ==
    ASSUME Grows, NEW r, Passed(r)
    PROVE  Passed(r)'
  BY DEF Grows, Passed, MayInvite, WasMember

LEMMA PassedNow ==
    ASSUME NEW s \in Slots, NEW r, req'[s] = r, Passed(r)'
    PROVE  Passed(req[s])'
  BY DEF Passed, MayInvite, WasMember

LEMMA PassedFree ==
    ASSUME NEW s \in Slots, req'[s] = Free
    PROVE  Passed(req[s])'
<1>1. Passed(Free)'
  BY DEF Passed, Free
<1> QED
  BY <1>1, PassedNow

LEMMA StepGrows ==
    ASSUME Typed, Typed', [HNext]_<<vars, hvars>>
    PROVE  Grows
<1>1. faults \in Nat /\ faults' \in Nat
  BY TenantsConstants DEF Typed, TypeOK
<1>2. ever \subseteq ever' /\ bought \subseteq bought'
  BY DEF HNext, hvars
<1>3. [Next]_vars
  BY DEF HNext, hvars
<1>4. faults' = faults \/ Fault
  BY <1>3 DEF Next, Quiet, vars, Ask, Receive, Serve, TrySlug, InsertTenant, CreateInMemory,
         CheckAccess, CheckRole, Invite, InviteInMemory, Subscribe, SubscribeInMemory,
         Read, Raises, FirstTenant, CheckPlan, RecordEvent, EventInMemory, FindPlan,
         ChangePlan, Looks, DeleteAccount, Crash
<1>5. faults <= faults'
  BY <1>1, <1>4 DEF Fault
<1> QED
  BY <1>1, <1>2, <1>5 DEF Grows

LEMMA FilledStep ==
    ASSUME Typed, Typed', FilledByFault, [HNext]_<<vars, hvars>>
    PROVE  FilledByFault'
<1>1. Grows /\ [Next]_vars
  BY StepGrows DEF HNext, hvars
<1>2. CASE memory' = memory
  BY <1>1, <1>2 DEF FilledByFault, Grows
<1>3. CASE Fault
  BY <1>1, <1>3 DEF Fault, FilledByFault, Grows
<1>4. ASSUME NEW w \in Workers, Crash(w)
      PROVE  FilledByFault'
  BY <1>1, <1>4 DEF Crash, FilledByFault, Grows, Typed, TypeOK
<1>5. memory' = memory \/ Fault \/ \E w \in Workers : Crash(w)
  BY <1>1 DEF Next, Quiet, vars, Ask, Receive, Serve, TrySlug, InsertTenant, CreateInMemory,
         CheckAccess, CheckRole, Invite, InviteInMemory, Subscribe, SubscribeInMemory,
         Read, Raises, FirstTenant, CheckPlan, RecordEvent, EventInMemory, FindPlan,
         ChangePlan, DeleteAccount
<1> QED
  BY <1>2, <1>3, <1>4, <1>5

LEMMA HistoryStep ==
    ASSUME History, [HNext]_<<vars, hvars>>
    PROVE  History'
  BY DEF History, HNext, hvars, vars

(* A plan is written for a tenant that is there, and goes with it. *)
LEMMA PlansStep ==
    ASSUME Typed, PlansBelong, [Next]_vars
    PROVE  PlansBelong'
<1>1. CASE plans' = plans /\ tenants \subseteq tenants'
  BY <1>1 DEF PlansBelong
<1>2. ASSUME NEW s \in Slots, Subscribe(s)
      PROVE  PlansBelong'
  <2>1. tenants' = tenants
    BY <1>2 DEF Subscribe
  <2> QED
    BY <1>2, <2>1 DEF Subscribe, PlansBelong, Typed, TypeOK
<1>3. ASSUME NEW s \in Slots, ChangePlan(s)
      PROVE  PlansBelong'
  <2>1. tenants' = tenants
    BY <1>3 DEF ChangePlan
  <2> QED
    BY <1>3, <2>1 DEF ChangePlan, PlansBelong, Typed, TypeOK
<1>4. ASSUME NEW u \in Users, DeleteAccount(u)
      PROVE  PlansBelong'
  <2> DEFINE gone == {t.id : t \in {x \in tenants : x.owner = u}}
  <2>1. /\ tenants' = {t \in tenants : t.id \notin gone}
        /\ plans' = [i \in Ids |-> IF i \in gone THEN NoPlan ELSE plans[i]]
    BY <1>4 DEF DeleteAccount
  <2> QED
    BY <2>1 DEF PlansBelong
<1>5. \A s \in Slots : Ask(s) \/ Receive(s) \/ (Serve(s) /\ ~Subscribe(s) /\ ~ChangePlan(s))
                         => plans' = plans /\ tenants \subseteq tenants'
  BY DEF Ask, Receive, Serve, TrySlug, InsertTenant, CreateInMemory, CheckAccess, CheckRole,
         Invite, InviteInMemory, SubscribeInMemory, Read, Raises, FirstTenant, CheckPlan,
         RecordEvent, EventInMemory, FindPlan
<1>6. (\A w \in Workers : Crash(w) => UNCHANGED <<plans, tenants>>)
      /\ (UNCHANGED vars => UNCHANGED <<plans, tenants>>)
  BY DEF Crash, vars
<1> QED
  BY <1>1, <1>2, <1>3, <1>4, <1>5, <1>6 DEF Next, Quiet

(* A look that finds something looks at the tables, or is the second       *)
(* failure at least: the first filled the dictionary.                      *)
LEMMA LooksTrue ==
    ASSUME HInv, NEW s \in Slots, NEW here \in Sources(s), Looks(s, here), here # Empty
    PROVE  \/ here = InTables /\ faults' = faults
           \/ faults' = faults + 1 /\ faults' > 1
<1>1. faults \in Nat /\ WorkerOf[s] \in Workers
  BY TenantsConstants DEF HInv, Typed, TypeOK
<1>2. CASE here = memory[WorkerOf[s]] /\ Fault
  BY <1>1, <1>2 DEF Fault, HInv, FilledByFault
<1> QED
  BY <1>2 DEF Looks

LEMMA MemberWas ==
    ASSUME HInv, NEW t, NEW u, IsMember(InTables, t, u)
    PROVE  WasMember(t, u)
  BY DEF IsMember, InTables, WasMember, HInv, History

LEMMA AccessPasses ==
    ASSUME HInv, Grows, NEW s \in Slots, CheckAccess(s)
    PROVE  Passed(req[s])'
<1>1. req[s] \in Requests /\ SecondStep[req[s].op] \in {"role", "subscribe", "read"}
  BY IsRequest DEF HInv, Typed, OpFits, CheckAccess, At, Steps, SecondStep
<1>2. PICK here \in Sources(s) :
        /\ Looks(s, here)
        /\ IF IsMember(here, req[s].tenant, req[s].user)
           THEN Goto(s, SecondStep[req[s].op]) ELSE Answer(s)
  BY DEF CheckAccess
<1>3. CASE Answer(s)
  BY <1>3, PassedFree DEF Answer, HInv, Typed, TypeOK
<1>4. CASE /\ IsMember(here, req[s].tenant, req[s].user)
           /\ Goto(s, SecondStep[req[s].op])
  <2> DEFINE p == SecondStep[req[s].op]
  <2>0. PICK r : r = [req[s] EXCEPT !.pc = p]
    OBVIOUS
  <2>1. req'[s] = r
    BY <1>4, <2>0 DEF Goto, HInv, Typed, TypeOK
  <2>2. r.pc \in {"role", "subscribe", "read"} /\ r.tenant = req[s].tenant /\ r.user = req[s].user
    BY <1>1, <2>0 DEF Requests
  <2>3. here # Empty
    BY <1>4 DEF IsMember, Empty
  <2>4. \/ here = InTables
        \/ faults' > 1
    BY <1>2, <2>3, LooksTrue
  <2>5. WasMember(r.tenant, r.user)' \/ faults' > 1
    BY <1>4, <2>2, <2>4, MemberWas DEF WasMember, Grows
  <2>6. Passed(r)'
    BY <2>2, <2>5 DEF Passed
  <2> QED
    BY <2>1, <2>6, PassedNow
<1> QED
  BY <1>2, <1>3, <1>4

LEMMA RolePasses ==
    ASSUME HInv, Grows, NEW s \in Slots, CheckRole(s)
    PROVE  Passed(req[s])'
<1> DEFINE enough == IF req[s].role = "owner" THEN {"owner"} ELSE Managers
<1>1. req[s] \in Requests /\ req[s].pc = "role"
  BY IsRequest DEF HInv, CheckRole, At, Steps
<1>2. PICK here \in Sources(s) :
        /\ Looks(s, here)
        /\ IF HasRole(here, req[s].tenant, req[s].user, enough)
           THEN Goto(s, "invite") ELSE Answer(s)
  BY DEF CheckRole
<1>3. CASE Answer(s)
  BY <1>3, PassedFree DEF Answer, HInv, Typed, TypeOK
<1>4. CASE /\ HasRole(here, req[s].tenant, req[s].user, enough)
           /\ Goto(s, "invite")
  <2>0. PICK r : r = [req[s] EXCEPT !.pc = "invite"]
    OBVIOUS
  <2>1. req'[s] = r
    BY <1>4, <2>0 DEF Goto, HInv, Typed, TypeOK
  <2>2. /\ r.pc = "invite" /\ r.tenant = req[s].tenant /\ r.user = req[s].user
        /\ r.role = req[s].role
    BY <1>1, <2>0 DEF Requests
  <2>3. here # Empty
    BY <1>4 DEF HasRole, Empty
  <2>4. CASE here = InTables
    <3>1. PICK m \in members : /\ m.tenant = req[s].tenant /\ m.user = req[s].user
                               /\ m.role \in enough
      BY <1>4, <2>4 DEF HasRole, InTables
    <3>2. m \in ever'
      BY <3>1 DEF HInv, History, Grows
    <3>3. MayInvite(r)'
      BY <2>2, <3>1, <3>2 DEF MayInvite
    <3> QED
      BY <2>1, <2>2, <3>3, PassedNow DEF Passed
  <2>5. CASE faults' = faults + 1 /\ faults' > 1
    <3>1. WasMember(req[s].tenant, req[s].user) \/ faults > 1
      BY <1>1 DEF HInv, Passed
    <3>2. CASE faults > 1
      <4>1. MayInvite(r)'
        BY <2>5, <3>2 DEF MayInvite, Grows
      <4> QED
        BY <2>1, <2>2, <4>1, PassedNow DEF Passed
    <3>3. CASE WasMember(req[s].tenant, req[s].user)
      <4>1. MayInvite(r)'
        BY <2>2, <2>5, <3>3 DEF MayInvite, WasMember, Grows
      <4> QED
        BY <2>1, <2>2, <4>1, PassedNow DEF Passed
    <3> QED
      BY <3>1, <3>2, <3>3
  <2> QED
    BY <1>2, <2>3, <2>4, <2>5, LooksTrue
<1> QED
  BY <1>2, <1>3, <1>4

LEMMA TenantPasses ==
    ASSUME HInv, Grows, NEW s \in Slots, FirstTenant(s)
    PROVE  Passed(req[s])'
<1>1. req[s] \in Requests
  BY IsRequest DEF HInv, FirstTenant, At, Steps
<1>2. PICK here \in Sources(s) :
        /\ Looks(s, here)
        /\ \/ Answer(s)
           \/ \E t \in TenantsOf(here, req[s].user) :
                 req' = [req EXCEPT ![s].pc = "plan", ![s].tenant = t.id]
  BY DEF FirstTenant
<1>3. CASE Answer(s)
  BY <1>3, PassedFree DEF Answer, HInv, Typed, TypeOK
<1>4. ASSUME NEW t \in TenantsOf(here, req[s].user),
             req' = [req EXCEPT ![s].pc = "plan", ![s].tenant = t.id]
      PROVE  Passed(req[s])'
  <2> DEFINE id == t.id
  <2>0. PICK r : r = [req[s] EXCEPT !.pc = "plan", !.tenant = id]
    OBVIOUS
  <2>1. req'[s] = r
    BY <1>4, <2>0 DEF HInv, Typed, TypeOK
  <2> HIDE DEF id
  <2>2. r.pc = "plan" /\ r.tenant = id /\ r.user = req[s].user
    BY <1>1, <2>0 DEF Requests
  <2>3. t \in here.tenants /\ IsMember(here, id, req[s].user)
    BY DEF TenantsOf, id
  <2>4. here # Empty
    BY <2>3 DEF Empty
  <2>5. CASE here = InTables
    <3>1. WasMember(id, req[s].user)
      BY <2>3, <2>5, MemberWas
    <3>2. id \in Ids
      <4>1. t \in tenants /\ id \in 1..lastId
        BY <2>3, <2>5 DEF InTables, HInv, Numbered, id
      <4>2. Cardinality(Creating) \in Nat /\ lastId + Cardinality(Creating) <= asked
        BY FS_CardinalityType DEF HInv, Numbered
      <4> QED
        BY <4>1, <4>2, TenantsConstants DEF Ids, HInv, Typed, TypeOK
    <3>3. Passed(r)'
      BY <2>2, <3>1, <3>2 DEF Passed, WasMember, Grows
    <3> QED
      BY <2>1, <3>3, PassedNow
  <2>6. CASE faults' > 1
    <3>1. Passed(r)'
      BY <2>2, <2>6 DEF Passed
    <3> QED
      BY <2>1, <3>1, PassedNow
  <2> QED
    BY <1>2, <2>4, <2>5, <2>6, LooksTrue
<1> QED
  BY <1>2, <1>3, <1>4

LEMMA PlanPasses ==
    ASSUME HInv, Grows, NEW s \in Slots, CheckPlan(s)
    PROVE  Passed(req[s])'
<1>1. req[s] \in Requests /\ req[s].pc = "plan"
  BY IsRequest DEF HInv, CheckPlan, At, Steps
<1>2. PICK here \in Sources(s) :
        /\ Looks(s, here)
        /\ IF here.plans[req[s].tenant] \in Paid THEN Goto(s, "granted") ELSE Answer(s)
  BY DEF CheckPlan
<1>3. CASE Answer(s)
  BY <1>3, PassedFree DEF Answer, HInv, Typed, TypeOK
<1>4. CASE here.plans[req[s].tenant] \in Paid /\ Goto(s, "granted")
  <2>0. PICK r : r = [req[s] EXCEPT !.pc = "granted"]
    OBVIOUS
  <2>1. req'[s] = r
    BY <1>4, <2>0 DEF Goto, HInv, Typed, TypeOK
  <2>2. r.pc = "granted" /\ r.user = req[s].user
    BY <1>1, <2>0 DEF Requests
  <2>3. \/ req[s].tenant \in Ids /\ WasMember(req[s].tenant, req[s].user)
        \/ faults > 1
    BY <1>1 DEF HInv, Passed
  <2>4. CASE faults > 1
    BY <2>1, <2>2, <2>4, PassedNow DEF Passed, Grows
  <2>5. CASE req[s].tenant \in Ids /\ WasMember(req[s].tenant, req[s].user)
    <3>1. here # Empty
      BY <1>4, <2>5 DEF Empty, Unwritten, NoPlan, Paid
    <3>2. CASE here = InTables
      <4>1. req[s].tenant \in bought
        BY <1>4, <2>5, <3>2 DEF InTables, HInv, History
      <4>2. Passed(r)'
        BY <2>2, <2>5, <4>1 DEF Passed, WasMember, Grows
      <4> QED
        BY <2>1, <4>2, PassedNow
    <3>3. CASE faults' > 1
      BY <2>1, <2>2, <3>3, PassedNow DEF Passed
    <3> QED
      BY <1>2, <3>1, <3>2, <3>3, LooksTrue
  <2> QED
    BY <2>3, <2>4, <2>5
<1> QED
  BY <1>2, <1>3, <1>4

LEMMA HInvStep == HInv /\ [HNext]_<<vars, hvars>> => HInv'
<1> SUFFICES ASSUME HInv, [HNext]_<<vars, hvars>> PROVE HInv'
  OBVIOUS
<1>1. [Next]_vars
  BY DEF HNext, hvars
<1>2. Typed' /\ Grows
  BY <1>1, NextTyped, StepGrows DEF HInv
<1>3. Numbered' /\ FilledByFault' /\ History' /\ PlansBelong'
  BY <1>1, <1>2, NumberedStep, FilledStep, HistoryStep, PlansStep DEF HInv
<1>4. ASSUME NEW s \in Slots, req'[s] = req[s]
      PROVE  Passed(req[s])'
  <2>1. PICK r : r = req[s]
    OBVIOUS
  <2>2. Passed(r)'
    BY <1>2, <2>1, PassedGrows DEF HInv
  <2> QED
    BY <1>4, <2>1, <2>2, PassedNow
<1>5. ASSUME NEW s \in Slots, req'[s] = Free
      PROVE  Passed(req[s])'
  BY <1>5, PassedFree
<1>6. ASSUME NEW s \in Slots, Ask(s) \/ Receive(s)
      PROVE  Passed(req[s])'
  <2>1. req'[s].pc \in {"slug", "access", "tenants", "event"}
    BY <1>6 DEF Ask, Receive, FirstStep, Ops, HInv, Typed, TypeOK
  <2> QED
    BY <2>1 DEF Passed
<1>7. ASSUME NEW s \in Slots, TrySlug(s)
      PROVE  Passed(req[s])'
  <2>1. req[s] \in Requests /\ req[s].pc = "slug"
    BY <1>7, IsRequest DEF TrySlug, At, Steps, HInv
  <2>2. req'[s].pc \in {"slug", "insert"}
    BY <1>7, <2>1 DEF TrySlug, Goto, Requests, HInv, Typed, TypeOK
  <2> QED
    BY <2>2 DEF Passed
<1>8. ASSUME NEW s \in Slots, Serve(s)
      PROVE  Passed(req[s])'
  <2>1. \/ TrySlug(s) \/ CheckAccess(s) \/ CheckRole(s) \/ FirstTenant(s) \/ CheckPlan(s)
        \/ RecordEvent(s) \/ FindPlan(s) \/ req'[s] = Free
    BY <1>8 DEF Serve, InsertTenant, CreateInMemory, Invite, InviteInMemory, Subscribe,
                SubscribeInMemory, Read, Raises, EventInMemory, ChangePlan, Answer,
                HInv, Typed, TypeOK
  <2>2. CASE RecordEvent(s) \/ FindPlan(s)
    <3>1. CASE \E pc \in {"current", "change", "renew"} : Goto(s, pc)
      <4>1. req[s] \in Notices
        BY <2>2, IsNotice DEF RecordEvent, FindPlan, At, EventSteps, HInv
      <4>2. req'[s].pc \in {"current", "change", "renew"}
        BY <3>1, <4>1 DEF Goto, Notices, HInv, Typed, TypeOK
      <4> QED
        BY <4>2 DEF Passed
    <3>2. CASE Answer(s)
      BY <1>5, <3>2 DEF Answer, HInv, Typed, TypeOK
    <3> QED
      BY <2>2, <3>1, <3>2 DEF RecordEvent, FindPlan
  <2> QED
    BY <1>2, <1>5, <1>7, <2>1, <2>2, AccessPasses, RolePasses, TenantPasses, PlanPasses
<1>9. ASSUME NEW s \in Slots
      PROVE  Passed(req[s])'
  <2>1. ASSUME NEW t \in Slots, Ask(t) \/ Receive(t) \/ Serve(t)
        PROVE  Passed(req[s])'
    BY <1>2, <1>4, <1>6, <1>8, <2>1, OneSlot DEF HInv
  <2>2. ASSUME NEW w \in Workers, Crash(w)
        PROVE  Passed(req[s])'
    <3>1. req'[s] = Free \/ req'[s] = req[s]
      BY <2>2 DEF Crash
    <3> QED
      BY <1>4, <1>5, <3>1
  <2>3. ASSUME NEW u \in Users, DeleteAccount(u)
        PROVE  Passed(req[s])'
    BY <1>4, <2>3 DEF DeleteAccount
  <2>4. UNCHANGED vars => Passed(req[s])'
    BY <1>4 DEF vars
  <2> QED
    BY <1>1, <2>1, <2>2, <2>3, <2>4 DEF Next, Quiet
<1> QED
  BY <1>2, <1>3, <1>9 DEF HInv

LEMMA HInvHolds == HSpec => []HInv
  BY HInvInit, HInvStep, PTL DEF HSpec

(* However tenant and plan are read apart, and whatever fails and dies in  *)
(* between: the gate lets an agent write only for somebody who was a       *)
(* member of a tenant that had paid, unless two looks failed               *)
(* (entitlement_service.py on tenant_service.py and billing_service.py).   *)
THEOREM GrantedHasPaid == HSpec => []GrantedWasPaid
<1>1. HInv => GrantedWasPaid
  BY DEF HInv, Passed, GrantedWasPaid, At
<1> QED
  BY <1>1, HInvHolds, PTL

(* However invitations, plans, webhooks and deletions overlap: a           *)
(* membership comes from the creation of its tenant or from somebody who   *)
(* managed it; a plan from somebody who was a member or from a webhook,    *)
(* which asks for nobody, and always for a tenant that is there; up to the *)
(* failures that the two properties name (routes of /api/v1/tenants and    *)
(* /api/v1/billing/webhook in api_v1.py).                                  *)
THEOREM TenantsChangeByAuthors == HSpec => ChangesHaveAuthors
<1>1. ASSUME HInv, HNext
      PROVE  InvitedFromInside
  <2> SUFFICES ASSUME NEW m \in members' \ members
               PROVE  \/ \E t \in tenants' \ tenants :
                            t.id = m.tenant /\ t.owner = m.user /\ m.role = "owner"
                      \/ \E s \in Slots : /\ At(s, "invite") /\ Ends(s)
                                          /\ m = MemberAsked(req[s]) /\ MayInvite(req[s])
    BY DEF InvitedFromInside
  <2>1. \/ \E s \in Slots : InsertTenant(s) \/ Invite(s)
        \/ members' \subseteq members
    BY <1>1 DEF HNext, Next, Quiet, vars, Ask, Receive, Serve, TrySlug, CreateInMemory,
         CheckAccess, CheckRole, InviteInMemory, Subscribe, SubscribeInMemory, Read, Raises,
         FirstTenant, CheckPlan, RecordEvent, EventInMemory, FindPlan, ChangePlan,
         DeleteAccount, Crash
  <2>2. ASSUME NEW s \in Slots, InsertTenant(s)
        PROVE  \E t \in tenants' \ tenants :
                  t.id = m.tenant /\ t.owner = m.user /\ m.role = "owner"
    <3> DEFINE t == [id |-> lastId + 1, slug |-> req[s].slug, owner |-> req[s].user]
    <3>1. /\ ~SlugTaken(tenants, req[s].slug)
          /\ tenants' = tenants \cup {t}
          /\ m = [tenant |-> t.id, user |-> req[s].user, role |-> "owner"]
      BY <2>2 DEF InsertTenant
    <3>2. t \notin tenants
      BY <3>1 DEF SlugTaken
    <3> QED
      BY <3>1, <3>2
  <2>3. ASSUME NEW s \in Slots, Invite(s)
        PROVE  /\ At(s, "invite") /\ Ends(s)
               /\ m = MemberAsked(req[s]) /\ MayInvite(req[s])
    <3>1. At(s, "invite") /\ req' = [req EXCEPT ![s] = Free]
      BY <2>3 DEF Invite, Answer
    <3>2. m = MemberAsked(req[s])
      BY <2>3 DEF Invite, Upserted
    <3>3. MayInvite(req[s])
      BY <1>1, <3>1 DEF HInv, Passed, At
    <3> QED
      BY <1>1, <3>1, <3>2, <3>3 DEF Ends, At, HInv, Typed, TypeOK
  <2> QED
    BY <2>1, <2>2, <2>3
<1>2. ASSUME HInv, HNext
      PROVE  PlanSetByAuthor
  <2> SUFFICES ASSUME NEW t \in Ids, plans'[t] # plans[t]
               PROVE  IF \E x \in tenants' : x.id = t
                      THEN \E s \in Slots :
                              /\ Ends(s) /\ req[s].tenant = t /\ req[s].plan = plans'[t]
                              /\ MaySetPlan(req[s])
                      ELSE plans'[t] = NoPlan
    BY DEF PlanSetByAuthor
  <2>1. ASSUME NEW u \in Users, DeleteAccount(u)
        PROVE  (~ \E x \in tenants' : x.id = t) /\ plans'[t] = NoPlan
    BY <2>1 DEF DeleteAccount
  <2>2. ASSUME NEW s \in Slots, Subscribe(s) \/ ChangePlan(s)
        PROVE  /\ Ends(s) /\ req[s].tenant = t /\ req[s].plan = plans'[t]
               /\ MaySetPlan(req[s])
    <3>1. req[s].tenant = t /\ req[s].plan = plans'[t]
      BY <1>2, <2>2 DEF Subscribe, ChangePlan, HInv, Typed, TypeOK
    <3>2. req[s].pc \in {"subscribe", "renew", "change"} /\ req'[s] = Free
      BY <1>2, <2>2 DEF Subscribe, ChangePlan, At, Answer, HInv, Typed, TypeOK
    <3>3. MaySetPlan(req[s])
      <4>1. CASE req[s].pc = "subscribe"
        BY <1>2, <4>1 DEF HInv, Passed, MaySetPlan
      <4>2. CASE req[s].pc \in {"renew", "change"}
        <5>1. req[s] \in Notices
          BY <1>2, <4>2, IsNotice DEF EventSteps, HInv
        <5> QED
          BY <5>1 DEF Notices, MaySetPlan
      <4> QED
        BY <3>2, <4>1, <4>2
    <3> QED
      BY <3>1, <3>2, <3>3 DEF Ends
  <2>3. ASSUME NEW s \in Slots, Subscribe(s) \/ ChangePlan(s)
        PROVE  \E x \in tenants' : x.id = t
    <3>1. CASE Subscribe(s)
      BY <1>2, <3>1 DEF Subscribe, HInv, Typed, TypeOK
    <3>2. CASE ChangePlan(s)
      BY <1>2, <3>2 DEF ChangePlan, HInv, PlansBelong, Typed, TypeOK
    <3> QED
      BY <2>3, <3>1, <3>2
  <2>4. (\E s \in Slots : Subscribe(s) \/ ChangePlan(s)) \/ \E u \in Users : DeleteAccount(u)
    BY <1>2 DEF HNext, Next, Quiet, vars, Ask, Receive, Serve, TrySlug, InsertTenant,
         CreateInMemory, CheckAccess, CheckRole, Invite, InviteInMemory,
         SubscribeInMemory, Read, Raises, FirstTenant, CheckPlan, RecordEvent,
         EventInMemory, FindPlan, Crash
  <2> QED
    BY <2>1, <2>2, <2>3, <2>4
<1>3. HInv /\ [HNext]_<<vars, hvars>>
      => [InvitedFromInside /\ PlanSetByAuthor]_<<vars, hvars>>
  BY <1>1, <1>2
<1> QED
  BY <1>3, HInvHolds, PTL DEF HSpec, ChangesHaveAuthors
=============================================================================
