------------------------------- MODULE Tenants -------------------------------
(***************************************************************************)
(* Tenants, their members and their subscriptions, as the routes of        *)
(* /api/v1/tenants use them, the billing webhook, which changes a plan     *)
(* without a user, and the entitlement gate that reads them.               *)
(*                                                                         *)
(* Every call of tenant_service and billing_service first asks whether the *)
(* tables are there and falls back to dictionaries of its process when     *)
(* that question fails, each call anew.  The dictionaries number their     *)
(* tenants from 1, as the table does.                                      *)
(***************************************************************************)
EXTENDS Integers, FiniteSets

CONSTANTS Users,        \* users that exist at the start
          Slots,        \* threads, each serving a request at a time
          Workers,      \* processes
          WorkerOf,     \* the process of a thread
          MaxRequests,  \* bound on requests, and so on tenants
          MaxFaults,    \* bound on round trips that fail
          MaxCrashes    \* bound on processes that die

ASSUME TenantsConstants ==
    /\ WorkerOf \in [Slots -> Workers]
    /\ MaxRequests \in Nat /\ MaxFaults \in Nat /\ MaxCrashes \in Nat

VARIABLES users,    \* rows of table users
          tenants,  \* rows of table tenants
          members,  \* rows of table tenant_memberships
          plans,    \* rows of table subscriptions: the plan of a tenant
          memory,   \* the dictionaries of each process
          lastId,   \* the sequence behind tenants.id
          req,      \* the request each thread serves
          asked, faults, crashes

vars == <<users, tenants, members, plans, memory, lastId, req, asked, faults, crashes>>

Ids == 1..MaxRequests
Roles == {"owner", "admin", "member"}
Managers == {"owner", "admin"}
PlanNames == {"free", "pro"}
NoPlan == "none"
Paid == {"pro"}           \* the plans with agent_writes

Tenant == [id : Nat, slug : Nat, owner : Users]
Member == [tenant : Nat, user : Users, role : Roles]
Dictionaries == [tenants : SUBSET Tenant, members : SUBSET Member, plans : [Ids -> PlanNames \cup {NoPlan}]]
Unwritten == [i \in Ids |-> NoPlan]
Empty == [tenants |-> {}, members |-> {}, plans |-> Unwritten]

Ops == {"create", "invite", "subscribe", "read", "gate"}
FirstStep == [create |-> "slug", invite |-> "access", subscribe |-> "access",
              read |-> "access", gate |-> "tenants"]
SecondStep == [invite |-> "role", subscribe |-> "subscribe", read |-> "read"]
Steps == {"slug", "insert", "access", "role", "invite", "subscribe", "read",
          "tenants", "plan", "granted"}
EventSteps == {"event", "current", "change", "renew"}

\* tenant is the one in the path, or the gate's choice; slug the suffix being tried.
Requests == [pc : Steps, op : Ops, user : Users, tenant : Nat, slug : Nat,
             whom : Users, role : Roles, plan : PlanNames]
\* An event of the payment provider about a plan: no user sends it.
Notices == [pc : EventSteps, op : {"webhook"}, tenant : Nat, plan : PlanNames]
Free == [pc |-> "idle"]

TypeOK ==
    /\ users \subseteq Users
    /\ tenants \subseteq Tenant
    /\ members \subseteq Member
    /\ plans \in [Ids -> PlanNames \cup {NoPlan}]
    /\ memory \in [Workers -> Dictionaries]
    /\ lastId \in Nat
    /\ req \in [Slots -> Requests \cup Notices \cup {Free}]
    /\ asked \in 0..MaxRequests /\ faults \in 0..MaxFaults /\ crashes \in 0..MaxCrashes

Init ==
    /\ users = Users
    /\ tenants = {} /\ members = {} /\ plans = Unwritten
    /\ memory = [w \in Workers |-> Empty]
    /\ lastId = 0
    /\ req = [s \in Slots |-> Free]
    /\ asked = 0 /\ faults = 0 /\ crashes = 0

At(s, pc) == req[s].pc = pc
Goto(s, pc) == req' = [req EXCEPT ![s].pc = pc]
Answer(s) == req' = [req EXCEPT ![s] = Free]
Fault == faults < MaxFaults /\ faults' = faults + 1

\* One call of a service looks at the tables, or at its process's
\* dictionaries after a failed question for the tables.
InTables == [tenants |-> tenants, members |-> members, plans |-> plans]
Looks(s, here) ==
    \/ here = InTables /\ UNCHANGED faults
    \/ here = memory[WorkerOf[s]] /\ Fault
Sources(s) == {InTables, memory[WorkerOf[s]]}

IsMember(here, t, u) == \E m \in here.members : m.tenant = t /\ m.user = u
HasRole(here, t, u, roles) == \E m \in here.members : m.tenant = t /\ m.user = u /\ m.role \in roles
TenantsOf(here, u) == {t \in here.tenants : IsMember(here, t.id, u)}
Upserted(M, m) == {n \in M : n.tenant # m.tenant \/ n.user # m.user} \cup {m}
MemberAsked(r) == [tenant |-> r.tenant, user |-> r.whom, role |-> r.role]
SlugTaken(T, k) == \E t \in T : t.slug = k

Ask(s) ==
    /\ req[s].pc \in {"idle", "granted"}
    /\ asked < MaxRequests
    /\ asked' = asked + 1
    /\ \E u \in users, op \in Ops :
       \E t \in IF op \in {"create", "gate"} THEN {1}
                ELSE {x.id : x \in tenants \cup UNION {memory[w].tenants : w \in Workers}} :
       \E v \in IF op = "invite" THEN Users ELSE {u},
          role \in IF op = "invite" THEN Roles ELSE {"member"},
          plan \in IF op = "subscribe" THEN PlanNames ELSE {"free"} :
           req' = [req EXCEPT ![s] = [pc |-> FirstStep[op], op |-> op, user |-> u, tenant |-> t,
                                      slug |-> 0, whom |-> v, role |-> role, plan |-> plan]]
    /\ UNCHANGED <<users, tenants, members, plans, memory, lastId, faults, crashes>>

-----------------------------------------------------------------------------
(* create_tenant: SELECTs until a slug is free, then tenant and owner in    *)
(* the same transaction, on whose unique slug a second insert waits and     *)
(* fails.                                                                   *)

TrySlug(s) ==
    /\ At(s, "slug")
    /\ IF SlugTaken(tenants, req[s].slug)
       THEN req' = [req EXCEPT ![s].slug = @ + 1]
       ELSE Goto(s, "insert")
    /\ UNCHANGED <<users, tenants, members, plans, memory, lastId, asked, faults, crashes>>

\* Mutant: the tenant is committed without its owner.
InsertTenantOnly(s) ==
    LET r == req[s] IN
    /\ At(s, "insert")
    /\ IF r.user \in users /\ ~SlugTaken(tenants, r.slug)
       THEN /\ lastId' = lastId + 1
            /\ tenants' = tenants \cup {[id |-> lastId + 1, slug |-> r.slug, owner |-> r.user]}
       ELSE UNCHANGED <<lastId, tenants>>
    /\ Answer(s)
    /\ UNCHANGED <<users, members, plans, memory, asked, faults, crashes>>

InsertTenant(s) ==
    LET r == req[s]
        t == [id |-> lastId + 1, slug |-> r.slug, owner |-> r.user]
    IN
    /\ At(s, "insert")
    /\ IF r.user \in users /\ ~SlugTaken(tenants, r.slug)
       THEN /\ lastId' = lastId + 1
            /\ tenants' = tenants \cup {t}
            /\ members' = members \cup {[tenant |-> t.id, user |-> r.user, role |-> "owner"]}
       ELSE UNCHANGED <<lastId, tenants, members>>
    /\ Answer(s)
    /\ UNCHANGED <<users, plans, memory, asked, faults, crashes>>

CreateInMemory(s) ==
    LET r == req[s]
        w == WorkerOf[s]
        here == memory[w]
        id == Cardinality(here.tenants) + 1
    IN
    /\ At(s, "slug") /\ r.slug = 0 /\ Fault
    /\ \E k \in 0..MaxRequests :
          /\ ~SlugTaken(here.tenants, k) /\ \A j \in 0..(k - 1) : SlugTaken(here.tenants, j)
          /\ memory' = [memory EXCEPT
                 ![w].tenants = @ \cup {[id |-> id, slug |-> k, owner |-> r.user]},
                 ![w].members = @ \cup {[tenant |-> id, user |-> r.user, role |-> "owner"]}]
    /\ Answer(s)
    /\ UNCHANGED <<users, tenants, members, plans, lastId, asked, crashes>>

-----------------------------------------------------------------------------
(* Requests on a tenant: check_tenant_access, then the call itself.         *)

CheckAccess(s) ==
    LET r == req[s] IN
    /\ At(s, "access")
    /\ \E here \in Sources(s) :
           /\ Looks(s, here)
           /\ IF IsMember(here, r.tenant, r.user) THEN Goto(s, SecondStep[r.op]) ELSE Answer(s)
    /\ UNCHANGED <<users, tenants, members, plans, memory, lastId, asked, crashes>>

\* Mutant: an admin may appoint owners.
CheckManager(s) ==
    LET r == req[s] IN
    /\ At(s, "role")
    /\ \E here \in Sources(s) :
           /\ Looks(s, here)
           /\ IF HasRole(here, r.tenant, r.user, Managers) THEN Goto(s, "invite") ELSE Answer(s)
    /\ UNCHANGED <<users, tenants, members, plans, memory, lastId, asked, crashes>>

\* get_member_role with the two refusals of add_member.
CheckRole(s) ==
    LET r == req[s]
        enough == IF r.role = "owner" THEN {"owner"} ELSE Managers
    IN
    /\ At(s, "role")
    /\ \E here \in Sources(s) :
           /\ Looks(s, here)
           /\ IF HasRole(here, r.tenant, r.user, enough) THEN Goto(s, "invite") ELSE Answer(s)
    /\ UNCHANGED <<users, tenants, members, plans, memory, lastId, asked, crashes>>

\* INSERT ... ON CONFLICT DO UPDATE SET role; foreign keys refuse who or what is gone.
Invite(s) ==
    LET r == req[s] IN
    /\ At(s, "invite")
    /\ members' = IF r.whom \in users /\ \E t \in tenants : t.id = r.tenant
                  THEN Upserted(members, MemberAsked(r))
                  ELSE members
    /\ Answer(s)
    /\ UNCHANGED <<users, tenants, plans, memory, lastId, asked, faults, crashes>>

InviteInMemory(s) ==
    /\ At(s, "invite") /\ Fault
    /\ memory' = [memory EXCEPT ![WorkerOf[s]].members = Upserted(@, MemberAsked(req[s]))]
    /\ Answer(s)
    /\ UNCHANGED <<users, tenants, members, plans, lastId, asked, crashes>>

\* create_subscription, for the route and for the webhook: it upserts the plan.
Subscribe(s) ==
    LET r == req[s] IN
    /\ req[s].pc \in {"subscribe", "renew"}
    /\ plans' = IF \E t \in tenants : t.id = r.tenant
                THEN [plans EXCEPT ![r.tenant] = r.plan]
                ELSE plans
    /\ Answer(s)
    /\ UNCHANGED <<users, tenants, members, memory, lastId, asked, faults, crashes>>

SubscribeInMemory(s) ==
    /\ req[s].pc \in {"subscribe", "renew"} /\ Fault
    /\ memory' = [memory EXCEPT ![WorkerOf[s]].plans[req[s].tenant] = req[s].plan]
    /\ Answer(s)
    /\ UNCHANGED <<users, tenants, members, plans, lastId, asked, crashes>>

\* list_members (after a second check of its own), get_subscription, get_entitlements.
Read(s) ==
    /\ At(s, "read")
    /\ \E here \in Sources(s) : Looks(s, here)
    /\ Answer(s)
    /\ UNCHANGED <<users, tenants, members, plans, memory, lastId, asked, crashes>>

\* A statement raises: answered with 500, by the gate with the free plan.
Raises(s) ==
    /\ req[s].pc \notin {"idle", "granted"} /\ Fault
    /\ Answer(s)
    /\ UNCHANGED <<users, tenants, members, plans, memory, lastId, asked, crashes>>

-----------------------------------------------------------------------------
(* process_webhook: anybody may post an event and name any tenant.  The     *)
(* transaction that records it stays open around get_subscription and       *)
(* create_subscription, which use connections and looks of their own.       *)
(* Whether the event was seen before is Billing's concern: here it may be.  *)

Receive(s) ==
    /\ req[s].pc \in {"idle", "granted"}
    /\ asked < MaxRequests
    /\ asked' = asked + 1
    /\ \E t \in Ids, plan \in PlanNames :
           req' = [req EXCEPT ![s] = [pc |-> "event", op |-> "webhook", tenant |-> t, plan |-> plan]]
    /\ UNCHANGED <<users, tenants, members, plans, memory, lastId, faults, crashes>>

\* INSERT INTO billing_events, whose foreign key wants the tenant; a duplicate is answered.
RecordEvent(s) ==
    /\ At(s, "event")
    /\ \/ (\E t \in tenants : t.id = req[s].tenant) /\ Goto(s, "current")
       \/ Answer(s)
    /\ UNCHANGED <<users, tenants, members, plans, memory, lastId, asked, faults, crashes>>

\* _mem_process_webhook asks for no tenant.
EventInMemory(s) ==
    /\ At(s, "event") /\ Fault
    /\ \/ memory' = [memory EXCEPT ![WorkerOf[s]].plans[req[s].tenant] = req[s].plan]
       \/ UNCHANGED memory
    /\ Answer(s)
    /\ UNCHANGED <<users, tenants, members, plans, lastId, asked, crashes>>

\* get_subscription; an event with a status that is not a valid one raises here.
FindPlan(s) ==
    /\ At(s, "current")
    /\ \E here \in Sources(s) :
           /\ Looks(s, here)
           /\ \/ here.plans[req[s].tenant] = NoPlan /\ Goto(s, "renew")
              \/ here.plans[req[s].tenant] # NoPlan /\ (Goto(s, "change") \/ Answer(s))
    /\ UNCHANGED <<users, tenants, members, plans, memory, lastId, asked, crashes>>

\* UPDATE subscriptions and the commit; without a row it raises and rolls back.
ChangePlan(s) ==
    LET t == req[s].tenant IN
    /\ At(s, "change")
    /\ plans' = IF plans[t] = NoPlan THEN plans ELSE [plans EXCEPT ![t] = req[s].plan]
    /\ Answer(s)
    /\ UNCHANGED <<users, tenants, members, memory, lastId, asked, faults, crashes>>

-----------------------------------------------------------------------------
(* assert_entitlement for agent_write: the first tenant of the user, then   *)
(* its plan; no tenant, no subscription and every error mean free.          *)

\* Mutant: the first tenant there is.
FirstOfAll(s) ==
    LET r == req[s] IN
    /\ At(s, "tenants")
    /\ \E here \in Sources(s) :
           /\ Looks(s, here)
           /\ \/ here.tenants = {} /\ Answer(s)
              \/ \E t \in here.tenants :
                    /\ \A other \in here.tenants : t.id <= other.id
                    /\ req' = [req EXCEPT ![s].pc = "plan", ![s].tenant = t.id]
    /\ UNCHANGED <<users, tenants, members, plans, memory, lastId, asked, crashes>>

FirstTenant(s) ==
    LET r == req[s] IN
    /\ At(s, "tenants")
    /\ \E here \in Sources(s) :
           /\ Looks(s, here)
           /\ LET own == TenantsOf(here, r.user) IN
              \/ own = {} /\ Answer(s)
              \/ \E t \in own :
                    /\ \A other \in own : t.id <= other.id
                    /\ req' = [req EXCEPT ![s].pc = "plan", ![s].tenant = t.id]
    /\ UNCHANGED <<users, tenants, members, plans, memory, lastId, asked, crashes>>

CheckPlan(s) ==
    LET r == req[s] IN
    /\ At(s, "plan")
    /\ \E here \in Sources(s) :
           /\ Looks(s, here)
           /\ IF here.plans[r.tenant] \in Paid THEN Goto(s, "granted") ELSE Answer(s)
    /\ UNCHANGED <<users, tenants, members, plans, memory, lastId, asked, crashes>>

-----------------------------------------------------------------------------
\* The tenants whose rows the foreign keys of open webhooks lock.
Locked == {req[s].tenant : s \in {x \in Slots : req[x].pc \in {"current", "change", "renew"}}}

\* delete_user_account: tenants of their owner, members and subscriptions cascade.
DeleteAccount(u) ==
    LET gone == {t.id : t \in {x \in tenants : x.owner = u}} IN
    /\ u \in users
    /\ gone \cap Locked = {}
    /\ users' = users \ {u}
    /\ tenants' = {t \in tenants : t.id \notin gone}
    /\ members' = {m \in members : m.tenant \notin gone /\ m.user # u}
    /\ plans' = [i \in Ids |-> IF i \in gone THEN NoPlan ELSE plans[i]]
    /\ UNCHANGED <<memory, lastId, req, asked, faults, crashes>>

Crash(w) ==
    /\ crashes < MaxCrashes
    /\ crashes' = crashes + 1
    /\ memory' = [memory EXCEPT ![w] = Empty]
    /\ req' = [s \in Slots |-> IF WorkerOf[s] = w THEN Free ELSE req[s]]
    /\ UNCHANGED <<users, tenants, members, plans, lastId, asked, faults>>

Serve(s) ==
    \/ TrySlug(s) \/ InsertTenant(s) \/ CreateInMemory(s)
    \/ CheckAccess(s) \/ CheckRole(s) \/ Invite(s) \/ InviteInMemory(s)
    \/ Subscribe(s) \/ SubscribeInMemory(s) \/ Read(s) \/ Raises(s)
    \/ RecordEvent(s) \/ EventInMemory(s) \/ FindPlan(s) \/ ChangePlan(s)
    \/ FirstTenant(s) \/ CheckPlan(s)

\* Nobody calls any more.
Quiet ==
    /\ asked = MaxRequests
    /\ \A s \in Slots : req[s].pc \in {"idle", "granted"}
    /\ UNCHANGED vars

Next ==
    \/ \E s \in Slots : Ask(s) \/ Receive(s) \/ Serve(s)
    \/ \E u \in Users : DeleteAccount(u)
    \/ \E w \in Workers : Crash(w)
    \/ Quiet

Spec == Init /\ [][Next]_vars

-----------------------------------------------------------------------------
(* A tenant always has its creator among its members, in the tables and in  *)
(* every dictionary, whoever else is invited, promoted, demoted or deleted; *)
(* and a member is always a user of a tenant that exists.                   *)
CreatorStaysMember ==
    /\ \A t \in tenants : IsMember(InTables, t.id, t.owner)
    /\ \A w \in Workers : \A t \in memory[w].tenants : IsMember(memory[w], t.id, t.owner)
    /\ \A m \in members : m.user \in users /\ \E t \in tenants : t.id = m.tenant
=============================================================================
