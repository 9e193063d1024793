------------------------------ MODULE TenantsMC ------------------------------
(* Tenants with history variables, which restrict nothing.                  *)
EXTENDS Tenants

VARIABLES ever,    \* every membership that was in the table
          bought   \* tenants whose plan was a paid one

hvars == <<ever, bought>>

\* The first request has been served: u has created a tenant.
Founded(u) ==
    /\ users = Users
    /\ tenants = {[id |-> 1, slug |-> 0, owner |-> u]}
    /\ members = {[tenant |-> 1, user |-> u, role |-> "owner"]}
    /\ plans = Unwritten
    /\ memory = [w \in Workers |-> Empty]
    /\ lastId = 1
    /\ req = [s \in Slots |-> Free]
    /\ asked = 1 /\ faults = 0 /\ crashes = 0

\* Somebody asks.  Users are alike: which one does not matter.
ASSUME TenantsMCConstants == Users # {} /\ MaxRequests # 0
Founder == CHOOSE u \in Users : TRUE
HInit == Founded(Founder) /\ ever = members /\ bought = {}
HNext ==
    /\ Next
    /\ ever' = ever \cup members'
    /\ bought' = bought \cup {t \in Ids : plans'[t] \in Paid}
HSpec == HInit /\ [][HNext]_<<vars, hvars>>

WasMember(t, u) == \E e \in ever : e.tenant = t /\ e.user = u
Ends(s) == req[s].pc # "idle" /\ req'[s] = Free

-----------------------------------------------------------------------------
(* Who a tenant's members are comes from inside: a row of                   *)
(* tenant_memberships comes from the creation of its tenant or from         *)
(* somebody who managed that tenant, the role of an owner only from an      *)
(* owner.  What a tenant's plan is, does not: a row of subscriptions is     *)
(* written by somebody who was a member of that tenant or by a webhook that *)
(* names it, for which nobody is asked anything; but only for a tenant that *)
(* is there, and it goes with its tenant.  All this although access, role   *)
(* and write, and the calls of a webhook, are transactions of their own.  A *)
(* dictionary filled by one failure and looked at after another can hide    *)
(* that the inviter was a plain member, and open the door to the plan; that *)
(* he was none takes a third.                                               *)
MayInvite(r) ==
    \/ faults > 2
    \/ \E e \in ever :
          /\ e.tenant = r.tenant /\ e.user = r.user
          /\ faults < 2 => e.role \in (IF r.role = "owner" THEN {"owner"} ELSE Managers)
InvitedFromInside ==
    \A m \in members' \ members :
        \/ \E t \in tenants' \ tenants : t.id = m.tenant /\ t.owner = m.user /\ m.role = "owner"
        \/ \E s \in Slots :
              /\ At(s, "invite") /\ Ends(s) /\ m = MemberAsked(req[s])
              /\ MayInvite(req[s])
MaySetPlan(r) == r.op = "webhook" \/ WasMember(r.tenant, r.user) \/ faults > 1
PlanSetByAuthor ==
    \A t \in Ids :
        plans'[t] # plans[t] =>
            IF \E x \in tenants' : x.id = t
            THEN \E s \in Slots :
                    /\ Ends(s) /\ req[s].tenant = t /\ req[s].plan = plans'[t]
                    /\ MaySetPlan(req[s])
            ELSE plans'[t] = NoPlan
ChangesHaveAuthors == [][InvitedFromInside /\ PlanSetByAuthor]_<<vars, hvars>>

(* An agent may write only for a user who was in a tenant that had paid,    *)
(* although tenant and plan are read apart, unless two looks failed.        *)
GrantedWasPaid ==
    \A s \in Slots :
        At(s, "granted") =>
            \/ \E t \in bought : WasMember(t, req[s].user)
            \/ faults > 1

Apart == CHOOSE f \in [Slots -> Workers] : \A s, t \in Slots : s # t => f[s] # f[t]
=============================================================================
