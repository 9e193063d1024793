------------------------------- MODULE Ledger -------------------------------
(***************************************************************************)
(* What check_and_increment of services/usage_service.py promises of the   *)
(* AI quota ("atomically increment", "Atomic upsert"), whatever processes, *)
(* pools and retries are behind it: one step counts a unit and, as long as *)
(* there was one left, grants it; only a failure takes a unit that was     *)
(* left and gives it to nobody.                                            *)
(***************************************************************************)
EXTENDS Naturals

CONSTANTS Accounts,   \* who has a quota of his own: a user, on a day
          Limit       \* 0 means unlimited

VARIABLES counted,    \* units counted, by account
          granted,    \* units somebody got
          failed      \* failures so far

Left(a) == Limit = 0 \/ counted[a] < Limit
Grow(f, a) == [f EXCEPT ![a] = @ + 1]

Init ==
    /\ counted = [a \in Accounts |-> 0]
    /\ granted = [a \in Accounts |-> 0]
    /\ failed = 0

Take(a) ==
    /\ counted' = Grow(counted, a)
    /\ granted' = IF Left(a) THEN Grow(granted, a) ELSE granted
    /\ UNCHANGED failed

(* Somebody asks and is not answered; his unit may be counted. *)
Fail ==
    /\ failed' = failed + 1
    /\ \/ UNCHANGED counted
       \/ \E a \in Accounts : counted' = Grow(counted, a)
    /\ UNCHANGED granted

Next == Fail \/ \E a \in Accounts : Take(a)

Spec == Init /\ [][Next]_<<counted, granted, failed>>

(* Every unit counted is granted, up to the limit, but for one for each    *)
(* failure; none is granted uncounted or past the limit.                   *)
Balanced ==
    \A a \in Accounts :
        /\ granted[a] <= counted[a]
        /\ Limit > 0 => granted[a] <= Limit
        /\ counted[a] <= granted[a] + failed \/ (Limit > 0 /\ Limit <= granted[a] + failed)
=============================================================================
