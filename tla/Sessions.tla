------------------------------ MODULE Sessions ------------------------------
(***************************************************************************)
(* The sessions of one user: the two token slots of a users row, written   *)
(* by signup, login and logout (routes/user_routes.py) and read by         *)
(* get_current_user (services/auth_service.py).  Tokens are numbered in    *)
(* the order they are generated; the number stands for the token's hash.   *)
(***************************************************************************)
EXTENDS Naturals

CONSTANTS
    Devices,     \* clients that log in to this account
    Lifetime,    \* lifetime of a token (TOKEN_EXPIRY_HOURS), in ticks
    MaxTokens,   \* bound: tokens generated
    MaxTime      \* bound: the clock

ASSUME ConstantsOK == Lifetime \in Nat /\ MaxTokens \in Nat \ {0} /\ MaxTime \in Nat

VARIABLES
    slot1, slot2,   \* auth_token_hash and auth_token_hash_2 with their expiry
    holds,          \* the session each device was given last
    login,          \* the login each device has under way
    issued,         \* tokens generated so far
    revoked,        \* tokens whose logout succeeded
    latest,         \* the session the last login to commit wrote
    clock

vars == <<slot1, slot2, holds, login, issued, revoked, latest, clock>>

Empty == [token |-> 0, expires |-> 0]
Sessions == [token : 0..MaxTokens, expires : Nat]

NoLogin == [pc |-> "idle", session |-> Empty]
Logins == [pc : {"idle", "primary", "secondary"}, session : Sessions]

(* A slot that is filled and not expired, as login and get_current_user    *)
(* judge it (token_expires_at is always set by the code that fills it).    *)
Valid(slot) == slot.token # 0 /\ slot.expires > clock

(* get_current_user: the token's hash is in a slot that has not expired. *)
AuthenticatesPrimary(token) == slot1.token = token /\ Valid(slot1)
Authenticates(token) ==
    \/ slot1.token = token /\ Valid(slot1)
    \/ slot2.token = token /\ Valid(slot2)

NewSession == [token |-> issued + 1, expires |-> clock + Lifetime]

-----------------------------------------------------------------------------

(* The slot a login takes, from its SELECT of the primary one. *)
AlwaysPrimary == "primary"
SlotToUse == IF Valid(slot1) THEN "secondary" ELSE "primary"

(* login, up to its SELECT. *)
LoginRead(d) ==
    /\ login[d].pc = "idle"
    /\ issued < MaxTokens
    /\ issued' = issued + 1
    /\ login' = [login EXCEPT ![d] = [pc |-> SlotToUse, session |-> NewSession]]
    /\ UNCHANGED <<slot1, slot2, holds, revoked, latest, clock>>

(* login, its UPDATE and commit: nothing locked the row in between. *)
LoginWrite(d) ==
    LET session == login[d].session
    IN  /\ login[d].pc # "idle"
        /\ IF login[d].pc = "secondary"
           THEN slot2' = session /\ UNCHANGED slot1
           ELSE slot1' = session /\ slot2' = Empty
        /\ holds' = [holds EXCEPT ![d] = session]
        /\ latest' = session
        /\ login' = [login EXCEPT ![d] = NoLogin]
        /\ UNCHANGED <<issued, revoked, clock>>

(* Its transaction raises, or the process dies before the commit: the      *)
(* token was never given out.                                              *)
LoginRaises(d) ==
    /\ login[d].pc # "idle"
    /\ login' = [login EXCEPT ![d] = NoLogin]
    /\ UNCHANGED <<slot1, slot2, holds, issued, revoked, latest, clock>>

(* logout: one transaction clears the slot that has the token's hash,      *)
(* expired or not.                                                         *)
LogoutPrimaryOnly(d) ==
    LET t == holds[d].token
    IN  /\ t # 0
        /\ t \in {slot1.token, slot2.token}
        /\ slot1' = Empty /\ UNCHANGED slot2
        /\ revoked' = revoked \cup {t}
        /\ holds' = [holds EXCEPT ![d] = Empty]
        /\ UNCHANGED <<login, issued, latest, clock>>
Logout(d) ==
    LET t == holds[d].token
    IN  /\ t # 0
        /\ t \in {slot1.token, slot2.token}
        /\ IF slot1.token = t
           THEN slot1' = Empty /\ UNCHANGED slot2
           ELSE slot2' = Empty /\ UNCHANGED slot1
        /\ revoked' = revoked \cup {t}
        /\ holds' = [holds EXCEPT ![d] = Empty]
        /\ UNCHANGED <<login, issued, latest, clock>>

Tick ==
    /\ clock < MaxTime
    /\ clock' = clock + 1
    /\ UNCHANGED <<slot1, slot2, holds, login, issued, revoked, latest>>

(* signup fills the primary slot of the new row and its device holds it. *)
Init ==
    /\ slot1 = [token |-> 1, expires |-> Lifetime]
    /\ slot2 = Empty
    /\ \E d \in Devices : holds = [e \in Devices |-> IF e = d THEN slot1 ELSE Empty]
    /\ login = [d \in Devices |-> NoLogin]
    /\ issued = 1 /\ revoked = {} /\ latest = slot1 /\ clock = 0

(* The bounds are reached and nobody is logged in or logging in. *)
Quiet ==
    /\ issued = MaxTokens /\ clock = MaxTime
    /\ \A d \in Devices : login[d].pc = "idle"
    /\ UNCHANGED vars

Next ==
    \/ \E d \in Devices :
        LoginRead(d) \/ LoginWrite(d) \/ LoginRaises(d) \/ Logout(d)
    \/ Tick
    \/ Quiet

Spec == Init /\ [][Next]_vars

-----------------------------------------------------------------------------
(* Properties. *)

(* Every variable has its type. *)
TypeOK ==
    /\ slot1 \in Sessions /\ slot2 \in Sessions
    /\ holds \in [Devices -> Sessions]
    /\ login \in [Devices -> Logins]
    /\ issued \in 0..MaxTokens
    /\ revoked \subseteq 1..MaxTokens
    /\ latest \in Sessions
    /\ clock \in 0..MaxTime

(* A token that was logged out never authenticates again, whatever logins  *)
(* were under way when its slot was cleared.                               *)
RevokedStaysOut == \A t \in revoked : ~ Authenticates(t)

(* Whatever logins overlap, the session of the one that committed last     *)
(* works until it is logged out or expires.                                *)
LatestLoginWorks ==
    Authenticates(latest.token) \/ latest.token \in revoked \/ latest.expires <= clock
=============================================================================
