----------------------------- MODULE SessionsMC -----------------------------
(***************************************************************************)
(* Sessions for TLC, with a history variable that records which logins     *)
(* were under way at the same time.                                        *)
(***************************************************************************)
EXTENDS Sessions

VARIABLE overlapped   \* pairs of tokens whose logins overlapped

UnderWay == {login[d].session.token : d \in {e \in Devices : login[e].pc # "idle"}}

hvars == <<vars, overlapped>>
HInit == Init /\ overlapped = {}
HNext == Next /\ overlapped' = overlapped \cup (UnderWay \X UnderWay)'
HSpec == HInit /\ [][HNext]_hvars

-----------------------------------------------------------------------------
(* Properties. *)

(* The valid session in the primary slot ends by its logout or by a login  *)
(* that overlapped with its own, and by no other login: the login that     *)
(* finds the slot taken leaves it alone.                                   *)
PrimaryUndisturbed ==
    [][Valid(slot1) /\ slot1'.token # slot1.token
       => \/ slot1.token \in revoked'
          \/ <<slot1.token, slot1'.token>> \in overlapped]_hvars
=============================================================================
