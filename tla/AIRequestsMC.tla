---------------------------- MODULE AIRequestsMC ----------------------------
(***************************************************************************)
(* AIRequests for TLC: every thread is a process of its own.               *)
(***************************************************************************)
EXTENDS AIRequests

Apart == [s \in Slots |-> s]
=============================================================================
