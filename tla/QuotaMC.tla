------------------------------ MODULE QuotaMC ------------------------------
(* Instances of Quota for TLC: threads are <<process, number>>. *)
EXTENDS Quota

CONSTANTS Small, Large   \* the two processes

(* Small has a thread for each connection, Large has one more. *)
BothWorkers == {Small, Large}
UnevenThreads == {Small} \X (1..PoolSize) \cup {Large} \X (1..PoolSize + 1)
OneThread == {<<Small, 1>>}
ProcessOf == [s \in Slots |-> s[1]]
=============================================================================
