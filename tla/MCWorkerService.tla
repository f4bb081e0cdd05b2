--------------------------- MODULE MCWorkerService ---------------------------
(* An instance of WorkerService for TLC. *)
EXTENDS WorkerService, TLC

CONSTANTS a, b, w1, w2, p

\* The first event has two consumers, the second (which is malformed) one, and both share a
\* partition.
OnePartition == [e \in Event |-> p]
TwoConsumers == [e \in Event |-> IF e = 1 THEN {a, b} ELSE {b}]
=============================================================================
