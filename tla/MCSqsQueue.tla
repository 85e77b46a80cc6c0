----------------------------- MODULE MCSqsQueue -----------------------------
(* Instantiates SqsQueue for TLC: four messages, the client's batch size. *)
EXTENDS SqsQueue

CONSTANTS m1, m2, m3, m4
=============================================================================
