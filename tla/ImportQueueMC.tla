--------------------------- MODULE ImportQueueMC ---------------------------
(* The processes and npubs of the instances TLC checks.                    *)
EXTENDS ImportQueue

CONSTANTS n1, n2, q1, q2, q3, op
=============================================================================
