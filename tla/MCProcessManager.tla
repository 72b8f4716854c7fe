-------------------------- MODULE MCProcessManager --------------------------
(* Small instances of ProcessManager for TLC. *)
EXTENDS ProcessManager

CONSTANTS t1, t2, t3

MCThreads  == {t1, t2, t3}
(* A status Join can tell from a failure, and one it cannot. *)
MCStatuses == {-1, 2}
MCStatus   == {2}
=============================================================================
