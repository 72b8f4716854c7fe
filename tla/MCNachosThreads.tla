-------------------------- MODULE MCNachosThreads --------------------------
(* A small instance of NachosThreads for TLC. *)
EXTENDS NachosThreads

CONSTANTS t1, t2, t3, t4

MCThreads == {t1, t2, t3, t4}
=============================================================================
