---------------------------- MODULE MCHashChain ----------------------------
(* A small instance of HashChain for TLC. *)
EXTENDS HashChain

CONSTANTS t1, t2, t3, k1, k2, e1, e2

MCThreads == {t1, t2, t3}
MCKeys    == {k1, k2}
MCEntries == {e1, e2}
=============================================================================
