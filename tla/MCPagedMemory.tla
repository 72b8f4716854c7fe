--------------------------- MODULE MCPagedMemory ---------------------------
(* Small instances of PagedMemory for TLC. *)
EXTENDS PagedMemory

CONSTANTS p1, p2, p3

MCSpaces  == {p1, p2}
MCThree   == {p1, p2, p3}
MCValues  == {0, 1}
(* Page 0 is code, the pages after it are zeroed data and stack. *)
MCImage   == [v \in Pages |-> IF v = 0 THEN 1 ELSE 0]
=============================================================================
