--------------------------- MODULE ReadersWriters ---------------------------
(***************************************************************************)
(* What a readers/writer lock promises its callers: any number of threads  *)
(* reads at a time, or one writes.  RWLock implements it.                  *)
(***************************************************************************)
CONSTANT Threads

VARIABLES readers, writers

Init == readers = {} /\ writers = {}

BeginRead(t)  == /\ writers = {} /\ t \notin readers
                 /\ readers' = readers \cup {t}
                 /\ UNCHANGED writers

EndRead(t)    == t \in readers /\ readers' = readers \ {t} /\ UNCHANGED writers

BeginWrite(t) == /\ readers = {} /\ writers = {}
                 /\ writers' = {t}
                 /\ UNCHANGED readers

EndWrite(t)   == t \in writers /\ writers' = writers \ {t} /\ UNCHANGED readers

Next == \E t \in Threads : BeginRead(t) \/ EndRead(t) \/ BeginWrite(t) \/ EndWrite(t)

Spec == Init /\ [][Next]_<<readers, writers>>
=============================================================================
