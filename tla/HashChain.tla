----------------------------- MODULE HashChain -----------------------------
(***************************************************************************)
(* The HashMap of project_1a and project_1b with a readers/writer lock per *)
(* bucket: one bucket, that is a linked list of entries, its RWLock, and   *)
(* get, put, remove and increment cut where they call YIELD().  The other  *)
(* schemes (a semaphore or a lock) let fewer threads in at a time.         *)
(*                                                                         *)
(* A thread says which entry it wants only once it is inside: before that  *)
(* nothing depends on it.  An entry is named by its address.               *)
(***************************************************************************)
EXTENDS RWLock

CONSTANTS Keys,        \* keys that hash to this bucket
          Entries,     \* addresses new may return
          PutValues,   \* what put is called with
          MaxValue     \* bound: increment is called only below it

ASSUME ChainAssumption ==
  /\ Keys # {} /\ IsFiniteSet(Entries) /\ Cardinality(Entries) >= Cardinality(Keys)
  /\ NULL \notin Entries /\ MaxValue \in Nat /\ PutValues \subseteq -1..MaxValue

(* What a thread inside has been asked for, where it is in the code, and   *)
(* its local variables.                                                    *)
Requests == [op : {"get", "put", "increment", "remove"}, key : Keys, arg : Int]
Places   == {"get", "getNothing", "getFirst", "getNext", "getValue",
             "put", "putNothing", "putFirst", "putNext", "putValue", "putEnd",
             "remove", "removeFirst", "removeNext", "delete", "unlink", "done"}
Calls    == [request : Requests, at : Places, value : Int,
             entry : Entries \cup {NULL}, prev : Entries \cup {NULL}, next : Entries \cup {NULL}]

ASSUME NullAssumption == NULL \notin Int /\ NULL \notin Calls

VARIABLES head,      \* table[hash]
          heap,      \* heap[e]: the LinkedHashEntry at e
          allocated, \* the addresses that hold an entry
          call,      \* what each thread inside is doing
          before     \* history: the map a thread that writes has found

chain     == <<head, heap, allocated>>
chainVars == <<vars, chain, call, before>>

(* Memory that holds no entry, whatever is left in it: nobody looks at it  *)
(* (ChainSound).                                                           *)
Unused == [key |-> NULL, value |-> 0, next |-> NULL]

ChainInit ==
  /\ Init
  /\ head = NULL
  /\ heap = [e \in Entries |-> Unused]
  /\ allocated = {}
  /\ call = [t \in Threads |-> NULL]
  /\ before = NULL

(* The entries in the order of the list; NULL after the last one. *)
Nth[i \in 0..Cardinality(Entries)] ==
  IF i = 0 THEN head ELSE IF Nth[i - 1] = NULL THEN NULL ELSE heap[Nth[i - 1]].next
Chain == {Nth[i] : i \in DOMAIN Nth} \ {NULL}
Holding(k) == {e \in Chain : heap[e].key = k}

(* The map the list stands for. *)
Contents == [k \in Keys |-> IF Holding(k) = {} THEN NULL
                            ELSE heap[CHOOSE e \in Holding(k) : TRUE].value]

-----------------------------------------------------------------------------
(* Where t is, and its local variables from there on. *)
At(t, where) == call[t] # NULL /\ call[t].at = where
Goto(t, where) == call' = [call EXCEPT ![t].at = where]
GotoEntry(t, where, e) == call' = [call EXCEPT ![t].at = where, ![t].entry = e]

Begins(t, r, where) ==
  call' = [call EXCEPT ![t] = [request |-> r, at |-> where, value |-> r.arg,
                               entry |-> NULL, prev |-> NULL, next |-> NULL]]

(* The call is done with the list. *)
Over(t) ==
  call' = [call EXCEPT ![t] = [@ EXCEPT !.at = "done", !.entry = NULL, !.prev = NULL, !.next = NULL]]

(* Each call first asks whether table[hash] is NULL, yields, and then reads *)
(* it again.                                                               *)
Finds(t, from, empty, first) ==
  /\ At(t, from)
  /\ Goto(t, IF head = NULL THEN empty ELSE first)
  /\ UNCHANGED chain

-----------------------------------------------------------------------------
(* _get, for get and for increment: v is what it returns.                 *)
Got(t, v) ==
  call' = IF call[t].request.op = "get"
          THEN [call EXCEPT ![t].at = "done", ![t].entry = NULL, ![t].value = v]
          ELSE [call EXCEPT ![t].at = "put", ![t].entry = NULL, ![t].value = v + @]

(* entry->getKey() == key.  Mutant: the last entry passes for any key. *)
LastTaken(t, e) == heap[e].key = call[t].request.key \/ heap[e].next = NULL
Matches(t, e) == heap[e].key = call[t].request.key

GetLooks(t, e) ==
  \/ e = NULL /\ Got(t, -1)
  \/ e # NULL /\ Matches(t, e) /\ GotoEntry(t, "getValue", e)
  \/ e # NULL /\ ~Matches(t, e) /\ GotoEntry(t, "getNext", heap[e].next)

Get(t) ==
  \/ Finds(t, "get", "getNothing", "getFirst")
  \/ /\ \/ At(t, "getNothing") /\ Got(t, -1)
        \/ At(t, "getFirst") /\ GetLooks(t, head)
        \/ At(t, "getNext") /\ GetLooks(t, call[t].entry)
        \/ At(t, "getValue") /\ Got(t, heap[call[t].entry].value)
     /\ UNCHANGED chain

-----------------------------------------------------------------------------
(* _put.  new LinkedHashEntry returns any address that is free. *)
New(t, e) ==
  /\ e \in Entries \ allocated
  /\ allocated' = allocated \cup {e}

NewEntry(t) == [key |-> call[t].request.key, value |-> call[t].value, next |-> NULL]

(* The walk of _put and remove stops at the key or at the last entry. *)
Stops(t, e) == heap[e].next = NULL \/ Matches(t, e)

PutLooks(t, e) ==
  /\ GotoEntry(t, IF ~Stops(t, e) THEN "putNext"
                  ELSE IF Matches(t, e) THEN "putValue" ELSE "putEnd", e)
  /\ UNCHANGED chain

PutFirst(t) ==
  \E e \in Entries :
    /\ New(t, e)
    /\ heap' = [heap EXCEPT ![e] = NewEntry(t)]
    /\ head' = e
    /\ Over(t)

PutValue(t) ==
  /\ heap' = [heap EXCEPT ![call[t].entry].value = call[t].value]
  /\ Over(t)
  /\ UNCHANGED <<head, allocated>>

PutEnd(t) ==
  \E e \in Entries :
    /\ New(t, e)
    /\ heap' = [heap EXCEPT ![e] = NewEntry(t), ![call[t].entry].next = e]
    /\ Over(t)
    /\ UNCHANGED head

Put(t) ==
  \/ Finds(t, "put", "putNothing", "putFirst")
  \/ At(t, "putNothing") /\ PutFirst(t)
  \/ At(t, "putFirst") /\ PutLooks(t, head)
  \/ At(t, "putNext") /\ PutLooks(t, heap[call[t].entry].next)
  \/ At(t, "putValue") /\ PutValue(t)
  \/ At(t, "putEnd") /\ PutEnd(t)

-----------------------------------------------------------------------------
(* remove.  It deletes the entry, yields, and unlinks it then. *)
RemoveLooks(t, e, prev) ==
  /\ IF Stops(t, e) /\ ~Matches(t, e) THEN Over(t)
     ELSE call' = [call EXCEPT ![t].entry = e, ![t].prev = prev,
                     ![t].at = IF Matches(t, e) THEN "delete" ELSE "removeNext"]
  /\ UNCHANGED chain

Delete(t) ==
  LET e == call[t].entry
  IN  /\ call' = [call EXCEPT ![t].next = heap[e].next, ![t].at = "unlink"]
      /\ heap' = [heap EXCEPT ![e] = Unused]
      /\ allocated' = allocated \ {e}
      /\ UNCHANGED head

(* The list without the deleted entry.  Mutant: an entry after the first   *)
(* stays linked.                                                           *)
StaysLinked(t) == head' = (IF call[t].prev = NULL THEN call[t].next ELSE head) /\ UNCHANGED heap
Unlinked(t) ==
  /\ IF call[t].prev = NULL THEN head' = call[t].next /\ UNCHANGED heap
     ELSE heap' = [heap EXCEPT ![call[t].prev].next = call[t].next] /\ UNCHANGED head

Unlink(t) ==
  /\ Unlinked(t)
  /\ Over(t)
  /\ UNCHANGED allocated

Remove(t) ==
  \/ Finds(t, "remove", "done", "removeFirst")
  \/ At(t, "removeFirst") /\ RemoveLooks(t, head, NULL)
  \/ At(t, "removeNext") /\ RemoveLooks(t, heap[call[t].entry].next, call[t].entry)
  \/ At(t, "delete") /\ Delete(t)
  \/ At(t, "unlink") /\ Unlink(t)

-----------------------------------------------------------------------------
(* START_READ to END_READ and START_WRITE to END_WRITE: the RWLock around  *)
(* the steps on the list.  increment is _put(key, _get(key) + value).      *)
StartsReading(t) ==
  /\ ReadEnters(t)
  /\ \E k \in Keys : Begins(t, [op |-> "get", key |-> k, arg |-> 0], "get")
  /\ UNCHANGED <<chain, before>>

StartsWriting(t) ==
  /\ WriteEnters(t)
  /\ \E k \in Keys :
       \/ \E d \in PutValues : Begins(t, [op |-> "put", key |-> k, arg |-> d], "put")
       \/ /\ Contents[k] # MaxValue
          /\ Begins(t, [op |-> "increment", key |-> k, arg |-> 1], "get")
       \/ Begins(t, [op |-> "remove", key |-> k, arg |-> 0], "remove")
  /\ before' = Contents
  /\ UNCHANGED chain

Steps(t) == /\ pc[t] \in {"reading", "writing"}
            /\ Get(t) \/ Put(t) \/ Remove(t)
            /\ UNCHANGED <<vars, before>>

Ends(t) == At(t, "done") /\ Done(t) /\ UNCHANGED <<chain, call, before>>

Returns(t) == /\ ReadLeaves(t) \/ WriteLeaves(t)
              /\ call' = [call EXCEPT ![t] = NULL]
              /\ before' = IF pc[t] = "doneWrite" THEN NULL ELSE before
              /\ UNCHANGED chain

Asks(t)  == Start(t) /\ UNCHANGED <<chain, call, before>>
Gets(t)  == Acquire(t) /\ UNCHANGED <<chain, call, before>>
Waits(t) == (ReadWaits(t) \/ WriteWaits(t)) /\ UNCHANGED <<chain, call, before>>
Wakes(t) == SpuriousWakeup(t) /\ UNCHANGED <<chain, call, before>>

ChainNext == \E t \in Threads :
  \/ Asks(t) \/ Gets(t) \/ Waits(t) \/ Wakes(t)
  \/ StartsReading(t) \/ StartsWriting(t) \/ Steps(t) \/ Ends(t) \/ Returns(t)

(* A ready thread is run and a free lock goes to a thread that wants it. *)
ChainFairness == \A t \in Threads :
  /\ WF_chainVars(Gets(t))
  /\ WF_chainVars(Waits(t) \/ StartsReading(t) \/ StartsWriting(t) \/ Returns(t))
  /\ WF_chainVars(Steps(t) \/ Ends(t))

ChainSpec == ChainInit /\ [][ChainNext]_chainVars /\ ChainFairness

-----------------------------------------------------------------------------
(* A thread on its way through the list holds no deleted entry, although   *)
(* remove deletes before it unlinks and yields in between; and whenever    *)
(* nobody writes, the list has one entry per key, none of them deleted,    *)
(* and no entry is left outside it.                                        *)
ChainSound ==
  /\ \A t \in Threads : call[t] # NULL /\ call[t].at # "unlink" =>
       {call[t].entry, call[t].prev} \subseteq allocated \cup {NULL}
  /\ Writers = {} => /\ Chain = allocated
                     /\ \A k \in Keys : Cardinality(Holding(k)) <= 1

(* get, put, remove and increment are linearizable: a get takes effect     *)
(* when it has its answer, a write when it gives the lock back.            *)
Request(t) == CASE call[t] = NULL -> NULL
                [] call[t] # NULL /\ ~(At(t, "done") /\ t \in Readers) -> call[t].request
                [] At(t, "done") /\ t \in Readers -> [answer |-> call[t].value]

map == IF Writers = {} THEN Contents ELSE before
Map == INSTANCE AtomicMap WITH request <- [t \in Threads |-> Request(t)]
Linearizable == Map!Spec
=============================================================================
