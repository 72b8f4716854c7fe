------------------------------ MODULE AtomicMap ------------------------------
(***************************************************************************)
(* What a thread-safe HashMap promises: the requests of all threads take   *)
(* effect one at a time, each at once and somewhere between its call and   *)
(* its return.  HashChain implements it.                                   *)
(***************************************************************************)
EXTENDS Integers

CONSTANTS Threads, Keys, NULL

VARIABLES map,      \* the value of each key, NULL if it has none
          request   \* what each thread has asked for: a request, its answer, or NULL

vars == <<map, request>>

Requests == [op : {"get", "put", "increment", "remove"}, key : Keys, arg : Int]

Init == map = [k \in Keys |-> NULL] /\ request = [t \in Threads |-> NULL]

(* get answers -1 for a key that is absent. *)
Get(k) == IF map[k] = NULL THEN -1 ELSE map[k]

Call(t) == /\ request[t] = NULL /\ request'[t] \in Requests
           /\ request' = [request EXCEPT ![t] = request'[t]]
           /\ UNCHANGED map

Answer(t) == /\ request[t] \in Requests /\ request[t].op = "get"
             /\ request' = [request EXCEPT ![t] = [answer |-> Get(request[t].key)]]
             /\ UNCHANGED map

Return(t) == /\ request[t] \in [answer : Int]
             /\ request' = [request EXCEPT ![t] = NULL]
             /\ UNCHANGED map

(* An increment of an absent key counts from what get answers. *)
Effect(r) == CASE r.op = "put"       -> r.arg
               [] r.op = "increment" -> Get(r.key) + r.arg
               [] r.op = "remove"    -> NULL

Perform(t) == /\ request[t] \in Requests /\ request[t].op # "get"
              /\ map' = [map EXCEPT ![request[t].key] = Effect(request[t])]
              /\ request' = [request EXCEPT ![t] = NULL]

Next == \E t \in Threads : Call(t) \/ Answer(t) \/ Return(t) \/ Perform(t)

Spec == Init /\ [][Next]_vars
=============================================================================
