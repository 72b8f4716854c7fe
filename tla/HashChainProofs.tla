--------------------------- MODULE HashChainProofs ---------------------------
(***************************************************************************)
(* Proofs about HashChain for any threads, keys, addresses and values.     *)
(*                                                                         *)
(* First the lock: each step of the chain is a step of RWLock or leaves    *)
(* the lock alone, so that what is proved of the lock holds of the chain.  *)
(* Then the list: ChainInv numbers the entries from the bucket on, relates *)
(* what each thread on its way through the list holds to those numbers,    *)
(* and yields ChainSound.  Last the calls: with the map and the pending    *)
(* answers that the list and the threads stand for, every step is one of   *)
(* AtomicMap or none.                                                      *)
(***************************************************************************)
EXTENDS HashChain, RWLockProofs, WellFoundedInduction

LEMMA ChainStep == [ChainNext]_chainVars => [Next]_vars
  <1> SUFFICES ASSUME [ChainNext]_chainVars PROVE [Next]_vars OBVIOUS
  <1>1. CASE UNCHANGED chainVars
    BY <1>1 DEF chainVars, vars
  <1>2. ASSUME NEW t \in Threads, Asks(t) \/ Gets(t) \/ Waits(t) \/ Wakes(t) PROVE Next
    BY <1>2 DEF Asks, Gets, Waits, Wakes, Next, Monitor
  <1>3. ASSUME NEW t \in Threads, StartsReading(t) \/ StartsWriting(t) PROVE Next
    BY <1>3 DEF StartsReading, StartsWriting, Next, Monitor
  <1>4. ASSUME NEW t \in Threads, Steps(t) PROVE UNCHANGED vars
    BY <1>4 DEF Steps
  <1>5. ASSUME NEW t \in Threads, Ends(t) \/ Returns(t) PROVE Next
    BY <1>5 DEF Ends, Returns, Next, Monitor
  <1> QED BY <1>1, <1>2, <1>3, <1>4, <1>5 DEF ChainNext

(* The lock of a bucket sees only legal sequences of its four calls.       *)
THEOREM ChainUsesLock == ChainSpec => Spec
  <1>1. ChainInit => Init
    BY DEF ChainInit
  <1> QED BY <1>1, ChainStep, PTL DEF ChainSpec, Spec

(* While a thread writes to the list of a bucket nobody else is in it.     *)
THEOREM ChainExclusion == ChainSpec => []Exclusion
  BY ChainUsesLock, ExclusionCorrect, PTL

-----------------------------------------------------------------------------
(* The list.  An invariant cannot speak of Nth, which is known only by its *)
(* recursion: it says instead that the entries have positions, in whose    *)
(* order the list goes through them.  The positions have gaps, so that to  *)
(* remove an entry changes none of them.                                   *)

Linked(pos, nx, S) ==
  /\ head = NULL => S = {}
  /\ head # NULL => head \in S /\ \A f \in S : pos[head] <= pos[f]
  /\ \A e \in S : nx[e] = NULL => \A f \in S : pos[f] <= pos[e]
  /\ \A e \in S : nx[e] # NULL => /\ nx[e] \in S /\ pos[e] < pos[nx[e]]
                                  /\ \A f \in S : pos[f] <= pos[e] \/ pos[nx[e]] <= pos[f]
  /\ \A e, f \in S : pos[e] = pos[f] => e = f

LEMMA SizeIsNat == IsFiniteSet(Entries) /\ Cardinality(Entries) \in Nat
  BY ChainAssumption, FS_CardinalityType

(* The first n + 1 addresses that the list goes through. *)
WalkIs(n, f) ==
  f = [i \in 0..n |-> IF i = 0 THEN head ELSE IF f[i - 1] = NULL THEN NULL ELSE heap[f[i - 1]].next]

LEMMA WalkExists == \A n \in Nat : \E f : WalkIs(n, f)
  <1> DEFINE Bad == {n \in Nat : ~ \E f : WalkIs(n, f)}
  <1> SUFFICES ASSUME Bad # {} PROVE FALSE
    OBVIOUS
  <1>1. PICK m \in Bad : \A y \in Bad : ~(<<y, m>> \in OpToRel(<, Nat))
    <2> HIDE DEF Bad
    <2>1. Bad \subseteq Nat
      BY DEF Bad
    <2> QED BY <2>1, NatLessThanWellFounded, WFMin
  <1>2. m \in Nat
    OBVIOUS
  <1>3. m # 0
    <2>1. WalkIs(0, [i \in 0..0 |-> head])
      BY DEF WalkIs
    <2> QED BY <2>1
  <1>4. m - 1 \in Nat /\ m - 1 < m
    BY <1>2, <1>3
  <1>5. PICK f : WalkIs(m - 1, f)
    BY <1>1, <1>4 DEF OpToRel
  <1> DEFINE G(x) == IF x = NULL THEN NULL ELSE heap[x].next
             g == [i \in 0..m |-> IF i = m THEN G(f[m - 1]) ELSE f[i]]
  <1>6. \A j \in 0..(m - 1) : f[j] = IF j = 0 THEN head ELSE G(f[j - 1])
    BY <1>5 DEF WalkIs
  <1>7. \A i \in 0..m : g[i] = IF i = 0 THEN head ELSE G(g[i - 1])
    <2> HIDE DEF G
    <2> SUFFICES ASSUME NEW i \in 0..m PROVE g[i] = IF i = 0 THEN head ELSE G(g[i - 1])
      OBVIOUS
    <2>1. CASE i = m
      BY <1>2, <1>3, <2>1
    <2>2. CASE i # m
      <3>1. i \in 0..(m - 1) /\ g[i] = f[i]
        BY <1>2, <2>2
      <3>2. CASE i = 0
        BY <1>6, <3>1, <3>2
      <3>3. CASE i # 0
        <4>1. i - 1 \in 0..m /\ i - 1 # m
          BY <1>2, <3>3
        <4>2. g[i - 1] = f[i - 1]
          BY <4>1
        <4> QED BY <1>6, <3>1, <3>3, <4>2
      <3> QED BY <3>2, <3>3
    <2> QED BY <2>1, <2>2
  <1>8. WalkIs(m, g)
    BY <1>7 DEF WalkIs
  <1> QED BY <1>8

LEMMA NthIs ==
  LET N == Cardinality(Entries)
  IN  /\ N \in Nat /\ DOMAIN Nth = 0..N /\ Nth[0] = head
      /\ \A i \in 1..N : Nth[i] = IF Nth[i - 1] = NULL THEN NULL ELSE heap[Nth[i - 1]].next
  <1>1. WalkIs(Cardinality(Entries), Nth)
    <2>1. \E f : WalkIs(Cardinality(Entries), f)
      BY WalkExists, SizeIsNat
    <2> QED BY <2>1 DEF WalkIs, Nth
  <1>2. Cardinality(Entries) \in Nat
    BY SizeIsNat
  <1> DEFINE N == Cardinality(Entries)
  <1> HIDE DEF N
  <1>3. WalkIs(N, Nth) /\ N \in Nat
    BY <1>1, <1>2 DEF N
  <1>4. /\ DOMAIN Nth = 0..N
        /\ \A i \in 0..N : Nth[i] = IF i = 0 THEN head ELSE IF Nth[i - 1] = NULL THEN NULL ELSE heap[Nth[i - 1]].next
    BY <1>3 DEF WalkIs
  <1>5. Nth[0] = head
    BY <1>3, <1>4
  <1>6. \A i \in 1..N : i \in 0..N /\ i # 0
    BY <1>3
  <1>7. \A i \in 1..N : Nth[i] = IF Nth[i - 1] = NULL THEN NULL ELSE heap[Nth[i - 1]].next
    BY <1>4, <1>6
  <1> QED BY <1>3, <1>4, <1>5, <1>7 DEF N

(* What holds at 0 and is handed on holds up to N. *)
LEMMA UpTo ==
  ASSUME NEW N \in Nat, NEW T \in SUBSET (0..N), 0 \in T, \A i \in 1..N : i - 1 \in T => i \in T
  PROVE  T = 0..N
  <1> SUFFICES ASSUME (0..N) \ T # {} PROVE FALSE
    OBVIOUS
  <1> DEFINE Bad == (0..N) \ T
  <1>1. PICK m \in Bad : \A y \in Bad : ~(<<y, m>> \in OpToRel(<, Nat))
    <2> HIDE DEF Bad
    <2>1. Bad \subseteq Nat /\ Bad # {}
      BY DEF Bad
    <2> QED BY <2>1, NatLessThanWellFounded, WFMin
  <1>2. m \in 1..N /\ m - 1 \in 0..N /\ m - 1 < m /\ m \in Nat /\ m - 1 \in Nat
    OBVIOUS
  <1>3. m - 1 \in T
    BY <1>1, <1>2 DEF OpToRel
  <1> QED BY <1>2, <1>3

(* A list that is linked is what Nth goes through. *)
LEMMA ChainIsList ==
  ASSUME NEW S \in SUBSET Entries, NEW pos \in [Entries -> Nat], NEW nx, Linked(pos, nx, S),
         \A e \in S : nx[e] = heap[e].next
  PROVE  Chain = S
  <1> DEFINE N == Cardinality(Entries)
  <1>0. /\ N \in Nat /\ DOMAIN Nth = 0..N /\ Nth[0] = head
        /\ \A i \in 1..N : Nth[i] = IF Nth[i - 1] = NULL THEN NULL ELSE heap[Nth[i - 1]].next
    BY NthIs
  <1>a. IsFiniteSet(Entries) /\ NULL \notin Entries
    BY ChainAssumption
  <1>b. \A i \in 1..N : i \in 0..N /\ i - 1 \in 0..N /\ i - 1 < i
    BY <1>0
  <1> HIDE DEF N
  <1>1. \A i \in 0..N : Nth[i] \in S \cup {NULL}
    <2> DEFINE T == {i \in 0..N : Nth[i] \in S \cup {NULL}}
    <2>1. 0 \in T
      BY <1>0 DEF Linked
    <2>2. ASSUME NEW i \in 1..N, i - 1 \in T PROVE i \in T
      <3>1. i \in 0..N /\ Nth[i - 1] \in S \cup {NULL} /\ Nth[i] = IF Nth[i - 1] = NULL THEN NULL ELSE heap[Nth[i - 1]].next
        BY <1>0, <1>b, <2>2
      <3>2. Nth[i] \in S \cup {NULL}
        BY <3>1 DEF Linked
      <3> QED BY <3>1, <3>2
    <2> HIDE DEF T
    <2>3. T = 0..N
      <3>1. T \in SUBSET (0..N)
        BY DEF T
      <3> QED BY <1>0, <2>1, <2>2, <3>1, UpTo
    <2> QED BY <2>3 DEF T
  <1>2. Chain \subseteq S
    BY <1>0, <1>1 DEF Chain
  <1>3. ASSUME NEW e \in S, e \notin Chain PROVE FALSE
    <2>0. \A i \in 0..N : Nth[i] # e
      BY <1>0, <1>3, <1>a DEF Chain
    <2> DEFINE T == {i \in 0..N : Nth[i] \in S /\ pos[Nth[i]] < pos[e]}
    <2>1. 0 \in T
      <3>1. head # NULL /\ head \in S /\ pos[head] <= pos[e]
        BY DEF Linked
      <3>2. head # e
        BY <1>0, <2>0
      <3>3. pos[head] # pos[e]
        BY <3>1, <3>2 DEF Linked
      <3>4. pos[head] \in Nat /\ pos[e] \in Nat
        BY <3>1
      <3>5. pos[head] < pos[e]
        BY <3>1, <3>3, <3>4
      <3> QED BY <1>0, <3>1, <3>5
    <2>2. ASSUME NEW i \in 1..N, i - 1 \in T PROVE i \in T
      <3> DEFINE a == Nth[i - 1]
                 b == Nth[i]
      <3>1. a \in S /\ pos[a] < pos[e] /\ i \in 0..N /\ b # e /\ b = nx[a]
        BY <1>0, <1>a, <1>b, <2>0, <2>2
      <3> HIDE DEF a, b
      <3>2. pos[a] \in Nat /\ pos[e] \in Nat
        BY <3>1
      <3>3. b # NULL
        BY <3>1, <3>2 DEF Linked
      <3>4. b \in S /\ pos[b] <= pos[e] /\ pos[b] \in Nat
        BY <3>1, <3>2, <3>3 DEF Linked
      <3>5. pos[b] # pos[e]
        BY <3>1, <3>4 DEF Linked
      <3>6. pos[b] < pos[e]
        BY <3>2, <3>4, <3>5
      <3> QED BY <3>1, <3>4, <3>6 DEF b
    <2>3. T = 0..N
      <3>1. T \in SUBSET (0..N)
        OBVIOUS
      <3> HIDE DEF T
      <3> QED BY <1>0, <2>1, <2>2, <3>1, UpTo
    <2>4. \A i \in 0..N : Nth[i] \in S /\ Nth[i] # NULL
      <3>1. \A i \in 0..N : Nth[i] \in S
        BY <2>3
      <3> QED BY <1>a, <3>1
    <2>5. \A i \in 1..N : pos[Nth[i - 1]] < pos[Nth[i]]
      <3> SUFFICES ASSUME NEW i \in 1..N PROVE pos[Nth[i - 1]] < pos[Nth[i]]
        OBVIOUS
      <3>1. Nth[i - 1] \in S /\ Nth[i] = nx[Nth[i - 1]] /\ Nth[i] # NULL
        BY <1>0, <1>b, <2>4
      <3> QED BY <3>1 DEF Linked
    <2>6. \A i \in 0..N : \A j \in 0..N : j < i => pos[Nth[j]] < pos[Nth[i]]
      <3> DEFINE U == {i \in 0..N : \A j \in 0..N : j < i => pos[Nth[j]] < pos[Nth[i]]}
      <3>1. 0 \in U
        BY <1>0
      <3>2. ASSUME NEW i \in 1..N, i - 1 \in U PROVE i \in U
        <4> SUFFICES ASSUME NEW j \in 0..N, j < i PROVE pos[Nth[j]] < pos[Nth[i]]
          BY <1>b
        <4>1. pos[Nth[i - 1]] < pos[Nth[i]] /\ i - 1 \in 0..N /\ i \in 0..N
          BY <1>b, <2>5
        <4>2. pos[Nth[j]] \in Nat /\ pos[Nth[i]] \in Nat /\ pos[Nth[i - 1]] \in Nat
          BY <2>4, <4>1
        <4>3. CASE j = i - 1
          BY <4>1, <4>3
        <4>4. CASE j < i - 1
          <5>1. pos[Nth[j]] < pos[Nth[i - 1]]
            BY <3>2, <4>4
          <5> QED BY <4>1, <4>2, <5>1
        <4> QED BY <1>0, <4>3, <4>4
      <3>3. U \in SUBSET (0..N)
        OBVIOUS
      <3> HIDE DEF U
      <3>4. U = 0..N
        BY <1>0, <3>1, <3>2, <3>3, UpTo
      <3> QED BY <3>4 DEF U
    <2> DEFINE f == [i \in 0..N |-> Nth[i]]
    <2>7. f \in [0..N -> Entries] /\ \A i \in 0..N : f[i] = Nth[i]
      BY <2>4
    <2>8. IsFiniteSet(0..N) /\ Cardinality(0..N) = N + 1
      BY <1>0, FS_Interval
    <2> HIDE DEF f
    <2>9. \E x, y \in 0..N : x # y /\ f[x] = f[y]
      <3> DEFINE D == 0..N
      <3>1. Cardinality(Entries) < Cardinality(D)
        BY <1>0, <2>8 DEF N
      <3>2. IsFiniteSet(D) /\ f \in [D -> Entries]
        BY <2>7, <2>8
      <3> HIDE DEF D
      <3>3. \E x, y \in D : x # y /\ f[x] = f[y]
        BY <1>a, <3>1, <3>2, FS_PigeonHole
      <3> QED BY <3>3 DEF D
    <2>10. PICK x \in 0..N, y \in 0..N : x # y /\ Nth[x] = Nth[y]
      BY <2>7, <2>9
    <2>11. x < y \/ y < x
      BY <1>0, <2>10
    <2>12. pos[Nth[x]] \in Nat /\ pos[Nth[y]] \in Nat
      BY <2>4
    <2>13. pos[Nth[x]] < pos[Nth[y]] \/ pos[Nth[y]] < pos[Nth[x]]
      BY <2>6, <2>11
    <2> QED BY <2>10, <2>12, <2>13
  <1> QED BY <1>2, <1>3

-----------------------------------------------------------------------------
(* The invariant.  m is the map that the entries stand for. *)

NoneHas(S, k) == \A e \in S : heap[e].key # k

Represents(m) ==
  /\ m \in [Keys -> Int \cup {NULL}]
  /\ \A e \in allocated : m[heap[e].key] = heap[e].value
  /\ \A k \in Keys : NoneHas(allocated, k) => m[k] = NULL

(* v is what get answers for k. *)
Result(k, v) == \/ v = -1 /\ NoneHas(allocated, k)
                \/ \E e \in allocated : heap[e].key = k /\ v = heap[e].value

Answer(m, k) == IF m[k] = NULL THEN -1 ELSE m[k]

EffectOn(m, r) == CASE r.op = "put"       -> r.arg
                    [] r.op = "increment" -> Answer(m, r.key) + r.arg
                    [] r.op = "remove"    -> NULL

Deleted == {call[t].entry : t \in {u \in Threads : At(u, "unlink")}}

Typed ==
  /\ heap \in [Entries -> [key : Keys \cup {NULL}, value : Int, next : Entries \cup {NULL}]]
  /\ head \in Entries \cup {NULL}
  /\ allocated \subseteq Entries
  /\ call \in [Threads -> Calls \cup {NULL}]

(* The entries, with those that remove has deleted and will unlink next. *)
ListOK(pos, nx, deleted) ==
  /\ Linked(pos, nx, allocated \cup deleted)
  /\ \A e \in allocated : nx[e] = heap[e].next /\ heap[e].key \in Keys
  /\ \A e, f \in allocated : heap[e].key = heap[f].key => e = f

GetPlaces    == {"get", "getNothing", "getFirst", "getNext", "getValue"}
PutPlaces    == {"put", "putNothing", "putFirst", "putNext", "putValue", "putEnd"}
RemovePlaces == {"remove", "removeFirst", "removeNext", "delete", "unlink"}

(* Which calls come where, and with what in their variables. *)
WellPlaced(c) ==
  /\ c.at \in CASE c.request.op = "get"       -> GetPlaces \cup {"done"}
                [] c.request.op = "put"       -> PutPlaces \cup {"done"}
                [] c.request.op = "increment" -> GetPlaces \cup PutPlaces \cup {"done"}
                [] c.request.op = "remove"    -> RemovePlaces \cup {"done"}
  /\ c.at \in {"get", "getNothing", "getFirst", "put", "putNothing", "putFirst",
               "remove", "removeFirst", "done"} => c.entry = NULL
  /\ c.at \notin {"removeNext", "delete", "unlink"} => c.prev = NULL

(* How far a call has come: what it has looked at has another key. *)
Sees(c, pos, nx) ==
  LET e == c.entry
      k == c.request.key
      LinkedFrom == \/ c.prev = NULL /\ head = e
                    \/ c.prev \in allocated /\ heap[c.prev].next = e
  IN  /\ c.at \in {"getNothing", "putNothing"} => head = NULL
      /\ c.at \in {"putFirst", "removeFirst"} => head # NULL
      /\ c.at = "getNext" =>
           \/ e = NULL /\ NoneHas(allocated, k)
           \/ e \in allocated /\ NoneHas({f \in allocated : pos[f] < pos[e]}, k)
      /\ c.at \in {"getValue", "putValue", "delete"} => e \in allocated /\ heap[e].key = k
      /\ c.at \in {"putNext", "removeNext"} =>
           e \in allocated /\ heap[e].next # NULL /\ NoneHas({f \in allocated : pos[f] <= pos[e]}, k)
      /\ c.at = "removeNext" => c.prev \in allocated \cup {NULL}
      /\ c.at = "putEnd" => e \in allocated /\ heap[e].next = NULL /\ NoneHas(allocated, k)
      /\ c.at \in {"delete", "unlink"} => LinkedFrom
      /\ c.at = "unlink" => e \in Entries \ allocated /\ NoneHas(allocated, k) /\ nx[e] = c.next

(* The value it carries. *)
Carries(c) ==
  /\ c.at \in GetPlaces \/ c.request.op = "put" => c.value = c.request.arg
  /\ c.at \in PutPlaces /\ c.request.op = "increment" =>
       \E v \in Int : Result(c.request.key, v) /\ c.value = v + c.request.arg
  /\ c.at = "done" /\ c.request.op = "get" => Result(c.request.key, c.value)

(* The map that a thread that writes has found, and what it makes of it. *)
Leads(c) ==
  /\ before \in [Keys -> Int \cup {NULL}]
  /\ Represents(IF c.at \in {"unlink", "done"}
                THEN [before EXCEPT ![c.request.key] = EffectOn(before, c.request)]
                ELSE before)

Local(t, c, pos, nx) ==
  /\ WellPlaced(c) /\ Sees(c, pos, nx) /\ Carries(c)
  /\ pc[t] \in {"doneRead", "doneWrite"} => c.at = "done"
  /\ t \in Readers => c.request.op = "get"
  /\ t \in Writers => c.request.op # "get" /\ Leads(c)

Ghosts(pos, nx) ==
  /\ pos \in [Entries -> Nat] /\ nx \in [Entries -> Entries \cup {NULL}]
  /\ ListOK(pos, nx, Deleted)
  /\ \A t \in Threads : call[t] # NULL => Local(t, call[t], pos, nx)

ChainInv ==
  /\ Typed
  /\ \A t \in Threads : call[t] # NULL <=> t \in Readers \cup Writers
  /\ \E pos, nx : Ghosts(pos, nx)

IInv == Inv /\ ChainInv

-----------------------------------------------------------------------------
(* What the invariant says of maps. *)

LEMMA Answered ==
  ASSUME NEW m, NEW k \in Keys, NEW v, Typed, Represents(m), Result(k, v)
  PROVE  v = Answer(m, k) /\ v \in Int
  <1>1. CASE v = -1 /\ NoneHas(allocated, k)
    BY <1>1 DEF Represents, Answer
  <1>2. ASSUME NEW e \in allocated, heap[e].key = k, v = heap[e].value PROVE v = Answer(m, k) /\ v \in Int
    <2>1. m[k] = v
      BY <1>2 DEF Represents
    <2>2. v \in Int
      BY <1>2 DEF Typed
    <2> QED BY <2>1, <2>2, NullAssumption DEF Answer
  <1> QED BY <1>1, <1>2 DEF Result

LEMMA OneMap ==
  ASSUME NEW m1, NEW m2, Represents(m1), Represents(m2)
  PROVE  m1 = m2
  <1>1. ASSUME NEW k \in Keys PROVE m1[k] = m2[k]
    <2>1. CASE NoneHas(allocated, k)
      BY <2>1 DEF Represents
    <2>2. ASSUME NEW e \in allocated, heap[e].key = k PROVE m1[k] = m2[k]
      BY <2>2 DEF Represents
    <2> QED BY <2>1, <2>2 DEF NoneHas
  <1> QED BY <1>1 DEF Represents

(* When nobody writes no entry is deleted but linked. *)
LEMMA NoneDeleted ==
  ASSUME IInv, Writers = {}
  PROVE  Deleted = {}
  <1> SUFFICES ASSUME NEW t \in Threads, At(t, "unlink") PROVE FALSE
    BY DEF Deleted
  <1>1. PICK pos, nx : Ghosts(pos, nx)
    BY DEF IInv, ChainInv
  <1>2. call[t] # NULL /\ t \in Readers
    BY DEF IInv, ChainInv, At
  <1>3. WellPlaced(call[t]) /\ call[t].request.op = "get" /\ call[t].at = "unlink"
    BY <1>1, <1>2 DEF Ghosts, Local, At
  <1> QED BY <1>3 DEF WellPlaced, GetPlaces

LEMMA ListSound ==
  ASSUME IInv, Writers = {}
  PROVE  Chain = allocated /\ \A e, f \in allocated : heap[e].key = heap[f].key => e = f
  <1>1. PICK pos, nx : Ghosts(pos, nx)
    BY DEF IInv, ChainInv
  <1>2. Deleted = {}
    BY NoneDeleted
  <1>3. /\ Linked(pos, nx, allocated) /\ pos \in [Entries -> Nat]
        /\ \A e \in allocated : nx[e] = heap[e].next
        /\ \A e, f \in allocated : heap[e].key = heap[f].key => e = f
    BY <1>1, <1>2 DEF Ghosts, ListOK
  <1>4. allocated \in SUBSET Entries
    BY DEF IInv, ChainInv, Typed
  <1> QED BY <1>3, <1>4, ChainIsList

LEMMA ContentsIs ==
  IInv /\ Writers = {} => Represents(Contents)
  <1> SUFFICES ASSUME IInv, Writers = {} PROVE Represents(Contents)
    OBVIOUS
  <1>1. Chain = allocated /\ \A e, f \in allocated : heap[e].key = heap[f].key => e = f
    BY ListSound
  <1>2. \A e \in allocated : heap[e].key \in Keys /\ heap[e].value \in Int
    <2>1. PICK pos, nx : Ghosts(pos, nx)
      BY DEF IInv, ChainInv
    <2> QED BY <2>1 DEF Ghosts, ListOK, IInv, ChainInv, Typed
  <1>3. \A k \in Keys : Holding(k) = {e \in allocated : heap[e].key = k}
    BY <1>1 DEF Holding
  <1>4. \A k \in Keys : Contents[k] = IF Holding(k) = {} THEN NULL ELSE heap[CHOOSE e \in Holding(k) : TRUE].value
    BY DEF Contents
  <1>5. ASSUME NEW k \in Keys, NEW e \in allocated, heap[e].key = k PROVE Contents[k] = heap[e].value
    <2>1. Holding(k) = {e}
      BY <1>1, <1>3, <1>5
    <2> QED BY <1>4, <2>1
  <1>6. ASSUME NEW k \in Keys, NoneHas(allocated, k) PROVE Contents[k] = NULL
    BY <1>3, <1>4, <1>6 DEF NoneHas
  <1>7. \A k \in Keys : Contents[k] \in Int \cup {NULL}
    BY <1>2, <1>5, <1>6 DEF NoneHas
  <1>8. Contents \in [Keys -> Int \cup {NULL}]
    BY <1>7 DEF Contents
  <1> QED BY <1>2, <1>5, <1>6, <1>8 DEF Represents

-----------------------------------------------------------------------------
(* Frames. *)

(* A thread that writes is alone. *)
LEMMA Alone ==
  ASSUME IInv, NEW t \in Writers, NEW u \in Threads, u # t
  PROVE  call[u] = NULL
  BY DEF IInv, ChainInv, Inv, Exclusion

LEMMA LocalKept ==
  ASSUME NEW t \in Threads, NEW c, NEW pos, NEW nx, UNCHANGED <<chain, before>>, call'[t] = c,
         pc'[t] = pc[t] \/ (pc[t] \in {"reading", "writing"} /\ c.at = "done"),
         t \in Readers' => t \in Readers, t \in Writers' => t \in Writers,
         Local(t, c, pos, nx)
  PROVE  Local(t, call[t], pos, nx)'
  <1>1. WellPlaced(call[t])'
    BY DEF Local, WellPlaced
  <1>2. Sees(call[t], pos, nx)'
    BY DEF Local, Sees, NoneHas, chain
  <1>3. Carries(call[t])'
    BY DEF Local, Carries, Result, NoneHas, chain
  <1>4. Leads(c) => Leads(call[t])'
    BY DEF Leads, Represents, EffectOn, Answer, NoneHas, chain
  <1> QED BY <1>1, <1>2, <1>3, <1>4 DEF Local

(* A step that leaves the list as it is and takes t to c. *)
LEMMA CallStep ==
  ASSUME IInv, NEW pos, NEW nx, Ghosts(pos, nx), NEW t \in Threads, call[t] # NULL, NEW c \in Calls,
         UNCHANGED <<vars, chain, before>>, call' = [call EXCEPT ![t] = c],
         call[t].at \notin {"unlink", "done"}, c.at # "unlink", c.request = call[t].request,
         WellPlaced(c), Sees(c, pos, nx), Carries(c), t \in Writers => Leads(c)
  PROVE  ChainInv'
  <1>1. /\ Typed' /\ call \in [Threads -> Calls \cup {NULL}] /\ c # NULL
        /\ call'[t] = c /\ \A u \in Threads \ {t} : call'[u] = call[u]
    BY NullAssumption DEF Typed, chain, IInv, ChainInv
  <1>2. Readers' = Readers /\ Writers' = Writers /\ UNCHANGED pc
    BY DEF vars, Readers, Writers
  <1>3. \A u \in Threads : (call'[u] # NULL) <=> (u \in Readers' \cup Writers')
    BY <1>1, <1>2 DEF IInv, ChainInv
  <1>4. Local(t, c, pos, nx)
    <2>1. Local(t, call[t], pos, nx)
      BY DEF Ghosts
    <2> QED BY <2>1 DEF Local
  <1>5. ASSUME NEW u \in Threads, call'[u] # NULL PROVE Local(u, call[u], pos, nx)'
    <2>1. CASE u = t
      BY <1>1, <1>2, <1>4, <2>1, LocalKept
    <2>2. CASE u # t
      <3>1. Local(u, call[u], pos, nx) /\ call'[u] = call[u]
        BY <1>1, <1>5, <2>2 DEF Ghosts
      <3> QED BY <1>2, <3>1, LocalKept
    <2> QED BY <2>1, <2>2
  <1>6. Deleted' = Deleted
    <2>1. \A u \in Threads : At(u, "unlink")' <=> At(u, "unlink")
      BY <1>1 DEF At
    <2>2. \A u \in Threads : At(u, "unlink") => call'[u] = call[u]
      BY <1>1 DEF At
    <2> QED BY <2>1, <2>2 DEF Deleted
  <1>7. ListOK(pos, nx, Deleted)'
    BY <1>6 DEF Ghosts, ListOK, Linked, chain
  <1>8. Ghosts(pos, nx)'
    BY <1>5, <1>7 DEF Ghosts
  <1> QED BY <1>1, <1>3, <1>8 DEF ChainInv

-----------------------------------------------------------------------------
(* The walk. *)

Reached(e, k, pos) == e \in allocated /\ NoneHas({f \in allocated : pos[f] < pos[e]}, k)
Passed(e, k, pos)  == e \in allocated /\ NoneHas({f \in allocated : pos[f] <= pos[e]}, k)

LEMMA NothingDeleted ==
  ASSUME IInv, NEW t \in Threads, call[t] # NULL, call[t].at # "unlink"
  PROVE  Deleted = {}
  <1>1. CASE t \in Writers
    <2>1. \A u \in Threads : ~ At(u, "unlink")
      BY <1>1, Alone DEF At
    <2> QED BY <2>1 DEF Deleted
  <1>2. CASE t \in Readers
    <2>1. Writers = {}
      BY <1>2 DEF IInv, Inv, Exclusion
    <2> QED BY <2>1, NoneDeleted
  <1> QED BY <1>1, <1>2 DEF IInv, ChainInv

LEMMA WalkOn ==
  ASSUME NEW pos, NEW nx, pos \in [Entries -> Nat], ListOK(pos, nx, {}), allocated \subseteq Entries, NEW k
  PROVE  /\ head = NULL => NoneHas(allocated, k)
         /\ head # NULL => Reached(head, k, pos)
         /\ \A e : Reached(e, k, pos) /\ heap[e].key # k => Passed(e, k, pos)
         /\ \A e : Passed(e, k, pos) =>
              /\ heap[e].next = NULL => NoneHas(allocated, k)
              /\ heap[e].next # NULL => Reached(heap[e].next, k, pos)
  <1>1. Linked(pos, nx, allocated) /\ \A e \in allocated : pos[e] \in Nat /\ nx[e] = heap[e].next
    BY DEF ListOK
  <1>2. head = NULL => NoneHas(allocated, k)
    BY <1>1 DEF Linked, NoneHas
  <1>3. head # NULL => Reached(head, k, pos)
    BY <1>1 DEF Linked, NoneHas, Reached
  <1>4. ASSUME NEW e, Reached(e, k, pos), heap[e].key # k PROVE Passed(e, k, pos)
    <2> SUFFICES ASSUME NEW f \in allocated, pos[f] <= pos[e] PROVE heap[f].key # k
      BY <1>4 DEF Passed, Reached, NoneHas
    <2>1. CASE f = e
      BY <1>4, <2>1
    <2>2. CASE f # e
      <3>1. pos[f] # pos[e] /\ pos[f] \in Nat /\ pos[e] \in Nat /\ e \in allocated
        BY <1>1, <1>4, <2>2 DEF Linked, Reached
      <3>2. pos[f] < pos[e]
        BY <3>1
      <3> QED BY <1>4, <3>2 DEF Reached, NoneHas
    <2> QED BY <2>1, <2>2
  <1>5. ASSUME NEW e, Passed(e, k, pos)
        PROVE  /\ heap[e].next = NULL => NoneHas(allocated, k)
               /\ heap[e].next # NULL => Reached(heap[e].next, k, pos)
    <2>1. e \in allocated /\ nx[e] = heap[e].next
      BY <1>1, <1>5 DEF Passed
    <2>2. ASSUME heap[e].next = NULL PROVE NoneHas(allocated, k)
      <3>1. \A f \in allocated : pos[f] <= pos[e]
        BY <1>1, <2>1, <2>2 DEF Linked
      <3> QED BY <1>5, <3>1 DEF Passed, NoneHas
    <2>3. ASSUME heap[e].next # NULL PROVE Reached(heap[e].next, k, pos)
      <3> DEFINE n == heap[e].next
      <3>1. n \in allocated /\ \A f \in allocated : pos[f] <= pos[e] \/ pos[n] <= pos[f]
        BY <1>1, <2>1, <2>3 DEF Linked
      <3> HIDE DEF n
      <3> SUFFICES ASSUME NEW f \in allocated, pos[f] < pos[n] PROVE heap[f].key # k
        BY <3>1 DEF Reached, NoneHas, n
      <3>2. pos[f] \in Nat /\ pos[n] \in Nat
        BY <1>1, <3>1
      <3>3. pos[f] <= pos[e]
        BY <3>1, <3>2
      <3> QED BY <1>5, <3>3 DEF Passed, NoneHas
    <2> QED BY <2>2, <2>3
  <1> QED BY <1>2, <1>3, <1>4, <1>5

(* What is known of a thread that is about to take a step on the list. *)
LEMMA Walker ==
  ASSUME IInv, NEW pos, NEW nx, Ghosts(pos, nx), NEW t \in Threads, call[t] # NULL, call[t].at # "unlink"
  PROVE  /\ call[t] \in Calls /\ Local(t, call[t], pos, nx) /\ call[t].request.key \in Keys
         /\ call[t].request \in Requests /\ call[t].value \in Int
         /\ Deleted = {} /\ ListOK(pos, nx, {}) /\ pos \in [Entries -> Nat]
         /\ allocated \subseteq Entries /\ NULL \notin allocated
         /\ call \in [Threads -> Calls \cup {NULL}]
         /\ \A e \in allocated : heap[e].next \in Entries \cup {NULL} /\ heap[e].value \in Int
  <1>1. call[t] \in Calls /\ call \in [Threads -> Calls \cup {NULL}]
    BY DEF IInv, ChainInv, Typed
  <1>2. /\ call[t].request.key \in Keys /\ call[t].request \in Requests /\ call[t].value \in Int
    BY <1>1 DEF Calls, Requests
  <1>3. Deleted = {}
    BY NothingDeleted
  <1>4. /\ allocated \subseteq Entries /\ NULL \notin allocated
        /\ \A e \in allocated : heap[e].next \in Entries \cup {NULL} /\ heap[e].value \in Int
    BY ChainAssumption DEF IInv, ChainInv, Typed
  <1> QED BY <1>1, <1>2, <1>3, <1>4 DEF Ghosts

(* Where a call goes: it keeps its request, changes its place, and no more *)
(* of its other variables than are given.                                  *)
LEMMA Moved ==
  ASSUME NEW c \in Calls, NEW at \in Places, NEW e \in Entries \cup {NULL}, NEW v \in Int
  PROVE  LET d == [[[c EXCEPT !.at = at] EXCEPT !.entry = e] EXCEPT !.value = v]
         IN  d \in Calls /\ d.at = at /\ d.entry = e /\ d.value = v /\ d.request = c.request
             /\ d.prev = c.prev /\ d.next = c.next
  BY DEF Calls

LEMMA LeadsKept ==
  ASSUME NEW c, NEW d, Leads(c), c.at \notin {"unlink", "done"}, d.at \notin {"unlink", "done"}
  PROVE  Leads(d)
  BY DEF Leads

(* _get, at the entry e or at the end of the list. *)
LEMMA GetLooksInv ==
  ASSUME IInv, NEW pos, NEW nx, Ghosts(pos, nx), NEW t \in Threads, pc[t] \in {"reading", "writing"},
         call[t] # NULL, call[t].at \in GetPlaces, NEW v, Got(t, v),
         UNCHANGED <<vars, chain, before>>, Result(call[t].request.key, v)
  PROVE  ChainInv'
  <1> DEFINE c == call[t]
             d == call'[t]
  <1>0. call[t].at # "unlink"
    BY DEF GetPlaces
  <1>1. /\ c \in Calls /\ Local(t, c, pos, nx) /\ c.value \in Int /\ call \in [Threads -> Calls \cup {NULL}]
        /\ \A e \in allocated : heap[e].value \in Int
    BY <1>0, Walker
  <1>2. v \in Int
    BY <1>1 DEF Result
  <1>3. c.request.op \in {"get", "increment"} /\ c.request.arg \in Int
    BY <1>1 DEF Local, WellPlaced, GetPlaces, PutPlaces, RemovePlaces, Calls, Requests
  <1>4. CASE c.request.op = "get"
    <2>1. /\ call' = [call EXCEPT ![t] = d] /\ d \in Calls /\ d.request = c.request /\ d.at = "done"
          /\ d.entry = NULL /\ d.value = v /\ d.prev = c.prev
      BY <1>1, <1>2, <1>4 DEF Got, Calls, Places
    <2> HIDE DEF d
    <2>2. WellPlaced(d)
      BY <1>1, <1>4, <2>1 DEF Local, WellPlaced, GetPlaces
    <2>3. Sees(d, pos, nx) /\ Carries(d)
      BY <1>4, <2>1 DEF Sees, Carries, GetPlaces, PutPlaces
    <2>4. t \notin Writers
      BY <1>1, <1>4 DEF Local
    <2>5. call[t].at \notin {"unlink", "done"} /\ d.at # "unlink"
      BY <2>1 DEF GetPlaces
    <2> QED BY <2>1, <2>2, <2>3, <2>4, <2>5, CallStep
  <1>5. CASE c.request.op = "increment"
    <2> DEFINE w == v + c.value
    <2>0. call' = [call EXCEPT ![t].at = "put", ![t].entry = NULL, ![t].value = w] /\ w \in Int
      BY <1>1, <1>2, <1>5 DEF Got
    <2> HIDE DEF w
    <2>1. /\ call' = [call EXCEPT ![t] = d] /\ d \in Calls /\ d.request = c.request /\ d.at = "put"
          /\ d.entry = NULL /\ d.value = w /\ d.prev = c.prev
      BY <1>1, <2>0 DEF Calls, Places
    <2> HIDE DEF d
    <2>2. WellPlaced(d)
      BY <1>1, <1>5, <2>1 DEF Local, WellPlaced, GetPlaces, PutPlaces
    <2>3. Sees(d, pos, nx)
      BY <2>1 DEF Sees
    <2>4. c.value = c.request.arg
      BY <1>1 DEF Local, Carries
    <2>5. Carries(d)
      BY <1>2, <1>5, <2>1, <2>4 DEF Carries, GetPlaces, w
    <2>6. call[t].at \notin {"unlink", "done"} /\ d.at \notin {"unlink", "done"}
      BY <2>1 DEF GetPlaces
    <2>7. t \in Writers => Leads(d)
      BY <1>1, <2>6, LeadsKept DEF Local
    <2> QED BY <2>1, <2>2, <2>3, <2>5, <2>6, <2>7, CallStep
  <1> QED BY <1>3, <1>4, <1>5

LEMMA GetInv ==
  ASSUME IInv, NEW pos, NEW nx, Ghosts(pos, nx), NEW t \in Threads, pc[t] \in {"reading", "writing"},
         Get(t), UNCHANGED <<vars, before>>
  PROVE  ChainInv'
  <1> DEFINE c == call[t]
             d == call'[t]
             k == c.request.key
  <1>0. call[t] # NULL /\ call[t].at \in GetPlaces /\ call[t].at # "unlink" /\ UNCHANGED chain
    BY DEF Get, Finds, At, GetPlaces
  <1>1. /\ c \in Calls /\ Local(t, c, pos, nx) /\ c.value \in Int /\ call \in [Threads -> Calls \cup {NULL}]
        /\ \A e \in allocated : heap[e].value \in Int /\ heap[e].next \in Entries \cup {NULL}
        /\ allocated \subseteq Entries /\ NULL \notin allocated
    BY <1>0, Walker
  <1>2. /\ head = NULL => NoneHas(allocated, k)
        /\ head # NULL => Reached(head, k, pos)
        /\ \A e : Reached(e, k, pos) /\ heap[e].key # k => Passed(e, k, pos)
        /\ \A e : Passed(e, k, pos) =>
              /\ heap[e].next = NULL => NoneHas(allocated, k)
              /\ heap[e].next # NULL => Reached(heap[e].next, k, pos)
    BY <1>0, Walker, WalkOn
  <1>3. ASSUME NEW v, Got(t, v), Result(k, v) PROVE ChainInv'
    BY <1>0, <1>3, GetLooksInv
  <1> DEFINE Goes(at, e) ==
               /\ at \in GetPlaces \ {"get"} /\ e \in Entries \cup {NULL}
               /\ call' = [call EXCEPT ![t].at = at, ![t].entry = e]
               /\ at \in {"getNothing", "getFirst"} => e = NULL
               /\ at = "getNothing" => head = NULL
               /\ at = "getValue" => e \in allocated /\ heap[e].key = k
               /\ at = "getNext" => (e = NULL /\ NoneHas(allocated, k)) \/ Reached(e, k, pos)
  <1>4. ASSUME NEW at, NEW e, Goes(at, e) PROVE ChainInv'
    <2>1. /\ call' = [call EXCEPT ![t] = d] /\ d \in Calls /\ d.request = c.request /\ d.at = at
          /\ d.entry = e /\ d.value = c.value /\ d.prev = c.prev
      BY <1>1, <1>4 DEF Calls, Places, GetPlaces
    <2> HIDE DEF d
    <2>2. WellPlaced(d)
      BY <1>0, <1>1, <1>4, <2>1 DEF Local, WellPlaced, GetPlaces, PutPlaces, RemovePlaces, Calls, Requests
    <2>3. Sees(d, pos, nx)
      BY <1>4, <2>1 DEF Sees, GetPlaces, Reached
    <2>4. Carries(d)
      BY <1>0, <1>1, <1>4, <2>1 DEF Local, Carries, GetPlaces, PutPlaces
    <2>5. call[t].at \notin {"unlink", "done"} /\ d.at \notin {"unlink", "done"}
      BY <1>0, <1>4, <2>1 DEF GetPlaces
    <2>6. t \in Writers => Leads(d)
      BY <1>1, <2>5, LeadsKept DEF Local
    <2> QED BY <1>0, <2>1, <2>2, <2>3, <2>4, <2>5, <2>6, CallStep
  <1>5. CASE Finds(t, "get", "getNothing", "getFirst")
    <2>1. c.entry = NULL
      BY <1>1, <1>5 DEF Finds, At, Local, WellPlaced
    <2>2. ASSUME NEW at, call' = [call EXCEPT ![t].at = at]
          PROVE  call' = [call EXCEPT ![t].at = at, ![t].entry = NULL]
      BY <1>1, <2>1, <2>2 DEF Calls
    <2>3. CASE head = NULL
      <3>1. Goes("getNothing", NULL)
        BY <1>5, <2>2, <2>3 DEF Finds, Goto, GetPlaces
      <3> QED BY <1>4, <3>1
    <2>4. CASE head # NULL
      <3>1. Goes("getFirst", NULL)
        BY <1>5, <2>2, <2>4 DEF Finds, Goto, GetPlaces
      <3> QED BY <1>4, <3>1
    <2> QED BY <2>3, <2>4
  <1>6. ASSUME NEW e, GetLooks(t, e), (e = NULL /\ NoneHas(allocated, k)) \/ Reached(e, k, pos)
        PROVE  ChainInv'
    <2>1. CASE e = NULL
      BY <1>1, <1>3, <1>6, <2>1 DEF GetLooks, Result, Reached
    <2>2. CASE e # NULL /\ Matches(t, e)
      <3>1. e \in allocated /\ heap[e].key = k /\ call' = [call EXCEPT ![t].at = "getValue", ![t].entry = e]
        BY <1>6, <2>2 DEF GetLooks, Matches, GotoEntry, Reached
      <3>2. Goes("getValue", e)
        BY <1>1, <3>1 DEF GetPlaces
      <3> QED BY <1>4, <3>2
    <2>3. CASE e # NULL /\ ~Matches(t, e)
      <3> DEFINE n == heap[e].next
      <3>1. e \in allocated /\ heap[e].key # k /\ call' = [call EXCEPT ![t].at = "getNext", ![t].entry = n]
        BY <1>6, <2>3 DEF GetLooks, Matches, GotoEntry, Reached
      <3>2. (n = NULL /\ NoneHas(allocated, k)) \/ Reached(n, k, pos)
        BY <1>2, <1>6, <2>3, <3>1
      <3>3. n \in Entries \cup {NULL}
        BY <1>1, <3>1
      <3> HIDE DEF n
      <3>4. Goes("getNext", n)
        BY <3>1, <3>2, <3>3 DEF GetPlaces
      <3> QED BY <1>4, <3>4
    <2> QED BY <2>1, <2>2, <2>3
  <1>7. CASE At(t, "getNothing") /\ Got(t, -1)
    <2>1. head = NULL
      BY <1>1, <1>7 DEF Local, Sees, At
    <2> QED BY <1>2, <1>3, <1>7, <2>1 DEF Result
  <1>8. CASE At(t, "getFirst") /\ GetLooks(t, head)
    BY <1>2, <1>6, <1>8
  <1>9. CASE At(t, "getNext") /\ GetLooks(t, call[t].entry)
    BY <1>1, <1>6, <1>9 DEF Local, Sees, At, Reached
  <1>10. CASE At(t, "getValue") /\ Got(t, heap[call[t].entry].value)
    <2>1. Result(k, heap[c.entry].value)
      BY <1>1, <1>10 DEF Local, Sees, At, Result
    <2> QED BY <1>3, <1>10, <2>1
  <1> QED BY <1>5, <1>7, <1>8, <1>9, <1>10 DEF Get

(* The walk of _put. *)
PutWalks(t) ==
  \/ Finds(t, "put", "putNothing", "putFirst")
  \/ At(t, "putFirst") /\ PutLooks(t, head)
  \/ At(t, "putNext") /\ PutLooks(t, heap[call[t].entry].next)

LEMMA PutWalksInv ==
  ASSUME IInv, NEW pos, NEW nx, Ghosts(pos, nx), NEW t \in Threads, pc[t] \in {"reading", "writing"},
         PutWalks(t), UNCHANGED <<vars, before>>
  PROVE  ChainInv'
  <1> DEFINE c == call[t]
             d == call'[t]
             k == c.request.key
  <1>0. call[t] # NULL /\ call[t].at \in PutPlaces /\ call[t].at # "unlink" /\ UNCHANGED chain
    BY DEF PutWalks, PutLooks, Finds, At, PutPlaces
  <1>1. /\ c \in Calls /\ Local(t, c, pos, nx) /\ c.value \in Int /\ call \in [Threads -> Calls \cup {NULL}]
        /\ \A e \in allocated : heap[e].value \in Int /\ heap[e].next \in Entries \cup {NULL}
        /\ allocated \subseteq Entries /\ NULL \notin allocated
    BY <1>0, Walker
  <1>2. /\ head # NULL => Reached(head, k, pos)
        /\ \A e : Reached(e, k, pos) /\ heap[e].key # k => Passed(e, k, pos)
        /\ \A e : Passed(e, k, pos) =>
              /\ heap[e].next = NULL => NoneHas(allocated, k)
              /\ heap[e].next # NULL => Reached(heap[e].next, k, pos)
    BY <1>0, Walker, WalkOn
  <1> DEFINE Goes(at, e) ==
               /\ at \in PutPlaces \ {"put"} /\ e \in Entries \cup {NULL}
               /\ call' = [call EXCEPT ![t].at = at, ![t].entry = e]
               /\ at \in {"putNothing", "putFirst"} => e = NULL
               /\ at = "putNothing" => head = NULL
               /\ at = "putFirst" => head # NULL
               /\ at = "putValue" => e \in allocated /\ heap[e].key = k
               /\ at = "putNext" => Passed(e, k, pos) /\ heap[e].next # NULL
               /\ at = "putEnd" => e \in allocated /\ heap[e].next = NULL /\ NoneHas(allocated, k)
  <1>4. ASSUME NEW at, NEW e, Goes(at, e) PROVE ChainInv'
    <2>1. /\ call' = [call EXCEPT ![t] = d] /\ d \in Calls /\ d.request = c.request /\ d.at = at
          /\ d.entry = e /\ d.value = c.value /\ d.prev = c.prev
      BY <1>1, <1>4 DEF Calls, Places, PutPlaces
    <2> HIDE DEF d
    <2>2. WellPlaced(d)
      BY <1>0, <1>1, <1>4, <2>1 DEF Local, WellPlaced, GetPlaces, PutPlaces, RemovePlaces, Calls, Requests
    <2>3. Sees(d, pos, nx)
      BY <1>4, <2>1 DEF Sees, PutPlaces, Passed
    <2>4. Carries(d)
      BY <1>0, <1>1, <1>4, <2>1 DEF Local, Carries, GetPlaces, PutPlaces
    <2>5. call[t].at \notin {"unlink", "done"} /\ d.at \notin {"unlink", "done"}
      BY <1>0, <1>4, <2>1 DEF PutPlaces
    <2>6. t \in Writers => Leads(d)
      BY <1>1, <2>5, LeadsKept DEF Local
    <2> QED BY <1>0, <2>1, <2>2, <2>3, <2>4, <2>5, <2>6, CallStep
  <1>5. CASE Finds(t, "put", "putNothing", "putFirst")
    <2>1. c.entry = NULL
      BY <1>1, <1>5 DEF Finds, At, Local, WellPlaced
    <2>2. ASSUME NEW at, call' = [call EXCEPT ![t].at = at]
          PROVE  call' = [call EXCEPT ![t].at = at, ![t].entry = NULL]
      BY <1>1, <2>1, <2>2 DEF Calls
    <2>3. CASE head = NULL
      <3>1. Goes("putNothing", NULL)
        BY <1>5, <2>2, <2>3 DEF Finds, Goto, PutPlaces
      <3> QED BY <1>4, <3>1
    <2>4. CASE head # NULL
      <3>1. Goes("putFirst", NULL)
        BY <1>5, <2>2, <2>4 DEF Finds, Goto, PutPlaces
      <3> QED BY <1>4, <3>1
    <2> QED BY <2>3, <2>4
  <1>6. ASSUME NEW e, PutLooks(t, e), Reached(e, k, pos) PROVE ChainInv'
    <2>0. e \in allocated /\ e \in Entries \cup {NULL}
      BY <1>1, <1>6 DEF Reached
    <2>1. CASE ~Stops(t, e)
      <3>1. heap[e].next # NULL /\ heap[e].key # k /\ call' = [call EXCEPT ![t].at = "putNext", ![t].entry = e]
        BY <1>6, <2>1 DEF PutLooks, Stops, Matches, GotoEntry
      <3>2. Goes("putNext", e)
        BY <1>2, <1>6, <2>0, <3>1 DEF PutPlaces
      <3> QED BY <1>4, <3>2
    <2>2. CASE Stops(t, e) /\ Matches(t, e)
      <3>1. heap[e].key = k /\ call' = [call EXCEPT ![t].at = "putValue", ![t].entry = e]
        BY <1>6, <2>2 DEF PutLooks, Matches, GotoEntry
      <3>2. Goes("putValue", e)
        BY <2>0, <3>1 DEF PutPlaces
      <3> QED BY <1>4, <3>2
    <2>3. CASE Stops(t, e) /\ ~Matches(t, e)
      <3>1. heap[e].next = NULL /\ heap[e].key # k /\ call' = [call EXCEPT ![t].at = "putEnd", ![t].entry = e]
        BY <1>6, <2>3 DEF PutLooks, Stops, Matches, GotoEntry
      <3>2. Goes("putEnd", e)
        BY <1>2, <1>6, <2>0, <3>1 DEF PutPlaces
      <3> QED BY <1>4, <3>2
    <2> QED BY <2>1, <2>2, <2>3
  <1>7. CASE At(t, "putFirst") /\ PutLooks(t, head)
    <2>1. head # NULL
      BY <1>1, <1>7 DEF Local, Sees, At
    <2> QED BY <1>2, <1>6, <1>7, <2>1
  <1>8. CASE At(t, "putNext") /\ PutLooks(t, heap[call[t].entry].next)
    <2>1. Passed(c.entry, k, pos) /\ heap[c.entry].next # NULL
      BY <1>1, <1>8 DEF Local, Sees, At, Passed
    <2> QED BY <1>2, <1>6, <1>8, <2>1
  <1> QED BY <1>5, <1>7, <1>8 DEF PutWalks

(* The walk of remove. *)
RemoveWalks(t) ==
  \/ Finds(t, "remove", "done", "removeFirst")
  \/ At(t, "removeFirst") /\ RemoveLooks(t, head, NULL)
  \/ At(t, "removeNext") /\ RemoveLooks(t, heap[call[t].entry].next, call[t].entry)

(* A call that is over keeps its request and its value. *)
LEMMA IsOver ==
  ASSUME NEW t \in Threads, call \in [Threads -> Calls \cup {NULL}], NEW c \in Calls, c = call[t], Over(t)
  PROVE  \E d \in Calls : /\ call' = [call EXCEPT ![t] = d] /\ d.request = c.request /\ d.at = "done"
                          /\ d.entry = NULL /\ d.prev = NULL /\ d.value = c.value
  <1> DEFINE d == call'[t]
  <1>1. /\ call' = [call EXCEPT ![t] = d] /\ d.request = c.request /\ d.at = "done" /\ d \in Calls
        /\ d.entry = NULL /\ d.prev = NULL /\ d.value = c.value
    BY DEF Over, Calls, Places
  <1> HIDE DEF d
  <1> QED BY <1>1

LEMMA RemoveWalksInv ==
  ASSUME IInv, NEW pos, NEW nx, Ghosts(pos, nx), NEW t \in Threads, pc[t] \in {"reading", "writing"},
         RemoveWalks(t), UNCHANGED <<vars, before>>
  PROVE  ChainInv'
  <1> DEFINE c == call[t]
             d == call'[t]
             k == c.request.key
  <1>0. /\ call[t] # NULL /\ call[t].at \in {"remove", "removeFirst", "removeNext"} /\ call[t].at # "unlink"
        /\ UNCHANGED chain
    BY DEF RemoveWalks, RemoveLooks, Finds, At
  <1>1. /\ c \in Calls /\ Local(t, c, pos, nx) /\ c.value \in Int /\ call \in [Threads -> Calls \cup {NULL}]
        /\ \A e \in allocated : heap[e].value \in Int /\ heap[e].next \in Entries \cup {NULL}
        /\ allocated \subseteq Entries /\ NULL \notin allocated /\ k \in Keys
    BY <1>0, Walker
  <1>2. /\ head = NULL => NoneHas(allocated, k)
        /\ head # NULL => Reached(head, k, pos)
        /\ \A e : Reached(e, k, pos) /\ heap[e].key # k => Passed(e, k, pos)
        /\ \A e : Passed(e, k, pos) =>
              /\ heap[e].next = NULL => NoneHas(allocated, k)
              /\ heap[e].next # NULL => Reached(heap[e].next, k, pos)
    BY <1>0, Walker, WalkOn
  <1>3. c.request.op = "remove" /\ t \in Writers /\ Leads(c)
    <2>1. c.request.op = "remove"
      BY <1>0, <1>1 DEF Local, WellPlaced, GetPlaces, PutPlaces, RemovePlaces, Calls, Requests
    <2>2. t \in Readers \cup Writers
      BY <1>0 DEF IInv, ChainInv
    <2> QED BY <1>1, <2>1, <2>2 DEF Local
  <1>4. ASSUME d.at = "done", d.request = c.request, NoneHas(allocated, k) PROVE Leads(d)
    <2>1. Represents(before) /\ before \in [Keys -> Int \cup {NULL}]
      BY <1>0, <1>3 DEF Leads
    <2>2. EffectOn(before, d.request) = NULL
      BY <1>3, <1>4 DEF EffectOn
    <2>3. [before EXCEPT ![k] = NULL] = before
      BY <1>1, <1>4, <2>1 DEF Represents
    <2> QED BY <1>4, <2>1, <2>2, <2>3 DEF Leads
  <1> DEFINE Goes(at, e, prev) ==
               /\ at \in {"done", "removeFirst", "removeNext", "delete"}
               /\ e \in Entries \cup {NULL} /\ prev \in Entries \cup {NULL}
               /\ call' = [call EXCEPT ![t].at = at, ![t].entry = e, ![t].prev = prev]
               /\ at \in {"done", "removeFirst"} => e = NULL /\ prev = NULL
               /\ at = "done" => NoneHas(allocated, k)
               /\ at = "removeFirst" => head # NULL
               /\ at = "removeNext" => Passed(e, k, pos) /\ heap[e].next # NULL /\ prev \in allocated \cup {NULL}
               /\ at = "delete" => /\ e \in allocated /\ heap[e].key = k
                                   /\ \/ prev = NULL /\ head = e
                                      \/ prev \in allocated /\ heap[prev].next = e
  <1>5. ASSUME NEW at, NEW e, NEW prev, Goes(at, e, prev) PROVE ChainInv'
    <2>1. /\ call' = [call EXCEPT ![t] = d] /\ d \in Calls /\ d.request = c.request /\ d.at = at
          /\ d.entry = e /\ d.value = c.value /\ d.prev = prev
      BY <1>1, <1>5 DEF Calls, Places
    <2>2. Leads(d)
      <3>1. CASE at = "done"
        BY <1>4, <1>5, <2>1, <3>1
      <3>2. CASE at # "done"
        <4>1. c.at \notin {"unlink", "done"} /\ d.at \notin {"unlink", "done"}
          BY <1>0, <1>5, <2>1, <3>2
        <4> QED BY <1>3, <4>1, LeadsKept
      <3> QED BY <3>1, <3>2
    <2> HIDE DEF d
    <2>3. WellPlaced(d)
      BY <1>3, <1>5, <2>1 DEF WellPlaced, RemovePlaces
    <2>4. Sees(d, pos, nx)
      BY <1>5, <2>1 DEF Sees, Passed
    <2>5. Carries(d)
      BY <1>3, <1>5, <2>1 DEF Carries, GetPlaces, PutPlaces
    <2>6. call[t].at \notin {"unlink", "done"} /\ d.at # "unlink"
      BY <1>0, <1>5, <2>1
    <2> QED BY <1>0, <2>1, <2>2, <2>3, <2>4, <2>5, <2>6, CallStep
  <1>6. CASE Finds(t, "remove", "done", "removeFirst")
    <2>1. c.entry = NULL /\ c.prev = NULL
      BY <1>1, <1>6 DEF Finds, At, Local, WellPlaced
    <2>2. ASSUME NEW at, call' = [call EXCEPT ![t].at = at]
          PROVE  call' = [call EXCEPT ![t].at = at, ![t].entry = NULL, ![t].prev = NULL]
      BY <1>1, <2>1, <2>2 DEF Calls
    <2>3. CASE head = NULL
      <3>1. Goes("done", NULL, NULL)
        BY <1>2, <1>6, <2>2, <2>3 DEF Finds, Goto
      <3> QED BY <1>5, <3>1
    <2>4. CASE head # NULL
      <3>1. Goes("removeFirst", NULL, NULL)
        BY <1>6, <2>2, <2>4 DEF Finds, Goto
      <3> QED BY <1>5, <3>1
    <2> QED BY <2>3, <2>4
  <1>7. ASSUME NEW e, NEW prev, RemoveLooks(t, e, prev), Reached(e, k, pos),
               \/ prev = NULL /\ head = e
               \/ prev \in allocated /\ heap[prev].next = e
        PROVE  ChainInv'
    <2>0. e \in allocated /\ e \in Entries \cup {NULL} /\ prev \in Entries \cup {NULL} /\ prev \in allocated \cup {NULL}
      BY <1>1, <1>7 DEF Reached
    <2>1. CASE Stops(t, e) /\ ~Matches(t, e)
      <3>1. heap[e].next = NULL /\ heap[e].key # k /\ Over(t)
        BY <1>7, <2>1 DEF RemoveLooks, Stops, Matches
      <3>3. NoneHas(allocated, k)
        BY <1>2, <1>7, <3>1
      <3>4. /\ call' = [call EXCEPT ![t] = d] /\ d \in Calls /\ d.request = c.request /\ d.at = "done"
            /\ d.entry = NULL /\ d.value = c.value /\ d.prev = NULL
        <4>1. PICK z \in Calls : /\ call' = [call EXCEPT ![t] = z] /\ z.request = c.request
                                 /\ z.at = "done" /\ z.entry = NULL /\ z.prev = NULL /\ z.value = c.value
          BY <1>1, <3>1, IsOver
        <4>2. d = z
          BY <1>1, <4>1
        <4> QED BY <4>1, <4>2
      <3>5. Leads(d)
        BY <1>4, <3>3, <3>4
      <3> HIDE DEF d
      <3>6. WellPlaced(d) /\ Sees(d, pos, nx) /\ Carries(d)
        BY <1>3, <3>4 DEF WellPlaced, RemovePlaces, Sees, Carries, GetPlaces, PutPlaces
      <3>7. call[t].at \notin {"unlink", "done"} /\ d.at # "unlink"
        BY <1>0, <3>4
      <3> QED BY <1>0, <3>4, <3>5, <3>6, <3>7, CallStep
    <2>2. CASE Matches(t, e)
      <3>1. heap[e].key = k /\ call' = [call EXCEPT ![t].at = "delete", ![t].entry = e, ![t].prev = prev]
        <4>1. heap[e].key = k /\ Matches(t, e) /\ RemoveLooks(t, e, prev)
          BY <1>7, <2>2 DEF Matches
        <4> QED BY <4>1 DEF RemoveLooks
      <3>2. Goes("delete", e, prev)
        BY <1>7, <2>0, <3>1
      <3> QED BY <1>5, <3>2
    <2>3. CASE ~Stops(t, e)
      <3>1. /\ heap[e].next # NULL /\ heap[e].key # k
            /\ call' = [call EXCEPT ![t].at = "removeNext", ![t].entry = e, ![t].prev = prev]
        <4>1. heap[e].next # NULL /\ heap[e].key # k /\ ~Matches(t, e) /\ RemoveLooks(t, e, prev)
          BY <1>7, <2>3 DEF Stops, Matches
        <4> QED BY <2>3, <4>1 DEF RemoveLooks
      <3>2. Goes("removeNext", e, prev)
        BY <1>2, <1>7, <2>0, <3>1
      <3> QED BY <1>5, <3>2
    <2> QED BY <2>1, <2>2, <2>3
  <1>8. CASE At(t, "removeFirst") /\ RemoveLooks(t, head, NULL)
    <2>1. head # NULL
      BY <1>1, <1>8 DEF Local, Sees, At
    <2> QED BY <1>2, <1>7, <1>8, <2>1
  <1>9. CASE At(t, "removeNext") /\ RemoveLooks(t, heap[call[t].entry].next, call[t].entry)
    <2>1. Passed(c.entry, k, pos) /\ heap[c.entry].next # NULL /\ c.entry \in allocated
      BY <1>1, <1>9 DEF Local, Sees, At, Passed
    <2> QED BY <1>2, <1>7, <1>9, <2>1
  <1> QED BY <1>6, <1>8, <1>9 DEF RemoveWalks

-----------------------------------------------------------------------------
(* The steps that change the list. *)

LEMMA WriterStep ==
  ASSUME IInv, NEW pos, NEW nx, NEW t \in Writers, NEW c \in Calls, NEW deleted,
         pos \in [Entries -> Nat], nx \in [Entries -> Entries \cup {NULL}],
         UNCHANGED <<vars, before>>, call' = [call EXCEPT ![t] = c], call[t] # NULL, pc[t] = "writing",
         /\ heap' \in [Entries -> [key : Keys \cup {NULL}, value : Int, next : Entries \cup {NULL}]]
         /\ head' \in Entries \cup {NULL}
         /\ allocated' \subseteq Entries,
         ListOK(pos, nx, deleted)', deleted = IF c.at = "unlink" THEN {c.entry} ELSE {},
         WellPlaced(c), Sees(c, pos, nx)', Carries(c)', Leads(c)', c.request.op # "get"
  PROVE  ChainInv'
  <1>1. /\ call \in [Threads -> Calls \cup {NULL}] /\ c # NULL /\ t \in Threads
        /\ call'[t] = c /\ \A u \in Threads \ {t} : call'[u] = NULL
    <2>1. t \in Threads /\ call \in [Threads -> Calls \cup {NULL}]
      BY DEF Writers, IInv, ChainInv, Typed
    <2> QED BY <2>1, Alone, NullAssumption
  <1>2. Typed'
    BY <1>1 DEF Typed
  <1>3. Readers' = Readers /\ Writers' = Writers /\ UNCHANGED pc
    BY DEF vars, Readers, Writers
  <1>4. \A u \in Threads : (call'[u] # NULL) <=> (u \in Readers' \cup Writers')
    <2>1. Readers = {} /\ Writers = {t}
      BY DEF IInv, Inv, Exclusion
    <2> QED BY <1>1, <1>3, <2>1
  <1>5. Deleted' = deleted
    <2>1. \A u \in Threads : At(u, "unlink")' <=> u = t /\ c.at = "unlink"
      BY <1>1 DEF At
    <2> QED BY <1>1, <2>1 DEF Deleted
  <1>6. ASSUME NEW u \in Threads, call'[u] # NULL PROVE Local(u, call[u], pos, nx)'
    <2>1. u = t
      BY <1>1, <1>6
    <2>2. WellPlaced(call[t])'
      BY <1>1 DEF WellPlaced
    <2>3. Sees(call[t], pos, nx)'
      BY <1>1 DEF Sees, NoneHas
    <2>4. Carries(call[t])'
      BY <1>1 DEF Carries, Result, NoneHas
    <2>5. Leads(call[t])'
      BY <1>1 DEF Leads, Represents, EffectOn, Answer, NoneHas
    <2>6. t \notin Readers /\ pc'[t] = "writing"
      BY <1>3 DEF Readers, Writers
    <2> QED BY <1>1, <1>3, <2>1, <2>2, <2>3, <2>4, <2>5, <2>6 DEF Local
  <1>7. Ghosts(pos, nx)'
    BY <1>5, <1>6 DEF Ghosts
  <1> QED BY <1>2, <1>4, <1>7 DEF ChainInv

(* What a put or an increment carries is what it makes of its key. *)
LEMMA CarriesEffect ==
  ASSUME NEW c \in Calls, Typed, c.at \in PutPlaces, WellPlaced(c), Carries(c), Leads(c)
  PROVE  c.value = EffectOn(before, c.request) /\ c.value \in Int /\ c.request.op \in {"put", "increment"}
  <1>1. c.request.op \in {"put", "increment"} /\ c.request.key \in Keys
    BY DEF WellPlaced, GetPlaces, PutPlaces, RemovePlaces, Calls, Requests
  <1>2. CASE c.request.op = "put"
    BY <1>1, <1>2 DEF Carries, EffectOn, Calls
  <1>3. CASE c.request.op = "increment"
    <2>1. PICK v \in Int : Result(c.request.key, v) /\ c.value = v + c.request.arg
      BY <1>3 DEF Carries
    <2>2. Represents(before)
      BY DEF Leads, PutPlaces
    <2>3. v = Answer(before, c.request.key)
      BY <1>1, <2>1, <2>2, Answered
    <2> QED BY <1>1, <1>3, <2>1, <2>3 DEF EffectOn, Calls
  <1> QED BY <1>1, <1>2, <1>3

(* The entry e of the key has been given its value. *)
LEMMA PutLeads ==
  ASSUME NEW c \in Calls, Typed, c.at \in PutPlaces, WellPlaced(c), Carries(c), Leads(c),
         UNCHANGED before, NEW e, allocated' = allocated \cup {e},
         heap'[e].key = c.request.key, heap'[e].value = c.value,
         \A f \in allocated \ {e} : /\ heap[f].key # c.request.key
                                    /\ heap'[f].key = heap[f].key /\ heap'[f].value = heap[f].value,
         \A f \in allocated : heap[f].key \in Keys,
         e \in allocated => heap[e].key = c.request.key,
         NEW d, d.at = "done", d.request = c.request
  PROVE  Leads(d)'
  <1> DEFINE k == c.request.key
             w == c.value
  <1>0. PICK m : m = [before EXCEPT ![k] = w]
    OBVIOUS
  <1>1. w = EffectOn(before, c.request) /\ w \in Int /\ k \in Keys
    BY CarriesEffect DEF Calls, Requests
  <1>2. before \in [Keys -> Int \cup {NULL}] /\ Represents(before)
    BY DEF Leads, PutPlaces
  <1>3. m \in [Keys -> Int \cup {NULL}] /\ m[k] = w /\ \A j \in Keys \ {k} : m[j] = before[j]
    BY <1>0, <1>1, <1>2
  <1>4. \A f \in allocated' : m[heap'[f].key] = heap'[f].value
    BY <1>2, <1>3 DEF Represents
  <1>5. ASSUME NEW j \in Keys, \A f \in allocated' : heap'[f].key # j PROVE m[j] = NULL
    <2>1. j # k /\ \A f \in allocated : heap[f].key # j
      BY <1>5
    <2> QED BY <1>2, <1>3, <2>1 DEF Represents, NoneHas
  <1>6. Represents(m)'
    BY <1>3, <1>4, <1>5 DEF Represents, NoneHas
  <1>7. EffectOn(before, d.request)' = w
    BY <1>1 DEF EffectOn, Answer
  <1> QED BY <1>0, <1>2, <1>6, <1>7 DEF Leads

LEMMA PutWriter ==
  ASSUME IInv, NEW pos, NEW nx, Ghosts(pos, nx), NEW t \in Threads, pc[t] \in {"reading", "writing"},
         call[t] # NULL, call[t].at \in PutPlaces \cup RemovePlaces, NEW c, c = call[t]
  PROVE  /\ t \in Writers /\ pc[t] = "writing" /\ c \in Calls /\ c.request.key \in Keys /\ Typed
         /\ WellPlaced(c) /\ Sees(c, pos, nx) /\ Carries(c) /\ Leads(c)
         /\ pos \in [Entries -> Nat] /\ nx \in [Entries -> Entries \cup {NULL}]
         /\ call \in [Threads -> Calls \cup {NULL}] /\ NULL \notin Entries
         /\ c.request.op # "get"
  <1>1. c \in Calls /\ Typed /\ Local(t, c, pos, nx)
    BY DEF IInv, ChainInv, Typed, Ghosts
  <1>2. c.request.op # "get"
    BY <1>1 DEF Local, WellPlaced, GetPlaces, PutPlaces, RemovePlaces
  <1>3. t \in Writers
    <2>1. t \in Readers \cup Writers
      BY DEF IInv, ChainInv
    <2> QED BY <1>1, <1>2, <2>1 DEF Local
  <1>4. pc[t] = "writing"
    BY <1>3 DEF Writers
  <1> QED BY <1>1, <1>2, <1>3, <1>4, ChainAssumption DEF Local, Typed, Ghosts, Calls, Requests

(* A call that is done. *)
LEMMA OverPlaced ==
  ASSUME NEW c, NEW d, NEW pos, NEW nx, WellPlaced(c), c.request.op # "get",
         c.request.op \in {"put", "increment", "remove"}, d.request = c.request, d.at = "done",
         d.entry = NULL, d.prev = NULL, d.value = c.value,
         c.request.op = "put" => c.value = c.request.arg
  PROVE  WellPlaced(d) /\ Sees(d, pos, nx)' /\ Carries(d)'
  BY DEF WellPlaced, Sees, Carries, GetPlaces, PutPlaces, RemovePlaces

LEMMA PutFirstInv ==
  ASSUME IInv, NEW pos, NEW nx, Ghosts(pos, nx), NEW t \in Threads, pc[t] \in {"reading", "writing"},
         At(t, "putNothing"), PutFirst(t), UNCHANGED <<vars, before>>
  PROVE  ChainInv'
  <1> DEFINE c == call[t]
             n == [key |-> c.request.key, value |-> c.value, next |-> NULL]
  <1>0. call[t] # NULL /\ call[t].at = "putNothing" /\ call[t].at \in PutPlaces /\ call[t].at # "unlink"
    BY DEF At, PutPlaces
  <1>1. /\ t \in Writers /\ pc[t] = "writing" /\ c \in Calls /\ c.request.key \in Keys /\ Typed
        /\ WellPlaced(c) /\ Sees(c, pos, nx) /\ Carries(c) /\ Leads(c)
        /\ pos \in [Entries -> Nat] /\ nx \in [Entries -> Entries \cup {NULL}]
        /\ call \in [Threads -> Calls \cup {NULL}] /\ NULL \notin Entries /\ c.request.op # "get"
    BY <1>0, PutWriter
  <1>2. allocated = {}
    <2>1. head = NULL /\ ListOK(pos, nx, {})
      BY <1>0, <1>1, Walker DEF Sees
    <2> QED BY <2>1 DEF ListOK, Linked
  <1>3. PICK e \in Entries : /\ allocated' = {e} /\ heap' = [heap EXCEPT ![e] = n] /\ head' = e
                             /\ Over(t)
    BY <1>2 DEF PutFirst, New, NewEntry
  <1>4. PICK d \in Calls : /\ call' = [call EXCEPT ![t] = d] /\ d.request = c.request /\ d.at = "done"
                           /\ d.entry = NULL /\ d.prev = NULL /\ d.value = c.value
    BY <1>1, <1>3, IsOver
  <1>5. heap' \in [Entries -> [key : Keys \cup {NULL}, value : Int, next : Entries \cup {NULL}]] /\ heap'[e] = n
    BY <1>1, <1>3 DEF Typed, Calls
  <1>6. c.request.op \in {"put", "increment"}
    BY <1>0, <1>1, CarriesEffect
  <1>7. WellPlaced(d) /\ Sees(d, pos, [nx EXCEPT ![e] = NULL])' /\ Carries(d)'
    <2>1. c.request.op = "put" => c.value = c.request.arg
      BY <1>1 DEF Carries
    <2> QED BY <1>1, <1>4, <1>6, <2>1, OverPlaced
  <1>8. Leads(d)'
    <2>1. heap'[e].key = c.request.key /\ heap'[e].value = c.value
      BY <1>5
    <2> QED BY <1>0, <1>1, <1>2, <1>3, <1>4, <2>1, PutLeads
  <1> DEFINE y == [nx EXCEPT ![e] = NULL]
  <1>9. y \in [Entries -> Entries \cup {NULL}] /\ y[e] = NULL
    BY <1>1
  <1> HIDE DEF y
  <1>10. ListOK(pos, y, {})'
    <2>1. Linked(pos, y, {e})'
      <3>1. pos[e] \in Nat /\ e # NULL
        BY <1>1
      <3> QED BY <1>3, <1>9, <3>1 DEF Linked
    <2>2. y[e] = heap'[e].next /\ heap'[e].key \in Keys
      BY <1>1, <1>5, <1>9
    <2> QED BY <1>3, <2>1, <2>2 DEF ListOK
  <1>11. head' \in Entries \cup {NULL} /\ allocated' \subseteq Entries
    BY <1>3
  <1>12. WellPlaced(d) /\ Sees(d, pos, y)' /\ Carries(d)'
    BY <1>7 DEF y
  <1>13. /\ t \in Writers /\ pc[t] = "writing" /\ d.request.op # "get" /\ pos \in [Entries -> Nat]
         /\ {} = IF d.at = "unlink" THEN {d.entry} ELSE {}
    BY <1>1, <1>4
  <1>14. /\ call' = [call EXCEPT ![t] = d] /\ y \in [Entries -> Entries \cup {NULL}]
         /\ heap' \in [Entries -> [key : Keys \cup {NULL}, value : Int, next : Entries \cup {NULL}]]
    BY <1>4, <1>5, <1>9
  <1> HIDE DEF c, n
  <1> QED BY <1>0, <1>8, <1>10, <1>11, <1>12, <1>13, <1>14, WriterStep

LEMMA PutValueInv ==
  ASSUME IInv, NEW pos, NEW nx, Ghosts(pos, nx), NEW t \in Threads, pc[t] \in {"reading", "writing"},
         At(t, "putValue"), PutValue(t), UNCHANGED <<vars, before>>
  PROVE  ChainInv'
  <1> DEFINE c == call[t]
  <1>0. call[t] # NULL /\ call[t].at = "putValue" /\ call[t].at \in PutPlaces /\ call[t].at # "unlink"
    BY DEF At, PutPlaces
  <1>1. /\ t \in Writers /\ pc[t] = "writing" /\ c \in Calls /\ c.request.key \in Keys /\ Typed
        /\ WellPlaced(c) /\ Sees(c, pos, nx) /\ Carries(c) /\ Leads(c)
        /\ pos \in [Entries -> Nat] /\ nx \in [Entries -> Entries \cup {NULL}]
        /\ call \in [Threads -> Calls \cup {NULL}] /\ NULL \notin Entries /\ c.request.op # "get"
    BY <1>0, PutWriter
  <1>2. PICK e : e = c.entry
    OBVIOUS
  <1>3. e \in allocated /\ heap[e].key = c.request.key /\ e \in Entries
    BY <1>0, <1>1, <1>2 DEF Sees, Typed
  <1>4. heap' = [heap EXCEPT ![e].value = c.value] /\ Over(t) /\ UNCHANGED <<head, allocated>>
    BY <1>2 DEF PutValue
  <1>5. PICK d \in Calls : /\ call' = [call EXCEPT ![t] = d] /\ d.request = c.request /\ d.at = "done"
                           /\ d.entry = NULL /\ d.prev = NULL /\ d.value = c.value
    BY <1>1, <1>4, IsOver
  <1>6. /\ heap' \in [Entries -> [key : Keys \cup {NULL}, value : Int, next : Entries \cup {NULL}]]
        /\ heap'[e].value = c.value /\ \A f \in Entries : heap'[f].key = heap[f].key /\ heap'[f].next = heap[f].next
        /\ \A f \in Entries \ {e} : heap'[f].value = heap[f].value
    BY <1>1, <1>3, <1>4 DEF Typed, Calls
  <1>7. ListOK(pos, nx, {}) /\ \A f \in allocated : f \in Entries
    BY <1>0, Walker
  <1>8. ListOK(pos, nx, {})'
    <2>1. Linked(pos, nx, allocated)'
      BY <1>4, <1>7 DEF ListOK, Linked
    <2> QED BY <1>4, <1>6, <1>7, <2>1 DEF ListOK
  <1>9. c.request.op \in {"put", "increment"}
    BY <1>0, <1>1, CarriesEffect
  <1>10. WellPlaced(d) /\ Sees(d, pos, nx)' /\ Carries(d)'
    <2>1. c.request.op = "put" => c.value = c.request.arg
      BY <1>1 DEF Carries
    <2> QED BY <1>1, <1>5, <1>9, <2>1, OverPlaced
  <1>11. Leads(d)'
    <2>1. /\ allocated' = allocated \cup {e} /\ heap'[e].key = c.request.key /\ heap'[e].value = c.value
      BY <1>3, <1>4, <1>6
    <2>2. \A f \in allocated : heap[f].key \in Keys
      BY <1>7 DEF ListOK
    <2>3. \A f \in allocated \ {e} : /\ heap[f].key # c.request.key
                                     /\ heap'[f].key = heap[f].key /\ heap'[f].value = heap[f].value
      BY <1>3, <1>6, <1>7 DEF ListOK
    <2> QED BY <1>0, <1>1, <1>3, <1>5, <2>1, <2>2, <2>3, PutLeads
  <1>12. head' \in Entries \cup {NULL} /\ allocated' \subseteq Entries
    BY <1>1, <1>4 DEF Typed
  <1> QED BY <1>0, <1>1, <1>5, <1>6, <1>8, <1>10, <1>11, <1>12, WriterStep

LEMMA PutEndInv ==
  ASSUME IInv, NEW pos, NEW nx, Ghosts(pos, nx), NEW t \in Threads, pc[t] \in {"reading", "writing"},
         At(t, "putEnd"), PutEnd(t), UNCHANGED <<vars, before>>
  PROVE  ChainInv'
  <1> DEFINE c == call[t]
             n == [key |-> c.request.key, value |-> c.value, next |-> NULL]
  <1>0. call[t] # NULL /\ call[t].at = "putEnd" /\ call[t].at \in PutPlaces /\ call[t].at # "unlink"
    BY DEF At, PutPlaces
  <1>1. /\ t \in Writers /\ pc[t] = "writing" /\ c \in Calls /\ c.request.key \in Keys /\ Typed
        /\ WellPlaced(c) /\ Sees(c, pos, nx) /\ Carries(c) /\ Leads(c)
        /\ pos \in [Entries -> Nat] /\ nx \in [Entries -> Entries \cup {NULL}]
        /\ call \in [Threads -> Calls \cup {NULL}] /\ NULL \notin Entries /\ c.request.op # "get"
    BY <1>0, PutWriter
  <1>2. PICK l : l = c.entry
    OBVIOUS
  <1>3. l \in allocated /\ heap[l].next = NULL /\ NoneHas(allocated, c.request.key) /\ l \in Entries
    BY <1>0, <1>1, <1>2 DEF Sees, Typed
  <1>4. PICK e \in Entries : /\ e \notin allocated /\ allocated' = allocated \cup {e}
                             /\ heap' = [heap EXCEPT ![e] = n, ![l].next = e] /\ UNCHANGED head
                             /\ Over(t)
    BY <1>2 DEF PutEnd, New, NewEntry
  <1>5. PICK d \in Calls : /\ call' = [call EXCEPT ![t] = d] /\ d.request = c.request /\ d.at = "done"
                           /\ d.entry = NULL /\ d.prev = NULL /\ d.value = c.value
    BY <1>1, <1>4, IsOver
  <1>6. n \in [key : Keys \cup {NULL}, value : Int, next : Entries \cup {NULL}]
    BY <1>1 DEF Calls
  <1>7. /\ heap' \in [Entries -> [key : Keys \cup {NULL}, value : Int, next : Entries \cup {NULL}]]
        /\ heap'[e] = n /\ heap'[l].next = e
        /\ \A f \in Entries \ {e} : heap'[f].key = heap[f].key /\ heap'[f].value = heap[f].value
        /\ \A f \in Entries \ {e, l} : heap'[f].next = heap[f].next
    <2>1. l # e
      BY <1>3, <1>4
    <2> HIDE DEF n
    <2> QED BY <1>1, <1>3, <1>4, <1>6, <2>1 DEF Typed
  <1>8. ListOK(pos, nx, {}) /\ allocated \subseteq Entries
    BY <1>0, Walker
  <1>9. c.request.op \in {"put", "increment"}
    BY <1>0, <1>1, CarriesEffect
  <1>a. PICK p : p = [pos EXCEPT ![e] = pos[l] + 1]
    OBVIOUS
  <1>b. PICK y : y = [nx EXCEPT ![e] = NULL, ![l] = e]
    OBVIOUS
  <1>10. WellPlaced(d) /\ Sees(d, p, y)' /\ Carries(d)'
    <2>1. c.request.op = "put" => c.value = c.request.arg
      BY <1>1 DEF Carries
    <2> QED BY <1>1, <1>5, <1>9, <2>1, OverPlaced
  <1>11. Leads(d)'
    <2>1. heap'[e].key = c.request.key /\ heap'[e].value = c.value
      BY <1>7
    <2>2. \A f \in allocated : heap[f].key \in Keys
      BY <1>8 DEF ListOK
    <2>3. \A f \in allocated \ {e} : /\ heap[f].key # c.request.key
                                     /\ heap'[f].key = heap[f].key /\ heap'[f].value = heap[f].value
      BY <1>3, <1>7, <1>8 DEF NoneHas
    <2> QED BY <1>0, <1>1, <1>4, <1>5, <2>1, <2>2, <2>3, PutLeads
  <1>12. /\ p \in [Entries -> Nat] /\ y \in [Entries -> Entries \cup {NULL}]
         /\ p[e] = pos[l] + 1 /\ y[e] = NULL /\ y[l] = e
         /\ \A f \in allocated : p[f] = pos[f] /\ p[f] \in Nat
         /\ \A f \in allocated \ {l} : y[f] = nx[f]
    BY <1>1, <1>3, <1>4, <1>8, <1>a, <1>b
  <1> HIDE DEF n
  <1>13. ListOK(p, y, {})'
    <2>1. /\ Linked(pos, nx, allocated) /\ \A f \in allocated : nx[f] = heap[f].next /\ heap[f].key \in Keys
          /\ \A f, g \in allocated : heap[f].key = heap[g].key => f = g
      BY <1>8 DEF ListOK
    <2>2. \A f \in allocated : p[f] < p[e] /\ p[f] \in Nat /\ p[e] \in Nat /\ p[f] <= p[l]
      <3>1. \A f \in allocated : pos[f] <= pos[l]
        BY <1>3, <2>1 DEF Linked
      <3> QED BY <1>3, <1>12, <3>1
    <2>3. Linked(p, y, allocated)'
      <3> DEFINE S == allocated'
      <3>1. head' # NULL /\ head' \in S /\ \A f \in S : p[head'] <= p[f]
        <4>1. head # NULL /\ head \in allocated /\ \A f \in allocated : pos[head] <= pos[f]
          BY <1>3, <2>1 DEF Linked
        <4>2. \A f \in allocated : p[head] <= p[f]
          BY <1>12, <4>1
        <4>3. p[head] <= p[e]
          BY <2>2, <4>1
        <4> QED BY <1>4, <4>1, <4>2, <4>3
      <3>2. \A f \in S : y[f] = NULL => \A g \in S : p[g] <= p[f]
        <4>1. ASSUME NEW f \in allocated, y[f] = NULL PROVE FALSE
          <5>1. f # l
            BY <1>1, <1>4, <1>12, <4>1
          <5>2. nx[f] = NULL
            BY <1>12, <4>1, <5>1
          <5>3. pos[l] <= pos[f] /\ pos[f] <= pos[l]
            BY <1>3, <2>1, <4>1, <5>2 DEF Linked
          <5>4. pos[l] = pos[f]
            BY <1>3, <1>12, <4>1, <5>3
          <5> QED BY <1>3, <2>1, <4>1, <5>1, <5>4 DEF Linked
        <4>2. \A g \in S : p[g] <= p[e]
          BY <1>3, <1>4, <2>2
        <4> QED BY <1>4, <4>1, <4>2
      <3>3. \A f \in S : y[f] # NULL => /\ y[f] \in S /\ p[f] < p[y[f]]
                                        /\ \A g \in S : p[g] <= p[f] \/ p[y[f]] <= p[g]
        <4> SUFFICES ASSUME NEW f \in S, y[f] # NULL
                     PROVE  /\ y[f] \in S /\ p[f] < p[y[f]]
                            /\ \A g \in S : p[g] <= p[f] \/ p[y[f]] <= p[g]
          OBVIOUS
        <4>1. f \in allocated
          BY <1>4, <1>12
        <4>2. CASE f = l
          <5>1. y[f] = e /\ p[f] < p[e]
            BY <1>12, <2>2, <4>1, <4>2
          <5>2. \A g \in S : p[g] <= p[f] \/ p[e] <= p[g]
            BY <1>3, <1>4, <2>2, <4>2
          <5> QED BY <1>4, <5>1, <5>2
        <4>3. CASE f # l
          <5>1. y[f] = nx[f] /\ nx[f] # NULL
            BY <1>12, <4>1, <4>3
          <5>2. nx[f] \in allocated /\ pos[f] < pos[nx[f]] /\ \A g \in allocated : pos[g] <= pos[f] \/ pos[nx[f]] <= pos[g]
            BY <2>1, <4>1, <5>1 DEF Linked
          <5>3. \A g \in allocated : p[g] <= p[f] \/ p[nx[f]] <= p[g]
            BY <1>12, <4>1, <5>2
          <5>4. p[nx[f]] <= p[e]
            BY <2>2, <5>2
          <5>5. p[f] < p[nx[f]]
            BY <1>12, <4>1, <5>2
          <5> QED BY <1>4, <5>1, <5>2, <5>3, <5>4, <5>5
        <4> QED BY <4>2, <4>3
      <3>4. \A f, g \in S : p[f] = p[g] => f = g
        <4>1. \A f, g \in allocated : p[f] = p[g] => f = g
          BY <1>12, <2>1 DEF Linked
        <4>2. \A f \in allocated : p[f] # p[e]
          BY <2>2
        <4> QED BY <1>4, <4>1, <4>2
      <3> QED BY <3>1, <3>2, <3>3, <3>4 DEF Linked
    <2>4. \A f \in allocated' : y[f] = heap'[f].next /\ heap'[f].key \in Keys
      <3>1. y[e] = heap'[e].next /\ heap'[e].key \in Keys
        BY <1>1, <1>7, <1>12 DEF n
      <3>2. y[l] = heap'[l].next
        BY <1>7, <1>12
      <3>3. \A f \in allocated : heap'[f].key = heap[f].key
        BY <1>4, <1>7, <1>8
      <3>4. \A f \in allocated \ {l} : y[f] = heap'[f].next
        BY <1>4, <1>7, <1>8, <1>12, <2>1
      <3> QED BY <1>4, <2>1, <3>1, <3>2, <3>3, <3>4
    <2>5. \A f, g \in allocated' : heap'[f].key = heap'[g].key => f = g
      <3>1. \A f \in allocated : heap'[f].key = heap[f].key /\ heap'[f].key # heap'[e].key
        BY <1>3, <1>4, <1>7, <1>8 DEF NoneHas, n
      <3> QED BY <1>4, <2>1, <3>1
    <2> QED BY <2>3, <2>4, <2>5 DEF ListOK
  <1>14. head' \in Entries \cup {NULL} /\ allocated' \subseteq Entries
    BY <1>1, <1>4 DEF Typed
  <1>15. /\ p \in [Entries -> Nat] /\ y \in [Entries -> Entries \cup {NULL}]
         /\ heap' \in [Entries -> [key : Keys \cup {NULL}, value : Int, next : Entries \cup {NULL}]]
    BY <1>7, <1>12
  <1>16. /\ t \in Writers /\ pc[t] = "writing" /\ d.request.op # "get"
         /\ {} = IF d.at = "unlink" THEN {d.entry} ELSE {}
    BY <1>1, <1>5
  <1>17. call' = [call EXCEPT ![t] = d]
    BY <1>5
  <1> HIDE DEF c
  <1> QED BY <1>0, <1>10, <1>11, <1>13, <1>14, <1>15, <1>16, <1>17, WriterStep

LEMMA DeleteInv ==
  ASSUME IInv, NEW pos, NEW nx, Ghosts(pos, nx), NEW t \in Threads, pc[t] \in {"reading", "writing"},
         At(t, "delete"), Delete(t), UNCHANGED <<vars, before>>
  PROVE  ChainInv'
  <1> DEFINE c == call[t]
             k == c.request.key
  <1>0. call[t] # NULL /\ call[t].at = "delete" /\ call[t].at \in RemovePlaces /\ call[t].at # "unlink"
    BY DEF At, RemovePlaces
  <1>1. /\ t \in Writers /\ pc[t] = "writing" /\ c \in Calls /\ k \in Keys /\ Typed
        /\ WellPlaced(c) /\ Sees(c, pos, nx) /\ Carries(c) /\ Leads(c)
        /\ pos \in [Entries -> Nat] /\ nx \in [Entries -> Entries \cup {NULL}]
        /\ call \in [Threads -> Calls \cup {NULL}] /\ NULL \notin Entries /\ c.request.op # "get"
    BY <1>0, PutWriter
  <1>2. PICK e, v : e = c.entry /\ v = c.prev
    OBVIOUS
  <1>3. /\ e \in allocated /\ heap[e].key = k /\ e \in Entries
        /\ \/ v = NULL /\ head = e
           \/ v \in allocated /\ heap[v].next = e
    BY <1>0, <1>1, <1>2 DEF Sees, Typed
  <1>4. PICK d : d = call'[t]
    OBVIOUS
  <1>5. /\ heap' = [heap EXCEPT ![e] = Unused] /\ allocated' = allocated \ {e} /\ UNCHANGED head
        /\ call' = [call EXCEPT ![t] = d] /\ d \in Calls /\ d.request = c.request /\ d.at = "unlink"
        /\ d.entry = e /\ d.prev = v /\ d.value = c.value /\ d.next = heap[e].next
    <2>1. /\ heap' = [heap EXCEPT ![e] = Unused] /\ allocated' = allocated \ {e} /\ UNCHANGED head
          /\ call' = [call EXCEPT ![t].next = heap[e].next, ![t].at = "unlink"]
      BY <1>2 DEF Delete
    <2>2. heap[e].next \in Entries \cup {NULL}
      BY <1>1, <1>3 DEF Typed
    <2> QED BY <1>1, <1>2, <1>4, <2>1, <2>2 DEF Calls, Places
  <1>6. /\ heap' \in [Entries -> [key : Keys \cup {NULL}, value : Int, next : Entries \cup {NULL}]]
        /\ \A f \in Entries \ {e} : heap'[f] = heap[f]
    <2>1. Unused \in [key : Keys \cup {NULL}, value : Int, next : Entries \cup {NULL}]
      BY DEF Unused
    <2> QED BY <1>1, <1>3, <1>5, <2>1 DEF Typed
  <1>7. /\ Linked(pos, nx, allocated) /\ \A f \in allocated : nx[f] = heap[f].next /\ heap[f].key \in Keys
        /\ \A f, g \in allocated : heap[f].key = heap[g].key => f = g
        /\ allocated \subseteq Entries
    BY <1>0, Walker DEF ListOK
  <1>8. ListOK(pos, nx, {e})'
    <2>1. allocated' \cup {e} = allocated
      BY <1>3, <1>5
    <2>2. PICK S : S = allocated
      OBVIOUS
    <2>4. Linked(pos, nx, S)'
      BY <1>5, <1>7, <2>2 DEF Linked
    <2>5. Linked(pos, nx, allocated \cup {e})'
      BY <2>1, <2>2, <2>4 DEF Linked
    <2>3. \A f \in allocated' : f \in allocated /\ heap'[f] = heap[f]
      BY <1>5, <1>6, <1>7
    <2> QED BY <1>7, <2>3, <2>5 DEF ListOK
  <1>9. c.request.op = "remove"
    BY <1>0, <1>1 DEF WellPlaced, GetPlaces, PutPlaces, RemovePlaces, Calls, Requests
  <1>10. WellPlaced(d) /\ Carries(d)'
    BY <1>5, <1>9 DEF WellPlaced, Carries, RemovePlaces, GetPlaces, PutPlaces
  <1>11. NoneHas(allocated, k)'
    BY <1>3, <1>5, <1>6, <1>7 DEF NoneHas
  <1>12. Sees(d, pos, nx)'
    <2>1. v \in allocated /\ heap[v].next = e => v # e /\ heap'[v] = heap[v] /\ v \in allocated'
      <3> SUFFICES ASSUME v \in allocated, heap[v].next = e PROVE v # e /\ heap'[v] = heap[v] /\ v \in allocated'
        OBVIOUS
      <3>1. nx[v] = e /\ e # NULL
        BY <1>1, <1>3, <1>7
      <3>2. pos[v] < pos[e] /\ pos[v] \in Nat /\ pos[e] \in Nat
        BY <1>1, <1>3, <1>7, <3>1 DEF Linked
      <3>3. v # e
        BY <3>2
      <3> QED BY <1>5, <1>6, <1>7, <3>3
    <2>2. \/ v = NULL /\ head' = e
          \/ v \in allocated' /\ heap'[v].next = e
      BY <1>3, <1>5, <2>1
    <2>3. nx[e] = d.next /\ e \in Entries \ allocated'
      BY <1>3, <1>5, <1>7
    <2>4. NoneHas(allocated, d.request.key)'
      BY <1>5, <1>11
    <2> QED BY <1>5, <2>2, <2>3, <2>4 DEF Sees
  <1>13. Leads(d)'
    <2>1. before \in [Keys -> Int \cup {NULL}] /\ Represents(before)
      BY <1>0, <1>1 DEF Leads
    <2>2. PICK m : m = [before EXCEPT ![k] = NULL]
      OBVIOUS
    <2>3. m \in [Keys -> Int \cup {NULL}] /\ m[k] = NULL /\ \A j \in Keys \ {k} : m[j] = before[j]
      BY <1>1, <2>1, <2>2
    <2>4. ASSUME NEW f \in allocated' PROVE m[heap'[f].key] = heap'[f].value
      <3>1. f \in allocated /\ f # e /\ heap'[f] = heap[f]
        BY <1>5, <1>6, <1>7, <2>4
      <3>2. heap[f].key \in Keys \ {k}
        BY <1>3, <1>7, <3>1
      <3> QED BY <2>1, <2>3, <3>1, <3>2 DEF Represents
    <2>5. ASSUME NEW j \in Keys, NoneHas(allocated, j)' PROVE m[j] = NULL
      <3>1. CASE j = k
        BY <2>3, <3>1
      <3>2. CASE j # k
        <4>1. NoneHas(allocated, j)
          BY <1>3, <1>5, <1>6, <1>7, <2>5, <3>2 DEF NoneHas
        <4> QED BY <2>1, <2>3, <3>2, <4>1 DEF Represents
      <3> QED BY <3>1, <3>2
    <2>6. Represents(m)'
      BY <2>3, <2>4, <2>5 DEF Represents
    <2>7. EffectOn(before, d.request)' = NULL
      BY <1>5, <1>9 DEF EffectOn
    <2> QED BY <1>5, <2>1, <2>2, <2>6, <2>7 DEF Leads
  <1>14. head' \in Entries \cup {NULL} /\ allocated' \subseteq Entries
    BY <1>1, <1>5 DEF Typed
  <1>15. d.request.op # "get" /\ {e} = IF d.at = "unlink" THEN {d.entry} ELSE {}
    BY <1>5, <1>9
  <1> QED BY <1>0, <1>1, <1>5, <1>6, <1>8, <1>10, <1>12, <1>13, <1>14, <1>15, WriterStep

(* The list without e, which came first or after v. *)
LEMMA LinkedWithout ==
  ASSUME NEW pos, NEW nx, NEW S, NEW e, NEW v, NEW y, Linked(pos, nx, S \cup {e}), e \notin S, e # NULL,
         NULL \notin S, \A f \in S \cup {e} : pos[f] \in Nat,
         \/ v = NULL /\ head = e /\ head' = nx[e] /\ \A f \in S : y[f] = nx[f]
         \/ /\ v \in S /\ nx[v] = e /\ UNCHANGED head
            /\ y[v] = nx[e] /\ \A f \in S \ {v} : y[f] = nx[f]
  PROVE  Linked(pos, y, S)'
  <1> DEFINE A == S \cup {e}
  <1>1. /\ head # NULL /\ head \in A /\ \A f \in A : pos[head] <= pos[f]
        /\ \A f \in A : nx[f] = NULL => \A g \in A : pos[g] <= pos[f]
        /\ \A f \in A : nx[f] # NULL => /\ nx[f] \in A /\ pos[f] < pos[nx[f]]
                                        /\ \A g \in A : pos[g] <= pos[f] \/ pos[nx[f]] <= pos[g]
        /\ \A f, g \in A : pos[f] = pos[g] => f = g
    BY DEF Linked
  <1>2. \A f, g \in S : pos[f] = pos[g] => f = g
    BY <1>1
  <1>3. ASSUME NEW f \in S PROVE pos[f] # pos[e] /\ pos[f] \in Nat /\ pos[e] \in Nat
    BY <1>1
  <1>4. nx[e] # NULL => nx[e] \in S /\ pos[e] < pos[nx[e]]
    <2>1. nx[e] # NULL => nx[e] \in A /\ pos[e] < pos[nx[e]]
      BY <1>1
    <2> QED BY <2>1
  <1>5. CASE v = NULL /\ head = e /\ head' = nx[e] /\ \A f \in S : y[f] = nx[f]
    <2>1. \A f \in S : pos[e] < pos[f]
      BY <1>1, <1>3, <1>5
    <2>2. head' = NULL => S = {}
      <3> SUFFICES ASSUME nx[e] = NULL, NEW f \in S PROVE FALSE
        BY <1>5
      <3>1. pos[f] <= pos[e]
        BY <1>1
      <3> QED BY <1>3, <2>1, <3>1
    <2>3. head' # NULL => head' \in S /\ \A f \in S : pos[head'] <= pos[f]
      <3> SUFFICES ASSUME nx[e] # NULL PROVE nx[e] \in S /\ \A f \in S : pos[nx[e]] <= pos[f]
        BY <1>5
      <3>1. \A f \in S : pos[f] <= pos[e] \/ pos[nx[e]] <= pos[f]
        BY <1>1
      <3>2. \A f \in S : ~(pos[f] <= pos[e])
        BY <1>3, <2>1
      <3> QED BY <1>4, <3>1, <3>2
    <2>4. \A f \in S : y[f] = NULL => \A g \in S : pos[g] <= pos[f]
      BY <1>1, <1>5
    <2>5. \A f \in S : y[f] # NULL => y[f] \in S
      <3> SUFFICES ASSUME NEW f \in S, nx[f] # NULL PROVE nx[f] \in S
        BY <1>5
      <3>1. nx[f] \in A /\ pos[f] < pos[nx[f]]
        BY <1>1
      <3>2. nx[f] # e
        BY <1>3, <2>1, <3>1
      <3> QED BY <3>1, <3>2
    <2>6. \A f \in S : y[f] # NULL => pos[f] < pos[y[f]] /\ \A g \in S : pos[g] <= pos[f] \/ pos[y[f]] <= pos[g]
      BY <1>1, <1>5
    <2> HIDE DEF A
    <2> QED BY <1>2, <2>2, <2>3, <2>4, <2>5, <2>6 DEF Linked
  <1>6. CASE /\ v \in S /\ nx[v] = e /\ UNCHANGED head
             /\ y[v] = nx[e] /\ \A f \in S \ {v} : y[f] = nx[f]
    <2>1. pos[v] < pos[e] /\ \A f \in A : pos[f] <= pos[v] \/ pos[e] <= pos[f]
      BY <1>1, <1>6
    <2>2. head' # NULL /\ head' \in S /\ \A f \in S : pos[head'] <= pos[f]
      <3>1. pos[head] <= pos[v]
        BY <1>1, <1>6
      <3>2. head # e
        BY <1>3, <1>6, <2>1, <3>1
      <3> QED BY <1>1, <1>6, <3>2
    <2>3. ASSUME NEW f \in S \ {v}, nx[f] # NULL PROVE nx[f] \in S
      <3>1. nx[f] \in A /\ pos[f] < pos[nx[f]] /\ (pos[v] <= pos[f] \/ pos[nx[f]] <= pos[v])
        BY <1>1, <1>6, <2>3
      <3>2. ASSUME nx[f] = e PROVE FALSE
        <4>1. pos[v] \in Nat /\ pos[f] \in Nat /\ pos[e] \in Nat
          BY <1>3, <1>6
        <4>2. pos[f] <= pos[v] \/ pos[e] <= pos[f]
          BY <2>1
        <4>3. pos[f] = pos[v]
          BY <2>1, <3>1, <3>2, <4>1, <4>2
        <4> QED BY <1>1, <1>6, <4>3
      <3> QED BY <3>1, <3>2
    <2>4. \A f \in S : pos[f] <= pos[v] \/ pos[e] < pos[f]
      BY <1>3, <2>1
    <2>5. \A f \in S : y[f] = NULL => \A g \in S : pos[g] <= pos[f]
      <3>1. ASSUME y[v] = NULL, NEW g \in S PROVE pos[g] <= pos[v]
        <4>1. pos[g] <= pos[e]
          BY <1>1, <1>6, <3>1
        <4> QED BY <1>3, <2>4, <4>1
      <3> QED BY <1>1, <1>6, <3>1
    <2>6. \A f \in S : y[f] # NULL => /\ y[f] \in S /\ pos[f] < pos[y[f]]
                                      /\ \A g \in S : pos[g] <= pos[f] \/ pos[y[f]] <= pos[g]
      <3>1. ASSUME y[v] # NULL
            PROVE  /\ y[v] \in S /\ pos[v] < pos[y[v]]
                   /\ \A g \in S : pos[g] <= pos[v] \/ pos[y[v]] <= pos[g]
        <4>1. y[v] = nx[e] /\ nx[e] \in S /\ pos[e] < pos[nx[e]] /\ \A g \in S : pos[g] <= pos[e] \/ pos[nx[e]] <= pos[g]
          BY <1>1, <1>4, <1>6, <3>1
        <4>2. pos[v] < pos[nx[e]]
          BY <1>3, <1>6, <2>1, <4>1
        <4>3. \A g \in S : pos[g] <= pos[v] \/ pos[nx[e]] <= pos[g]
          BY <1>3, <2>4, <4>1
        <4> QED BY <4>1, <4>2, <4>3
      <3>2. ASSUME NEW f \in S \ {v}, y[f] # NULL
            PROVE  /\ y[f] \in S /\ pos[f] < pos[y[f]]
                   /\ \A g \in S : pos[g] <= pos[f] \/ pos[y[f]] <= pos[g]
        BY <1>1, <1>6, <2>3, <3>2
      <3> QED BY <3>1, <3>2
    <2> HIDE DEF A
    <2> QED BY <1>2, <2>2, <2>5, <2>6 DEF Linked
  <1> QED BY <1>5, <1>6

LEMMA UnlinkInv ==
  ASSUME IInv, NEW pos, NEW nx, Ghosts(pos, nx), NEW t \in Threads, pc[t] \in {"reading", "writing"},
         At(t, "unlink"), Unlink(t), UNCHANGED <<vars, before>>
  PROVE  ChainInv'
  <1> DEFINE c == call[t]
             k == c.request.key
  <1>0. call[t] # NULL /\ call[t].at = "unlink" /\ call[t].at \in RemovePlaces
    BY DEF At, RemovePlaces
  <1>1. /\ t \in Writers /\ pc[t] = "writing" /\ c \in Calls /\ k \in Keys /\ Typed
        /\ WellPlaced(c) /\ Sees(c, pos, nx) /\ Carries(c) /\ Leads(c)
        /\ pos \in [Entries -> Nat] /\ nx \in [Entries -> Entries \cup {NULL}]
        /\ call \in [Threads -> Calls \cup {NULL}] /\ NULL \notin Entries /\ c.request.op # "get"
    BY <1>0, PutWriter
  <1>2. PICK e, v : e = c.entry /\ v = c.prev
    OBVIOUS
  <1>3. /\ e \in Entries \ allocated /\ nx[e] = c.next /\ c.next \in Entries \cup {NULL}
        /\ \/ v = NULL /\ head = e
           \/ v \in allocated /\ heap[v].next = e
    BY <1>0, <1>1, <1>2 DEF Sees, Calls
  <1>4. UNCHANGED allocated /\ Over(t)
    BY DEF Unlink
  <1>5. PICK d \in Calls : /\ call' = [call EXCEPT ![t] = d] /\ d.request = c.request /\ d.at = "done"
                           /\ d.entry = NULL /\ d.prev = NULL /\ d.value = c.value
    BY <1>1, <1>4, IsOver
  <1>6. Deleted = {e}
    <2>1. \A u \in Threads : At(u, "unlink") <=> u = t
      BY <1>0, <1>1, Alone DEF At
    <2> QED BY <1>2, <2>1 DEF Deleted
  <1>7. /\ Linked(pos, nx, allocated \cup {e}) /\ \A f \in allocated : nx[f] = heap[f].next /\ heap[f].key \in Keys
        /\ \A f, g \in allocated : heap[f].key = heap[g].key => f = g
        /\ allocated \subseteq Entries
    BY <1>1, <1>6 DEF Ghosts, ListOK, Typed
  <1>8. PICK y : y = IF v = NULL THEN nx ELSE [nx EXCEPT ![v] = nx[e]]
    OBVIOUS
  <1>9. v \in allocated => v # NULL /\ v \in Entries
    BY <1>1, <1>7
  <1>10. y \in [Entries -> Entries \cup {NULL}]
    BY <1>1, <1>3, <1>8
  <1>11. /\ heap' \in [Entries -> [key : Keys \cup {NULL}, value : Int, next : Entries \cup {NULL}]]
         /\ \A f \in Entries : heap'[f].key = heap[f].key /\ heap'[f].value = heap[f].value
         /\ \/ v = NULL /\ head = e /\ head' = nx[e] /\ UNCHANGED heap
            \/ /\ v \in allocated /\ nx[v] = e /\ UNCHANGED head
               /\ heap'[v].next = nx[e] /\ \A f \in Entries \ {v} : heap'[f].next = heap[f].next
    <2>1. heap \in [Entries -> [key : Keys \cup {NULL}, value : Int, next : Entries \cup {NULL}]]
      BY <1>1 DEF Typed
    <2>2. CASE v = NULL
      <3>1. head = e /\ head' = nx[e] /\ UNCHANGED heap
        BY <1>2, <1>3, <1>9, <2>2 DEF Unlink, Unlinked
      <3> QED BY <2>1, <2>2, <3>1
    <2>3. CASE v # NULL
      <3>1. v \in allocated /\ nx[v] = e /\ v \in Entries
        BY <1>3, <1>7, <1>9, <2>3
      <3>2. heap' = [heap EXCEPT ![v].next = nx[e]] /\ UNCHANGED head
        BY <1>2, <1>3, <2>3 DEF Unlink, Unlinked
      <3>3. nx[e] \in Entries \cup {NULL}
        BY <1>3
      <3> QED BY <2>1, <3>1, <3>2, <3>3
    <2> QED BY <2>2, <2>3
  <1>12. /\ v # NULL => y[v] = nx[e] /\ \A f \in allocated \ {v} : y[f] = nx[f]
         /\ v = NULL => \A f \in allocated : y[f] = nx[f]
    BY <1>1, <1>3, <1>7, <1>8, <1>9
  <1>13. Linked(pos, y, allocated)'
    <2>1. NULL \notin allocated /\ e # NULL /\ e \notin allocated /\ \A f \in allocated \cup {e} : pos[f] \in Nat
      BY <1>1, <1>3, <1>7
    <2>2. PICK S : S = allocated
      OBVIOUS
    <2>3. Linked(pos, y, S)'
      BY <1>7, <1>9, <1>11, <1>12, <2>1, <2>2, LinkedWithout
    <2>4. S = allocated'
      BY <1>4, <2>2
    <2> QED BY <2>3, <2>4 DEF Linked
  <1>14. ListOK(pos, y, {})'
    <2>1. \A f \in allocated' : y[f] = heap'[f].next /\ heap'[f].key \in Keys
      BY <1>4, <1>7, <1>9, <1>11, <1>12
    <2>2. \A f, g \in allocated' : heap'[f].key = heap'[g].key => f = g
      BY <1>4, <1>7, <1>11
    <2> QED BY <1>13, <2>1, <2>2 DEF ListOK
  <1>15. c.request.op = "remove"
    BY <1>0, <1>1 DEF WellPlaced, GetPlaces, PutPlaces, RemovePlaces, Calls, Requests
  <1>16. WellPlaced(d) /\ Sees(d, pos, y)' /\ Carries(d)'
    BY <1>1, <1>5, <1>15, OverPlaced
  <1>17. Leads(d)'
    <2>1. \A f \in allocated' : f \in allocated /\ heap'[f].key = heap[f].key /\ heap'[f].value = heap[f].value
      BY <1>4, <1>7, <1>11
    <2>2. PICK m : m = [before EXCEPT ![k] = EffectOn(before, c.request)]
      OBVIOUS
    <2>3. Represents(m) /\ before \in [Keys -> Int \cup {NULL}]
      BY <1>0, <1>1, <2>2 DEF Leads
    <2>4. Represents(m)'
      BY <1>4, <2>1, <2>3 DEF Represents, NoneHas
    <2>5. EffectOn(before, d.request)' = EffectOn(before, c.request)
      BY <1>5 DEF EffectOn, Answer
    <2> QED BY <1>5, <2>2, <2>3, <2>4, <2>5 DEF Leads
  <1>18. head' \in Entries \cup {NULL} /\ allocated' \subseteq Entries
    BY <1>1, <1>3, <1>4, <1>11 DEF Typed
  <1>19. d.request.op # "get" /\ {} = IF d.at = "unlink" THEN {d.entry} ELSE {}
    BY <1>1, <1>5
  <1> QED BY <1>0, <1>1, <1>5, <1>10, <1>11, <1>14, <1>16, <1>17, <1>18, <1>19, WriterStep

LEMMA StepsInv ==
  ASSUME IInv, NEW t \in Threads, Steps(t)
  PROVE  ChainInv'
  <1>1. PICK pos, nx : Ghosts(pos, nx)
    BY DEF IInv, ChainInv
  <1>2. pc[t] \in {"reading", "writing"} /\ UNCHANGED <<vars, before>> /\ (Get(t) \/ Put(t) \/ Remove(t))
    BY DEF Steps
  <1>3. CASE Get(t)
    BY <1>1, <1>2, <1>3, GetInv
  <1>4. CASE Put(t)
    BY <1>1, <1>2, <1>4, PutWalksInv, PutFirstInv, PutValueInv, PutEndInv DEF Put, PutWalks
  <1>5. CASE Remove(t)
    BY <1>1, <1>2, <1>5, RemoveWalksInv, DeleteInv, UnlinkInv DEF Remove, RemoveWalks
  <1> QED BY <1>2, <1>3, <1>4, <1>5

-----------------------------------------------------------------------------
(* The steps of the lock around those on the list. *)

Inside == {"reading", "doneRead", "writing", "doneWrite"}

(* A thread outside stays outside, or one inside is done with the list. *)
LEMMA LockStep ==
  ASSUME IInv, NEW t \in Threads, NEW to, pc' = [pc EXCEPT ![t] = to], UNCHANGED <<chain, call, before>>,
         \/ pc[t] = to
         \/ pc[t] \notin Inside /\ to \notin Inside
         \/ pc[t] = "reading" /\ to = "doneRead" /\ At(t, "done")
         \/ pc[t] = "writing" /\ to = "doneWrite" /\ At(t, "done")
  PROVE  ChainInv' /\ Readers' = Readers /\ Writers' = Writers
  <1>1. PICK pos, nx : Ghosts(pos, nx)
    BY DEF IInv, ChainInv
  <1>2. pc'[t] = to /\ \A u \in Threads \ {t} : pc'[u] = pc[u]
    BY DEF IInv, Inv, TypeOK
  <1>3. Readers' = Readers /\ Writers' = Writers
    BY <1>2 DEF Readers, Writers, Inside
  <1>4. ASSUME NEW u \in Threads, call'[u] # NULL PROVE Local(u, call[u], pos, nx)'
    <2>1. Local(u, call[u], pos, nx) /\ call'[u] = call[u]
      BY <1>1, <1>4 DEF Ghosts
    <2>2. pc'[u] = pc[u] \/ (pc[u] \in {"reading", "writing"} /\ call[u].at = "done")
      <3>1. u \in Readers \cup Writers
        BY <1>4 DEF IInv, ChainInv
      <3> QED BY <1>2, <3>1 DEF At, Readers, Writers, Inside
    <2> QED BY <1>3, <2>1, <2>2, LocalKept
  <1>5. Typed' /\ Deleted' = Deleted
    BY DEF IInv, ChainInv, Typed, Deleted, At, chain
  <1>6. ListOK(pos, nx, Deleted)'
    BY <1>1, <1>5 DEF Ghosts, ListOK, Linked, chain
  <1>7. Ghosts(pos, nx)'
    BY <1>1, <1>4, <1>6 DEF Ghosts
  <1>8. \A u \in Threads : (call'[u] # NULL) <=> (u \in Readers' \cup Writers')
    BY <1>3 DEF IInv, ChainInv
  <1> QED BY <1>3, <1>5, <1>7, <1>8 DEF ChainInv

LEMMA LockInv ==
  ASSUME IInv, NEW t \in Threads, Asks(t) \/ Gets(t) \/ Waits(t) \/ Wakes(t) \/ Ends(t)
  PROVE  ChainInv' /\ UNCHANGED <<chain, call, before>> /\ Readers' = Readers /\ Writers' = Writers
  <1>0. UNCHANGED <<chain, call, before>>
    BY DEF Asks, Gets, Waits, Wakes, Ends
  <1>1. pc \in [Threads -> InMonitor \cup {"idle", "reading", "writing"}]
    BY DEF IInv, Inv, TypeOK
  <1> DEFINE Moves(to) ==
        /\ pc' = [pc EXCEPT ![t] = to]
        /\ \/ pc[t] = to
           \/ pc[t] \notin Inside /\ to \notin Inside
           \/ pc[t] = "reading" /\ to = "doneRead" /\ At(t, "done")
           \/ pc[t] = "writing" /\ to = "doneWrite" /\ At(t, "done")
  <1>2. \E to : Moves(to)
    <2>1. CASE Gets(t) \/ Wakes(t)
      <3>1. UNCHANGED pc
        BY <2>1 DEF Gets, Wakes, Acquire, SpuriousWakeup
      <3>2. Moves(pc[t])
        BY <1>1, <3>1
      <3> QED BY <3>2
    <2>2. CASE Asks(t)
      <3>1. Moves("startRead") \/ Moves("startWrite")
        BY <2>2 DEF Asks, Start, StartRead, StartWrite, Call, Inside
      <3> QED BY <3>1
    <2>3. CASE Waits(t)
      <3>1. Moves("startRead") \/ Moves("waitWrite")
        BY <2>3 DEF Waits, ReadWaits, WriteWaits, Leave, Inside
      <3> QED BY <3>1
    <2>4. CASE Ends(t)
      <3>1. Moves("doneRead") \/ Moves("doneWrite")
        BY <2>4 DEF Ends, Done, DoneRead, DoneWrite, Call
      <3> QED BY <3>1
    <2> QED BY <2>1, <2>2, <2>3, <2>4
  <1>3. PICK to : Moves(to)
    BY <1>2
  <1> QED BY <1>0, <1>3, LockStep

(* A thread enters with a new call, or leaves and has none. *)
LEMMA EntersOrLeaves ==
  ASSUME IInv, NEW pos, NEW nx, Ghosts(pos, nx), NEW t \in Threads, NEW to, pc' = [pc EXCEPT ![t] = to],
         UNCHANGED chain, NEW c \in Calls \cup {NULL}, call' = [call EXCEPT ![t] = c],
         ~At(t, "unlink"), c # NULL => c.at # "unlink",
         c # NULL <=> to \in Inside,
         UNCHANGED before \/ \A u \in Threads \ {t} : call[u] = NULL,
         c # NULL => Local(t, c, pos, nx)'
  PROVE  ChainInv'
  <1>1. pc'[t] = to /\ \A u \in Threads \ {t} : pc'[u] = pc[u]
    BY DEF IInv, Inv, TypeOK
  <1>2. /\ Typed' /\ call'[t] = c /\ \A u \in Threads \ {t} : call'[u] = call[u]
    BY DEF Typed, chain, IInv, ChainInv
  <1>3. \A u \in Threads : /\ u \in Readers \cup Writers <=> pc[u] \in Inside
                           /\ u \in Readers' \cup Writers' <=> pc'[u] \in Inside
                           /\ u # t => (u \in Readers <=> u \in Readers') /\ (u \in Writers <=> u \in Writers')
    BY <1>1 DEF Readers, Writers, Inside
  <1>4. \A u \in Threads : (call'[u] # NULL) <=> (u \in Readers' \cup Writers')
    BY <1>1, <1>2, <1>3 DEF IInv, ChainInv
  <1>5. ASSUME NEW u \in Threads, call'[u] # NULL PROVE Local(u, call[u], pos, nx)'
    <2>1. CASE u = t
      BY <1>2, <1>5, <2>1
    <2>2. CASE u # t
      <3>1. Local(u, call[u], pos, nx) /\ call'[u] = call[u] /\ UNCHANGED before /\ pc'[u] = pc[u]
        BY <1>1, <1>2, <1>5, <2>2 DEF Ghosts
      <3> QED BY <1>3, <2>2, <3>1, LocalKept
    <2> QED BY <2>1, <2>2
  <1>6. Deleted' = Deleted
    <2>1. \A u \in Threads : At(u, "unlink")' <=> At(u, "unlink")
      BY <1>2 DEF At
    <2>2. \A u \in Threads : At(u, "unlink") => call'[u] = call[u]
      BY <1>2
    <2> QED BY <2>1, <2>2 DEF Deleted
  <1>7. ListOK(pos, nx, Deleted)'
    BY <1>6 DEF Ghosts, ListOK, Linked, chain
  <1>8. Ghosts(pos, nx)'
    BY <1>5, <1>7 DEF Ghosts
  <1> QED BY <1>2, <1>4, <1>8 DEF ChainInv

LEMMA StartsReadingInv ==
  ASSUME IInv, NEW t \in Threads, StartsReading(t)
  PROVE  ChainInv' /\ call[t] = NULL /\ Writers = {} /\ Writers' = {} /\ t \in Readers'
         /\ \E c \in Calls : call' = [call EXCEPT ![t] = c] /\ c.at = "get"
  <1>1. PICK pos, nx : Ghosts(pos, nx)
    BY DEF IInv, ChainInv
  <1>2. /\ pc[t] = "startRead" /\ pc' = [pc EXCEPT ![t] = "reading"] /\ Writers = {}
        /\ UNCHANGED <<chain, before>>
    BY CountZero DEF StartsReading, ReadEnters, ReaderMustWait, Leave, IInv, Inv, TypeOK
  <1>3. PICK k \in Keys : Begins(t, [op |-> "get", key |-> k, arg |-> 0], "get")
    BY DEF StartsReading
  <1>4. PICK c \in Calls : /\ call' = [call EXCEPT ![t] = c] /\ c.at = "get" /\ c.request.op = "get"
                           /\ c.value = c.request.arg /\ c.entry = NULL /\ c.prev = NULL
    <2> DEFINE r == [op |-> "get", key |-> k, arg |-> 0]
               c == [request |-> r, at |-> "get", value |-> r.arg, entry |-> NULL, prev |-> NULL, next |-> NULL]
    <2>1. r \in Requests
      BY DEF Requests
    <2>2. c \in Calls
      BY <2>1 DEF Calls, Places
    <2>3. call' = [call EXCEPT ![t] = c]
      BY <1>3 DEF Begins
    <2> QED BY <2>2, <2>3
  <1>5. call[t] = NULL /\ ~At(t, "unlink") /\ t \notin Writers
    BY <1>2 DEF IInv, ChainInv, At, Readers, Writers
  <1>6. pc'[t] = "reading" /\ t \notin Writers' /\ t \in Readers'
    BY <1>2 DEF Writers, Readers, IInv, Inv, TypeOK
  <1>7. Local(t, c, pos, nx)'
    <2>1. WellPlaced(c) /\ Sees(c, pos, nx)' /\ Carries(c)'
      BY <1>4 DEF WellPlaced, Sees, Carries, GetPlaces, PutPlaces
    <2> QED BY <1>4, <1>6, <2>1 DEF Local, WellPlaced
  <1>8. ChainInv'
    BY <1>1, <1>2, <1>4, <1>5, <1>7, NullAssumption, EntersOrLeaves DEF Inside
  <1>9. Writers' = {}
    BY <1>2 DEF Writers, IInv, Inv, TypeOK
  <1> QED BY <1>2, <1>4, <1>5, <1>6, <1>8, <1>9

LEMMA StartsWritingInv ==
  ASSUME IInv, NEW t \in Threads, StartsWriting(t)
  PROVE  ChainInv' /\ call[t] = NULL /\ Writers = {} /\ t \in Writers' /\ before' = Contents
         /\ \E c \in Calls : call' = [call EXCEPT ![t] = c] /\ c.at # "done"
  <1>1. PICK pos, nx : Ghosts(pos, nx)
    BY DEF IInv, ChainInv
  <1>2. /\ pc[t] \in {"startWrite", "waitWrite"} /\ pc' = [pc EXCEPT ![t] = "writing"]
        /\ Writers = {} /\ Readers = {} /\ UNCHANGED chain /\ before' = Contents
    BY CountZero DEF StartsWriting, WriteEnters, WriterMustWait, Leave, IInv, Inv, TypeOK
  <1>3. PICK k \in Keys :
          \/ \E d \in PutValues : Begins(t, [op |-> "put", key |-> k, arg |-> d], "put")
          \/ Begins(t, [op |-> "increment", key |-> k, arg |-> 1], "get")
          \/ Begins(t, [op |-> "remove", key |-> k, arg |-> 0], "remove")
    BY DEF StartsWriting
  <1> DEFINE New1(c) == /\ call' = [call EXCEPT ![t] = c] /\ c.value = c.request.arg /\ c.entry = NULL /\ c.prev = NULL
                        /\ \/ c.request.op = "put" /\ c.at = "put"
                           \/ c.request.op = "increment" /\ c.at = "get"
                           \/ c.request.op = "remove" /\ c.at = "remove"
  <1>4. \E c \in Calls : New1(c)
    <2>1. ASSUME NEW r \in Requests, NEW where \in Places, Begins(t, r, where),
                 \/ r.op = "put" /\ where = "put"
                 \/ r.op = "increment" /\ where = "get"
                 \/ r.op = "remove" /\ where = "remove"
          PROVE  \E c \in Calls : New1(c)
      <3> DEFINE c == [request |-> r, at |-> where, value |-> r.arg, entry |-> NULL, prev |-> NULL, next |-> NULL]
      <3>1. c \in Calls
        BY DEF Calls, Requests
      <3>2. New1(c)
        BY <2>1 DEF Begins
      <3> QED BY <3>1, <3>2
    <2>2. PutValues \subseteq Int
      BY ChainAssumption
    <2>3. ASSUME NEW d \in PutValues, Begins(t, [op |-> "put", key |-> k, arg |-> d], "put") PROVE \E c \in Calls : New1(c)
      BY <2>1, <2>2, <2>3 DEF Requests, Places
    <2>4. CASE Begins(t, [op |-> "increment", key |-> k, arg |-> 1], "get")
      BY <2>1, <2>4 DEF Requests, Places
    <2>5. CASE Begins(t, [op |-> "remove", key |-> k, arg |-> 0], "remove")
      BY <2>1, <2>5 DEF Requests, Places
    <2> QED BY <1>3, <2>3, <2>4, <2>5
  <1>5. PICK c \in Calls : New1(c)
    BY <1>4
  <1>6. \A u \in Threads : call[u] = NULL
    BY <1>2 DEF IInv, ChainInv
  <1>7. pc'[t] = "writing" /\ t \notin Readers' /\ t \in Writers'
    BY <1>2 DEF Readers, Writers, IInv, Inv, TypeOK
  <1>8. Leads(c)'
    <2>1. Represents(Contents)
      BY <1>2, ContentsIs
    <2>2. PICK m : m = Contents
      OBVIOUS
    <2>3. Represents(m)'
      BY <1>2, <2>1, <2>2 DEF Represents, NoneHas, chain
    <2>4. Represents(before)'
      BY <1>2, <2>2, <2>3 DEF Represents
    <2> QED BY <1>5, <2>4 DEF Leads, Represents
  <1>9. Local(t, c, pos, nx)'
    <2>1. WellPlaced(c) /\ Sees(c, pos, nx)' /\ Carries(c)' /\ c.request.op # "get"
      BY <1>5 DEF WellPlaced, Sees, Carries, GetPlaces, PutPlaces, RemovePlaces
    <2>2. WellPlaced(c)'
      BY <2>1 DEF WellPlaced
    <2> QED BY <1>7, <1>8, <2>1, <2>2 DEF Local
  <1>10. ChainInv'
    BY <1>1, <1>2, <1>5, <1>6, <1>9, NullAssumption, EntersOrLeaves DEF Inside, At
  <1> QED BY <1>2, <1>5, <1>6, <1>7, <1>10

LEMMA ReturnsInv ==
  ASSUME IInv, NEW t \in Threads, Returns(t)
  PROVE  /\ ChainInv' /\ At(t, "done") /\ UNCHANGED chain /\ call' = [call EXCEPT ![t] = NULL]
         /\ \/ t \in Readers /\ Writers = {} /\ Writers' = {} /\ UNCHANGED before
            \/ Writers = {t} /\ Readers = {} /\ Writers' = {}
  <1>1. PICK pos, nx : Ghosts(pos, nx)
    BY DEF IInv, ChainInv
  <1>2. /\ pc[t] \in {"doneRead", "doneWrite"} /\ pc' = [pc EXCEPT ![t] = "idle"]
        /\ UNCHANGED chain /\ call' = [call EXCEPT ![t] = NULL]
        /\ pc[t] = "doneRead" => UNCHANGED before
    BY DEF Returns, ReadLeaves, WriteLeaves, Leave
  <1>3. At(t, "done") /\ ~At(t, "unlink")
    <2>1. call[t] # NULL
      BY <1>2 DEF IInv, ChainInv, Readers, Writers
    <2> QED BY <1>1, <1>2, <2>1 DEF Ghosts, Local, At
  <1>4. \/ pc[t] = "doneRead" /\ t \in Readers /\ Writers = {}
        \/ pc[t] = "doneWrite" /\ Writers = {t} /\ Readers = {}
    BY <1>2 DEF Readers, Writers, IInv, Inv, Exclusion
  <1>5. UNCHANGED before \/ \A u \in Threads \ {t} : call[u] = NULL
    BY <1>2, <1>4 DEF IInv, ChainInv
  <1>6. ChainInv'
    <2>1. PICK c, to : c = NULL /\ to = "idle"
      OBVIOUS
    <2>2. /\ pc' = [pc EXCEPT ![t] = to] /\ call' = [call EXCEPT ![t] = c] /\ c \in Calls \cup {NULL}
          /\ to \notin Inside
      BY <1>2, <2>1 DEF Inside
    <2> QED BY <1>1, <1>2, <1>3, <1>5, <2>1, <2>2, EntersOrLeaves
  <1>7. Writers' = {}
    BY <1>2, <1>4 DEF Writers, IInv, Inv, TypeOK
  <1> QED BY <1>2, <1>3, <1>4, <1>6, <1>7

LEMMA ChainNextInv == IInv /\ [ChainNext]_chainVars => IInv'
  <1> SUFFICES ASSUME IInv, [ChainNext]_chainVars PROVE IInv'
    OBVIOUS
  <1>1. Inv'
    BY ChainStep, NextInv DEF IInv
  <1>2. ChainInv'
    <2>1. CASE UNCHANGED chainVars
      <3>1. PICK pos, nx : Ghosts(pos, nx)
        BY DEF IInv, ChainInv
      <3>2. UNCHANGED <<pc, chain, call, before>> /\ Readers' = Readers /\ Writers' = Writers
        BY <2>1 DEF chainVars, vars, Readers, Writers
      <3>3. Typed' /\ Deleted' = Deleted
        BY <3>2 DEF IInv, ChainInv, Typed, Deleted, At, chain
      <3>4. \A u \in Threads : call'[u] # NULL => Local(u, call[u], pos, nx)'
        BY <3>1, <3>2, LocalKept DEF Ghosts
      <3>5. ListOK(pos, nx, Deleted)'
        BY <3>1, <3>2, <3>3 DEF Ghosts, ListOK, Linked, chain
      <3>6. Ghosts(pos, nx)'
        BY <3>1, <3>4, <3>5 DEF Ghosts
      <3> QED BY <3>2, <3>3, <3>6 DEF ChainInv, IInv
    <2>2. CASE ChainNext
      BY <2>2, LockInv, StartsReadingInv, StartsWritingInv, StepsInv, ReturnsInv DEF ChainNext
    <2> QED BY <2>1, <2>2
  <1> QED BY <1>1, <1>2 DEF IInv

LEMMA ChainInitInv == ChainInit => IInv
  <1> SUFFICES ASSUME ChainInit PROVE IInv
    OBVIOUS
  <1>1. Inv /\ Readers = {} /\ Writers = {}
    BY InitInv DEF ChainInit, Init, Readers, Writers
  <1>2. Typed
    <2>1. Unused \in [key : Keys \cup {NULL}, value : Int, next : Entries \cup {NULL}]
      BY DEF Unused
    <2> QED BY <2>1 DEF ChainInit, Typed
  <1>3. Deleted = {}
    BY DEF ChainInit, Deleted, At
  <1>4. Ghosts([e \in Entries |-> 0], [e \in Entries |-> NULL])
    BY <1>3 DEF ChainInit, Ghosts, ListOK, Linked
  <1> QED BY <1>1, <1>2, <1>4 DEF IInv, ChainInv, ChainInit

LEMMA ChainSpecInv == ChainSpec => []IInv
  BY ChainInitInv, ChainNextInv, PTL DEF ChainSpec

(* A thread on its way through the list holds no deleted entry, and the    *)
(* list, whenever nobody writes, has each key at most once and every entry *)
(* that is allocated, for any threads, keys, addresses and values.         *)
THEOREM ChainSoundCorrect == ChainSpec => []ChainSound
  <1>1. IInv => ChainSound
    <2> SUFFICES ASSUME IInv PROVE ChainSound
      OBVIOUS
    <2>1. PICK pos, nx : Ghosts(pos, nx)
      BY DEF IInv, ChainInv
    <2>2. ASSUME NEW t \in Threads, call[t] # NULL, call[t].at # "unlink"
          PROVE  {call[t].entry, call[t].prev} \subseteq allocated \cup {NULL}
      <3> DEFINE c == call[t]
      <3>1. WellPlaced(c) /\ Sees(c, pos, nx) /\ c \in Calls
        BY <2>1, <2>2 DEF Ghosts, Local, IInv, ChainInv, Typed
      <3>2. c.entry \in allocated \cup {NULL}
        BY <2>2, <3>1 DEF WellPlaced, Sees, Calls, Places
      <3>3. c.prev \in allocated \cup {NULL}
        BY <2>2, <3>1 DEF WellPlaced, Sees, Calls, Places
      <3> QED BY <3>2, <3>3
    <2>3. ASSUME Writers = {}, NEW k \in Keys PROVE Cardinality(Holding(k)) <= 1
      <3>1. Chain = allocated /\ \A e, f \in allocated : heap[e].key = heap[f].key => e = f
        BY <2>3, ListSound
      <3>2. CASE Holding(k) = {}
        BY <3>2, FS_EmptySet
      <3>3. ASSUME NEW e \in Holding(k) PROVE Cardinality(Holding(k)) <= 1
        <4>1. Holding(k) = {e}
          BY <3>1, <3>3 DEF Holding
        <4>2. Cardinality({e}) = 1
          BY FS_Singleton
        <4> QED BY <4>1, <4>2
      <3> QED BY <3>2, <3>3
    <2>4. Writers = {} => Chain = allocated
      BY ListSound
    <2> QED BY <2>2, <2>3, <2>4 DEF ChainSound
  <1> QED BY <1>1, ChainSpecInv, PTL

-----------------------------------------------------------------------------
(* Linearizability.  A map that the entries stand for is the only one, now *)
(* and in the next state, so that the map of AtomicMap changes only when a *)
(* thread that writes leaves, to the one that Leads has kept for it.       *)

RequestsAre ==
  \A t \in Threads :
    /\ call[t] = NULL => Request(t) = NULL
    /\ call[t] # NULL /\ ~(At(t, "done") /\ t \in Readers) => Request(t) = call[t].request
    /\ At(t, "done") /\ t \in Readers => Request(t) = [answer |-> call[t].value]

LEMMA RequestIs == RequestsAre
  BY DEF Request, RequestsAre, At

LEMMA RequestIsNext == RequestsAre'
  BY RequestIs, PTL

LEMMA OneMapNext ==
  ASSUME NEW m1, NEW m2, Represents(m1)', Represents(m2)'
  PROVE  m1 = m2
  <1>1. ASSUME NEW k \in Keys PROVE m1[k] = m2[k]
    <2>1. CASE NoneHas(allocated, k)'
      BY <2>1 DEF Represents
    <2>2. ASSUME NEW e \in allocated', heap'[e].key = k PROVE m1[k] = m2[k]
      BY <2>2 DEF Represents
    <2> QED BY <2>1, <2>2 DEF NoneHas
  <1> QED BY <1>1 DEF Represents

LEMMA ContentsIsNext == IInv' /\ (Writers = {})' => Represents(Contents)'
  BY ContentsIs, PTL

(* While the list is left as it is and nobody writes the map stays.        *)
LEMMA ContentsKept ==
  ASSUME IInv, IInv', Writers = {}, Writers' = {}, UNCHANGED chain
  PROVE  Contents' = Contents
  <1>1. PICK m1, m2 : m1 = Contents /\ m2 = Contents'
    OBVIOUS
  <1>2. Represents(m1)'
    <2>1. Represents(m1)
      BY <1>1, ContentsIs
    <2> QED BY <2>1 DEF Represents, NoneHas, chain
  <1>3. Represents(m2)'
    BY <1>1, ContentsIsNext DEF Represents
  <1> QED BY <1>1, <1>2, <1>3, OneMapNext

(* A step on the list takes one call on; a reader leaves the list alone.   *)
LEMMA StepIs ==
  ASSUME IInv, IInv', NEW t \in Threads, Steps(t)
  PROVE  /\ call[t] # NULL /\ call[t].at # "done" /\ call'[t] # NULL /\ call'[t].request = call[t].request
         /\ \A u \in Threads \ {t} : call'[u] = call[u]
         /\ UNCHANGED before /\ Readers' = Readers /\ Writers' = Writers
         /\ t \in Readers => UNCHANGED chain
  <1>1. UNCHANGED <<vars, before>> /\ (Get(t) \/ Put(t) \/ Remove(t)) /\ pc[t] \in {"reading", "writing"}
    BY DEF Steps
  <1>2. Readers' = Readers /\ Writers' = Writers
    BY <1>1 DEF vars, Readers, Writers
  <1>3. t \in Readers \cup Writers /\ call[t] # NULL /\ call'[t] # NULL
    BY <1>1, <1>2 DEF IInv, ChainInv, Readers, Writers
  <1>4. call \in [Threads -> Calls \cup {NULL}] /\ call[t] \in Calls
    BY <1>3 DEF IInv, ChainInv, Typed
  <1> DEFINE Follows == call'[t].request = call[t].request /\ \A u \in Threads \ {t} : call'[u] = call[u]
  <1>a. ASSUME NEW from, NEW x, NEW y, Finds(t, from, x, y) PROVE Follows
    <2>1. PICK w : w = IF head = NULL THEN x ELSE y
      OBVIOUS
    <2>2. call' = [call EXCEPT ![t].at = w]
      BY <1>a, <2>1 DEF Finds, Goto
    <2> QED BY <1>4, <2>2 DEF Calls
  <1>5. CASE Get(t)
    <2>0. call[t].at \in GetPlaces /\ UNCHANGED chain
      BY <1>5 DEF Get, Finds, At, GetPlaces
    <2>1. ASSUME NEW v, Got(t, v) PROVE Follows
      <3>1. CASE call[t].request.op = "get"
        BY <1>4, <2>1, <3>1 DEF Got, Calls
      <3>2. CASE call[t].request.op # "get"
        BY <1>4, <2>1, <3>2 DEF Got, Calls
      <3> QED BY <3>1, <3>2
    <2>2. ASSUME NEW e, GetLooks(t, e) PROVE Follows
      BY <1>4, <2>1, <2>2 DEF GetLooks, GotoEntry, Calls
    <2>3. ASSUME Finds(t, "get", "getNothing", "getFirst") PROVE Follows
      BY <1>a, <2>3
    <2>4. Follows
      BY <1>5, <2>1, <2>2, <2>3 DEF Get
    <2> QED BY <1>1, <1>2, <1>3, <1>4, <2>0, <2>4 DEF GetPlaces
  <1>6. CASE Put(t) \/ Remove(t)
    <2>0. call[t].at \in PutPlaces \cup RemovePlaces
      BY <1>6 DEF Put, Remove, Finds, At, PutPlaces, RemovePlaces
    <2>1. t \notin Readers
      <3>1. PICK pos, nx : Ghosts(pos, nx)
        BY DEF IInv, ChainInv
      <3>2. t \in Readers => WellPlaced(call[t]) /\ call[t].request.op = "get"
        BY <1>3, <3>1 DEF Ghosts, Local
      <3> QED BY <2>0, <3>2 DEF WellPlaced, GetPlaces, PutPlaces, RemovePlaces
    <2>2. ASSUME Over(t) PROVE Follows
      BY <1>4, <2>2 DEF Over, Calls
    <2>3. CASE Put(t)
      <3>1. ASSUME NEW e, PutLooks(t, e) PROVE Follows
        <4>1. PICK w : w = IF ~Stops(t, e) THEN "putNext" ELSE IF Matches(t, e) THEN "putValue" ELSE "putEnd"
          OBVIOUS
        <4>2. call' = [call EXCEPT ![t].at = w, ![t].entry = e]
          BY <3>1, <4>1 DEF PutLooks, GotoEntry
        <4> QED BY <1>4, <4>2 DEF Calls
      <3>2. ASSUME Finds(t, "put", "putNothing", "putFirst") PROVE Follows
        BY <1>a, <3>2
      <3> QED BY <1>1, <1>2, <1>3, <1>4, <2>0, <2>1, <2>2, <2>3, <3>1, <3>2 DEF Put, PutFirst, PutValue, PutEnd, PutPlaces, RemovePlaces
    <2>4. CASE Remove(t)
      <3>1. ASSUME NEW e, NEW p, RemoveLooks(t, e, p) PROVE Follows
        <4>1. CASE Over(t)
          BY <2>2, <4>1
        <4>2. CASE call' = [call EXCEPT ![t].entry = e, ![t].prev = p,
                              ![t].at = IF Matches(t, e) THEN "delete" ELSE "removeNext"]
          <5>1. PICK w : w = IF Matches(t, e) THEN "delete" ELSE "removeNext"
            OBVIOUS
          <5>2. call' = [call EXCEPT ![t].entry = e, ![t].prev = p, ![t].at = w]
            BY <4>2, <5>1
          <5> QED BY <1>4, <5>2 DEF Calls
        <4> QED BY <3>1, <4>1, <4>2 DEF RemoveLooks
      <3>2. ASSUME Finds(t, "remove", "done", "removeFirst") PROVE Follows
        BY <1>a, <3>2
      <3>3. ASSUME Delete(t) PROVE Follows
        <4>1. PICK n : n = heap[call[t].entry].next
          OBVIOUS
        <4>2. call' = [call EXCEPT ![t].next = n, ![t].at = "unlink"]
          BY <3>3, <4>1 DEF Delete
        <4> QED BY <1>4, <4>2 DEF Calls
      <3>4. Follows
        BY <2>2, <2>4, <3>1, <3>2, <3>3 DEF Remove, Unlink
      <3> QED BY <1>1, <1>2, <1>3, <1>4, <2>0, <2>1, <3>4 DEF PutPlaces, RemovePlaces
    <2> QED BY <1>6, <2>3, <2>4
  <1> QED BY <1>1, <1>5, <1>6

Ask == [t \in Threads |-> Request(t)]

LEMMA LinearStep == IInv /\ IInv' /\ [ChainNext]_chainVars => [Map!Next]_<<map, Ask>>
  <1> SUFFICES ASSUME IInv, IInv', [ChainNext]_chainVars
               PROVE  Map!Next \/ UNCHANGED <<map, Ask>>
    BY DEF Map!Next, Map!Call, Map!Answer, Map!Return, Map!Perform, Map!Get, Map!Effect, Ask
  <1> USE RequestIs, RequestIsNext
  <1>1. ASSUME UNCHANGED <<chain, call, before>>, Readers' = Readers, Writers' = Writers
        PROVE  UNCHANGED <<map, Ask>>
    <2>1. map' = map
      BY <1>1, ContentsKept DEF map
    <2>2. \A t \in Threads : Request(t)' = Request(t)
      BY <1>1 DEF Request, At
    <2> QED BY <2>1, <2>2 DEF Ask
  <1>2. CASE UNCHANGED chainVars
    <2>1. UNCHANGED <<chain, call, before>> /\ Readers' = Readers /\ Writers' = Writers
      BY <1>2 DEF chainVars, vars, Readers, Writers
    <2> QED BY <1>1, <2>1
  <1>3. ASSUME NEW t \in Threads, Asks(t) \/ Gets(t) \/ Waits(t) \/ Wakes(t) \/ Ends(t)
        PROVE  UNCHANGED <<map, Ask>>
    BY <1>1, <1>3, LockInv
  <1>b. ASSUME NEW t \in Threads, Readers' \ {t} = Readers \ {t}, NEW c, call' = [call EXCEPT ![t] = c]
        PROVE  \A u \in Threads \ {t} : Request(u)' = Request(u)
    <2>1. \A u \in Threads \ {t} : call'[u] = call[u] /\ (u \in Readers' <=> u \in Readers)
      BY <1>b DEF IInv, ChainInv, Typed
    <2> QED BY <2>1 DEF Request, At
  <1>c. ASSUME NEW t \in Threads, NEW c, call' = [call EXCEPT ![t] = c], Readers' \ {t} = Readers \ {t},
               map' = map, Request(t) = NULL, Request(t)' \in Requests
        PROVE  Map!Next
    <2>1. PICK r : r = Request(t)'
      OBVIOUS
    <2>2. Ask' = [Ask EXCEPT ![t] = r] /\ Ask[t] = NULL /\ r \in Requests /\ Ask'[t] = r
      BY <1>b, <1>c, <2>1 DEF Ask
    <2>3. Map!Call(t)
      BY <1>c, <2>2 DEF Map!Call, Ask, Requests, Map!Requests
    <2> QED BY <2>3 DEF Map!Next
  <1>4. ASSUME NEW t \in Threads, StartsReading(t) PROVE Map!Next
    <2>1. PICK c \in Calls : /\ call' = [call EXCEPT ![t] = c] /\ c.at = "get" /\ call[t] = NULL
                             /\ Writers = {} /\ Writers' = {} /\ t \in Readers'
      BY <1>4, StartsReadingInv
    <2>2. UNCHANGED chain /\ pc' = [pc EXCEPT ![t] = "reading"]
      BY <1>4 DEF StartsReading, ReadEnters, Leave
    <2>3. map' = map
      BY <2>1, <2>2, ContentsKept DEF map
    <2>4. Request(t) = NULL /\ Request(t)' \in Requests
      <3>1. call'[t] = c /\ c # NULL /\ c.request \in Requests
        BY <2>1, NullAssumption DEF IInv, ChainInv, Typed, Calls
      <3> QED BY <2>1, <3>1 DEF RequestsAre, At
    <2>5. Readers' \ {t} = Readers \ {t}
      BY <2>2 DEF Readers, IInv, Inv, TypeOK
    <2> QED BY <1>c, <2>1, <2>3, <2>4, <2>5
  <1>5. ASSUME NEW t \in Threads, StartsWriting(t) PROVE Map!Next
    <2>1. PICK c \in Calls : /\ call' = [call EXCEPT ![t] = c] /\ c.at # "done" /\ call[t] = NULL
                             /\ Writers = {} /\ t \in Writers' /\ before' = Contents
      BY <1>5, StartsWritingInv
    <2>2. pc' = [pc EXCEPT ![t] = "writing"] /\ pc[t] \in {"startWrite", "waitWrite"}
      BY <1>5 DEF StartsWriting, WriteEnters, Leave
    <2>3. map' = map
      BY <2>1 DEF map
    <2>4. Request(t) = NULL /\ Request(t)' \in Requests
      <3>1. call'[t] = c /\ c # NULL /\ c.request \in Requests
        BY <2>1, NullAssumption DEF IInv, ChainInv, Typed, Calls
      <3> QED BY <2>1, <3>1 DEF RequestsAre, At
    <2>5. Readers' \ {t} = Readers \ {t}
      BY <2>2 DEF Readers, IInv, Inv, TypeOK
    <2> QED BY <1>c, <2>1, <2>3, <2>4, <2>5
  <1>6. ASSUME NEW t \in Threads, Steps(t) PROVE Map!Next \/ UNCHANGED <<map, Ask>>
    <2>1. /\ call[t] # NULL /\ call[t].at # "done" /\ call'[t] # NULL /\ call'[t].request = call[t].request
          /\ \A u \in Threads \ {t} : call'[u] = call[u]
          /\ UNCHANGED before /\ Readers' = Readers /\ Writers' = Writers
          /\ t \in Readers => UNCHANGED chain
      BY <1>6, StepIs
    <2>2. map' = map
      <3>1. CASE Writers # {}
        BY <2>1, <3>1 DEF map
      <3>2. CASE Writers = {}
        <4>1. t \in Readers
          BY <2>1, <3>2 DEF IInv, ChainInv
        <4> QED BY <2>1, <3>2, <4>1, ContentsKept DEF map
      <3> QED BY <3>1, <3>2
    <2>3. \A u \in Threads \ {t} : Request(u)' = Request(u)
      BY <2>1 DEF Request, At
    <2>4. Request(t) = call[t].request
      BY <2>1 DEF RequestsAre, At
    <2>5. CASE ~(t \in Readers /\ call'[t].at = "done")
      <3>1. Request(t)' = call[t].request
        BY <2>1, <2>5 DEF RequestsAre, At
      <3> QED BY <2>2, <2>3, <2>4, <3>1 DEF Ask
    <2>6. CASE t \in Readers /\ call'[t].at = "done"
      <3>1. Request(t)' = [answer |-> call'[t].value]
        BY <2>1, <2>6 DEF RequestsAre, At
      <3>2. PICK r, v : r = call[t].request /\ v = call'[t].value
        OBVIOUS
      <3>3. r \in Requests /\ r.op = "get"
        <4>1. call[t] \in Calls
          BY <2>1 DEF IInv, ChainInv, Typed
        <4>2. r.op = "get"
          BY <2>1, <2>6, <3>2 DEF IInv, ChainInv, Ghosts, Local
        <4> QED BY <3>2, <4>1, <4>2 DEF Calls
      <3>4. Result(r.key, v)
        <4>1. Result(r.key, v)'
          <5>1. Carries(call[t])'
            BY <2>1 DEF IInv, ChainInv, Ghosts, Local
          <5> QED BY <2>1, <2>6, <3>2, <3>3, <5>1 DEF Carries
        <4> QED BY <2>1, <2>6, <4>1 DEF Result, NoneHas, chain
      <3>5. Writers = {}
        BY <2>6 DEF IInv, Inv, Exclusion
      <3>6. PICK m : m = Contents
        OBVIOUS
      <3>7. v = Answer(m, r.key)
        <4>1. Represents(m)
          BY <3>5, <3>6, ContentsIs
        <4> QED BY <3>3, <3>4, <4>1, Answered DEF IInv, ChainInv, Requests
      <3>8. map = m
        BY <3>5, <3>6 DEF map
      <3>9. Ask[t] = r /\ Ask' = [Ask EXCEPT ![t] = [answer |-> v]]
        BY <2>3, <2>4, <3>1, <3>2 DEF Ask
      <3>10. Map!Get(r.key) = v
        BY <3>7, <3>8 DEF Map!Get, Answer
      <3>11. Map!Answer(t)
        BY <2>2, <3>3, <3>9, <3>10 DEF Map!Answer, Map!Requests, Requests, Ask
      <3> QED BY <3>11 DEF Map!Next
    <2> QED BY <2>5, <2>6
  <1>7. ASSUME NEW t \in Threads, Returns(t) PROVE Map!Next
    <2>1. /\ At(t, "done") /\ UNCHANGED chain /\ call' = [call EXCEPT ![t] = NULL]
          /\ \/ t \in Readers /\ Writers = {} /\ Writers' = {} /\ UNCHANGED before
             \/ Writers = {t} /\ Readers = {} /\ Writers' = {}
      BY <1>7, ReturnsInv
    <2>2. pc' = [pc EXCEPT ![t] = "idle"]
      BY <1>7 DEF Returns, ReadLeaves, WriteLeaves, Leave
    <2>3. Readers' \ {t} = Readers \ {t} /\ t \notin Readers'
      BY <2>2 DEF Readers, IInv, Inv, TypeOK
    <2>4. Request(t)' = NULL
      <3>1. call'[t] = NULL
        BY <2>1 DEF IInv, ChainInv, Typed
      <3> QED BY <3>1 DEF RequestsAre
    <2>5. Ask' = [Ask EXCEPT ![t] = NULL]
      <3>1. \A u \in Threads \ {t} : Request(u)' = Request(u)
        BY <1>b, <2>1, <2>3
      <3> QED BY <2>4, <3>1 DEF Ask
    <2>6. call[t] \in Calls /\ call[t] # NULL /\ call[t].at = "done"
      BY <2>1 DEF IInv, ChainInv, Typed, At
    <2>7. CASE t \in Readers /\ Writers = {} /\ Writers' = {} /\ UNCHANGED before
      <3>1. map' = map
        BY <2>1, <2>7, ContentsKept DEF map
      <3>2. Ask[t] \in [answer : Int]
        BY <2>1, <2>6, <2>7 DEF Ask, RequestsAre, Calls
      <3>3. Map!Return(t)
        BY <2>5, <3>1, <3>2 DEF Map!Return, Ask
      <3> QED BY <3>3 DEF Map!Next
    <2>8. CASE Writers = {t} /\ Readers = {} /\ Writers' = {}
      <3>1. PICK r : r = call[t].request
        OBVIOUS
      <3>2. r \in Requests /\ r.op # "get" /\ Leads(call[t])
        BY <2>6, <2>8, <3>1 DEF IInv, ChainInv, Ghosts, Local, Calls
      <3>3. PICK m1, m2 : m1 = [before EXCEPT ![r.key] = EffectOn(before, r)] /\ m2 = Contents'
        OBVIOUS
      <3>4. Represents(m1)'
        <4>1. Represents(m1)
          BY <2>6, <3>1, <3>2, <3>3 DEF Leads
        <4> QED BY <2>1, <4>1 DEF Represents, NoneHas, chain
      <3>5. Represents(m2)'
        BY <2>8, <3>3, ContentsIsNext DEF Represents
      <3>6. m1 = m2
        BY <3>4, <3>5, OneMapNext
      <3>7. map = before /\ map' = m2
        BY <2>8, <3>3 DEF map
      <3>8. Ask[t] = r
        BY <2>6, <2>8, <3>1 DEF Ask, RequestsAre
      <3>9. Map!Effect(r) = EffectOn(before, r)
        BY <3>7 DEF Map!Effect, Map!Get, EffectOn, Answer
      <3>10. map' = [map EXCEPT ![r.key] = Map!Effect(r)]
        BY <3>3, <3>6, <3>7, <3>9
      <3>11. Map!Perform(t)
        BY <2>5, <3>2, <3>8, <3>10 DEF Map!Perform, Map!Requests, Requests, Ask
      <3> QED BY <3>11 DEF Map!Next
    <2> QED BY <2>1, <2>7, <2>8
  <1> QED BY <1>2, <1>3, <1>4, <1>5, <1>6, <1>7 DEF ChainNext

LEMMA LinearInit == ChainInit => Map!Init
  <1> SUFFICES ASSUME ChainInit PROVE Map!Init
    OBVIOUS
  <1>1. Writers = {} /\ allocated = {} /\ \A t \in Threads : call[t] = NULL
    BY DEF ChainInit, Init, Writers
  <1>2. Represents(Contents)
    BY <1>1, ChainInitInv, ContentsIs
  <1>3. Contents = [k \in Keys |-> NULL]
    <2>1. Contents \in [Keys -> Int \cup {NULL}] /\ \A k \in Keys : Contents[k] = NULL
      BY <1>1, <1>2 DEF Represents, NoneHas
    <2> QED BY <2>1
  <1>4. \A t \in Threads : Request(t) = NULL
    BY <1>1, RequestIs DEF RequestsAre
  <1> QED BY <1>1, <1>3, <1>4 DEF Map!Init, map

(* get, put, remove and increment take effect one at a time, each at one   *)
(* moment between its call and its return, however many threads are inside *)
(* and wherever they yield.                                                *)
THEOREM LinearizableCorrect == ChainSpec => Linearizable
  <1>1. ChainSpec => [][Map!Next]_<<map, Ask>>
    BY ChainSpecInv, LinearStep, PTL DEF ChainSpec
  <1>2. ChainSpec => Map!Init
    BY LinearInit DEF ChainSpec
  <1> QED BY <1>1, <1>2, PTL DEF Linearizable, Map!Spec, Map!vars, Ask
=============================================================================
