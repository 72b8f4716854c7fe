------------------------- MODULE NachosThreadsProofs -------------------------
(***************************************************************************)
(* The thread system of project_1b: no thread is lost or in two places, no *)
(* V and no Release is lost, and the lock with its condition variable      *)
(* implements MesaMonitor, for any finite set of threads.                  *)
(***************************************************************************)
EXTENDS NachosThreads, FiniteSetTheorems, SequenceTheorems, TLAPS

-----------------------------------------------------------------------------
(* Lists without repetitions. *)

Distinct(q) == \A i, j \in DOMAIN q : q[i] = q[j] => i = j

LEMMA EmptyList == /\ <<>> \in Seq(Threads) /\ Elements(<<>>) = {} /\ Distinct(<<>>)
                   /\ \A q \in Seq(Threads) : q = <<>> <=> Elements(q) = {}
  <1>1. <<>> \in Seq(Threads) /\ DOMAIN <<>> = {}
    OBVIOUS
  <1>2. Elements(<<>>) = {} /\ Distinct(<<>>)
    BY <1>1 DEF Elements, Distinct
  <1>3. ASSUME NEW q \in Seq(Threads), Elements(q) = {} PROVE q = <<>>
    <2>1. DOMAIN q = {}
      BY <1>3 DEF Elements
    <2>2. Len(q) = 0
      BY <2>1
    <2> QED BY <2>2
  <1> QED BY <1>1, <1>2, <1>3

LEMMA OneList ==
  ASSUME NEW t \in Threads
  PROVE  <<t>> \in Seq(Threads) /\ Elements(<<t>>) = {t} /\ Distinct(<<t>>)
  BY DEF Elements, Distinct

LEMMA ConcatIs ==
  \A p, q \in Seq(Threads) :
    /\ p \o q \in Seq(Threads) /\ Len(p \o q) = Len(p) + Len(q)
    /\ \A i \in 1..(Len(p) + Len(q)) : (p \o q)[i] = IF i <= Len(p) THEN p[i] ELSE q[i - Len(p)]
  OBVIOUS

LEMMA ConcatList ==
  ASSUME NEW p \in Seq(Threads), NEW q \in Seq(Threads)
  PROVE  /\ p \o q \in Seq(Threads)
         /\ Elements(p \o q) = Elements(p) \cup Elements(q)
         /\ Distinct(p \o q) <=> Distinct(p) /\ Distinct(q) /\ Elements(p) \cap Elements(q) = {}
  <1>1. /\ p \o q \in Seq(Threads) /\ DOMAIN (p \o q) = 1..(Len(p) + Len(q))
        /\ DOMAIN p = 1..Len(p) /\ DOMAIN q = 1..Len(q) /\ Len(p) \in Nat /\ Len(q) \in Nat
        /\ \A i \in 1..(Len(p) + Len(q)) : (p \o q)[i] = IF i <= Len(p) THEN p[i] ELSE q[i - Len(p)]
    OBVIOUS
  <1> DEFINE s == p \o q
  <1>2. \A i \in DOMAIN p : i \in DOMAIN s /\ s[i] = p[i]
    BY <1>1
  <1>3. \A i \in DOMAIN q : i + Len(p) \in DOMAIN s /\ s[i + Len(p)] = q[i]
    BY <1>1
  <1>4. \A i \in DOMAIN s : \/ i \in DOMAIN p /\ s[i] = p[i]
                            \/ i - Len(p) \in DOMAIN q /\ s[i] = q[i - Len(p)] /\ i > Len(p)
    BY <1>1
  <1> HIDE DEF s
  <1>5. Elements(s) = Elements(p) \cup Elements(q)
    <2>1. \A i \in DOMAIN s : s[i] \in Elements(p) \cup Elements(q)
      BY <1>4 DEF Elements
    <2>2. \A i \in DOMAIN p : p[i] \in Elements(s)
      BY <1>2 DEF Elements
    <2>3. \A i \in DOMAIN q : q[i] \in Elements(s)
      BY <1>3 DEF Elements
    <2> QED BY <2>1, <2>2, <2>3 DEF Elements
  <1>6. ASSUME Distinct(s) PROVE Distinct(p) /\ Distinct(q) /\ Elements(p) \cap Elements(q) = {}
    <2>1. Distinct(p)
      BY <1>2, <1>6 DEF Distinct
    <2>2. Distinct(q)
      <3> SUFFICES ASSUME NEW i \in DOMAIN q, NEW j \in DOMAIN q, q[i] = q[j] PROVE i = j
        BY DEF Distinct
      <3>1. i + Len(p) = j + Len(p)
        BY <1>3, <1>6 DEF Distinct
      <3> QED BY <1>1, <3>1
    <2>3. ASSUME NEW i \in DOMAIN p, NEW j \in DOMAIN q, p[i] = q[j] PROVE FALSE
      <3>1. i = j + Len(p)
        BY <1>2, <1>3, <1>6, <2>3 DEF Distinct
      <3> QED BY <1>1, <3>1
    <2> QED BY <2>1, <2>2, <2>3 DEF Elements
  <1>7. ASSUME Distinct(p), Distinct(q), Elements(p) \cap Elements(q) = {} PROVE Distinct(s)
    <2> SUFFICES ASSUME NEW i \in DOMAIN s, NEW j \in DOMAIN s, s[i] = s[j] PROVE i = j
      BY DEF Distinct
    <2>1. \A k \in DOMAIN p, l \in DOMAIN q : p[k] # q[l]
      BY <1>7 DEF Elements
    <2>2. i \in Int /\ j \in Int
      BY <1>1 DEF s
    <2>3. CASE i \in DOMAIN p /\ s[i] = p[i] /\ j \in DOMAIN p /\ s[j] = p[j]
      BY <1>7, <2>3 DEF Distinct
    <2>4. CASE i - Len(p) \in DOMAIN q /\ s[i] = q[i - Len(p)] /\ j - Len(p) \in DOMAIN q /\ s[j] = q[j - Len(p)]
      <3>1. i - Len(p) = j - Len(p)
        BY <1>7, <2>4 DEF Distinct
      <3> QED BY <1>1, <2>2, <3>1
    <2>5. CASE i \in DOMAIN p /\ s[i] = p[i] /\ j - Len(p) \in DOMAIN q /\ s[j] = q[j - Len(p)]
      BY <2>1, <2>5
    <2>6. CASE j \in DOMAIN p /\ s[j] = p[j] /\ i - Len(p) \in DOMAIN q /\ s[i] = q[i - Len(p)]
      BY <2>1, <2>6
    <2> QED BY <1>4, <2>3, <2>4, <2>5, <2>6
  <1> QED BY <1>1, <1>5, <1>6, <1>7 DEF s

LEMMA AppendList ==
  ASSUME NEW q \in Seq(Threads), NEW t \in Threads
  PROVE  /\ Append(q, t) \in Seq(Threads) /\ Elements(Append(q, t)) = Elements(q) \cup {t}
         /\ Distinct(Append(q, t)) <=> Distinct(q) /\ t \notin Elements(q)
  <1> DEFINE o == <<t>>
  <1>1. o \in Seq(Threads) /\ Elements(o) = {t} /\ Distinct(o)
    BY OneList
  <1>2. Append(q, t) = q \o o
    BY AppendIsConcat
  <1> HIDE DEF o
  <1> QED BY <1>1, <1>2, ConcatList

(* What waking the first of a list does to the list. *)
LEMMA FirstAndRest ==
  ASSUME NEW q \in Seq(Threads), Distinct(q)
  PROVE  /\ First(q) \in Seq(Threads) /\ Without(q, First(q)) \in Seq(Threads)
         /\ Distinct(First(q)) /\ Distinct(Without(q, First(q)))
         /\ Elements(First(q)) \cap Elements(Without(q, First(q))) = {}
         /\ Elements(First(q)) \cup Elements(Without(q, First(q))) = Elements(q)
         /\ q # <<>> => /\ q[1] \in Threads /\ Elements(First(q)) = {q[1]}
                        /\ Without(q, First(q)) = SubSeq(q, 2, Len(q))
         /\ q = <<>> => First(q) = <<>> /\ Without(q, First(q)) = <<>>
  <1>1. CASE q = <<>>
    <2>1. First(q) = <<>> /\ Without(q, First(q)) = <<>>
      BY <1>1, SubSeqEmpty DEF First, Without
    <2> QED BY <1>1, <2>1, EmptyList
  <1>2. CASE q # <<>>
    <2> DEFINE a == SubSeq(q, 1, 1)
               b == SubSeq(q, 2, Len(q))
    <2>1. Len(q) \in Nat \ {0} /\ \A i \in 1..Len(q) : q[i] \in Threads
      BY <1>2, EmptySeq, ElementOfSeq
    <2>2. a \in Seq(Threads) /\ Len(a) = 1 /\ a[1] = q[1]
      BY <2>1, SubSeqProperties
    <2>3. b \in Seq(Threads)
      BY <2>1, SubSeqProperties
    <2>4. First(q) = a
      BY <1>2 DEF First
    <2>5. Without(q, First(q)) = b
      BY <2>2, <2>4 DEF Without
    <2>6. Len(b) = Len(q) - 1 /\ \A i \in 1..Len(b) : b[i] = q[i + 1]
      <3>1. b = Tail(q)
        BY <1>2, TailIsSubSeq
      <3> HIDE DEF b
      <3> QED BY <1>2, <3>1, HeadTailProperties
    <2> HIDE DEF a, b
    <2>7. a \o b = q
      <3>1. /\ a \o b \in Seq(Threads) /\ Len(a \o b) = Len(a) + Len(b)
            /\ \A i \in 1..(Len(a) + Len(b)) : (a \o b)[i] = IF i <= Len(a) THEN a[i] ELSE b[i - Len(a)]
        BY <2>2, <2>3, ConcatIs
      <3>2. Len(a \o b) = Len(q) /\ \A i \in 1..Len(q) : (a \o b)[i] = q[i]
        BY <2>1, <2>2, <2>6, <3>1
      <3> QED BY <3>1, <3>2, SeqEqual
    <2>8. Elements(a) = {q[1]}
      BY <2>2 DEF Elements
    <2>9. /\ Distinct(a) /\ Distinct(b) /\ Elements(a) \cap Elements(b) = {}
          /\ Elements(q) = Elements(a) \cup Elements(b)
      BY <2>2, <2>3, <2>7, ConcatList
    <2> QED BY <1>2, <2>1, <2>2, <2>3, <2>4, <2>5, <2>8, <2>9 DEF b
  <1> QED BY <1>1, <1>2

LEMMA HeadAndTail ==
  ASSUME NEW q \in Seq(Threads), q # <<>>, Distinct(q)
  PROVE  /\ Head(q) \in Threads /\ Tail(q) \in Seq(Threads) /\ Distinct(Tail(q))
         /\ Head(q) \in Elements(q) /\ Elements(Tail(q)) = Elements(q) \ {Head(q)}
  <1> DEFINE a == First(q)
             b == Without(q, a)
  <1>1. /\ Distinct(b) /\ Elements(a) \cap Elements(b) = {} /\ Elements(a) \cup Elements(b) = Elements(q)
        /\ q[1] \in Threads /\ Elements(a) = {q[1]} /\ b = SubSeq(q, 2, Len(q)) /\ b \in Seq(Threads)
    BY FirstAndRest
  <1>2. Tail(q) = b /\ Head(q) = q[1]
    BY <1>1, TailIsSubSeq
  <1> HIDE DEF a, b
  <1> QED BY <1>1, <1>2

-----------------------------------------------------------------------------
(* The inductive invariant.  Where a thread is in a primitive says on which *)
(* queue it can be, so that the queues of the semaphore, the lock and the   *)
(* condition variable share nobody.                                         *)

Doing == {"unborn", "new", "run", "P", "Acquire", "Wait", "finished"}

AliveIn(d) == {t \in Threads : d[t] \notin {"unborn", "finished"}}

(* Every thread alive at d, but for those in others, is on one list, once. *)
Placed(r, s, l, c, d, others) ==
  /\ r \in Seq(Threads) /\ s \in Seq(Threads) /\ l \in Seq(Threads) /\ c \in Seq(Threads)
  /\ Distinct(r) /\ Distinct(s) /\ Distinct(l) /\ Distinct(c)
  /\ Elements(r) \cap (Elements(s) \cup Elements(l) \cup Elements(c)) = {}
  /\ \A t \in Elements(s) : d[t] = "P"
  /\ \A t \in Elements(l) : d[t] = "Acquire"
  /\ \A t \in Elements(c) : d[t] = "Wait"
  /\ Elements(r) \cup Elements(s) \cup Elements(l) \cup Elements(c) = AliveIn(d) \ others

IInv ==
  /\ TypeOK
  /\ Placed(ready, semQueue, lockQueue, condQueue, doing, {current})
  /\ current \in AliveIn(doing) \cup {NULL}
  /\ lockValue = 1 <=> threadHolding = NULL

LEMMA ElementsAreThreads == \A q \in Seq(Threads) : Elements(q) \subseteq Threads
  BY ElementOfSeq, LenProperties DEF Elements

(* Once the thread on the processor has been put away, Run puts another in *)
(* its place.                                                              *)
LEMMA SwitchPlaces ==
  ASSUME NEW r, NEW s, NEW l, NEW c, NEW d \in [Threads -> Doing], NEW x \in Threads \cup {NULL},
         Placed(r, s, l, c, d, {}), r = <<>> => ready = <<>>, destroyed \subseteq Threads,
         SwitchFrom(r, d, x)
  PROVE  /\ Placed(ready', s, l, c, doing', {current'})
         /\ current' \in AliveIn(doing') \cup {NULL} /\ current' \in Threads \cup {NULL}
         /\ doing' \in [Threads -> Doing] /\ threadToBeDestroyed' \in Threads \cup {NULL}
         /\ destroyed' \subseteq Threads
         /\ \A t \in Threads : doing'[t] = d[t] \/ (d[t] = "new" /\ doing'[t] = "run")
  <1>1. CASE r = <<>>
    <2>1. /\ current' = NULL /\ doing' = d /\ threadToBeDestroyed' = x
          /\ UNCHANGED <<ready, destroyed>> /\ ready' = r
      BY <1>1 DEF SwitchFrom
    <2>2. AliveIn(d) \ {NULL} = AliveIn(d)
      BY ThreadAssumption DEF AliveIn
    <2> QED BY <2>1, <2>2 DEF Placed
  <1>2. CASE r # <<>>
    <2> DEFINE h == Head(r)
    <2>1. /\ h \in Threads /\ Tail(r) \in Seq(Threads) /\ Distinct(Tail(r))
          /\ h \in Elements(r) /\ Elements(Tail(r)) = Elements(r) \ {h}
      BY <1>2, HeadAndTail DEF Placed
    <2>2. /\ current' = h /\ ready' = Tail(r) /\ destroyed' \subseteq Threads
          /\ threadToBeDestroyed' \in Threads \cup {NULL}
          /\ \/ d[h] = "new" /\ doing' = [d EXCEPT ![h] = "run"]
             \/ d[h] # "new" /\ doing' = d
      BY <1>2 DEF SwitchFrom
    <2> HIDE DEF h
    <2>3. AliveIn(doing') = AliveIn(d)
      BY <2>1, <2>2 DEF AliveIn
    <2>4. h \in AliveIn(d) /\ h \notin Elements(s) \cup Elements(l) \cup Elements(c)
      BY <2>1 DEF Placed
    <2>5. \A t \in Threads : /\ doing'[t] = d[t] \/ (d[t] = "new" /\ doing'[t] = "run")
                             /\ t # h => doing'[t] = d[t]
      BY <2>2
    <2>6. \A t \in Elements(s) \cup Elements(l) \cup Elements(c) : doing'[t] = d[t]
      BY <2>4, <2>5, ElementsAreThreads DEF Placed
    <2>7. Placed(ready', s, l, c, doing', {current'})
      BY <2>1, <2>2, <2>3, <2>4, <2>6 DEF Placed
    <2>8. doing' \in [Threads -> Doing]
      BY <2>2 DEF Doing
    <2> QED BY <2>1, <2>2, <2>3, <2>4, <2>5, <2>7, <2>8
  <1> QED BY <1>1, <1>2

(* The thread on the processor is on no list. *)
LEMMA CurrentIsNowhere ==
  ASSUME IInv, NEW t \in Threads, current = t
  PROVE  /\ t \in AliveIn(doing) /\ t \notin Elements(ready) /\ t \notin Elements(semQueue)
         /\ t \notin Elements(lockQueue) /\ t \notin Elements(condQueue)
         /\ ready \in Seq(Threads) /\ semQueue \in Seq(Threads)
         /\ lockQueue \in Seq(Threads) /\ condQueue \in Seq(Threads)
         /\ Distinct(ready) /\ Distinct(semQueue) /\ Distinct(lockQueue) /\ Distinct(condQueue)
         /\ doing \in [Threads -> Doing] /\ threadToBeDestroyed \in Threads \cup {NULL}
         /\ destroyed \subseteq Threads
  BY ThreadAssumption DEF IInv, Placed, TypeOK, Doing

(* The thread t on the processor changes what it does and is put away. *)
LEMMA PutAway ==
  ASSUME NEW r, NEW s, NEW l, NEW c, NEW d \in [Threads -> Doing], NEW t \in AliveIn(d), NEW w \in Doing,
         Placed(r, s, l, c, d, {t})
  PROVE  LET e == [d EXCEPT ![t] = w]
         IN  /\ e \in [Threads -> Doing]
             /\ w = "run" => Placed(r, s, l, c, e, {t})
             /\ w = "finished" => Placed(r, s, l, c, e, {})
             /\ w = "P" => Placed(r, Append(s, t), l, c, e, {})
             /\ w = "Acquire" => Placed(r, s, Append(l, t), c, e, {})
             /\ w = "Wait" => Placed(r, s, l, Append(c, t), e, {})
  <1> DEFINE e == [d EXCEPT ![t] = w]
  <1>1. t \in Threads /\ e \in [Threads -> Doing] /\ e[t] = w /\ \A v \in Threads \ {t} : e[v] = d[v]
    BY DEF AliveIn
  <1> HIDE DEF e
  <1>2. /\ t \notin Elements(r) /\ t \notin Elements(s) /\ t \notin Elements(l) /\ t \notin Elements(c)
        /\ Elements(s) \subseteq Threads /\ Elements(l) \subseteq Threads /\ Elements(c) \subseteq Threads
    BY ElementsAreThreads DEF Placed
  <1>3. /\ w = "finished" => AliveIn(e) = AliveIn(d) \ {t}
        /\ w \in {"run", "P", "Acquire", "Wait"} => AliveIn(e) = AliveIn(d)
    BY <1>1 DEF AliveIn
  <1>4. /\ \A v \in Elements(s) : e[v] = "P"
        /\ \A v \in Elements(l) : e[v] = "Acquire"
        /\ \A v \in Elements(c) : e[v] = "Wait"
    BY <1>1, <1>2 DEF Placed
  <1>5. CASE w \in {"run", "finished"}
    BY <1>1, <1>3, <1>4, <1>5 DEF Placed, e
  <1>6. CASE w = "P"
    <2>1. /\ Append(s, t) \in Seq(Threads) /\ Elements(Append(s, t)) = Elements(s) \cup {t}
          /\ Distinct(Append(s, t))
      BY <1>1, <1>2, AppendList DEF Placed
    <2> QED BY <1>1, <1>2, <1>3, <1>4, <1>6, <2>1 DEF Placed, e
  <1>7. CASE w = "Acquire"
    <2>1. /\ Append(l, t) \in Seq(Threads) /\ Elements(Append(l, t)) = Elements(l) \cup {t}
          /\ Distinct(Append(l, t))
      BY <1>1, <1>2, AppendList DEF Placed
    <2> QED BY <1>1, <1>2, <1>3, <1>4, <1>7, <2>1 DEF Placed, e
  <1>8. CASE w = "Wait"
    <2>1. /\ Append(c, t) \in Seq(Threads) /\ Elements(Append(c, t)) = Elements(c) \cup {t}
          /\ Distinct(Append(c, t))
      BY <1>1, <1>2, AppendList DEF Placed
    <2> QED BY <1>1, <1>2, <1>3, <1>4, <1>8, <2>1 DEF Placed, e
  <1>9. CASE w \in {"unborn", "new"}
    BY <1>1, <1>9 DEF e
  <1> QED BY <1>5, <1>6, <1>7, <1>8, <1>9 DEF Doing

(* Some of a queue, a, are woken: they go to the ready list, and b stays. *)
LEMMA WakePlaces ==
  ASSUME NEW r, NEW s, NEW l, NEW c, NEW d, NEW o, Placed(r, s, l, c, d, o),
         NEW a \in Seq(Threads), NEW b \in Seq(Threads), Distinct(a), Distinct(b),
         Elements(a) \cap Elements(b) = {}
  PROVE  /\ Elements(a) \cup Elements(b) = Elements(s) => Placed(ReadyToRun(r, a), b, l, c, d, o)
         /\ Elements(a) \cup Elements(b) = Elements(l) => Placed(ReadyToRun(r, a), s, b, c, d, o)
         /\ Elements(a) \cup Elements(b) = Elements(c) => Placed(ReadyToRun(r, a), s, l, b, d, o)
         /\ ReadyToRun(r, a) = <<>> => r = <<>>
  <1> DEFINE q == ReadyToRun(r, a)
  <1>1. /\ q \in Seq(Threads) /\ Elements(q) = Elements(r) \cup Elements(a)
        /\ Distinct(q) <=> Distinct(r) /\ Distinct(a) /\ Elements(r) \cap Elements(a) = {}
    BY ConcatList DEF ReadyToRun, Placed
  <1> HIDE DEF q
  <1>2. q = <<>> => r = <<>>
    BY <1>1, EmptyList DEF Placed
  <1>3. ASSUME Elements(a) \cup Elements(b) = Elements(s) PROVE Placed(q, b, l, c, d, o)
    <2>1. \A t \in Elements(s) : t \notin Elements(l) /\ t \notin Elements(c)
      BY DEF Placed
    <2> QED BY <1>1, <1>3, <2>1 DEF Placed
  <1>4. ASSUME Elements(a) \cup Elements(b) = Elements(l) PROVE Placed(q, s, b, c, d, o)
    <2>1. \A t \in Elements(l) : t \notin Elements(s) /\ t \notin Elements(c)
      BY DEF Placed
    <2> QED BY <1>1, <1>4, <2>1 DEF Placed
  <1>5. ASSUME Elements(a) \cup Elements(b) = Elements(c) PROVE Placed(q, s, l, b, d, o)
    <2>1. \A t \in Elements(c) : t \notin Elements(s) /\ t \notin Elements(l)
      BY DEF Placed
    <2> QED BY <1>1, <1>5, <2>1 DEF Placed
  <1> QED BY <1>2, <1>3, <1>4, <1>5 DEF q

-----------------------------------------------------------------------------
(* Every step keeps it. *)

LEMMA SwitchKeeps ==
  ASSUME IInv, NEW r, NEW d \in [Threads -> Doing], NEW x \in Threads \cup {NULL},
         Placed(r, semQueue', lockQueue', condQueue', d, {}), r = <<>> => ready = <<>>,
         SwitchFrom(r, d, x), semValue' \in 0..MaxValue, lockValue' \in {0, 1},
         threadHolding' \in Threads \cup {NULL}, inside' \subseteq Threads,
         lockValue' = 1 <=> threadHolding' = NULL
  PROVE  IInv'
  <1> DEFINE s == semQueue'
             l == lockQueue'
             c == condQueue'
  <1>1. destroyed \subseteq Threads /\ Placed(r, s, l, c, d, {})
    BY DEF IInv, TypeOK
  <1> HIDE DEF s, l, c
  <1>2. /\ Placed(ready', s, l, c, doing', {current'})
        /\ current' \in AliveIn(doing') \cup {NULL} /\ current' \in Threads \cup {NULL}
        /\ doing' \in [Threads -> Doing] /\ threadToBeDestroyed' \in Threads \cup {NULL}
        /\ destroyed' \subseteq Threads
    BY <1>1, SwitchPlaces
  <1> USE DEF s, l, c
  <1>3. TypeOK'
    BY <1>2 DEF TypeOK, Placed, Doing
  <1> QED BY <1>2, <1>3 DEF IInv, AliveIn

LEMMA WakeKeeps ==
  ASSUME IInv, NEW q, Wake(q),
         Placed(ReadyToRun(ready, q), semQueue', lockQueue', condQueue', doing, {current}),
         semValue' \in 0..MaxValue, lockValue' \in {0, 1},
         threadHolding' \in Threads \cup {NULL}, inside' \subseteq Threads,
         lockValue' = 1 <=> threadHolding' = NULL
  PROVE  IInv'
  <1>1. ready' = ReadyToRun(ready, q) /\ UNCHANGED <<current, doing, threadToBeDestroyed, destroyed>>
    BY DEF Wake
  <1>2. Placed(ready', semQueue', lockQueue', condQueue', doing', {current'})
    BY <1>1
  <1>3. TypeOK'
    BY <1>1, <1>2 DEF IInv, TypeOK, Placed
  <1> QED BY <1>1, <1>2, <1>3 DEF IInv, AliveIn

LEMMA ReturnKeeps ==
  ASSUME IInv, NEW t \in Threads, current = t, Returns(t),
         UNCHANGED <<semQueue, lockQueue, condQueue>>,
         semValue' \in 0..MaxValue, lockValue' \in {0, 1},
         threadHolding' \in Threads \cup {NULL}, inside' \subseteq Threads,
         lockValue' = 1 <=> threadHolding' = NULL
  PROVE  IInv'
  <1> DEFINE d == [doing EXCEPT ![t] = "run"]
  <1>1. /\ t \in AliveIn(doing) /\ doing \in [Threads -> Doing]
        /\ Placed(ready, semQueue, lockQueue, condQueue, doing, {t})
    BY CurrentIsNowhere DEF IInv
  <1>2. d \in [Threads -> Doing] /\ Placed(ready, semQueue, lockQueue, condQueue, d, {t})
    BY <1>1, PutAway DEF Doing
  <1>3. t \in AliveIn(d)
    BY <1>1 DEF AliveIn
  <1>4. doing' = d /\ UNCHANGED <<current, ready, threadToBeDestroyed, destroyed>>
    BY DEF Returns
  <1> HIDE DEF d
  <1>5. TypeOK'
    BY <1>2, <1>4 DEF IInv, TypeOK, Doing
  <1>6. Placed(ready', semQueue', lockQueue', condQueue', doing', {current'})
    BY <1>2, <1>4
  <1>7. current' \in AliveIn(doing')
    BY <1>3, <1>4
  <1> QED BY <1>5, <1>6, <1>7 DEF IInv, AliveIn

LEMMA ForkKeeps == ASSUME IInv, NEW t \in Threads, NEW u \in Threads, Fork(t, u) PROVE IInv'
  <1> DEFINE d == [doing EXCEPT ![u] = "new"]
             q == ReadyToRun(ready, <<u>>)
  <1>1. /\ doing' = d /\ ready' = q /\ current = t /\ doing[u] = "unborn"
        /\ UNCHANGED <<current, threadToBeDestroyed, destroyed, semaphore, monitor>>
    BY DEF Fork, Runs
  <1>2. /\ Placed(ready, semQueue, lockQueue, condQueue, doing, {t})
        /\ doing \in [Threads -> Doing] /\ t \in AliveIn(doing)
    BY <1>1, CurrentIsNowhere DEF IInv
  <1>3. u \notin AliveIn(doing) /\ AliveIn(d) = AliveIn(doing) \cup {u} /\ u # t
    BY <1>1, <1>2 DEF AliveIn
  <1>4. /\ u \notin Elements(ready) /\ u \notin Elements(semQueue)
        /\ u \notin Elements(lockQueue) /\ u \notin Elements(condQueue)
    BY <1>2, <1>3 DEF Placed
  <1>5. q \in Seq(Threads) /\ Elements(q) = Elements(ready) \cup {u} /\ Distinct(q)
    <2> DEFINE o == <<u>>
    <2>1. o \in Seq(Threads) /\ Elements(o) = {u} /\ Distinct(o) /\ q = ready \o o
      BY OneList DEF ReadyToRun
    <2> HIDE DEF o, q
    <2> QED BY <1>2, <1>4, <2>1, ConcatList DEF Placed
  <1>6. d \in [Threads -> Doing] /\ \A v \in Threads \ {u} : d[v] = doing[v]
    BY <1>2 DEF Doing
  <1>7. \A v \in Elements(semQueue) \cup Elements(lockQueue) \cup Elements(condQueue) : d[v] = doing[v]
    BY <1>2, <1>4, <1>6, ElementsAreThreads DEF Placed
  <1> HIDE DEF d, q
  <1>8. Placed(q, semQueue, lockQueue, condQueue, d, {t})
    <2>1. Elements(q) \cup Elements(semQueue) \cup Elements(lockQueue) \cup Elements(condQueue)
            = AliveIn(d) \ {t}
      BY <1>2, <1>3, <1>5 DEF Placed
    <2>2. /\ \A v \in Elements(semQueue) : d[v] = "P"
          /\ \A v \in Elements(lockQueue) : d[v] = "Acquire"
          /\ \A v \in Elements(condQueue) : d[v] = "Wait"
      BY <1>2, <1>7 DEF Placed
    <2>3. Elements(q) \cap (Elements(semQueue) \cup Elements(lockQueue) \cup Elements(condQueue)) = {}
      BY <1>2, <1>4, <1>5 DEF Placed
    <2> QED BY <1>2, <1>5, <2>1, <2>2, <2>3 DEF Placed
  <1>9. TypeOK'
    BY <1>1, <1>5, <1>6 DEF IInv, TypeOK, Doing, semaphore, monitor, lock
  <1>10. t \in AliveIn(d)
    BY <1>2, <1>3
  <1> QED BY <1>1, <1>8, <1>9, <1>10 DEF IInv, AliveIn, semaphore, monitor, lock

LEMMA Holding ==
  ASSUME IInv
  PROVE  /\ semValue \in 0..MaxValue /\ lockValue \in {0, 1} /\ threadHolding \in Threads \cup {NULL}
         /\ inside \subseteq Threads /\ (lockValue = 1 <=> threadHolding = NULL)
         /\ threadToBeDestroyed \in Threads \cup {NULL}
  BY DEF IInv, TypeOK

LEMMA YieldKeeps == ASSUME IInv, NEW t \in Threads, Yield(t) PROVE IInv'
  <1> DEFINE a == <<Head(ready)>>
             b == ReadyToRun(Tail(ready), <<t>>)
             r == a \o b
  <1>1. /\ current = t /\ ready # <<>> /\ SwitchFrom(r, doing, threadToBeDestroyed)
        /\ UNCHANGED <<semaphore, monitor>>
    BY DEF Yield, Runs
  <1>2. /\ Placed(ready, semQueue, lockQueue, condQueue, doing, {t})
        /\ doing \in [Threads -> Doing] /\ t \in AliveIn(doing) /\ t \notin Elements(ready)
        /\ t \notin Elements(semQueue) \cup Elements(lockQueue) \cup Elements(condQueue)
    BY <1>1, CurrentIsNowhere DEF IInv
  <1>3. /\ Head(ready) \in Threads /\ Tail(ready) \in Seq(Threads) /\ Distinct(Tail(ready))
        /\ Head(ready) \in Elements(ready) /\ Elements(Tail(ready)) = Elements(ready) \ {Head(ready)}
    BY <1>1, <1>2, HeadAndTail DEF Placed
  <1>4. a \in Seq(Threads) /\ Elements(a) = {Head(ready)} /\ Distinct(a)
    BY <1>3, OneList
  <1>5. b \in Seq(Threads) /\ Elements(b) = Elements(Tail(ready)) \cup {t} /\ Distinct(b)
    <2> DEFINE o == <<t>>
               q == Tail(ready)
    <2>1. o \in Seq(Threads) /\ Elements(o) = {t} /\ Distinct(o) /\ b = q \o o
      BY OneList DEF ReadyToRun
    <2>2. q \in Seq(Threads) /\ Distinct(q) /\ Elements(q) \cap {t} = {}
      BY <1>2, <1>3
    <2> HIDE DEF o, q, b
    <2>3. b \in Seq(Threads) /\ Elements(b) = Elements(q) \cup {t} /\ Distinct(b)
      BY <2>1, <2>2, ConcatList
    <2> QED BY <2>3 DEF q
  <1> HIDE DEF a, b
  <1>6. r \in Seq(Threads) /\ Elements(r) = Elements(ready) \cup {t} /\ Distinct(r)
    BY <1>2, <1>3, <1>4, <1>5, ConcatList
  <1> HIDE DEF r
  <1>7. r # <<>>
    BY <1>6, EmptyList
  <1>8. Placed(r, semQueue, lockQueue, condQueue, doing, {})
    BY <1>2, <1>6 DEF Placed
  <1>9. Placed(r, semQueue', lockQueue', condQueue', doing, {})
    BY <1>1, <1>8 DEF semaphore, monitor, lock
  <1> QED BY <1>1, <1>2, <1>7, <1>9, Holding, SwitchKeeps DEF semaphore, monitor, lock

LEMMA FinishKeeps == ASSUME IInv, NEW t \in Threads, Finish(t) PROVE IInv'
  <1> DEFINE d == [doing EXCEPT ![t] = "finished"]
  <1>1. /\ current = t /\ SwitchFrom(ready, d, t) /\ UNCHANGED <<semaphore, monitor>>
    BY DEF Finish, Runs
  <1>2. d \in [Threads -> Doing] /\ Placed(ready, semQueue, lockQueue, condQueue, d, {})
    BY <1>1, CurrentIsNowhere, PutAway DEF IInv, Doing
  <1> HIDE DEF d
  <1>3. Placed(ready, semQueue', lockQueue', condQueue', d, {})
    BY <1>1, <1>2 DEF semaphore, monitor, lock
  <1> QED BY <1>1, <1>2, <1>3, Holding, SwitchKeeps DEF semaphore, monitor, lock

LEMMA PKeeps == ASSUME IInv, NEW t \in Threads, P(t) PROVE IInv'
  <1>1. current = t /\ UNCHANGED monitor
    BY DEF P, Runs
  <1>2. CASE semValue # 0 /\ semValue' = semValue - 1 /\ Returns(t) /\ UNCHANGED semQueue
    <2>1. semValue' \in 0..MaxValue
      BY <1>2, Holding, ValueAssumption
    <2> QED BY <1>1, <1>2, <2>1, Holding, ReturnKeeps DEF monitor, lock
  <1>3. CASE semQueue' = Append(semQueue, t) /\ SleepIn(t, "P", ready) /\ UNCHANGED semValue
    <2> DEFINE d == [doing EXCEPT ![t] = "P"]
    <2>1. d \in [Threads -> Doing] /\ Placed(ready, Append(semQueue, t), lockQueue, condQueue, d, {})
      BY <1>1, CurrentIsNowhere, PutAway DEF IInv, Doing
    <2>2. SwitchFrom(ready, d, threadToBeDestroyed)
      BY <1>3 DEF SleepIn
    <2> HIDE DEF d
    <2>3. Placed(ready, semQueue', lockQueue', condQueue', d, {})
      BY <1>1, <1>3, <2>1 DEF monitor, lock
    <2> QED BY <1>1, <1>3, <2>1, <2>2, <2>3, Holding, SwitchKeeps DEF monitor, lock
  <1> QED BY <1>2, <1>3 DEF P, Takes

LEMMA VKeeps == ASSUME IInv, NEW t \in Threads, V(t) PROVE IInv'
  <1> DEFINE a == First(semQueue)
             b == Without(semQueue, a)
  <1>1. /\ current = t /\ Wake(a) /\ semQueue' = b /\ semValue' = semValue + 1
        /\ semValue < MaxValue /\ UNCHANGED monitor
    BY DEF V, Runs, WokenByV
  <1>2. Placed(ReadyToRun(ready, a), b, lockQueue, condQueue, doing, {current})
    <2>1. /\ a \in Seq(Threads) /\ b \in Seq(Threads) /\ Distinct(a) /\ Distinct(b)
          /\ Elements(a) \cap Elements(b) = {} /\ Elements(a) \cup Elements(b) = Elements(semQueue)
      BY FirstAndRest DEF IInv, Placed
    <2> HIDE DEF a, b
    <2> QED BY <2>1, WakePlaces DEF IInv
  <1> HIDE DEF a, b
  <1>3. Placed(ReadyToRun(ready, a), semQueue', lockQueue', condQueue', doing, {current})
    BY <1>1, <1>2 DEF monitor, lock
  <1>4. semValue' \in 0..MaxValue
    BY <1>1, Holding, ValueAssumption
  <1> QED BY <1>1, <1>3, <1>4, Holding, WakeKeeps DEF monitor, lock

LEMMA AcquireKeeps == ASSUME IInv, NEW t \in Threads, Acquire(t) PROVE IInv'
  <1>1. current = t /\ UNCHANGED <<condQueue, semaphore>>
    BY DEF Acquire, Runs
  <1>2. CASE /\ lockValue' = 0 /\ threadHolding' = t /\ inside' = inside \cup {t}
             /\ Returns(t) /\ UNCHANGED lockQueue
    <2>1. t # NULL
      BY ThreadAssumption
    <2> QED BY <1>1, <1>2, <2>1, Holding, ReturnKeeps DEF semaphore
  <1>3. CASE /\ lockQueue' = Append(lockQueue, t) /\ SleepIn(t, "Acquire", ready)
             /\ UNCHANGED <<lockValue, threadHolding, inside>>
    <2> DEFINE d == [doing EXCEPT ![t] = "Acquire"]
    <2>1. d \in [Threads -> Doing] /\ Placed(ready, semQueue, Append(lockQueue, t), condQueue, d, {})
      BY <1>1, CurrentIsNowhere, PutAway DEF IInv, Doing
    <2>2. SwitchFrom(ready, d, threadToBeDestroyed)
      BY <1>3 DEF SleepIn
    <2> HIDE DEF d
    <2>3. Placed(ready, semQueue', lockQueue', condQueue', d, {})
      BY <1>1, <1>3, <2>1 DEF semaphore
    <2> QED BY <1>1, <1>3, <2>1, <2>2, <2>3, Holding, SwitchKeeps DEF semaphore
  <1> QED BY <1>2, <1>3 DEF Acquire

(* What Release and Wait do to the lock and to its queue. *)
LEMMA FreePlaces ==
  ASSUME IInv, Free
  PROVE  /\ Placed(ReadyToRun(ready, WokenByRelease), semQueue, lockQueue', condQueue, doing, {current})
         /\ ReadyToRun(ready, WokenByRelease) = <<>> => ready = <<>>
         /\ lockValue' = 1 /\ threadHolding' = NULL
  <1> DEFINE a == First(lockQueue)
             b == Without(lockQueue, a)
  <1>1. lockQueue' = b /\ WokenByRelease = a /\ lockValue' = 1 /\ threadHolding' = NULL
    BY DEF Free, WokenByRelease
  <1>2. /\ a \in Seq(Threads) /\ b \in Seq(Threads) /\ Distinct(a) /\ Distinct(b)
        /\ Elements(a) \cap Elements(b) = {} /\ Elements(a) \cup Elements(b) = Elements(lockQueue)
    BY FirstAndRest DEF IInv, Placed
  <1> HIDE DEF a, b
  <1>3. /\ Placed(ReadyToRun(ready, a), semQueue, b, condQueue, doing, {current})
        /\ ReadyToRun(ready, a) = <<>> => ready = <<>>
    BY <1>2, WakePlaces DEF IInv
  <1> QED BY <1>1, <1>3

LEMMA ReleaseKeeps == ASSUME IInv, NEW t \in Threads, Release(t) PROVE IInv'
  <1>1. /\ Wake(WokenByRelease) /\ Free /\ inside' = inside \ {t}
        /\ UNCHANGED <<condQueue, semaphore>>
    BY DEF Release
  <1>2. Placed(ReadyToRun(ready, WokenByRelease), semQueue', lockQueue', condQueue', doing, {current})
    BY <1>1, FreePlaces DEF semaphore
  <1>3. /\ semValue' \in 0..MaxValue /\ lockValue' \in {0, 1}
        /\ threadHolding' \in Threads \cup {NULL} /\ inside' \subseteq Threads
        /\ lockValue' = 1 <=> threadHolding' = NULL
    BY <1>1, FreePlaces, Holding DEF semaphore
  <1> QED BY <1>1, <1>2, <1>3, WakeKeeps

LEMMA WaitKeeps == ASSUME IInv, NEW t \in Threads, Wait(t) PROVE IInv'
  <1> DEFINE r == ReadyToRun(ready, WokenByRelease)
             d == [doing EXCEPT ![t] = "Wait"]
  <1>1. /\ current = t /\ condQueue' = Append(condQueue, t) /\ Free /\ inside' = inside \ {t}
        /\ SwitchFrom(r, d, threadToBeDestroyed) /\ UNCHANGED semaphore
    BY DEF Wait, Runs, SleepIn
  <1>2. /\ Placed(r, semQueue, lockQueue', condQueue, doing, {t})
        /\ r = <<>> => ready = <<>>
        /\ lockValue' = 1 /\ threadHolding' = NULL
    BY <1>1, FreePlaces
  <1> HIDE DEF r
  <1>3. d \in [Threads -> Doing] /\ Placed(r, semQueue, lockQueue', Append(condQueue, t), d, {})
    <2> DEFINE l == lockQueue'
    <2>1. Placed(r, semQueue, l, condQueue, doing, {t})
      BY <1>2
    <2> HIDE DEF l
    <2>2. d \in [Threads -> Doing] /\ Placed(r, semQueue, l, Append(condQueue, t), d, {})
      BY <1>1, <2>1, CurrentIsNowhere, PutAway DEF Doing
    <2> QED BY <2>2 DEF l
  <1> HIDE DEF d
  <1>4. Placed(r, semQueue', lockQueue', condQueue', d, {})
    BY <1>1, <1>3 DEF semaphore
  <1>5. /\ semValue' \in 0..MaxValue /\ lockValue' \in {0, 1}
        /\ threadHolding' \in Threads \cup {NULL} /\ inside' \subseteq Threads
        /\ lockValue' = 1 <=> threadHolding' = NULL
        /\ threadToBeDestroyed \in Threads \cup {NULL}
    BY <1>1, <1>2, Holding DEF semaphore
  <1> QED BY <1>1, <1>2, <1>3, <1>4, <1>5, SwitchKeeps

LEMMA SignalKeeps == ASSUME IInv, NEW t \in Threads, Signal(t) PROVE IInv'
  <1> DEFINE a == First(condQueue)
             b == Without(condQueue, a)
  <1>1. Wake(a) /\ condQueue' = b /\ UNCHANGED <<lock, inside, semaphore>>
    BY DEF Signal
  <1>2. /\ a \in Seq(Threads) /\ b \in Seq(Threads) /\ Distinct(a) /\ Distinct(b)
        /\ Elements(a) \cap Elements(b) = {} /\ Elements(a) \cup Elements(b) = Elements(condQueue)
    BY FirstAndRest DEF IInv, Placed
  <1> HIDE DEF a, b
  <1>3. Placed(ReadyToRun(ready, a), semQueue, lockQueue, b, doing, {current})
    BY <1>2, WakePlaces DEF IInv
  <1>4. Placed(ReadyToRun(ready, a), semQueue', lockQueue', condQueue', doing, {current})
    BY <1>1, <1>3 DEF lock, semaphore
  <1> QED BY <1>1, <1>4, Holding, WakeKeeps DEF lock, semaphore

LEMMA BroadcastKeeps == ASSUME IInv, NEW t \in Threads, Broadcast(t) PROVE IInv'
  <1>1. Wake(condQueue) /\ condQueue' = <<>> /\ UNCHANGED <<lock, inside, semaphore>>
    BY DEF Broadcast
  <1> DEFINE b == <<>>
  <1>2. b \in Seq(Threads) /\ Distinct(b) /\ Elements(b) = {}
    BY EmptyList
  <1> HIDE DEF b
  <1>3. Placed(ReadyToRun(ready, condQueue), semQueue, lockQueue, b, doing, {current})
    <2>1. /\ condQueue \in Seq(Threads) /\ Distinct(condQueue)
          /\ Placed(ready, semQueue, lockQueue, condQueue, doing, {current})
      BY DEF IInv, Placed
    <2> QED BY <1>2, <2>1, WakePlaces
  <1>4. Placed(ReadyToRun(ready, condQueue), semQueue', lockQueue', condQueue', doing, {current})
    BY <1>1, <1>3 DEF lock, semaphore, b
  <1> QED BY <1>1, <1>4, Holding, WakeKeeps DEF lock, semaphore

LEMMA Initially == Init => IInv
  <1> SUFFICES ASSUME Init PROVE IInv
    OBVIOUS
  <1>1. TypeOK
    BY ThreadAssumption, ValueAssumption DEF Init, TypeOK
  <1>2. Placed(<<>>, <<>>, <<>>, <<>>, doing, {Main}) /\ Main \in AliveIn(doing)
    <2>1. AliveIn(doing) = {Main}
      BY ThreadAssumption DEF Init, AliveIn
    <2> DEFINE e == <<>>
    <2>2. e \in Seq(Threads) /\ Elements(e) = {} /\ Distinct(e)
      BY EmptyList
    <2> HIDE DEF e
    <2>3. Placed(e, e, e, e, doing, {Main})
      BY <2>1, <2>2 DEF Placed
    <2> QED BY <2>1, <2>3 DEF e
  <1> QED BY <1>1, <1>2 DEF Init, IInv

LEMMA Inductive == IInv /\ [Next]_vars => IInv'
  <1> SUFFICES ASSUME IInv, [Next]_vars PROVE IInv'
    OBVIOUS
  <1>1. CASE UNCHANGED vars
    BY <1>1 DEF vars, semaphore, monitor, lock, IInv, TypeOK, AliveIn, Placed
  <1>2. CASE Next
    BY <1>2, ForkKeeps, YieldKeeps, FinishKeeps, PKeeps, VKeeps, AcquireKeeps, ReleaseKeeps,
       WaitKeeps, SignalKeeps, BroadcastKeeps DEF Next, Step
  <1> QED BY <1>1, <1>2

LEMMA Invariant == Spec => []IInv
  BY Initially, Inductive, PTL DEF Spec

(* Every variable has its type in every state. *)
THEOREM TypeCorrect == Spec => []TypeOK
  BY Invariant, PTL DEF IInv

LEMMA PlacedOnce == IInv => EachThreadOnce
  <1> SUFFICES ASSUME IInv PROVE EachThreadOnce
    OBVIOUS
  <1> DEFINE lc == lockQueue \o condQueue
             s  == semQueue \o lc
             all == ready \o s
  <1>1. /\ ready \in Seq(Threads) /\ semQueue \in Seq(Threads)
        /\ lockQueue \in Seq(Threads) /\ condQueue \in Seq(Threads)
        /\ Distinct(ready) /\ Distinct(semQueue) /\ Distinct(lockQueue) /\ Distinct(condQueue)
        /\ Elements(ready) \cap (Elements(semQueue) \cup Elements(lockQueue) \cup Elements(condQueue)) = {}
        /\ Elements(lockQueue) \cap Elements(condQueue) = {}
        /\ Elements(semQueue) \cap (Elements(lockQueue) \cup Elements(condQueue)) = {}
        /\ Elements(ready) \cup Elements(semQueue) \cup Elements(lockQueue) \cup Elements(condQueue)
             = AliveIn(doing) \ {current}
    BY DEF IInv, Placed
  <1>2. lc \in Seq(Threads) /\ Distinct(lc) /\ Elements(lc) = Elements(lockQueue) \cup Elements(condQueue)
    BY <1>1, ConcatList
  <1> HIDE DEF lc
  <1>3. s \in Seq(Threads) /\ Distinct(s) /\ Elements(s) = Elements(semQueue) \cup Elements(lc)
    BY <1>1, <1>2, ConcatList
  <1> HIDE DEF s
  <1>4. Distinct(all) /\ Elements(all) = Elements(ready) \cup Elements(s)
    BY <1>1, <1>2, <1>3, ConcatList
  <1> HIDE DEF all
  <1>5. all = ready \o Queued
    <2>1. \A p, q, u \in Seq(Threads) : (p \o q) \o u = p \o (q \o u)
      BY ConcatAssociative
    <2>2. (semQueue \o lockQueue) \o condQueue = semQueue \o (lockQueue \o condQueue)
      BY <1>1, <2>1
    <2> QED BY <2>2 DEF all, s, lc, Queued
  <1>6. Elements(all) = Alive \ {current}
    BY <1>1, <1>2, <1>3, <1>4 DEF Alive, AliveIn
  <1>7. current \in Alive \cup {NULL} /\ NULL \notin Alive
    BY ThreadAssumption DEF IInv, Alive, AliveIn
  <1>8. /\ \A i, j \in DOMAIN all : all[i] = all[j] => i = j
        /\ current \notin Elements(all)
        /\ Elements(all) \cup ({current} \ {NULL}) = Alive
    BY <1>4, <1>6, <1>7 DEF Distinct
  <1> QED BY <1>5, <1>8 DEF EachThreadOnce

(* No thread is lost and none is in two places, in whatever order threads  *)
(* fork, yield, sleep, wake and finish.                                    *)
THEOREM ThreadsArePlaced == Spec => []EachThreadOnce
  BY Invariant, PlacedOnce, PTL

-----------------------------------------------------------------------------
(* Wake-ups. *)

LEMMA SwitchDoing ==
  ASSUME NEW r, NEW d \in [Threads -> Doing], NEW x, SwitchFrom(r, d, x), NEW w \in {"P", "Acquire"}
  PROVE  \A v \in Threads : doing'[v] = w <=> d[v] = w
  <1>1. \/ doing' = d
        \/ d[Head(r)] = "new" /\ doing' = [d EXCEPT ![Head(r)] = "run"]
    BY DEF SwitchFrom
  <1> QED BY <1>1

(* Only P lets a thread into, or out of, its loop, and so for Acquire. *)
LEMMA DoingKeeps ==
  ASSUME IInv, NEW t \in Threads, Step(t), NEW w \in {"P", "Acquire"},
         w = "P" => ~ P(t), w = "Acquire" => ~ Acquire(t)
  PROVE  \A v \in Threads : doing'[v] = w <=> doing[v] = w
  <1>1. doing \in [Threads -> Doing]
    BY DEF IInv, TypeOK, Doing
  <1>2. ASSUME NEW y \in Doing, NEW r, NEW x, y # w, doing[t] # w,
               SwitchFrom(r, [doing EXCEPT ![t] = y], x)
        PROVE  \A v \in Threads : doing'[v] = w <=> doing[v] = w
    <2> DEFINE d == [doing EXCEPT ![t] = y]
    <2>1. d \in [Threads -> Doing] /\ \A v \in Threads : d[v] = w <=> doing[v] = w
      BY <1>1, <1>2
    <2>2. SwitchFrom(r, d, x)
      BY <1>2
    <2> HIDE DEF d
    <2> QED BY <2>1, <2>2, SwitchDoing
  <1>3. ASSUME doing[t] # w, Returns(t)
        PROVE  \A v \in Threads : doing'[v] = w <=> doing[v] = w
    BY <1>1, <1>3 DEF Returns
  <1>4. CASE \E u \in Threads : Fork(t, u)
    BY <1>1, <1>4 DEF Fork
  <1>5. CASE Yield(t)
    BY <1>1, <1>5, SwitchDoing DEF Yield
  <1>6. CASE Finish(t)
    <2>1. doing[t] = "run" /\ SwitchFrom(ready, [doing EXCEPT ![t] = "finished"], t)
      BY <1>6 DEF Finish, Runs
    <2>2. "finished" \in Doing
      BY DEF Doing
    <2> QED BY <1>2, <2>1, <2>2
  <1>7. CASE P(t) /\ w = "Acquire"
    <2>1. doing[t] \in {"run", "P"}
      BY <1>7 DEF P, Runs
    <2>2. Returns(t) \/ SwitchFrom(ready, [doing EXCEPT ![t] = "P"], threadToBeDestroyed)
      BY <1>7 DEF P, SleepIn
    <2>3. "P" \in Doing
      BY DEF Doing
    <2> QED BY <1>2, <1>3, <1>7, <2>1, <2>2, <2>3
  <1>8. CASE Acquire(t) /\ w = "P"
    <2>1. doing[t] \in {"run", "Wait", "Acquire"}
      BY <1>8 DEF Acquire, Runs
    <2>2. Returns(t) \/ SwitchFrom(ready, [doing EXCEPT ![t] = "Acquire"], threadToBeDestroyed)
      BY <1>8 DEF Acquire, SleepIn
    <2>3. "Acquire" \in Doing
      BY DEF Doing
    <2> QED BY <1>2, <1>3, <1>8, <2>1, <2>2, <2>3
  <1>9. CASE Wait(t)
    <2>1. /\ doing[t] = "run"
          /\ SwitchFrom(ReadyToRun(ready, WokenByRelease), [doing EXCEPT ![t] = "Wait"], threadToBeDestroyed)
      BY <1>9 DEF Wait, Runs, SleepIn
    <2>2. "Wait" \in Doing
      BY DEF Doing
    <2> QED BY <1>2, <2>1, <2>2
  <1>10. CASE V(t) \/ Release(t) \/ Signal(t) \/ Broadcast(t)
    BY <1>10 DEF V, Release, Signal, Broadcast, Wake
  <1> QED BY <1>4, <1>5, <1>6, <1>7, <1>8, <1>9, <1>10 DEF Step

LEMMA LoopFinite == \A w, q : IsFiniteSet(InLoop(w, q)) /\ Cardinality(InLoop(w, q)) \in Nat
  BY ThreadAssumption, FS_Subset, FS_CardinalityType DEF InLoop

LEMMA SemaphoreStep == IInv /\ SemaphoreWakeups /\ [Next]_vars => SemaphoreWakeups'
  <1> SUFFICES ASSUME IInv, SemaphoreWakeups, [Next]_vars PROVE SemaphoreWakeups'
    OBVIOUS
  <1>1. ASSUME UNCHANGED semaphore, \A v \in Threads : doing'[v] = "P" <=> doing[v] = "P"
        PROVE  SemaphoreWakeups'
    <2>1. InLoop("P", semQueue)' = InLoop("P", semQueue) /\ UNCHANGED <<semValue, semQueue>>
      BY <1>1 DEF InLoop, Elements, semaphore
    <2> QED BY <2>1 DEF SemaphoreWakeups
  <1>2. CASE UNCHANGED vars
    BY <1>1, <1>2 DEF vars
  <1>3. ASSUME NEW t \in Threads, P(t) PROVE SemaphoreWakeups'
    <2>1. CASE semValue # 0 /\ semValue' = semValue - 1 /\ Returns(t) /\ UNCHANGED semQueue
      <3> DEFINE L == InLoop("P", semQueue)
                 M == InLoop("P", semQueue)'
      <3>1. doing' = [doing EXCEPT ![t] = "run"] /\ doing \in [Threads -> Doing] /\ t \notin Elements(semQueue)
        BY <1>3, <2>1, CurrentIsNowhere DEF Returns, P, Runs
      <3>2. M = L \ {t}
        BY <2>1, <3>1 DEF InLoop, Elements
      <3>3. IsFiniteSet(L) /\ Cardinality(L) \in Nat
        BY LoopFinite
      <3>4. semValue \in Nat
        BY Holding
      <3> HIDE DEF L, M
      <3>5. Cardinality(M) >= Cardinality(L) - 1
        <4>1. CASE t \in L
          BY <3>2, <3>3, <4>1, FS_RemoveElement
        <4>2. CASE t \notin L
          <5>1. M = L
            BY <3>2, <4>2
          <5> QED BY <3>3, <5>1
        <4> QED BY <4>1, <4>2
      <3>6. Cardinality(M) \in Nat
        BY <3>2, <3>3, FS_RemoveElement, FS_CardinalityType
      <3>7. semQueue # <<>> => semValue <= Cardinality(L)
        BY DEF SemaphoreWakeups, L
      <3>8. semQueue # <<>> => semValue' <= Cardinality(M)
        BY <2>1, <3>3, <3>4, <3>5, <3>6, <3>7
      <3> QED BY <2>1, <3>8 DEF SemaphoreWakeups, M
    <2>2. CASE ~(semValue # 0) /\ UNCHANGED semValue
      <3>1. Cardinality(InLoop("P", semQueue)') \in Nat
        <4>1. InLoop("P", semQueue)' \subseteq Threads
          BY DEF InLoop
        <4> QED BY <4>1, ThreadAssumption, FS_Subset, FS_CardinalityType
      <3> QED BY <2>2, <3>1 DEF SemaphoreWakeups
    <2> QED BY <1>3, <2>1, <2>2 DEF P, Takes
  <1>4. ASSUME NEW t \in Threads, V(t) PROVE SemaphoreWakeups'
    <2> SUFFICES ASSUME semQueue' # <<>> PROVE semValue' <= Cardinality(InLoop("P", semQueue)')
      BY DEF SemaphoreWakeups
    <2> DEFINE L == InLoop("P", semQueue)
               M == InLoop("P", semQueue)'
               h == semQueue[1]
    <2>1. /\ semQueue' = Without(semQueue, First(semQueue)) /\ semValue' = semValue + 1 /\ doing' = doing
      BY <1>4 DEF V, WokenByV, Wake
    <2>2. /\ Elements(First(semQueue)) \cap Elements(semQueue') = {}
          /\ Elements(First(semQueue)) \cup Elements(semQueue') = Elements(semQueue)
          /\ semQueue # <<>> /\ h \in Threads /\ Elements(First(semQueue)) = {h}
      BY <2>1, FirstAndRest DEF IInv, Placed
    <2>3. doing[h] = "P"
      BY <2>2 DEF IInv, Placed
    <2>4. M = L \cup {h} /\ h \notin L
      <3> DEFINE D == {v \in Threads : doing[v] = "P"}
                 E == Elements(semQueue)
                 F == Elements(semQueue)'
      <3>1. L = D \ E /\ M = D \ F
        BY <2>1 DEF InLoop
      <3>2. F = Elements(semQueue')
        BY DEF Elements
      <3> HIDE DEF E, F, L, M, h
      <3>3. E = {h} \cup F /\ h \notin F /\ h \in D
        BY <2>2, <2>3, <3>2 DEF E
      <3> QED BY <3>1, <3>3
    <2>5. semValue <= Cardinality(L)
      BY <2>2 DEF SemaphoreWakeups
    <2>6. semValue \in Nat /\ IsFiniteSet(L) /\ Cardinality(L) \in Nat
      BY Holding, LoopFinite
    <2> HIDE DEF L, M, h
    <2>7. Cardinality(M) = Cardinality(L) + 1
      BY <2>4, <2>6, FS_AddElement
    <2>8. semValue' <= Cardinality(M)
      BY <2>1, <2>5, <2>6, <2>7
    <2> QED BY <2>8 DEF M
  <1>5. ASSUME NEW t \in Threads, Step(t), ~ P(t), ~ V(t) PROVE SemaphoreWakeups'
    <2>1. UNCHANGED semaphore
      BY <1>5 DEF Step, Fork, Yield, Finish, Acquire, Release, Wait, Signal, Broadcast
    <2> QED BY <1>1, <1>5, <2>1, DoingKeeps
  <1> QED BY <1>2, <1>3, <1>4, <1>5 DEF Next

(* No V is lost: threads sleep in P only while as many as the value is     *)
(* high have been woken and have yet to take it.                           *)
THEOREM NoVLost == Spec => []SemaphoreWakeups
  <1>1. Init => SemaphoreWakeups
    BY DEF Init, SemaphoreWakeups
  <1> QED BY <1>1, Invariant, SemaphoreStep, PTL DEF Spec

LEMMA LockStep == IInv /\ LockWakeups /\ [Next]_vars => LockWakeups'
  <1> SUFFICES ASSUME IInv, LockWakeups, [Next]_vars PROVE LockWakeups'
    OBVIOUS
  <1>1. ASSUME UNCHANGED <<lockValue, lockQueue>>, \A v \in Threads : doing'[v] = "Acquire" <=> doing[v] = "Acquire"
        PROVE  LockWakeups'
    <2>1. InLoop("Acquire", lockQueue)' = InLoop("Acquire", lockQueue)
      BY <1>1 DEF InLoop, Elements
    <2> QED BY <1>1, <2>1 DEF LockWakeups
  <1>2. CASE UNCHANGED vars
    BY <1>1, <1>2 DEF vars, monitor, lock
  <1>3. ASSUME NEW t \in Threads, Acquire(t) PROVE LockWakeups'
    <2>1. lockValue' # 1
      BY <1>3 DEF Acquire, Gets
    <2> QED BY <2>1 DEF LockWakeups
  <1>4. ASSUME NEW t \in Threads, Step(t), Free, ~ Acquire(t), lockQueue' # <<>>
        PROVE  InLoop("Acquire", lockQueue)' # {}
    <2> DEFINE h == lockQueue[1]
    <2>1. lockQueue' = Without(lockQueue, First(lockQueue))
      BY <1>4 DEF Free, WokenByRelease
    <2>2. /\ Elements(First(lockQueue)) \cap Elements(lockQueue') = {}
          /\ Elements(First(lockQueue)) \cup Elements(lockQueue') = Elements(lockQueue)
          /\ h \in Threads /\ Elements(First(lockQueue)) = {h}
      BY <1>4, <2>1, FirstAndRest DEF IInv, Placed
    <2>3. doing[h] = "Acquire"
      BY <2>2 DEF IInv, Placed
    <2>4. doing'[h] = "Acquire"
      BY <1>4, <2>2, <2>3, DoingKeeps
    <2> HIDE DEF h
    <2> QED BY <2>2, <2>4 DEF InLoop, Elements
  <1>5. ASSUME NEW t \in Threads, Step(t), ~ Acquire(t) PROVE LockWakeups'
    <2>1. CASE Release(t) \/ Wait(t)
      <3>1. Free
        BY <2>1 DEF Release, Wait
      <3> QED BY <1>4, <1>5, <3>1 DEF LockWakeups
    <2>2. CASE ~(Release(t) \/ Wait(t))
      <3>1. UNCHANGED <<lockValue, lockQueue>>
        BY <1>5, <2>2 DEF Step, Fork, Yield, Finish, P, V, Signal, Broadcast, monitor, lock
      <3> QED BY <1>1, <1>5, <3>1, DoingKeeps
    <2> QED BY <2>1, <2>2
  <1> QED BY <1>2, <1>3, <1>5 DEF Next

(* No Release is lost: nobody sleeps for a lock that is FREE unless some   *)
(* thread has been woken that has yet to try it.                           *)
THEOREM NoReleaseLost == Spec => []LockWakeups
  <1>1. Init => LockWakeups
    BY DEF Init, LockWakeups
  <1> QED BY <1>1, Invariant, LockStep, PTL DEF Spec

-----------------------------------------------------------------------------
(* The refinement of MesaMonitor: holder is threadHolding, waiting is the   *)
(* set of threads on condQueue.                                             *)

LEMMA StepMaps ==
  IInv /\ [Next]_vars => [Mesa!Next]_<<threadHolding, Elements(condQueue)>>
  <1> SUFFICES ASSUME IInv, [Next]_vars
               PROVE  [Mesa!Next]_<<threadHolding, Elements(condQueue)>>
    OBVIOUS
  <1> DEFINE W == Elements(condQueue)
             V2 == Elements(condQueue)'
  <1>0. ASSUME UNCHANGED <<threadHolding, condQueue>> PROVE UNCHANGED <<threadHolding, Elements(condQueue)>>
    BY <1>0 DEF Elements
  <1>1. CASE UNCHANGED vars
    BY <1>0, <1>1 DEF vars, monitor, lock
  <1>2. ASSUME NEW t \in Threads, Acquire(t) PROVE [Mesa!Next]_<<threadHolding, Elements(condQueue)>>
    <2>1. CASE lockValue = 1 /\ threadHolding' = t /\ UNCHANGED condQueue
      <3>1. current = t
        BY <1>2 DEF Acquire, Runs
      <3>2. t \notin W
        BY <3>1, CurrentIsNowhere
      <3>3. threadHolding = NULL /\ V2 = W
        BY <2>1 DEF IInv, Elements
      <3> QED BY <2>1, <3>2, <3>3 DEF Mesa!Next, Mesa!Get
    <2>2. CASE UNCHANGED <<threadHolding, condQueue>>
      BY <1>0, <2>2
    <2> QED BY <1>2, <2>1, <2>2 DEF Acquire, Gets
  <1>3. ASSUME NEW t \in Threads, Release(t) PROVE [Mesa!Next]_<<threadHolding, Elements(condQueue)>>
    <2>1. threadHolding = t /\ threadHolding' = NULL /\ V2 = W
      BY <1>3 DEF Release, Free, Elements
    <2> QED BY <2>1 DEF Mesa!Next, Mesa!Give
  <1>4. ASSUME NEW t \in Threads, Wait(t) PROVE [Mesa!Next]_<<threadHolding, Elements(condQueue)>>
    <2>1. threadHolding = t /\ threadHolding' = NULL /\ condQueue' = Append(condQueue, t)
      BY <1>4 DEF Wait, Free
    <2>2. V2 = W \cup {t}
      <3>1. V2 = Elements(Append(condQueue, t))
        BY <2>1 DEF Elements
      <3>2. condQueue \in Seq(Threads)
        BY DEF IInv, Placed
      <3> QED BY <3>1, <3>2, AppendList
    <2> QED BY <2>1, <2>2 DEF Mesa!Next, Mesa!WaitOn
  <1>5. ASSUME NEW t \in Threads, Signal(t) \/ Broadcast(t)
        PROVE  [Mesa!Next]_<<threadHolding, Elements(condQueue)>>
    <2>1. threadHolding = t /\ threadHolding' = threadHolding
      BY <1>5 DEF Signal, Broadcast, lock
    <2>2. V2 \subseteq W
      <3>1. CASE Signal(t)
        <4>1. V2 = Elements(Without(condQueue, First(condQueue)))
          BY <3>1 DEF Signal, Elements
        <4> QED BY <4>1, FirstAndRest DEF IInv, Placed
      <3>2. CASE Broadcast(t)
        <4>1. V2 = Elements(<<>>)
          BY <3>2 DEF Broadcast, Elements
        <4> QED BY <4>1, EmptyList
      <3> QED BY <1>5, <3>1, <3>2
    <2> HIDE DEF W, V2
    <2>3. CASE V2 = W
      BY <2>1, <2>3 DEF W, V2
    <2>4. CASE V2 # W
      <3>1. V2 \in (SUBSET W) \ {W}
        BY <2>2, <2>4
      <3> QED BY <2>1, <3>1 DEF Mesa!Next, Mesa!Wake, W, V2
    <2> QED BY <2>3, <2>4
  <1>6. ASSUME NEW t \in Threads,
               (\E u \in Threads : Fork(t, u)) \/ Yield(t) \/ Finish(t) \/ P(t) \/ V(t)
        PROVE  [Mesa!Next]_<<threadHolding, Elements(condQueue)>>
    <2>1. UNCHANGED <<threadHolding, condQueue>>
      BY <1>6 DEF Fork, Yield, Finish, P, V, monitor, lock
    <2> QED BY <1>0, <2>1
  <1> QED BY <1>1, <1>2, <1>3, <1>4, <1>5, <1>6 DEF Next, Step

(* The lock and the condition variable of synch.cc implement MesaMonitor:  *)
(* Acquire gets it, Release gives it, Wait gives it up and enters the      *)
(* waiting set in one step, Signal and Broadcast take threads out of it.   *)
THEOREM ImplementsMesaMonitor == Spec => ImplementsMonitor
  <1>1. Init => Mesa!Init
    BY EmptyList DEF Init, Mesa!Init
  <1> QED BY <1>1, StepMaps, Invariant, PTL DEF Spec, ImplementsMonitor, Mesa!Spec

-----------------------------------------------------------------------------
(* Thread deletion. *)

(* Only finished threads are deleted or about to be. *)
OnlyFinishedDeleted ==
  \A t \in destroyed \cup ({threadToBeDestroyed} \ {NULL}) : t \in Threads /\ doing[t] = "finished"

LEMMA SwitchDeletes ==
  ASSUME IInv, NEW t \in Threads, current = t, NEW w \in Doing, NEW r,
         NEW x \in {threadToBeDestroyed, NULL} \cup {v \in {t} : w = "finished"},
         SwitchFrom(r, [doing EXCEPT ![t] = w], x), OnlyFinishedDeleted
  PROVE  OnlyFinishedDeleted'
  <1> DEFINE d == [doing EXCEPT ![t] = w]
             old == destroyed \cup ({threadToBeDestroyed} \ {NULL})
             new == destroyed' \cup ({threadToBeDestroyed'} \ {NULL})
  <1>1. doing \in [Threads -> Doing] /\ doing[t] # "finished"
    BY CurrentIsNowhere DEF AliveIn
  <1>2. d \in [Threads -> Doing] /\ d[t] = w /\ \A v \in Threads \ {t} : d[v] = doing[v]
    BY <1>1
  <1>3. \A v \in old : v \in Threads \ {t} /\ d[v] = "finished"
    BY <1>1, <1>2 DEF OnlyFinishedDeleted
  <1>4. SwitchFrom(r, d, x)
    OBVIOUS
  <1> HIDE DEF d
  <1>5. new \subseteq old \cup ({x} \ {NULL})
    BY <1>4 DEF SwitchFrom
  <1>6. \A v \in Threads : d[v] = "finished" => doing'[v] = "finished"
    BY <1>2, <1>4 DEF SwitchFrom
  <1>7. \A v \in {x} \ {NULL} : v \in Threads /\ d[v] = "finished"
    BY <1>2, <1>3
  <1>8. \A v \in new : v \in Threads /\ doing'[v] = "finished"
    BY <1>3, <1>5, <1>6, <1>7
  <1> QED BY <1>8 DEF OnlyFinishedDeleted

LEMMA DeleteStep == IInv /\ OnlyFinishedDeleted /\ [Next]_vars => OnlyFinishedDeleted'
  <1> SUFFICES ASSUME IInv, OnlyFinishedDeleted, [Next]_vars PROVE OnlyFinishedDeleted'
    OBVIOUS
  <1>0. doing \in [Threads -> Doing]
    BY DEF IInv, TypeOK, Doing
  <1>1. ASSUME UNCHANGED <<destroyed, threadToBeDestroyed>>,
               \A v \in Threads : doing[v] = "finished" => doing'[v] = "finished"
        PROVE  OnlyFinishedDeleted'
    BY <1>1 DEF OnlyFinishedDeleted
  <1>2. CASE UNCHANGED vars
    BY <1>1, <1>2 DEF vars
  <1>3. ASSUME NEW t \in Threads, (\E u \in Threads : Fork(t, u)) \/ V(t) \/ Release(t) \/ Signal(t) \/ Broadcast(t)
        PROVE  OnlyFinishedDeleted'
    <2>1. \A v \in Threads : doing[v] = "finished" => doing'[v] = "finished"
      BY <1>0, <1>3 DEF Fork, V, Release, Signal, Broadcast, Wake
    <2>2. UNCHANGED <<destroyed, threadToBeDestroyed>>
      BY <1>3 DEF Fork, V, Release, Signal, Broadcast, Wake
    <2> QED BY <1>1, <2>1, <2>2
  <1>4. ASSUME NEW t \in Threads, current = t, Returns(t) PROVE OnlyFinishedDeleted'
    <2>1. doing[t] # "finished"
      BY <1>4, CurrentIsNowhere DEF AliveIn
    <2>2. /\ \A v \in Threads : doing[v] = "finished" => doing'[v] = "finished"
          /\ UNCHANGED <<destroyed, threadToBeDestroyed>>
      BY <1>0, <1>4, <2>1 DEF Returns
    <2> QED BY <1>1, <2>2
  <1>5. ASSUME NEW t \in Threads, current = t, NEW w \in Doing, NEW r, SleepIn(t, w, r)
        PROVE  OnlyFinishedDeleted'
    <2>1. SwitchFrom(r, [doing EXCEPT ![t] = w], threadToBeDestroyed)
      BY <1>5 DEF SleepIn
    <2> QED BY <1>5, <2>1, SwitchDeletes
  <1>6. ASSUME NEW t \in Threads, Yield(t) PROVE OnlyFinishedDeleted'
    <2> DEFINE r == <<Head(ready)>> \o ReadyToRun(Tail(ready), <<t>>)
    <2>1. SwitchFrom(r, doing, threadToBeDestroyed) /\ current = t /\ doing[t] = "run"
      BY <1>6 DEF Yield, Runs
    <2> HIDE DEF r
    <2>2. doing = [doing EXCEPT ![t] = "run"]
      BY <1>0, <2>1
    <2>3. SwitchFrom(r, [doing EXCEPT ![t] = "run"], threadToBeDestroyed)
      BY <2>1, <2>2
    <2> QED BY <2>1, <2>3, SwitchDeletes DEF Doing
  <1>7. ASSUME NEW t \in Threads, Finish(t) PROVE OnlyFinishedDeleted'
    <2>1. SwitchFrom(ready, [doing EXCEPT ![t] = "finished"], t) /\ current = t
      BY <1>7 DEF Finish, Runs
    <2> QED BY <2>1, SwitchDeletes DEF Doing
  <1>8. ASSUME NEW t \in Threads, P(t) \/ Acquire(t) \/ Wait(t) PROVE OnlyFinishedDeleted'
    <2>1. /\ current = t
          /\ \/ Returns(t)
             \/ \E w \in Doing : \E r \in {ready, ReadyToRun(ready, WokenByRelease)} : SleepIn(t, w, r)
      BY <1>8 DEF P, Acquire, Wait, Runs, Doing
    <2> QED BY <1>4, <1>5, <2>1
  <1> QED BY <1>2, <1>3, <1>6, <1>7, <1>8 DEF Next, Step

(* Scheduler::Run deletes only threads that have called Finish: never the  *)
(* stack it runs on, nor that of a thread that will run again.             *)
THEOREM DeletesOnlyTheFinished == Spec => []OnlyFinishedDeleted
  <1>1. Init => OnlyFinishedDeleted
    BY DEF Init, OnlyFinishedDeleted
  <1> QED BY <1>1, Invariant, DeleteStep, PTL DEF Spec
=============================================================================
