-------------------------- MODULE AutograderProofs --------------------------
(***************************************************************************)
(* The autograder's limits and its deadlock verdicts, for any calendar,    *)
(* any number of tests and any time out.                                   *)
(***************************************************************************)
EXTENDS Autograder, WellFoundedInduction, TLAPS

-----------------------------------------------------------------------------
(* The dates. *)

(* What the comparison of dates says of the times: it errs on one side.    *)
LEMMA DatesErrLate ==
  ASSUME NEW prev \in Nat, NEW now \in Nat, prev <= now,
         NEW day \in {0, TicksPerDay}, day = TicksPerDay => AnotherDay(now, prev),
         TimeOf(now) + day - TimeOf(prev) >= Pause
  PROVE  now - prev >= Pause
  <1> DEFINE p == prev \div TicksPerDay
             n == now \div TicksPerDay
  <1>1. /\ p \in Nat /\ TimeOf(prev) \in Nat /\ prev = TicksPerDay * p + TimeOf(prev) /\ TimeOf(prev) < TicksPerDay
        /\ n \in Nat /\ TimeOf(now) \in Nat /\ now = TicksPerDay * n + TimeOf(now) /\ TimeOf(now) < TicksPerDay
    BY TimeAssumption DEF TimeOf
  <1>2. day = TicksPerDay => n # p
    BY TimeAssumption DEF AnotherDay, DigitOf, DayOf
  <1> HIDE DEF p, n
  <1> DEFINE P == TimeOf(prev)
             N == TimeOf(now)
             T == TicksPerDay
  <1>3. T \in Nat \ {0} /\ Pause \in Nat
    BY TimeAssumption
  <1> HIDE DEF P, N, T
  <1>4. n >= p
    <2>1. ASSUME n + 1 <= p PROVE FALSE
      <3>1. T * (n + 1) <= T * p
        BY <1>1, <1>3, <2>1
      <3>2. T * (n + 1) = T * n + T
        BY <1>1, <1>3
      <3> QED BY <1>1, <1>3, <3>1, <3>2 DEF P, N, T
    <2> QED BY <1>1, <2>1
  <1>5. CASE n = p
    BY <1>1, <1>2, <1>3, <1>5 DEF P, N, T
  <1>6. CASE n >= p + 1
    <2>1. T * n >= T * (p + 1)
      BY <1>1, <1>3, <1>6
    <2>2. T * (p + 1) = T * p + T
      BY <1>1, <1>3
    <2> QED BY <1>1, <1>3, <2>1, <2>2 DEF P, N, T
  <1> QED BY <1>1, <1>4, <1>5, <1>6

-----------------------------------------------------------------------------
(* The verdicts. *)

(* timeout_returncode after each of the first n tests is r. *)
CodesUpTo(ends, n, r) ==
  r = [k \in 0..n |-> IF k = 0 THEN "unset" ELSE Poll(ends[k], r[k - 1])]

LEMMA CodesExist ==
  ASSUME NEW ends
  PROVE  \A n \in Nat : \E r : CodesUpTo(ends, n, r)
  <1> DEFINE Bad == {n \in Nat : ~ \E r : CodesUpTo(ends, n, r)}
  <1> SUFFICES ASSUME Bad # {} PROVE FALSE
    OBVIOUS
  <1>1. PICK m \in Bad : \A y \in Nat : <<y, m>> \in OpToRel(<, Nat) => y \notin Bad
    <2> HIDE DEF Bad
    <2>1. Bad \subseteq Nat
      BY DEF Bad
    <2> QED BY <2>1, NatLessThanWellFounded, WFMin
  <1>2. m \in Nat
    OBVIOUS
  <1>3. m # 0
    <2>1. CodesUpTo(ends, 0, [k \in 0..0 |-> "unset"])
      BY DEF CodesUpTo
    <2> QED BY <2>1
  <1>4. m - 1 \in Nat /\ m - 1 < m
    BY <1>2, <1>3
  <1>5. PICK r : CodesUpTo(ends, m - 1, r)
    BY <1>1, <1>4 DEF OpToRel
  <1> DEFINE s == [k \in 0..m |-> IF k = m THEN Poll(ends[m], r[m - 1]) ELSE r[k]]
  <1>6. CodesUpTo(ends, m, s)
    <2>1. \A k \in 0..m : s[k] = IF k = 0 THEN "unset" ELSE Poll(ends[k], s[k - 1])
      <3> SUFFICES ASSUME NEW k \in 0..m PROVE s[k] = IF k = 0 THEN "unset" ELSE Poll(ends[k], s[k - 1])
        OBVIOUS
      <3>1. \A j \in 0..(m - 1) : r[j] = IF j = 0 THEN "unset" ELSE Poll(ends[j], r[j - 1])
        BY <1>5 DEF CodesUpTo
      <3>2. CASE k = m
        BY <1>2, <1>3, <3>2
      <3>3. CASE k # m
        <4>1. k \in 0..(m - 1) /\ s[k] = r[k]
          BY <1>2, <3>3
        <4>2. CASE k = 0
          BY <3>1, <4>1, <4>2
        <4>3. CASE k # 0
          <5>1. k - 1 \in 0..m /\ k - 1 # m
            BY <1>2, <4>3
          <5>2. s[k - 1] = r[k - 1]
            BY <5>1
          <5> QED BY <3>1, <4>1, <4>3, <5>2
        <4> QED BY <4>2, <4>3
      <3> QED BY <3>2, <3>3
    <2> QED BY <2>1 DEF CodesUpTo
  <1> QED BY <1>6

LEMMA ReturncodesAre ==
  ASSUME NEW ends
  PROVE  CodesUpTo(ends, Tests, Returncodes(ends))
  <1>1. \E r : CodesUpTo(ends, Tests, r)
    BY CodesExist, TimeAssumption
  <1> QED BY <1>1 DEF CodesUpTo, Returncodes

LEMMA VerdictsAre ==
  ASSUME NEW ends, NEW k \in 1..Tests
  PROVE  LET r == Returncodes(ends)
         IN /\ r[0] = "unset" /\ r[k] = Poll(ends[k], r[k - 1]) /\ k \in Nat /\ Tests \in Nat
            /\ \A j \in 1..Tests : Verdicts(ends)[j] = IF r[j] = "None" THEN "deadlock" ELSE "scored"
  BY ReturncodesAre, TimeAssumption DEF CodesUpTo, Verdicts

(* A program that ended between two polls of a round was first seen by the *)
(* second.                                                                 *)
LEMMA Unassigned ==
  ASSUME NEW poll \in 0..(2 * Timeout + 1), poll # 0, ~Assigned(poll), poll < 2 * Timeout
  PROVE  poll \in {2 * i : i \in 1..(Timeout - 1)}
  <1>1. Timeout \in Nat /\ poll \in Nat
    BY TimeAssumption
  <1>2. PICK i \in Nat, b \in {0, 1} : poll = 2 * i + b /\ b = poll % 2
    <2>1. poll \div 2 \in Nat /\ poll % 2 \in {0, 1} /\ poll = 2 * (poll \div 2) + (poll % 2)
      BY <1>1
    <2> QED BY <2>1
  <1>3. b = 0
    BY <1>2 DEF Assigned
  <1>4. i \in 1..(Timeout - 1)
    BY <1>1, <1>2, <1>3
  <1> QED BY <1>2, <1>3, <1>4

(* What is scored has ended: an answer handed on is read only of a program *)
(* that ended at once.                                                     *)
LEMMA ScoredHasEnded ==
  ASSUME NEW ends \in Ends, NEW k \in 1..Tests, Verdicts(ends)[k] = "scored"
  PROVE  ends[k] < 2 * Timeout
  <1> DEFINE r == Returncodes(ends)
  <1>1. r[k] = Poll(ends[k], r[k - 1]) /\ Verdicts(ends)[k] = IF r[k] = "None" THEN "deadlock" ELSE "scored"
    BY VerdictsAre
  <1>2. ends[k] \in Nat /\ Timeout \in Nat \ {0}
    BY TimeAssumption DEF Ends
  <1> HIDE DEF r
  <1>3. r[k] # "None"
    BY <1>1
  <1>4. ends[k] = 0 \/ Assigned(ends[k])
    BY <1>1, <1>3 DEF Poll
  <1> QED BY <1>2, <1>4 DEF Assigned

(* A test is said to deadlock only if its own end was not seen by a poll   *)
(* that is assigned, or the test before it is said to.                     *)
LEMMA FirstDeadlock ==
  ASSUME NEW ends \in Ends, NEW k \in 1..Tests, Verdicts(ends)[k] = "deadlock",
         \A j \in 1..(k - 1) : Verdicts(ends)[j] # "deadlock"
  PROVE  ends[k] >= 2 * Timeout \/ ends[k] \in {2 * i : i \in 1..(Timeout - 1)}
  <1> DEFINE r == Returncodes(ends)
  <1>1. /\ r[0] = "unset" /\ r[k] = Poll(ends[k], r[k - 1]) /\ k \in Nat /\ Tests \in Nat
        /\ \A j \in 1..Tests : Verdicts(ends)[j] = IF r[j] = "None" THEN "deadlock" ELSE "scored"
    BY VerdictsAre
  <1>2. ends[k] \in 0..(2 * Timeout + 1) /\ Timeout \in Nat
    BY TimeAssumption DEF Ends
  <1> HIDE DEF r
  <1>3. r[k] = "None"
    BY <1>1
  <1>4. r[k - 1] # "None"
    <2>1. CASE k = 1
      BY <1>1, <2>1
    <2>2. CASE k # 1
      <3>1. k - 1 \in 1..Tests /\ k - 1 \in 1..(k - 1)
        BY <1>1, <2>2
      <3> QED BY <1>1, <3>1
    <2> QED BY <2>1, <2>2
  <1>5. ends[k] # 0 /\ ~Assigned(ends[k])
    BY <1>1, <1>3, <1>4 DEF Poll
  <1>6. PICK e \in 0..(2 * Timeout + 1) : e = ends[k]
    BY <1>2
  <1>7. e >= 2 * Timeout \/ e < 2 * Timeout
    BY <1>2
  <1>8. e < 2 * Timeout => e \in {2 * i : i \in 1..(Timeout - 1)}
    BY <1>5, <1>6, Unassigned
  <1> QED BY <1>6, <1>7, <1>8

-----------------------------------------------------------------------------
(* The invariant: the results kept are those of the latest grading, and     *)
(* they count what was graded since results were last lost.                 *)

IInv ==
  /\ created_at \in Nat
  /\ graded.count \in Nat /\ graded.latest \in Nat /\ graded.latest <= created_at
  /\ previous = NoResults => graded.count = 0
  /\ previous # NoResults =>
       /\ previous.count = graded.count /\ previous.time = graded.latest
       /\ programs \in Ends /\ previous.tests = Verdicts(programs)

Died(now) == previous' = NoResults /\ graded' = [count |-> 0, latest |-> now]

Lived(now, ends) ==
  /\ previous' = [count |-> IF previous = NoResults THEN 1 ELSE previous.count + 1,
                  time |-> now, tests |-> Verdicts(ends)]
  /\ graded' = [count |-> graded.count + 1, latest |-> now]

LEMMA InitIInv == Init => IInv
  BY TimeAssumption DEF Init, IInv

LEMMA NextIInv == IInv /\ [Next]_vars => IInv'
  <1> SUFFICES ASSUME IInv, [Next]_vars PROVE IInv'
    OBVIOUS
  <1>1. CASE UNCHANGED vars
    BY <1>1 DEF vars, IInv
  <1>2. ASSUME NEW now \in created_at..End PROVE now \in Nat /\ created_at <= now
    BY TimeAssumption DEF IInv
  <1>3. ASSUME NEW now \in created_at..End, Refuse(now) PROVE IInv'
    BY <1>2, <1>3 DEF Refuse, IInv
  <1>4. ASSUME NEW now \in created_at..End, Died(now), created_at' = now PROVE IInv'
    BY <1>2, <1>4 DEF Died, IInv
  <1>5. ASSUME NEW now \in created_at..End, NEW ends \in Ends, Lived(now, ends),
               created_at' = now, programs' = ends
        PROVE  IInv'
    <2>1. DOMAIN previous' # DOMAIN NoResults
      BY <1>5 DEF Lived, NoResults
    <2>2. previous'.count = graded.count + 1
      BY <1>5 DEF Lived, IInv
    <2>3. /\ graded'.count = graded.count + 1 /\ graded'.latest = now /\ previous'.time = now
          /\ previous'.tests = Verdicts(ends)
      BY <1>5 DEF Lived
    <2>4. previous' # NoResults
      BY <2>1
    <2>5. graded.count + 1 \in Nat
      BY DEF IInv
    <2> QED BY <1>2, <1>5, <2>2, <2>3, <2>4, <2>5 DEF IInv
  <1>6. ASSUME NEW now \in created_at..End, NEW ends \in Ends, Grade(now, ends) PROVE IInv'
    BY <1>4, <1>5, <1>6 DEF Grade, Died, Lived
  <1> QED BY <1>1, <1>3, <1>4, <1>6 DEF Next, Lose, Died, Ends

LEMMA Invariant == Spec => []IInv
  BY InitIInv, NextIInv, PTL DEF Spec

(* A test is scored only if its program has ended; and the first test of  *)
(* a grading that is said to deadlock did not end within the time out, or  *)
(* ended between the poll of a round that is assigned and the one that     *)
(* ends the loop.                                                          *)
THEOREM VerdictsCorrect == Spec => []VerdictsSound
  <1>1. IInv => VerdictsSound
    <2> SUFFICES ASSUME IInv, previous # NoResults, NEW k \in 1..Tests
                 PROVE  /\ previous.tests[k] = "scored" => programs[k] < 2 * Timeout
                        /\ /\ previous.tests[k] = "deadlock"
                           /\ \A j \in 1..(k - 1) : previous.tests[j] # "deadlock"
                           => programs[k] >= 2 * Timeout \/ programs[k] \in {2 * i : i \in 1..(Timeout - 1)}
      BY DEF VerdictsSound
    <2>1. programs \in Ends /\ previous.tests = Verdicts(programs)
      BY DEF IInv
    <2> QED BY <2>1, ScoredHasEnded, FirstDeadlock
  <1> QED BY <1>1, Invariant, PTL

(* At most Limit submissions are graded while results are kept, and any    *)
(* two of them at least Pause apart, whatever the calendar.                *)
THEOREM LimitsCorrect == Spec => LimitsHold
  <1> DEFINE Within == graded'.count > graded.count =>
                         /\ graded.count < Limit
                         /\ graded.count > 0 => created_at' - graded.latest >= Pause
  <1>1. ASSUME IInv, NEW now \in created_at..End, Died(now) PROVE Within
    BY <1>1 DEF Died, IInv
  <1>2. ASSUME IInv, NEW now \in created_at..End, ~should_rate_limit, ~exceed_latency(now), created_at' = now
        PROVE  /\ graded.count < Limit
               /\ graded.count > 0 => created_at' - graded.latest >= Pause
    <2>1. CASE previous = NoResults
      BY <1>2, <2>1, TimeAssumption DEF IInv
    <2>2. CASE previous # NoResults
      <3> DEFINE prev == previous.time
                 day  == IF AnotherDay(now, prev) THEN TicksPerDay ELSE 0
      <3>1. prev = graded.latest /\ previous.count = graded.count /\ prev \in Nat /\ prev <= now /\ now \in Nat
        BY <1>2, <2>2, TimeAssumption DEF IInv
      <3>2. graded.count < Limit
        BY <1>2, <2>2, <3>1, TimeAssumption DEF should_rate_limit, IInv
      <3>3. ~(TimeOf(now) + day - TimeOf(prev) < Pause)
        BY <1>2, <2>2 DEF exceed_latency
      <3>4. TimeOf(now) \in Int /\ TimeOf(prev) \in Int /\ day \in {0, TicksPerDay} /\ TicksPerDay \in Nat \ {0} /\ Pause \in Nat
        BY <3>1, TimeAssumption DEF TimeOf
      <3>5. TimeOf(now) + day - TimeOf(prev) >= Pause
        BY <3>3, <3>4
      <3>6. day = TicksPerDay => AnotherDay(now, prev)
        BY <3>4
      <3> HIDE DEF day, prev
      <3>7. now - prev >= Pause
        BY <3>1, <3>4, <3>5, <3>6, DatesErrLate
      <3> QED BY <1>2, <3>1, <3>2, <3>7
    <2> QED BY <2>1, <2>2
  <1>3. ASSUME IInv, [Next]_vars PROVE [Within]_vars
    <2>1. ASSUME NEW now \in created_at..End, Refuse(now) PROVE Within
      BY <1>3, <2>1 DEF Refuse, IInv
    <2>2. ASSUME NEW now \in created_at..End, Lose(now) PROVE Within
      BY <1>1, <1>3, <2>2 DEF Lose, Died
    <2>3. ASSUME NEW now \in created_at..End, NEW ends, Grade(now, ends) PROVE Within
      BY <1>2, <1>3, <2>3 DEF Grade
    <2> HIDE DEF Within
    <2> QED BY <1>3, <2>1, <2>2, <2>3 DEF Next
  <1>4. Spec => [][Within]_vars
    <2> HIDE DEF Within
    <2> QED BY <1>3, Invariant, PTL DEF Spec
  <1> QED BY <1>4 DEF LimitsHold
=============================================================================
