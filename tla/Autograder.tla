----------------------------- MODULE Autograder -----------------------------
(***************************************************************************)
(* The autograder of project_3b, run_autograder: one run per submission,   *)
(* which reads what Gradescope kept of the run before and either refuses   *)
(* the submission and hands the old results on, or builds and tests it.    *)
(*                                                                         *)
(* A time is a number of ticks; results are the number and the time of the *)
(* graded submissions and a verdict per test.  A run that dies leaves no   *)
(* results.  The outputs of programs and their points are left out.        *)
(***************************************************************************)
EXTENDS Integers, Sequences

CONSTANTS Limit,         \* 10 submissions
          Pause,         \* 1800 seconds, in ticks
          TicksPerDay, DaysPerMonth,
          Start, End,    \* the time of the first submission, and the last time looked at
          Tests,         \* how many there are
          Timeout        \* 5 seconds, the rounds of the loop that waits for a test

ASSUME TimeAssumption ==
  /\ Start \in Nat /\ End \in Nat /\ Pause \in Nat /\ Pause <= TicksPerDay
  /\ TicksPerDay \in Nat \ {0} /\ DaysPerMonth \in Nat \ {0} /\ Limit \in Nat \ {0} /\ Tests \in Nat
  /\ Timeout \in Nat \ {0}

VARIABLES created_at, \* of the latest submission
          previous,   \* its results
          programs,   \* history: the polls that saw the tests' programs ended in the latest grading
          graded      \* history: how many were graded since results were last lost, and when the latest was

vars == <<created_at, previous, programs, graded>>

NoResults == [lost |-> TRUE]

Init ==
  /\ created_at = Start
  /\ previous = NoResults
  /\ programs = <<>>
  /\ graded = [count |-> 0, latest |-> Start]

-----------------------------------------------------------------------------
(* [11:19], [8:10] and [6:7] of a date: the month's last digit. *)
TimeOf(t) == t % TicksPerDay
DayOf(t)  == (t \div TicksPerDay) % DaysPerMonth
DigitOf(t) == ((((t \div TicksPerDay) \div DaysPerMonth) % 12) + 1) % 10

should_rate_limit == previous # NoResults /\ previous.count >= Limit

(* Mutant of AnotherDay: also if the day is the same. *)
NotAnEarlierDay(now, prev) == DigitOf(now) > DigitOf(prev) \/ DayOf(now) >= DayOf(prev)

AnotherDay(now, prev) == DigitOf(now) > DigitOf(prev) \/ DayOf(now) > DayOf(prev)

exceed_latency(now) ==
  /\ previous # NoResults
  /\ LET prev == previous.time
         day  == IF AnotherDay(now, prev) THEN TicksPerDay ELSE 0
     IN TimeOf(now) + day - TimeOf(prev) < Pause

(* Refused submissions keep the results they find. *)
Refuse(now) ==
  /\ should_rate_limit \/ exceed_latency(now)
  /\ created_at' = now
  /\ UNCHANGED <<previous, programs, graded>>

(* The polls of a program, by number: 0 is the test before the loop's      *)
(* first round, and round i (from 1) makes poll 2i - 1, after its second   *)
(* of sleep, whose answer is assigned to timeout_returncode, and 2i, the   *)
(* loop's next test, whose answer is not.  A program is described by the   *)
(* poll that is the first to see it ended; none is 2 * Timeout + 1.        *)
Ends == [1..Tests -> 0..(2 * Timeout + 1)]

Assigned(poll) == poll % 2 = 1 /\ poll < 2 * Timeout

(* Mutant of Poll: the answer is assigned only if the program has ended. *)
KeptWhileRunning(ends, returncode) == IF Assigned(ends) THEN "ended" ELSE returncode

(* timeout_returncode after the loop.  If the program has ended before, it *)
(* is what it was; if only the loop's test sees the end, it stays None.    *)
Poll(ends, returncode) ==
  CASE ends = 0 -> returncode
    [] ends # 0 /\ Assigned(ends)  -> "ended"
    [] ends # 0 /\ ~Assigned(ends) -> "None"

(* timeout_returncode after each test, unset before the first. *)
Returncodes(ends) ==
  LET f[k \in 0..Tests] == IF k = 0 THEN "unset" ELSE Poll(ends[k], f[k - 1])
  IN f

Verdicts(ends) == [k \in 1..Tests |-> IF Returncodes(ends)[k] = "None" THEN "deadlock" ELSE "scored"]

(* Reading it while it is unset ends the run. *)
Dies(ends) == \E k \in 1..Tests : Returncodes(ends)[k] = "unset"

Grade(now, ends) ==
  /\ ~should_rate_limit /\ ~exceed_latency(now)
  /\ created_at' = now
  /\ programs' = ends
  /\ IF Dies(ends)
     THEN /\ previous' = NoResults
          /\ graded' = [count |-> 0, latest |-> now]
     ELSE /\ previous' = [count |-> IF previous = NoResults THEN 1 ELSE previous.count + 1,
                          time |-> now, tests |-> Verdicts(ends)]
          /\ graded' = [count |-> graded.count + 1, latest |-> now]

(* The run dies elsewhere. *)
Lose(now) ==
  /\ created_at' = now
  /\ previous' = NoResults
  /\ graded' = [count |-> 0, latest |-> now]
  /\ UNCHANGED programs

Next == \E now \in created_at..End :
          \/ Refuse(now)
          \/ Lose(now)
          \/ \E ends \in Ends : Grade(now, ends)

Spec == Init /\ [][Next]_vars
-----------------------------------------------------------------------------
(* As long as runs leave results, no more than Limit submissions are       *)
(* graded, and any two of them at least half an hour apart, also over the  *)
(* ends of days, months and years, which the dates are compared without.   *)
LimitsHold ==
  [][graded'.count > graded.count =>
       /\ graded.count < Limit
       /\ graded.count > 0 => created_at' - graded.latest >= Pause]_vars

(* A test is scored only if its program has ended, so nobody waits for a   *)
(* program that hangs, though the answer read may be that of an earlier    *)
(* test; and the first test that is said to deadlock (the ones after it    *)
(* may inherit that) did not end in time, or ended just between the poll   *)
(* that is assigned and the one that ends the loop.                        *)
VerdictsSound ==
  previous # NoResults =>
    \A k \in 1..Tests :
      /\ previous.tests[k] = "scored" => programs[k] < 2 * Timeout
      /\ /\ previous.tests[k] = "deadlock"
         /\ \A j \in 1..(k - 1) : previous.tests[j] # "deadlock"
         => programs[k] >= 2 * Timeout \/ programs[k] \in {2 * i : i \in 1..(Timeout - 1)}
=============================================================================
