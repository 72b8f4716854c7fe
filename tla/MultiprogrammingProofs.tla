------------------------ MODULE MultiprogrammingProofs ------------------------
(***************************************************************************)
(* The processes and open files of project_2: the types, the programs and  *)
(* their PCBs, the frames, the sleepers of waitFor and the file table.     *)
(* The first part is about sums over finite sets, which the count of       *)
(* the frames needs.                                                       *)
(***************************************************************************)
EXTENDS Multiprogramming, FiniteSetTheorems, TLAPS

-----------------------------------------------------------------------------
(* Sums over finite sets. *)

LEMMA StrictInduction ==
  ASSUME NEW S, IsFiniteSet(S), NEW Good,
         \A T \in SUBSET S : (\A U \in SUBSET T : U # T => U \in Good) => T \in Good
  PROVE  \A T \in SUBSET S : T \in Good
  <1> DEFINE Bad == {T \in SUBSET S : T \notin Good}
  <1>1. SUFFICES ASSUME Bad # {} PROVE FALSE OBVIOUS
  <1>2. IsWellFoundedOn(StrictSubsetOrdering(S), SUBSET S)
    BY FS_StrictSubsetOrderingWellFounded, FS_FiniteSubsetsOfFinite
  <1>3. PICK T \in Bad : \A U \in Bad : ~ (<<U, T>> \in StrictSubsetOrdering(S))
    <2>1. Bad \subseteq SUBSET S OBVIOUS
    <2> HIDE DEF Bad
    <2> QED BY <1>1, <1>2, <2>1, WFMin
  <1>4. ASSUME NEW U \in SUBSET T, U # T PROVE U \in Good
    <2>1. <<U, T>> \in StrictSubsetOrdering(S)
      BY <1>3, <1>4 DEF StrictSubsetOrdering
    <2> QED BY <1>3, <2>1
  <1> QED BY <1>3, <1>4

Pick(s) == CHOOSE x \in s : TRUE
Solves(g, f, T) == g = [s \in SUBSET T |-> IF s = {} THEN 0 ELSE f[Pick(s)] + g[s \ {Pick(s)}]]
Sums(f, T) == CHOOSE g : Solves(g, f, T)
Sum(f, T) == Sums(f, T)[T]

LEMMA PickIn == \A s : s # {} => Pick(s) \in s
  BY DEF Pick

LEMMA FoldIsSum == ASSUME NEW f PROVE FoldFunction(+, 0, f) = Sum(f, DOMAIN f)
  BY DEF FoldFunction, FoldFunctionOnSet, MapThenFoldSet, Sum, Sums, Solves, Pick

LEMMA Solved ==
  ASSUME NEW f, NEW T, NEW g, Solves(g, f, T), NEW s \in SUBSET T
  PROVE  g[s] = IF s = {} THEN 0 ELSE f[Pick(s)] + g[s \ {Pick(s)}]
  BY DEF Solves

LEMMA SolutionsAgree ==
  ASSUME NEW f, NEW T, IsFiniteSet(T), NEW U, NEW g, NEW h, Solves(g, f, T), Solves(h, f, U)
  PROVE  \A s \in SUBSET T : s \subseteq U => g[s] = h[s]
  <1> DEFINE Good == {s \in SUBSET T : s \subseteq U => g[s] = h[s]}
  <1>1. ASSUME NEW s \in SUBSET T, \A r \in SUBSET s : r # s => r \in Good PROVE s \in Good
    <2>1. CASE ~(s \subseteq U)
      BY <2>1
    <2>2. CASE s \subseteq U /\ s = {}
      BY <2>2, Solved
    <2>3. CASE s \subseteq U /\ s # {}
      <3>1. s \ {Pick(s)} \in Good
        BY <1>1, <2>3, PickIn
      <3>2. g[s] = f[Pick(s)] + g[s \ {Pick(s)}] /\ h[s] = f[Pick(s)] + h[s \ {Pick(s)}]
        BY <2>3, Solved
      <3> QED BY <2>3, <3>1, <3>2
    <2> QED BY <2>1, <2>2, <2>3
  <1>2. \A s \in SUBSET T : s \in Good
    <2> HIDE DEF Good
    <2> QED BY <1>1, StrictInduction
  <1> QED BY <1>2

LEMMA SumsSolve == ASSUME NEW f, NEW S, IsFiniteSet(S) PROVE \A T \in SUBSET S : Solves(Sums(f, T), f, T)
  <1> DEFINE Good == {T \in SUBSET S : Solves(Sums(f, T), f, T)}
  <1>1. ASSUME NEW T \in SUBSET S, \A U \in SUBSET T : U # T => U \in Good PROVE T \in Good
    <2> DEFINE g == [s \in SUBSET T |-> IF s = {} THEN 0 ELSE f[Pick(s)] + Sum(f, s \ {Pick(s)})]
    <2>1. ASSUME NEW u \in SUBSET T, u # T PROVE g[u] = Sum(f, u)
      <3>1. Solves(Sums(f, u), f, u)
        BY <1>1, <2>1
      <3>2. CASE u = {}
        BY <3>1, <3>2, Solved DEF Sum
      <3>3. CASE u # {}
        <4> DEFINE v == u \ {Pick(u)}
        <4>1. v \subseteq u /\ v # T
          BY <2>1, <3>3, PickIn
        <4>2. Sums(f, u)[u] = f[Pick(u)] + Sums(f, u)[v]
          BY <3>1, <3>3, Solved
        <4>3. Solves(Sums(f, v), f, v)
          BY <1>1, <4>1
        <4>4. IsFiniteSet(u)
          BY FS_Subset, <2>1
        <4>5. Sums(f, u)[v] = Sums(f, v)[v]
          <5> HIDE DEF v
          <5> QED BY <3>1, <4>1, <4>3, <4>4, SolutionsAgree
        <4>6. g[u] = f[Pick(u)] + Sum(f, v)
          BY <3>3
        <4> QED BY <4>2, <4>5, <4>6 DEF Sum
      <3> QED BY <3>2, <3>3
    <2>2. ASSUME NEW s \in SUBSET T, s # {} PROVE g[s] = f[Pick(s)] + g[s \ {Pick(s)}]
      <3>1. s \ {Pick(s)} \in SUBSET T /\ s \ {Pick(s)} # T
        BY <2>2, PickIn
      <3>2. g[s] = f[Pick(s)] + Sum(f, s \ {Pick(s)})
        BY <2>2
      <3> HIDE DEF g
      <3> QED BY <2>1, <3>1, <3>2
    <2>3. g = [s \in SUBSET T |-> IF s = {} THEN 0 ELSE f[Pick(s)] + g[s \ {Pick(s)}]]
      BY <2>2
    <2> HIDE DEF g
    <2> QED BY <2>3 DEF Solves, Sums
  <1>2. \A T \in SUBSET S : T \in Good
    <2> HIDE DEF Good
    <2> QED BY <1>1, StrictInduction
  <1> QED BY <1>2

LEMMA SumDef ==
  ASSUME NEW f, NEW T, IsFiniteSet(T)
  PROVE  Sum(f, T) = IF T = {} THEN 0 ELSE f[Pick(T)] + Sum(f, T \ {Pick(T)})
  <1> DEFINE u == T \ {Pick(T)}
  <1>1. u \in SUBSET T
    OBVIOUS
  <1>2. Sums(f, T)[T] = IF T = {} THEN 0 ELSE f[Pick(T)] + Sums(f, T)[u]
    BY SumsSolve, Solved
  <1> HIDE DEF u
  <1>3. Solves(Sums(f, T), f, T) /\ Solves(Sums(f, u), f, u) /\ IsFiniteSet(u)
    BY <1>1, SumsSolve, FS_Subset
  <1>4. Sums(f, u)[u] = Sums(f, T)[u]
    BY <1>1, <1>3, SolutionsAgree
  <1>5. Sum(f, T) = IF T = {} THEN 0 ELSE f[Pick(T)] + Sum(f, u)
    BY <1>2, <1>4 DEF Sum
  <1> QED BY <1>5 DEF u

LEMMA SumType ==
  ASSUME NEW S, IsFiniteSet(S), NEW f \in [S -> Nat] PROVE \A T \in SUBSET S : Sum(f, T) \in Nat
  <1> DEFINE Good == {T \in SUBSET S : Sum(f, T) \in Nat}
  <1>1. ASSUME NEW T \in SUBSET S, \A U \in SUBSET T : U # T => U \in Good PROVE T \in Good
    <2>1. IsFiniteSet(T) BY FS_Subset
    <2>2. CASE T = {}
      <3>1. Sum(f, T) = 0 BY <2>1, <2>2, SumDef
      <3> QED BY <3>1
    <2>3. CASE T # {}
      <3>1. Pick(T) \in T BY <2>3, PickIn
      <3>2. T \ {Pick(T)} \in Good BY <1>1, <3>1
      <3>3. Sum(f, T) = f[Pick(T)] + Sum(f, T \ {Pick(T)}) BY <2>1, <2>3, SumDef
      <3> QED BY <3>1, <3>2, <3>3
    <2> QED BY <2>2, <2>3
  <1>2. \A T \in SUBSET S : T \in Good
    <2> HIDE DEF Good
    <2> QED BY <1>1, StrictInduction
  <1> QED BY <1>2

LEMMA SumRemove ==
  ASSUME NEW S, IsFiniteSet(S), NEW f \in [S -> Nat]
  PROVE  \A T \in SUBSET S : \A x \in T : Sum(f, T) = f[x] + Sum(f, T \ {x})
  <1> DEFINE Good == {T \in SUBSET S : \A x \in T : Sum(f, T) = f[x] + Sum(f, T \ {x})}
  <1>1. ASSUME NEW T \in SUBSET S, \A U \in SUBSET T : U # T => U \in Good PROVE T \in Good
    <2> SUFFICES ASSUME NEW x \in T PROVE Sum(f, T) = f[x] + Sum(f, T \ {x}) OBVIOUS
    <2> DEFINE p == Pick(T)
    <2>1. IsFiniteSet(T) /\ p \in T BY FS_Subset, PickIn
    <2>2. Sum(f, T) = f[p] + Sum(f, T \ {p}) BY <2>1, SumDef
    <2>3. CASE x = p BY <2>2, <2>3
    <2>4. CASE x # p
      <3>1. T \ {p} \in Good /\ T \ {x} \in Good BY <1>1, <2>1
      <3> DEFINE r == Sum(f, (T \ {p}) \ {x})
      <3>2. Sum(f, T \ {p}) = f[x] + r BY <3>1, <2>4
      <3>3. Sum(f, T \ {x}) = f[p] + Sum(f, (T \ {x}) \ {p}) BY <3>1, <2>1, <2>4
      <3>4. (T \ {x}) \ {p} = (T \ {p}) \ {x} OBVIOUS
      <3>5. r \in Nat /\ f[x] \in Nat /\ f[p] \in Nat BY SumType, <2>1
      <3> HIDE DEF p, r, Good
      <3> QED BY <2>2, <3>2, <3>3, <3>4, <3>5 DEF r
    <2> QED BY <2>3, <2>4
  <1>2. \A T \in SUBSET S : T \in Good
    <2> HIDE DEF Good
    <2> QED BY <1>1, StrictInduction
  <1> QED BY <1>2

LEMMA SumSame ==
  ASSUME NEW S, IsFiniteSet(S), NEW f, NEW h
  PROVE  \A T \in SUBSET S : (\A x \in T : f[x] = h[x]) => Sum(f, T) = Sum(h, T)
  <1> DEFINE Good == {T \in SUBSET S : (\A x \in T : f[x] = h[x]) => Sum(f, T) = Sum(h, T)}
  <1>1. ASSUME NEW T \in SUBSET S, \A U \in SUBSET T : U # T => U \in Good PROVE T \in Good
    <2>1. IsFiniteSet(T) BY FS_Subset
    <2>2. CASE T = {} BY <2>1, <2>2, SumDef
    <2>3. CASE T # {}
      <3>1. Pick(T) \in T BY <2>3, PickIn
      <3>2. T \ {Pick(T)} \in Good BY <1>1, <3>1
      <3>3. Sum(f, T) = f[Pick(T)] + Sum(f, T \ {Pick(T)}) BY <2>1, <2>3, SumDef
      <3>4. Sum(h, T) = h[Pick(T)] + Sum(h, T \ {Pick(T)}) BY <2>1, <2>3, SumDef
      <3> QED BY <3>1, <3>2, <3>3, <3>4
    <2> QED BY <2>2, <2>3
  <1>2. \A T \in SUBSET S : T \in Good
    <2> HIDE DEF Good
    <2> QED BY <1>1, StrictInduction
  <1> QED BY <1>2

Total(f) == FoldFunction(+, 0, f)

LEMMA TotalExcept ==
  ASSUME NEW S, IsFiniteSet(S), NEW f \in [S -> Nat], NEW t \in S, NEW n \in Nat
  PROVE  Total(f) \in Nat /\ Total([f EXCEPT ![t] = n]) = Total(f) - f[t] + n
  <1> DEFINE h == [f EXCEPT ![t] = n]
             r == Sum(f, S \ {t})
  <1>1. DOMAIN f = S /\ DOMAIN h = S /\ h \in [S -> Nat] /\ h[t] = n OBVIOUS
  <1>2. Sum(f, S) = f[t] + r BY SumRemove
  <1>3. Sum(h, S) = n + Sum(h, S \ {t}) 
    <2> HIDE DEF h
    <2> QED BY SumRemove, <1>1
  <1>4. Sum(h, S \ {t}) = r
    <2>1. \A x \in S \ {t} : f[x] = h[x] OBVIOUS
    <2> HIDE DEF h
    <2> QED BY SumSame, <2>1
  <1>5. r \in Nat /\ Sum(f, S) \in Nat BY SumType
  <1>6. Total(f) = Sum(f, S) /\ Total(h) = Sum(h, S)
    <2> HIDE DEF h
    <2> QED BY FoldIsSum, <1>1 DEF Total
  <1>7. f[t] \in Nat
    OBVIOUS
  <1>8. Sum(f, S) \in Nat /\ Sum(h, S) = Sum(f, S) - f[t] + n
    <2> HIDE DEF h, r
    <2> QED BY <1>2, <1>3, <1>4, <1>5, <1>7
  <1> QED BY <1>6, <1>8

LEMMA TotalZero ==
  ASSUME NEW S, IsFiniteSet(S) PROVE Total([t \in S |-> 0]) = 0
  <1> DEFINE f == [t \in S |-> 0]
             Good == {T \in SUBSET S : Sum(f, T) = 0}
  <1>1. ASSUME NEW T \in SUBSET S, \A U \in SUBSET T : U # T => U \in Good PROVE T \in Good
    <2>1. IsFiniteSet(T) BY FS_Subset
    <2>2. CASE T = {}
      <3>1. Sum(f, T) = 0
        <4> HIDE DEF f
        <4> QED BY <2>1, <2>2, SumDef
      <3> QED BY <3>1
    <2>3. CASE T # {}
      <3>1. Pick(T) \in T BY <2>3, PickIn
      <3>2. T \ {Pick(T)} \in Good BY <1>1, <3>1
      <3>3. Sum(f, T) = f[Pick(T)] + Sum(f, T \ {Pick(T)})
        <4> HIDE DEF f
        <4> QED BY <2>1, <2>3, SumDef
      <3> QED BY <3>1, <3>2, <3>3
    <2> QED BY <2>2, <2>3
  <1>2. \A T \in SUBSET S : T \in Good
    <2> HIDE DEF Good
    <2> QED BY <1>1, StrictInduction
  <1>3. Total(f) = Sum(f, DOMAIN f) /\ DOMAIN f = S
    BY FoldIsSum DEF Total
  <1> QED BY <1>2, <1>3

-----------------------------------------------------------------------------
(* Helpers. *)

LEMMA FirstIn == ASSUME NEW S \in SUBSET Nat, S # {} PROVE First(S) \in S
  <1> DEFINE R == {ss \in Nat \X Nat : ss[1] < ss[2]}
  <1>1. IsWellFoundedOn(R, Nat)
    BY NatLessThanWellFounded DEF OpToRel
  <1>2. PICK m \in S : \A y \in S : ~ (<<y, m>> \in R)
    <2> HIDE DEF R
    <2> QED BY <1>1, WFMin
  <1>3. ASSUME NEW y \in S PROVE m <= y
    <2>1. CASE y < m
      <3>1. <<y, m>> \in R
        BY <2>1
      <3> QED BY <1>2, <3>1
    <2>2. y \in Nat /\ m \in Nat
      OBVIOUS
    <2> QED BY <2>1, <2>2
  <1> QED BY <1>3 DEF First

LEMMA PidsAreNats == /\ Pids \subseteq Nat /\ -1 \notin Pids
                     /\ Indices \subseteq Nat /\ IsFiniteSet(Indices)
  BY SizeAssumption, FS_Interval DEF Pids, Indices

LEMMA NullIsNone == /\ \A e \in PCBs : e # NULL
                    /\ \A e \in SysOpenFile : e # NULL
                    /\ \A e \in UserOpenFile : e # NULL
  BY NullAssumption

LEMMA PCBTypes ==
  /\ NoFiles \in [Fds -> UserOpenFile \cup {NULL}]
  /\ \A t \in Threads, p \in Pids \cup {NO_PARENT_PID}, o \in [Fds -> UserOpenFile \cup {NULL}] :
       [PCB(t, p) EXCEPT !.openFiles = o] \in PCBs
  /\ \A e \in PCBs : /\ e.thread \in Threads /\ e.exitStatus \in Int
                     /\ e.parentPid \in Pids \cup {NO_PARENT_PID}
                     /\ e.openFiles \in [Fds -> UserOpenFile \cup {NULL}]
  /\ \A e \in PCBs, s \in Int : [e EXCEPT !.exitStatus = s] \in PCBs
  /\ \A e \in PCBs, fd \in Fds, f \in UserOpenFile \cup {NULL} : [e EXCEPT !.openFiles[fd] = f] \in PCBs
  <1>1. NoFiles \in [Fds -> UserOpenFile \cup {NULL}]
    BY DEF NoFiles
  <1>2. ASSUME NEW t \in Threads, NEW p \in Pids \cup {NO_PARENT_PID},
               NEW o \in [Fds -> UserOpenFile \cup {NULL}]
        PROVE  [PCB(t, p) EXCEPT !.openFiles = o] \in PCBs
    BY <1>1 DEF PCBs, PCB, NOT_FINISHED
  <1>3. ASSUME NEW e \in PCBs
        PROVE  /\ e.thread \in Threads /\ e.exitStatus \in Int
               /\ e.parentPid \in Pids \cup {NO_PARENT_PID}
               /\ e.openFiles \in [Fds -> UserOpenFile \cup {NULL}]
    BY DEF PCBs
  <1>4. ASSUME NEW e \in PCBs, NEW s \in Int PROVE [e EXCEPT !.exitStatus = s] \in PCBs
    BY DEF PCBs
  <1>5. ASSUME NEW e \in PCBs, NEW fd \in Fds, NEW f \in UserOpenFile \cup {NULL}
        PROVE  [e EXCEPT !.openFiles[fd] = f] \in PCBs
    BY DEF PCBs
  <1> QED BY <1>1, <1>2, <1>3, <1>4, <1>5

-----------------------------------------------------------------------------
(* The inductive invariant.  Types need the programs' PCBs to be there, and *)
(* the table needs its count: Open relies on it to find a free entry.       *)

Entries == {i \in Indices : openFileTable[i] # NULL}

IInv == TypeOK /\ ProgramsTracked /\ used = Cardinality(Entries)

LEMMA RunsHasPCB ==
  ASSUME IInv, NEW t \in Programs
  PROVE  /\ t \in Threads /\ pid[t] \in Pids /\ pid[t] \in pids
         /\ PCB_list[pid[t]] \in PCBs /\ PCB_list[pid[t]] # NULL
         /\ PCB_list[pid[t]].openFiles \in [Fds -> UserOpenFile \cup {NULL}]
         /\ \A v \in Programs : pid[v] = pid[t] => v = t
  BY PCBTypes DEF IInv, TypeOK, ProgramsTracked, Programs

(***************************************************************************)
(* What a step is, whichever system call takes it: a new process, a thread *)
(* that falls asleep in waitFor, a join that returns, an exit that frees   *)
(* finished children and then sleeps or ends the process, and the two      *)
(* calls on the table of open files.                                       *)
(***************************************************************************)
Launches(t, u, n, o) ==
  /\ pc[t] = "run" /\ pc[u] = "none" /\ n \in Nat /\ n <= freeFrames /\ pids # Pids
  /\ o \in [Fds -> UserOpenFile \cup {NULL}]
  /\ Launch(t, u, n, o)
  /\ inherited \subseteq inherited' /\ inherited' \subseteq Indices
  /\ \A fd \in Fds : o[fd] # NULL => o[fd].index \in inherited'

Sleeps(t, p, where) ==
  /\ p \in Pids /\ PCB_list[p] # NULL /\ ~Finished(p)
  /\ \/ where = "join" /\ t \in Programs
     \/ where = "exit" /\ pc[t] = "exit"
  /\ SleepOn(t, p, where) /\ UNCHANGED <<pages, freeFrames, files, machine>>

Frees(t, ps) ==
  /\ ps \in SUBSET Pids /\ \A p \in ps : Finished(p)
  /\ FreePids(ps)
  /\ pc' = [pc EXCEPT ![t] = "run"] /\ target' = [target EXCEPT ![t] = -1]
  /\ UNCHANGED <<pid, exitSignals, pages, freeFrames, files, machine>>

(* list is what WaitForChildren is given: the PCBs, t's own with its status. *)
Given(t, list) ==
  /\ list \in [Pids -> PCBs \cup {NULL}]
  /\ \A p \in Pids : /\ list[p] = NULL <=> PCB_list[p] = NULL
                     /\ p # pid[t] => list[p] = PCB_list[p]
  /\ \A v \in Programs \ {t} : list[pid[v]] = PCB_list[pid[v]]

(* What WaitForChildren does. *)
Reaps(t, list, ps) ==
  /\ ps \in SUBSET Pids /\ \A p \in ps : list[p].exitStatus # NOT_FINISHED
  /\ pids' = pids \ ps /\ PCB_list' = [p \in Pids |-> IF p \in ps THEN NULL ELSE list[p]]
  /\ \/ \E q \in Pids : /\ q \notin ps /\ list[q] # NULL /\ list[q].exitStatus = NOT_FINISHED
                        /\ exitSignals' = [exitSignals EXCEPT ![q] = @ \cup {t}]
                        /\ target' = [target EXCEPT ![t] = q]
                        /\ pc' = [pc EXCEPT ![t] = "exit"]
                        /\ UNCHANGED <<pid, machine>>
     \/ /\ exitSignals' = [exitSignals EXCEPT ![pid[t]] = {}]
        /\ target' = [target EXCEPT ![t] = -1]
        /\ pc' = [pc EXCEPT ![t] = "none"]
        /\ pid' = [pid EXCEPT ![t] = -1]
        /\ machine' \in {machine, "halted"}

Leaves(t, list, ps) ==
  /\ Given(t, list) /\ Reaps(t, list, ps) /\ UNCHANGED files
  /\ \/ t \in Programs /\ DeleteSpace(t)
     \/ pc[t] = "exit" /\ list = PCB_list /\ UNCHANGED <<pages, freeFrames>>

Opens(t, f) == t \in Programs /\ Open(t, f)

Closes(t, fd) ==
  LET file == OpenFiles(t)[fd]
  IN  /\ t \in Programs /\ file # NULL /\ openFileTable[file.index] # NULL
      /\ Reduce(file.index) /\ SetOpenFile(t, fd, NULL)
      /\ UNCHANGED <<procs, pages, freeFrames, inherited, machine>>

LEMMA LaunchesKeeps ==
  ASSUME IInv, NEW t \in Threads, NEW u \in Threads, NEW n, NEW o, Launches(t, u, n, o) PROVE IInv'
  <1> DEFINE p == First(Pids \ pids)
             e == [PCB(u, pid[t]) EXCEPT !.openFiles = o]
  <1>1. p \in Pids /\ p \notin pids
    <2>1. Pids \ pids # {} /\ Pids \ pids \in SUBSET Nat
      BY PidsAreNats DEF Launches, IInv, TypeOK
    <2>2. p \in Pids \ pids
      BY <2>1, FirstIn
    <2> QED BY <2>2
  <1>2. e \in PCBs /\ e # NULL /\ e.thread = u /\ e.exitStatus = NOT_FINISHED
    <2>1. pid[t] \in Pids /\ o \in [Fds -> UserOpenFile \cup {NULL}]
      BY RunsHasPCB DEF Launches, Programs
    <2>2. e.thread = u /\ e.exitStatus = NOT_FINISHED
      BY DEF PCB
    <2> HIDE DEF e
    <2> QED BY <2>1, <2>2, PCBTypes, NullIsNone DEF e
  <1>3. /\ pids' = pids \cup {p} /\ PCB_list' = [PCB_list EXCEPT ![p] = e]
        /\ pid' = [pid EXCEPT ![u] = p] /\ pages' = [pages EXCEPT ![u] = n]
        /\ freeFrames' = freeFrames - n /\ pc' = [pc EXCEPT ![u] = "run"]
        /\ UNCHANGED <<target, exitSignals, openFileTable, used, machine>>
        /\ n \in Nat /\ n <= freeFrames /\ inherited' \subseteq Indices /\ pc[u] = "none"
    BY DEF Launches, Launch
  <1> HIDE DEF p, e
  <1>4. TypeOK'
    <2>1. freeFrames' \in Nat
      BY <1>3 DEF IInv, TypeOK
    <2>2. PCB_list' \in [Pids -> PCBs \cup {NULL}]
      BY <1>2, <1>3 DEF IInv, TypeOK
    <2> QED BY <1>1, <1>3, <2>1, <2>2 DEF IInv, TypeOK
  <1>5. ProgramsTracked'
    <2>1. pids' = {q \in Pids : PCB_list'[q] # NULL}
      BY <1>1, <1>2, <1>3 DEF IInv, TypeOK, ProgramsTracked
    <2>2. ASSUME NEW v \in Programs'
          PROVE  /\ pid'[v] \in pids' /\ PCB_list'[pid'[v]].thread = v
                 /\ PCB_list'[pid'[v]].exitStatus = NOT_FINISHED
      <3>1. CASE v = u
        BY <1>1, <1>2, <1>3, <3>1 DEF IInv, TypeOK
      <3>2. CASE v # u
        <4>1. v \in Programs /\ pid'[v] = pid[v]
          BY <1>3, <3>2 DEF Programs, IInv, TypeOK
        <4>2. PCB_list'[pid[v]] = PCB_list[pid[v]]
          BY <1>1, <1>3, <4>1, RunsHasPCB DEF IInv, TypeOK
        <4> QED BY <1>3, <4>1, <4>2 DEF IInv, ProgramsTracked
      <3> QED BY <3>1, <3>2
    <2> QED BY <2>1, <2>2 DEF ProgramsTracked
  <1>6. used' = Cardinality(Entries')
    BY <1>3 DEF IInv, Entries
  <1> QED BY <1>4, <1>5, <1>6 DEF IInv

LEMMA StopKeeps == ASSUME IInv, NEW how \in {"halted", "aborted", "crashed"}, Stop(how) PROVE IInv'
  BY DEF Stop, procs, files, IInv, TypeOK, ProgramsTracked, Programs, Entries

LEMMA SleepsKeeps == ASSUME IInv, NEW t \in Threads, NEW p, NEW where, Sleeps(t, p, where) PROVE IInv'
  <1>1. TypeOK'
    BY DEF Sleeps, SleepOn, files, IInv, TypeOK
  <1>2. Programs' \subseteq Programs
    BY DEF Sleeps, SleepOn, Programs, IInv, TypeOK
  <1> QED BY <1>1, <1>2 DEF Sleeps, SleepOn, files, IInv, ProgramsTracked, Entries

(* What freeing the PCBs of ps, none of them a program's, leaves. *)
LEMMA FreePidsKeeps ==
  ASSUME IInv, NEW ps \in SUBSET Pids, NEW list \in [Pids -> PCBs \cup {NULL}],
         \A p \in Pids : list[p] = NULL <=> PCB_list[p] = NULL,
         pids' = pids \ ps, PCB_list' = [p \in Pids |-> IF p \in ps THEN NULL ELSE list[p]],
         \A v \in Programs' : /\ v \in Programs /\ pid'[v] = pid[v]
                              /\ pid[v] \notin ps /\ list[pid[v]] = PCB_list[pid[v]]
  PROVE  ProgramsTracked' /\ PCB_list' \in [Pids -> PCBs \cup {NULL}] /\ pids' \subseteq Pids
  <1>1. pids' = {p \in Pids : PCB_list'[p] # NULL}
    BY DEF IInv, TypeOK, ProgramsTracked
  <1>2. ASSUME NEW v \in Programs'
        PROVE  /\ pid'[v] \in pids' /\ PCB_list'[pid'[v]].thread = v
               /\ PCB_list'[pid'[v]].exitStatus = NOT_FINISHED
    <2>1. pid[v] \in Pids /\ pid[v] \in pids /\ PCB_list'[pid[v]] = PCB_list[pid[v]]
      BY RunsHasPCB
    <2> QED BY <2>1 DEF IInv, ProgramsTracked
  <1> QED BY <1>1, <1>2 DEF IInv, TypeOK, ProgramsTracked

LEMMA FreesKeeps == ASSUME IInv, NEW t \in Programs, NEW ps, Frees(t, ps) PROVE IInv'
  <1>1. Programs' = Programs
    BY DEF Frees, Programs, IInv, TypeOK
  <1>2. \A v \in Programs : pid[v] \notin ps
    BY DEF Frees, Finished, IInv, ProgramsTracked
  <1>3. ProgramsTracked' /\ PCB_list' \in [Pids -> PCBs \cup {NULL}] /\ pids' \subseteq Pids
    <2>1. /\ PCB_list \in [Pids -> PCBs \cup {NULL}] /\ ps \in SUBSET Pids /\ pid' = pid
          /\ pids' = pids \ ps /\ PCB_list' = [p \in Pids |-> IF p \in ps THEN NULL ELSE PCB_list[p]]
      BY DEF Frees, FreePids, IInv, TypeOK
    <2> QED BY <1>1, <1>2, <2>1, FreePidsKeeps
  <1>4. TypeOK'
    BY <1>3 DEF Frees, IInv, TypeOK, files, Programs
  <1> QED BY <1>3, <1>4 DEF Frees, IInv, files, Entries

LEMMA WaitForChildrenReaps ==
  ASSUME NEW t, NEW list, NEW from, WaitForChildren(t, list, from)
  PROVE  \E ps : Reaps(t, list, ps)
  <1> DEFINE children == {p \in Pids : p >= from /\ list[p] # NULL /\ list[p].parentPid = pid[t]}
             waitsFor == {p \in children : list[p].exitStatus = NOT_FINISHED}
             reaped   == {p \in children : \A q \in waitsFor : p < q}
  <1>1. /\ pids' = pids \ reaped /\ PCB_list' = [p \in Pids |-> IF p \in reaped THEN NULL ELSE list[p]]
        /\ IF waitsFor # {}
           THEN /\ exitSignals' = [exitSignals EXCEPT ![First(waitsFor)] = @ \cup {t}]
                /\ target' = [target EXCEPT ![t] = First(waitsFor)]
                /\ pc' = [pc EXCEPT ![t] = "exit"]
                /\ UNCHANGED <<pid, machine>>
           ELSE /\ exitSignals' = [exitSignals EXCEPT ![pid[t]] = {}]
                /\ target' = [target EXCEPT ![t] = -1]
                /\ pc' = [pc EXCEPT ![t] = "none"]
                /\ pid' = [pid EXCEPT ![t] = -1]
                /\ machine' = IF pid[t] = 0 THEN "halted" ELSE machine
    BY DEF WaitForChildren, Broadcast
  <1>2. ASSUME NEW p \in waitsFor
        PROVE  p \in Pids /\ p \notin reaped /\ list[p] # NULL /\ list[p].exitStatus = NOT_FINISHED
    <2>1. p \in Pids /\ list[p] # NULL /\ list[p].exitStatus = NOT_FINISHED
      OBVIOUS
    <2>2. ~ (p < p)
      BY <2>1, PidsAreNats
    <2> QED BY <2>1, <2>2
  <1>3. \A p \in reaped : p \in Pids /\ list[p].exitStatus # NOT_FINISHED
    BY PidsAreNats
  <1> HIDE DEF waitsFor, reaped
  <1>4. waitsFor \in SUBSET Nat
    BY <1>2, PidsAreNats
  <1>5. CASE waitsFor # {}
    <2>1. First(waitsFor) \in waitsFor
      BY <1>4, <1>5, FirstIn
    <2>2. Reaps(t, list, reaped)
      BY <1>1, <1>2, <1>3, <1>5, <2>1 DEF Reaps
    <2> QED BY <2>2
  <1>6. CASE waitsFor = {}
    <2>1. Reaps(t, list, reaped)
      BY <1>1, <1>3, <1>6 DEF Reaps
    <2> QED BY <2>1
  <1> QED BY <1>5, <1>6

LEMMA LeavesKeeps ==
  ASSUME IInv, NEW t \in Threads, NEW list, NEW ps, Leaves(t, list, ps) PROVE IInv'
  <1>1. Programs' \subseteq Programs \ {t} /\ \A v \in Programs' : pid'[v] = pid[v]
    BY DEF Leaves, Reaps, Programs, IInv, TypeOK
  <1>2. \A v \in Programs' : pid[v] \notin ps /\ list[pid[v]] = PCB_list[pid[v]]
    BY <1>1 DEF Leaves, Reaps, Given, IInv, ProgramsTracked
  <1>3. ProgramsTracked' /\ PCB_list' \in [Pids -> PCBs \cup {NULL}] /\ pids' \subseteq Pids
    <2>1. /\ list \in [Pids -> PCBs \cup {NULL}] /\ ps \in SUBSET Pids
          /\ \A p \in Pids : list[p] = NULL <=> PCB_list[p] = NULL
          /\ pids' = pids \ ps /\ PCB_list' = [p \in Pids |-> IF p \in ps THEN NULL ELSE list[p]]
      BY DEF Leaves, Reaps, Given
    <2> QED BY <1>1, <1>2, <2>1, FreePidsKeeps
  <1>4. TypeOK'
    <2>1. /\ pc' \in [Threads -> {"none", "run", "join", "exit"}]
          /\ pid' \in [Threads -> Pids \cup {-1}]
          /\ target' \in [Threads -> Pids \cup {-1}]
          /\ machine' \in {"on", "halted", "aborted", "crashed"}
      BY DEF Leaves, Reaps, IInv, TypeOK
    <2>2. exitSignals' \in [Pids -> SUBSET Threads]
      BY DEF Leaves, Reaps, IInv, TypeOK
    <2>3. pages' \in [Threads -> Nat] /\ freeFrames' \in Nat
      BY DEF Leaves, DeleteSpace, IInv, TypeOK
    <2> QED BY <1>3, <2>1, <2>2, <2>3 DEF Leaves, IInv, TypeOK, files
  <1> QED BY <1>3, <1>4 DEF Leaves, IInv, Entries, files

LEMMA ExitGives ==
  ASSUME IInv, NEW t \in Programs, NEW status \in Int
  PROVE  Given(t, [PCB_list EXCEPT ![pid[t]].exitStatus = status])
  <1> DEFINE e == [PCB_list[pid[t]] EXCEPT !.exitStatus = status]
             list == [PCB_list EXCEPT ![pid[t]] = e]
  <1>1. e \in PCBs /\ e # NULL
    <2> HIDE DEF e
    <2> QED BY RunsHasPCB, PCBTypes, NullIsNone DEF e
  <1> HIDE DEF e
  <1>2. list \in [Pids -> PCBs \cup {NULL}]
    BY <1>1 DEF IInv, TypeOK
  <1>3. \A p \in Pids : /\ list[p] = NULL <=> PCB_list[p] = NULL
                        /\ p # pid[t] => list[p] = PCB_list[p]
    BY <1>1, RunsHasPCB DEF IInv, TypeOK
  <1>4. \A v \in Programs \ {t} : list[pid[v]] = PCB_list[pid[v]]
    BY <1>3, RunsHasPCB
  <1>5. Given(t, list)
    BY <1>2, <1>3, <1>4 DEF Given
  <1> QED BY <1>5 DEF e

(* What setting a descriptor of a program's PCB changes. *)
LEMMA DescriptorSet ==
  ASSUME IInv, NEW t \in Programs, NEW fd \in Fds, NEW entry \in UserOpenFile \cup {NULL},
         SetOpenFile(t, fd, entry), UNCHANGED procs
  PROVE  /\ ProgramsTracked' /\ PCB_list' \in [Pids -> PCBs \cup {NULL}] /\ Programs' = Programs
         /\ \A v \in Programs, d \in Fds :
              OpenFiles(v)'[d] = IF v = t /\ d = fd THEN entry ELSE OpenFiles(v)[d]
         /\ \A p \in Pids : /\ PCB_list'[p] = NULL <=> PCB_list[p] = NULL
                            /\ PCB_list[p] # NULL => PCB_list'[p].exitStatus = PCB_list[p].exitStatus
  <1> DEFINE p == pid[t]
             e == [PCB_list[p] EXCEPT !.openFiles[fd] = entry]
  <1>1. p \in Pids /\ PCB_list[p] \in PCBs /\ PCB_list[p] # NULL
    BY RunsHasPCB
  <1>2. PCB_list' = [PCB_list EXCEPT ![p] = e]
    BY DEF SetOpenFile
  <1>3. e \in PCBs /\ e # NULL
    <2>1. e \in PCBs
      <3> HIDE DEF p
      <3> QED BY <1>1, PCBTypes
    <2> HIDE DEF e
    <2> QED BY <2>1, NullIsNone
  <1>4. /\ e.thread = PCB_list[p].thread /\ e.exitStatus = PCB_list[p].exitStatus
        /\ \A d \in Fds : e.openFiles[d] = IF d = fd THEN entry ELSE PCB_list[p].openFiles[d]
    <2> HIDE DEF p
    <2> QED BY <1>1 DEF PCBs
  <1>5. \A v \in Programs : pid[v] = p <=> v = t
    BY RunsHasPCB
  <1>6. Programs' = Programs /\ pid' = pid /\ pids' = pids
    BY DEF procs, Programs
  <1>7. PCB_list' \in [Pids -> PCBs \cup {NULL}]
    <2> HIDE DEF e
    <2> QED BY <1>2, <1>3 DEF IInv, TypeOK
  <1> HIDE DEF p, e
  <1>8. \A q \in Pids : PCB_list'[q] = IF q = p THEN e ELSE PCB_list[q]
    BY <1>1, <1>2 DEF IInv, TypeOK
  <1>9. ProgramsTracked'
    <2>1. pids' = {q \in Pids : PCB_list'[q] # NULL}
      BY <1>1, <1>3, <1>6, <1>8 DEF IInv, ProgramsTracked
    <2>2. ASSUME NEW v \in Programs
          PROVE  /\ pid[v] \in pids /\ PCB_list'[pid[v]].thread = v
                 /\ PCB_list'[pid[v]].exitStatus = NOT_FINISHED
      BY <1>4, <1>8, RunsHasPCB DEF IInv, ProgramsTracked
    <2> QED BY <1>6, <2>1, <2>2 DEF ProgramsTracked
  <1>10. ASSUME NEW v \in Programs, NEW d \in Fds
         PROVE  OpenFiles(v)'[d] = IF v = t /\ d = fd THEN entry ELSE OpenFiles(v)[d]
    <2>1. OpenFiles(v)' = PCB_list'[pid[v]].openFiles /\ pid[v] \in Pids
      BY <1>6, RunsHasPCB DEF OpenFiles
    <2>2. CASE v = t
      BY <1>4, <1>5, <1>8, <2>1, <2>2 DEF OpenFiles
    <2>3. CASE v # t
      BY <1>5, <1>8, <2>1, <2>3 DEF OpenFiles
    <2> QED BY <2>2, <2>3
  <1> QED BY <1>3, <1>1, <1>4, <1>6, <1>7, <1>8, <1>9, <1>10

(* Open takes an entry nobody uses: as they are counted, there is one. *)
LEMMA OpenTakes ==
  ASSUME IInv, NEW i, i = First({j \in Indices : openFileTable[j] = NULL}), used # OPEN_FILE_TABLE_SIZE
  PROVE  i \in Indices /\ openFileTable[i] = NULL
  <1> DEFINE free == {j \in Indices : openFileTable[j] = NULL}
  <1>1. free # {}
    <2>1. Cardinality(Indices) = OPEN_FILE_TABLE_SIZE
      BY FS_Interval, SizeAssumption DEF Indices
    <2>2. SUFFICES ASSUME free = {} PROVE FALSE
      OBVIOUS
    <2>3. Entries = Indices
      BY <2>2 DEF Entries
    <2> QED BY <2>1, <2>3 DEF IInv
  <1>2. free \in SUBSET Nat
    BY PidsAreNats
  <1>3. First(free) \in free
    <2> HIDE DEF free
    <2> QED BY <1>1, <1>2, FirstIn
  <1> QED BY <1>3

LEMMA EntriesFinite == IsFiniteSet(Entries) /\ Entries \subseteq Indices
  BY PidsAreNats, FS_Subset DEF Entries

LEMMA OpensSets ==
  ASSUME IInv, NEW t \in Threads, NEW f \in Files, Opens(t, f)
  PROVE  \E i \in Indices :
           /\ openFileTable[i] = NULL
           /\ openFileTable' = [openFileTable EXCEPT ![i] = [filename |-> f, numProcOpen |-> 1]]
           /\ \/ UNCHANGED PCB_list
              \/ \E fd \in Fds : SetOpenFile(t, fd, [filename |-> f, index |-> i])
           /\ [filename |-> f, index |-> i] \in UserOpenFile
  <1> DEFINE i    == First({j \in Indices : openFileTable[j] = NULL})
             free == {fd \in Fds : OpenFiles(t)[fd] = NULL}
  <1>1. i \in Indices /\ openFileTable[i] = NULL
    BY OpenTakes DEF Opens, Open
  <1>2. /\ openFileTable' = [openFileTable EXCEPT ![i] = [filename |-> f, numProcOpen |-> 1]]
        /\ IF free = {} THEN UNCHANGED PCB_list
           ELSE SetOpenFile(t, First(free), [filename |-> f, index |-> i])
    BY DEF Opens, Open
  <1>3. [filename |-> f, index |-> i] \in UserOpenFile
    BY <1>1 DEF UserOpenFile
  <1>4. free # {} => First(free) \in Fds
    <2>1. free \in SUBSET Nat /\ free \subseteq Fds
      BY SizeAssumption
    <2> HIDE DEF free
    <2> QED BY <2>1, FirstIn
  <1> HIDE DEF i, free
  <1> QED BY <1>1, <1>2, <1>3, <1>4

LEMMA OpensKeeps == ASSUME IInv, NEW t \in Threads, NEW f \in Files, Opens(t, f) PROVE IInv'
  <1> DEFINE new == [filename |-> f, numProcOpen |-> 1]
  <1>1. PICK i \in Indices :
          /\ openFileTable[i] = NULL
          /\ openFileTable' = [openFileTable EXCEPT ![i] = new]
          /\ \/ UNCHANGED PCB_list
             \/ \E fd \in Fds : SetOpenFile(t, fd, [filename |-> f, index |-> i])
          /\ [filename |-> f, index |-> i] \in UserOpenFile
    BY OpensSets
  <1>2. /\ used' = used + 1 /\ t \in Programs
        /\ UNCHANGED <<procs, pages, freeFrames, inherited, machine>>
    BY DEF Opens, Open
  <1>3. new \in SysOpenFile /\ new # NULL
    BY NullIsNone DEF SysOpenFile
  <1> HIDE DEF new
  <1>4. ProgramsTracked' /\ PCB_list' \in [Pids -> PCBs \cup {NULL}]
    <2>1. CASE UNCHANGED PCB_list
      BY <1>2, <2>1 DEF IInv, TypeOK, ProgramsTracked, Programs, procs
    <2>2. CASE \E fd \in Fds : SetOpenFile(t, fd, [filename |-> f, index |-> i])
      BY <1>1, <1>2, <2>2, DescriptorSet
    <2> QED BY <1>1, <2>1, <2>2
  <1>5. TypeOK'
    <2>1. openFileTable' \in [Indices -> SysOpenFile \cup {NULL}]
      BY <1>1, <1>3 DEF IInv, TypeOK
    <2>2. used' \in Nat /\ UNCHANGED <<procs, pages, freeFrames, inherited, machine>>
      BY <1>2 DEF IInv, TypeOK
    <2> QED BY <1>4, <2>1, <2>2 DEF IInv, TypeOK, procs
  <1>6. used' = Cardinality(Entries')
    <2>1. Entries' = Entries \cup {i} /\ i \notin Entries
      BY <1>1, <1>3 DEF Entries, IInv, TypeOK
    <2> QED BY <1>2, <2>1, FS_AddElement, EntriesFinite DEF IInv
  <1> QED BY <1>4, <1>5, <1>6 DEF IInv

LEMMA ReduceKeeps ==
  ASSUME IInv, NEW i \in Indices, openFileTable[i] # NULL, Reduce(i)
  PROVE  /\ openFileTable' \in [Indices -> SysOpenFile \cup {NULL}]
         /\ used' \in Nat /\ used' = Cardinality(Entries')
         /\ \A j \in Indices \ {i} : openFileTable'[j] = openFileTable[j]
  <1> DEFINE n == openFileTable[i].numProcOpen - 1
             e == [openFileTable[i] EXCEPT !.numProcOpen = n]
  <1>1. openFileTable[i] \in SysOpenFile
    BY DEF IInv, TypeOK
  <1>2. n \in Nat /\ (n # 0 => e \in SysOpenFile)
    BY <1>1 DEF SysOpenFile
  <1>3. /\ openFileTable' = [openFileTable EXCEPT ![i] = IF n = 0 THEN NULL ELSE e]
        /\ used' = IF n = 0 THEN used - 1 ELSE used
    BY DEF Reduce
  <1> HIDE DEF n, e
  <1>4. CASE n = 0
    <2>1. Entries' = Entries \ {i} /\ i \in Entries
      BY <1>3, <1>4 DEF Entries, IInv, TypeOK
    <2>2. Cardinality(Entries') = Cardinality(Entries) - 1 /\ IsFiniteSet(Entries')
      BY <2>1, FS_RemoveElement, EntriesFinite
    <2>3. Cardinality(Entries') \in Nat
      BY <2>2, FS_CardinalityType
    <2>4. used' = Cardinality(Entries')
      BY <1>3, <1>4, <2>2 DEF IInv
    <2> QED BY <1>3, <1>4, <2>3, <2>4 DEF IInv, TypeOK
  <1>5. CASE n # 0
    <2>1. e # NULL
      BY <1>2, <1>5, NullIsNone
    <2>2. Entries' = Entries
      BY <1>3, <1>5, <2>1 DEF Entries, IInv, TypeOK
    <2> QED BY <1>2, <1>3, <1>5, <2>2 DEF IInv, TypeOK
  <1> QED BY <1>4, <1>5

LEMMA DescriptorIndex ==
  ASSUME IInv, NEW t \in Programs, NEW fd \in Fds, OpenFiles(t)[fd] # NULL
  PROVE  OpenFiles(t)[fd] \in UserOpenFile /\ OpenFiles(t)[fd].index \in Indices
  <1>1. OpenFiles(t) \in [Fds -> UserOpenFile \cup {NULL}]
    BY RunsHasPCB DEF OpenFiles
  <1>2. OpenFiles(t)[fd] \in UserOpenFile
    BY <1>1
  <1> QED BY <1>2 DEF UserOpenFile

LEMMA ClosesKeeps == ASSUME IInv, NEW t \in Threads, NEW fd \in Fds, Closes(t, fd) PROVE IInv'
  <1> DEFINE i == OpenFiles(t)[fd].index
  <1>1. /\ openFileTable[i] # NULL /\ Reduce(i) /\ SetOpenFile(t, fd, NULL)
        /\ UNCHANGED <<procs, pages, freeFrames, inherited, machine>> /\ t \in Programs
    BY DEF Closes
  <1>2. i \in Indices
    BY DescriptorIndex DEF Closes
  <1>3. ProgramsTracked' /\ PCB_list' \in [Pids -> PCBs \cup {NULL}]
    BY <1>1, DescriptorSet
  <1>4. /\ openFileTable' \in [Indices -> SysOpenFile \cup {NULL}]
        /\ used' \in Nat /\ used' = Cardinality(Entries')
    BY <1>1, <1>2, ReduceKeeps
  <1>5. TypeOK'
    BY <1>1, <1>3, <1>4 DEF IInv, TypeOK, procs
  <1> QED BY <1>3, <1>4, <1>5 DEF IInv

-----------------------------------------------------------------------------
(* Every step is of one of these kinds. *)

Kind ==
  \/ UNCHANGED vars
  \/ \E how \in {"halted", "aborted", "crashed"} : Stop(how)
  \/ \E t \in Threads :
       \/ \E u \in Threads : \E n, o : Launches(t, u, n, o)
       \/ \E p, where : Sleeps(t, p, where)
       \/ \E ps : t \in Programs /\ Frees(t, ps)
       \/ \E list, ps : Leaves(t, list, ps)
       \/ \E f \in Files : Opens(t, f)
       \/ \E fd \in Fds : Closes(t, fd)

LEMMA WaitForKind ==
  ASSUME IInv, NEW t \in Programs, NEW p \in Pids, WaitFor(t, p) PROVE Kind
  <1>1. t \in Threads
    BY DEF Programs
  <1>2. CASE PCB_list[p] = NULL
    BY <1>2 DEF WaitFor, Crash, Kind
  <1>3. CASE PCB_list[p] # NULL /\ ~Finished(p)
    <2>1. Sleeps(t, p, "join")
      BY <1>3 DEF WaitFor, Sleeps
    <2> QED BY <1>1, <2>1 DEF Kind
  <1>4. CASE PCB_list[p] # NULL /\ Finished(p)
    <2> DEFINE ps == IF PCB_list[p].parentPid = pid[t] THEN {p} ELSE {}
    <2>1. Frees(t, ps)
      BY <1>4 DEF WaitFor, Frees
    <2> QED BY <1>1, <2>1 DEF Kind
  <1> QED BY <1>2, <1>3, <1>4

LEMMA ExecKind ==
  ASSUME IInv, NEW t \in Threads, NEW u \in Threads, NEW n \in ProgramSizes, Exec(t, u, n) PROVE Kind
  <1>1. CASE Stop("aborted")
    BY <1>1 DEF Kind
  <1>2. CASE UNCHANGED vars
    BY <1>2 DEF Kind
  <1>3. CASE n <= freeFrames /\ pids # Pids /\ Launch(t, u, n, NoFiles) /\ UNCHANGED inherited
    <2>1. n \in Nat /\ NoFiles \in [Fds -> UserOpenFile \cup {NULL}] /\ \A fd \in Fds : NoFiles[fd] = NULL
      BY SizeAssumption, PCBTypes DEF NoFiles
    <2>2. Launches(t, u, n, NoFiles)
      BY <1>3, <2>1 DEF Launches, Exec, At, Fresh, IInv, TypeOK
    <2> QED BY <2>2 DEF Kind
  <1> QED BY <1>1, <1>2, <1>3 DEF Exec

LEMMA ForkKind ==
  ASSUME IInv, NEW t \in Threads, NEW u \in Threads, Fork(t, u) PROVE Kind
  <1> DEFINE o   == OpenFiles(t)
             new == {o[fd].index : fd \in {f \in Fds : o[f] # NULL}}
  <1>1. CASE UNCHANGED vars
    BY <1>1 DEF Kind
  <1>2. CASE /\ pages[t] <= freeFrames /\ pids # Pids
             /\ Launch(t, u, pages[t], o) /\ inherited' = inherited \cup new
    <2>1. t \in Programs
      BY DEF Fork, At, Programs
    <2>2. pages[t] \in Nat /\ o \in [Fds -> UserOpenFile \cup {NULL}]
      BY <2>1, RunsHasPCB DEF OpenFiles, IInv, TypeOK
    <2>3. \A fd \in Fds : o[fd] # NULL => o[fd].index \in new
      OBVIOUS
    <2>4. new \subseteq Indices
      <3> SUFFICES ASSUME NEW fd \in Fds, o[fd] # NULL PROVE o[fd].index \in Indices
        OBVIOUS
      <3> QED BY <2>1, DescriptorIndex
    <2>5. pc[t] = "run" /\ pc[u] = "none" /\ inherited \subseteq Indices
      BY DEF Fork, At, Fresh, IInv, TypeOK
    <2> HIDE DEF o, new
    <2>6. Launches(t, u, pages[t], o)
      BY <1>2, <2>2, <2>3, <2>4, <2>5 DEF Launches
    <2> QED BY <2>6 DEF Kind
  <1> QED BY <1>1, <1>2 DEF Fork, OpenFiles

LEMMA ExitKind ==
  ASSUME IInv, NEW t \in Threads, NEW status \in ExitStatuses, Exit(t, status) PROVE Kind
  <1> DEFINE list == [PCB_list EXCEPT ![pid[t]].exitStatus = status]
  <1>1. WaitForChildren(t, list, 0) /\ DeleteSpace(t) /\ t \in Programs /\ UNCHANGED files
    BY DEF Exit, At, Programs
  <1>2. Given(t, list)
    BY <1>1, ExitGives, SizeAssumption
  <1> HIDE DEF list
  <1>3. PICK ps : Reaps(t, list, ps)
    BY <1>1, WaitForChildrenReaps
  <1>4. Leaves(t, list, ps)
    BY <1>1, <1>2, <1>3 DEF Leaves
  <1> QED BY <1>4 DEF Kind

LEMMA ExitWakesKind == ASSUME IInv, NEW t \in Threads, ExitWakes(t) PROVE Kind
  <1>1. target[t] \in Pids /\ pc[t] = "exit"
    BY DEF ExitWakes, Woken, At, IInv, TypeOK
  <1>2. CASE Crash
    BY <1>2 DEF Crash, Kind
  <1>3. CASE /\ PCB_list[target[t]] # NULL /\ ~Finished(target[t]) /\ SleepOn(t, target[t], "exit")
             /\ UNCHANGED <<pages, freeFrames, files, machine>>
    <2>1. Sleeps(t, target[t], "exit")
      BY <1>1, <1>3 DEF Sleeps
    <2> QED BY <2>1 DEF Kind
  <1>4. CASE WaitForChildren(t, PCB_list, target[t]) /\ UNCHANGED <<pages, freeFrames, files>>
    <2>1. Given(t, PCB_list)
      BY DEF Given, IInv, TypeOK
    <2>2. PICK ps : Reaps(t, PCB_list, ps)
      BY <1>4, WaitForChildrenReaps
    <2>3. Leaves(t, PCB_list, ps)
      BY <1>1, <1>4, <2>1, <2>2 DEF Leaves
    <2> QED BY <2>3 DEF Kind
  <1> QED BY <1>2, <1>3, <1>4 DEF ExitWakes

LEMMA NextKind == ASSUME IInv, [Next]_vars PROVE Kind
  <1>1. CASE UNCHANGED vars
    BY <1>1 DEF Kind
  <1>2. CASE Next
    <2> PICK t \in Threads :
          \/ \E u \in Threads, n \in ProgramSizes : Exec(t, u, n)
          \/ \E u \in Threads : Fork(t, u)
          \/ \E p \in Pids \cup {-1} : Join(t, p)
          \/ AnyExit(t) \/ Halt(t)
          \/ \E f \in Files : Open(t, f)
          \/ \E fd \in Fds : Close(t, fd) \/ ReadOrWrite(t, fd)
          \/ Kernel(t)
      BY <1>2 DEF Next
    <2>1. ASSUME NEW u \in Threads, NEW n \in ProgramSizes, Exec(t, u, n) PROVE Kind
      BY <2>1, ExecKind
    <2>2. ASSUME NEW u \in Threads, Fork(t, u) PROVE Kind
      BY <2>2, ForkKind
    <2>3. ASSUME NEW p \in Pids \cup {-1}, Join(t, p) PROVE Kind
      <3>1. t \in Programs
        BY <2>3 DEF Join, At, Programs
      <3>2. CASE Crash
        BY <3>2 DEF Crash, Kind
      <3>3. CASE p \in Pids /\ WaitFor(t, p)
        BY <3>1, <3>3, WaitForKind
      <3> QED BY <2>3, <3>2, <3>3 DEF Join
    <2>4. CASE AnyExit(t)
      BY <2>4, ExitKind DEF AnyExit
    <2>5. CASE Halt(t)
      BY <2>5 DEF Halt, Kind
    <2>6. ASSUME NEW f \in Files, Open(t, f) PROVE Kind
      <3>1. Opens(t, f)
        BY <2>6 DEF Opens, Open, At, Programs
      <3> QED BY <3>1 DEF Kind
    <2>7. ASSUME NEW fd \in Fds, Close(t, fd) PROVE Kind
      <3>1. CASE Crash
        BY <3>1 DEF Crash, Kind
      <3>2. CASE Closes(t, fd)
        BY <3>2 DEF Kind
      <3> QED BY <2>7, <3>1, <3>2 DEF Close, Closes, CloseOpenFile, At, Programs
    <2>8. ASSUME NEW fd \in Fds, ReadOrWrite(t, fd) PROVE Kind
      <3>1. CASE Crash
        BY <3>1 DEF Crash, Kind
      <3>2. CASE UNCHANGED vars
        BY <3>2 DEF Kind
      <3> QED BY <2>8, <3>1, <3>2 DEF ReadOrWrite
    <2>9. CASE JoinWakes(t)
      <3>1. t \in Programs /\ target[t] \in Pids /\ WaitFor(t, target[t])
        BY <2>9 DEF JoinWakes, At, Woken, Programs, IInv, TypeOK
      <3> QED BY <3>1, WaitForKind
    <2>10. CASE ExitWakes(t)
      BY <2>10, ExitWakesKind
    <2> QED BY <2>1, <2>2, <2>3, <2>4, <2>5, <2>6, <2>7, <2>8, <2>9, <2>10 DEF Kernel
  <1> QED BY <1>1, <1>2

LEMMA Initially == Init => IInv
  <1> SUFFICES ASSUME Init PROVE IInv
    OBVIOUS
  <1>1. PICK n \in ProgramSizes : /\ pages = [t \in Threads |-> IF t = Main THEN n ELSE 0]
                                  /\ freeFrames = NumPhysPages - n
    BY DEF Init
  <1>2. n \in Nat /\ NumPhysPages - n \in Nat /\ 0 \in Pids /\ Main \in Threads
    BY SizeAssumption, ThreadAssumption DEF Pids
  <1>3. PCB(Main, NO_PARENT_PID) \in PCBs
    BY ThreadAssumption, PCBTypes DEF PCB, PCBs, NOT_FINISHED
  <1>4. PCB(Main, NO_PARENT_PID) # NULL
    BY <1>3, NullIsNone
  <1>5. TypeOK
    BY <1>1, <1>2, <1>3 DEF Init, TypeOK
  <1>6. ProgramsTracked
    <2>1. PCB(Main, NO_PARENT_PID).thread = Main /\ PCB(Main, NO_PARENT_PID).exitStatus = NOT_FINISHED
      BY DEF PCB
    <2>2. Programs = {Main} /\ pid[Main] = 0 /\ PCB_list[0] = PCB(Main, NO_PARENT_PID) /\ pids = {0}
      BY <1>2 DEF Init, Programs
    <2>3. \A p \in Pids : PCB_list[p] # NULL <=> p = 0
      BY <1>2, <1>4 DEF Init
    <2> QED BY <1>2, <2>1, <2>2, <2>3 DEF ProgramsTracked
  <1>7. Entries = {} /\ used = 0
    BY DEF Init, Entries
  <1> QED BY <1>5, <1>6, <1>7, FS_EmptySet DEF IInv

LEMMA Inductive == IInv /\ [Next]_vars => IInv'
  <1> SUFFICES ASSUME IInv, [Next]_vars PROVE IInv'
    OBVIOUS
  <1>1. CASE UNCHANGED vars
    BY <1>1 DEF vars, procs, files, IInv, TypeOK, ProgramsTracked, Programs, Entries
  <1>2. CASE \E how \in {"halted", "aborted", "crashed"} : Stop(how)
    BY <1>2, StopKeeps
  <1>3. CASE \E t \in Threads :
       \/ \E u \in Threads : \E n, o : Launches(t, u, n, o)
       \/ \E p, where : Sleeps(t, p, where)
       \/ \E ps : t \in Programs /\ Frees(t, ps)
       \/ \E list, ps : Leaves(t, list, ps)
       \/ \E f \in Files : Opens(t, f)
       \/ \E fd \in Fds : Closes(t, fd)
    BY <1>3, LaunchesKeeps, SleepsKeeps, FreesKeeps, LeavesKeeps, OpensKeeps, ClosesKeeps
  <1> QED BY <1>1, <1>2, <1>3, NextKind DEF Kind

LEMMA Invariant == Spec => []IInv
  BY Initially, Inductive, PTL DEF Spec

(* Every variable has its type in every state: in particular a program     *)
(* that runs has a PCB to be the parent of another, and Open an entry.     *)
THEOREM TypeCorrect == Spec => []TypeOK
  BY Invariant, PTL DEF IInv

(* A program that has not called Exit keeps its id and its PCB, whatever   *)
(* the others join, exit and free, for any number of processes.            *)
THEOREM ProgramsStayTracked == Spec => []ProgramsTracked
  BY Invariant, PTL DEF IInv

-----------------------------------------------------------------------------
(* The frames. *)

Frames(held, free, owners) ==
  free + Total(held) = NumPhysPages /\ \A t \in Threads : held[t] # 0 => t \in owners

FramesNow == Frames(pages, freeFrames, Programs)

LEMMA CountedIsFrames ==
  /\ FramesCounted <=> Frames(pages, freeFrames, Programs)
  /\ FramesCounted' <=> Frames(pages', freeFrames', Programs')
  <1>1. FramesCounted <=> FramesNow
    BY DEF FramesCounted, FramesNow, Frames, Total
  <1>2. FramesCounted' <=> FramesNow'
    BY <1>1, PTL
  <1> QED BY <1>1, <1>2 DEF FramesNow, Frames

LEMMA FramesUntouched ==
  ASSUME FramesCounted, UNCHANGED <<pages, freeFrames>>, Programs \subseteq Programs'
  PROVE  FramesCounted'
  BY CountedIsFrames DEF Frames

LEMMA FramesSum ==
  ASSUME IInv, FramesCounted
  PROVE  Total(pages) \in Nat /\ Total(pages) = NumPhysPages - freeFrames
  <1>1. pages \in [Threads -> Nat] /\ Main \in Threads /\ IsFiniteSet(Threads)
    BY ThreadAssumption DEF IInv, TypeOK
  <1>2. Total(pages) \in Nat
    BY <1>1, TotalExcept
  <1> QED BY <1>2, CountedIsFrames, SizeAssumption DEF Frames, IInv, TypeOK

(* The pages of one thread change, and the free frames by the opposite. *)
LEMMA FramesMove ==
  ASSUME IInv, FramesCounted, NEW t \in Threads, NEW n \in Nat,
         pages' = [pages EXCEPT ![t] = n], freeFrames' = freeFrames + pages[t] - n,
         \A v \in Threads \ {t} : v \in Programs => v \in Programs', n # 0 => t \in Programs'
  PROVE  FramesCounted'
  <1>1. pages \in [Threads -> Nat] /\ IsFiniteSet(Threads) /\ pages[t] \in Nat /\ freeFrames \in Nat
    BY ThreadAssumption DEF IInv, TypeOK
  <1>2. Total([pages EXCEPT ![t] = n]) = Total(pages) - pages[t] + n
    BY <1>1, TotalExcept
  <1>3. freeFrames' + Total([pages EXCEPT ![t] = n]) = NumPhysPages
    BY <1>1, <1>2, FramesSum, SizeAssumption
  <1>4. freeFrames' + Total(pages') = NumPhysPages
    BY <1>3
  <1>5. \A v \in Threads : pages'[v] # 0 => v \in Programs'
    BY <1>1, CountedIsFrames DEF Frames
  <1> QED BY <1>4, <1>5, CountedIsFrames DEF Frames

LEMMA FramesInitially == Init => FramesCounted
  <1> SUFFICES ASSUME Init PROVE FramesCounted
    OBVIOUS
  <1> DEFINE zero == [t \in Threads |-> 0]
  <1>1. PICK n \in ProgramSizes : /\ pages = [t \in Threads |-> IF t = Main THEN n ELSE 0]
                                  /\ freeFrames = NumPhysPages - n
    BY DEF Init
  <1>2. n \in Nat /\ Main \in Threads /\ IsFiniteSet(Threads) /\ zero \in [Threads -> Nat]
        /\ NumPhysPages \in Nat /\ zero[Main] = 0
    BY SizeAssumption, ThreadAssumption
  <1>3. pages = [zero EXCEPT ![Main] = n]
    BY <1>1, <1>2
  <1>4. Total(zero) = 0
    BY <1>2, TotalZero
  <1> HIDE DEF zero
  <1>5. Total([zero EXCEPT ![Main] = n]) = n
    <2>1. Total([zero EXCEPT ![Main] = n]) = Total(zero) - zero[Main] + n
      BY <1>2, TotalExcept
    <2> QED BY <1>2, <1>4, <2>1
  <1>6. freeFrames + Total([zero EXCEPT ![Main] = n]) = NumPhysPages
    BY <1>1, <1>2, <1>5
  <1>7. freeFrames + Total(pages) = NumPhysPages
    BY <1>3, <1>6
  <1>8. \A t \in Threads : pages[t] # 0 => t \in Programs
    BY <1>1 DEF Init, Programs
  <1> QED BY <1>7, <1>8, CountedIsFrames DEF Frames

LEMMA FramesInductive == IInv /\ FramesCounted /\ [Next]_vars => FramesCounted'
  <1> SUFFICES ASSUME IInv, FramesCounted, Kind PROVE FramesCounted'
    BY NextKind
  <1>1. CASE UNCHANGED vars \/ \E how \in {"halted", "aborted", "crashed"} : Stop(how)
    <2>1. UNCHANGED <<pages, freeFrames>> /\ Programs' = Programs
      BY <1>1 DEF Stop, vars, procs, Programs
    <2> QED BY <2>1, FramesUntouched
  <1>2. ASSUME NEW t \in Threads, NEW u \in Threads, NEW n, NEW o, Launches(t, u, n, o)
        PROVE  FramesCounted'
    <2>1. /\ pages' = [pages EXCEPT ![u] = n] /\ freeFrames' = freeFrames - n /\ n \in Nat
          /\ pc' = [pc EXCEPT ![u] = "run"] /\ pc[u] = "none"
      BY <1>2 DEF Launches, Launch
    <2>2. pages[u] = 0
      BY <2>1, CountedIsFrames DEF Frames, Programs
    <2>3. \A v \in Threads \ {u} : v \in Programs => v \in Programs'
      BY <2>1 DEF Programs, IInv, TypeOK
    <2>4. u \in Programs'
      BY <2>1 DEF Programs, IInv, TypeOK
    <2>5. freeFrames' = freeFrames + pages[u] - n
      BY <2>1, <2>2 DEF IInv, TypeOK
    <2> QED BY <2>1, <2>3, <2>4, <2>5, FramesMove
  <1>3. ASSUME NEW t \in Threads, NEW p, NEW where, Sleeps(t, p, where) PROVE FramesCounted'
    <2>1. UNCHANGED <<pages, freeFrames>> /\ Programs \subseteq Programs'
      BY <1>3 DEF Sleeps, SleepOn, Programs, IInv, TypeOK
    <2> QED BY <2>1, FramesUntouched
  <1>4. ASSUME NEW t \in Programs, NEW ps, Frees(t, ps) PROVE FramesCounted'
    <2>1. UNCHANGED <<pages, freeFrames>> /\ Programs \subseteq Programs'
      BY <1>4 DEF Frees, Programs, IInv, TypeOK
    <2> QED BY <2>1, FramesUntouched
  <1>5. ASSUME NEW t \in Threads, NEW list, NEW ps, Leaves(t, list, ps) PROVE FramesCounted'
    <2>1. \A v \in Threads \ {t} : v \in Programs => v \in Programs'
      BY <1>5 DEF Leaves, Reaps, Programs, IInv, TypeOK
    <2>2. CASE DeleteSpace(t)
      <3>1. pages' = [pages EXCEPT ![t] = 0] /\ freeFrames' = freeFrames + pages[t] - 0
        BY <2>2 DEF DeleteSpace, IInv, TypeOK
      <3> QED BY <2>1, <3>1, FramesMove
    <2>3. CASE pc[t] = "exit" /\ UNCHANGED <<pages, freeFrames>>
      <3>1. Programs \subseteq Programs'
        BY <2>1, <2>3 DEF Programs
      <3> QED BY <2>3, <3>1, FramesUntouched
    <2> QED BY <1>5, <2>2, <2>3 DEF Leaves
  <1>6. ASSUME NEW t \in Threads, NEW f \in Files, Opens(t, f) PROVE FramesCounted'
    <2>1. UNCHANGED <<pages, freeFrames>> /\ Programs' = Programs
      BY <1>6 DEF Opens, Open, procs, Programs
    <2> QED BY <2>1, FramesUntouched
  <1>7. ASSUME NEW t \in Threads, NEW fd \in Fds, Closes(t, fd) PROVE FramesCounted'
    <2>1. UNCHANGED <<pages, freeFrames>> /\ Programs' = Programs
      BY <1>7 DEF Closes, procs, Programs
    <2> QED BY <2>1, FramesUntouched
  <1> QED BY <1>1, <1>2, <1>3, <1>4, <1>5, <1>6, <1>7 DEF Kind

(* No frame is lost or counted twice: after every Exec, Fork and Exit, the *)
(* failed ones too, the free frames and those of the programs are all the  *)
(* frames there are.                                                       *)
THEOREM FramesAreCounted == Spec => []FramesCounted
  BY Invariant, FramesInitially, FramesInductive, PTL DEF Spec

-----------------------------------------------------------------------------
(* The sleepers of waitFor. *)

(* What it takes for p's sleepers to be woken. *)
Alive(p) == \/ \E t \in Living : pid[t] = p
            \/ PCB_list[p] # NULL /\ PCB_list[p].exitStatus = NOT_FINISHED

LEMMA SleepersInductive == IInv /\ SleepersAreWoken /\ [Next]_vars => SleepersAreWoken'
  <1> SUFFICES ASSUME IInv, SleepersAreWoken, Kind PROVE SleepersAreWoken'
    BY NextKind
  <1> USE DEF SleepersAreWoken
  <1>1. CASE UNCHANGED vars \/ \E how \in {"halted", "aborted", "crashed"} : Stop(how)
    BY <1>1 DEF Stop, vars, procs, Living
  <1>2. ASSUME NEW t \in Threads, NEW u \in Threads, NEW n, NEW o, Launches(t, u, n, o),
               NEW p \in Pids, exitSignals'[p] # {}
        PROVE  Alive(p)'
    <2> DEFINE q == First(Pids \ pids)
               e == [PCB(u, pid[t]) EXCEPT !.openFiles = o]
    <2>1. /\ PCB_list' = [PCB_list EXCEPT ![q] = e]
          /\ pid' = [pid EXCEPT ![u] = q] /\ pc' = [pc EXCEPT ![u] = "run"]
          /\ UNCHANGED exitSignals /\ pc[u] = "none"
      BY <1>2 DEF Launches, Launch
    <2> HIDE DEF q, e
    <2>2. CASE p = q
      <3>1. u \in Living' /\ pid'[u] = p
        BY <2>1, <2>2 DEF Living, IInv, TypeOK
      <3> QED BY <3>1 DEF Alive
    <2>3. CASE p # q
      <3>1. \A v \in Living : v \in Living' /\ pid'[v] = pid[v]
        BY <2>1 DEF Living, IInv, TypeOK
      <3>2. PCB_list'[p] = PCB_list[p]
        BY <2>1, <2>3 DEF IInv, TypeOK
      <3> QED BY <1>2, <2>1, <3>1, <3>2 DEF Alive
    <2> QED BY <2>2, <2>3
  <1>3. ASSUME NEW t \in Threads, NEW q, NEW where, Sleeps(t, q, where),
               NEW p \in Pids, exitSignals'[p] # {}
        PROVE  Alive(p)'
    <2>1. /\ exitSignals' = [exitSignals EXCEPT ![q] = @ \cup {t}]
          /\ UNCHANGED <<pid, PCB_list>> /\ Living \subseteq Living'
      BY <1>3 DEF Sleeps, SleepOn, Living, Programs, IInv, TypeOK
    <2>2. CASE p = q
      BY <1>3, <2>1, <2>2 DEF Sleeps, Finished, Alive
    <2>3. CASE p # q
      BY <1>3, <2>1, <2>3 DEF Alive, IInv, TypeOK
    <2> QED BY <2>2, <2>3
  <1>4. ASSUME NEW t \in Programs, NEW ps, Frees(t, ps), NEW p \in Pids, exitSignals'[p] # {}
        PROVE  Alive(p)'
    <2>1. UNCHANGED <<pid, exitSignals>> /\ Living \subseteq Living'
      BY <1>4 DEF Frees, Living, Programs, IInv, TypeOK
    <2>2. CASE \E v \in Living : pid[v] = p
      BY <2>1, <2>2 DEF Alive
    <2>3. CASE PCB_list[p] # NULL /\ PCB_list[p].exitStatus = NOT_FINISHED
      <3>1. PCB_list'[p] = PCB_list[p]
        BY <1>4, <2>3 DEF Frees, FreePids, Finished
      <3> QED BY <2>3, <3>1 DEF Alive
    <2> QED BY <1>4, <2>1, <2>2, <2>3
  <1>5. ASSUME NEW t \in Threads, NEW list, NEW ps, Leaves(t, list, ps), NEW p \in Pids, exitSignals'[p] # {}
        PROVE  Alive(p)'
    <2>1. /\ \A q \in ps : list[q].exitStatus # NOT_FINISHED
          /\ PCB_list' = [q \in Pids |-> IF q \in ps THEN NULL ELSE list[q]]
          /\ \A q \in Pids : q # pid[t] => list[q] = PCB_list[q]
      BY <1>5 DEF Leaves, Reaps, Given
    <2>2. \A q \in Pids : q # pid[t] /\ PCB_list[q] # NULL /\ PCB_list[q].exitStatus = NOT_FINISHED
                            => PCB_list'[q] = PCB_list[q]
      BY <2>1
    <2>3. t \in Living
      BY <1>5 DEF Leaves, Programs, Living
    <2>4. ASSUME NEW q \in Pids, q \notin ps, list[q] # NULL, list[q].exitStatus = NOT_FINISHED,
                 exitSignals' = [exitSignals EXCEPT ![q] = @ \cup {t}],
                 pc' = [pc EXCEPT ![t] = "exit"], UNCHANGED pid
          PROVE  Alive(p)'
      <3>1. Living \subseteq Living'
        BY <2>4 DEF Living, IInv, TypeOK
      <3>2. CASE p = q
        BY <2>1, <2>4, <3>2 DEF Alive
      <3>3. CASE p # q
        <4>1. exitSignals[p] # {}
          BY <1>5, <2>4, <3>3 DEF IInv, TypeOK
        <4>2. CASE p = pid[t]
          BY <2>3, <2>4, <3>1, <4>2 DEF Alive
        <4>3. CASE p # pid[t]
          BY <2>2, <2>4, <3>1, <4>1, <4>3 DEF Alive
        <4> QED BY <4>2, <4>3
      <3> QED BY <3>2, <3>3
    <2>5. ASSUME exitSignals' = [exitSignals EXCEPT ![pid[t]] = {}],
                 pc' = [pc EXCEPT ![t] = "none"], pid' = [pid EXCEPT ![t] = -1]
          PROVE  Alive(p)'
      <3>1. p # pid[t] /\ exitSignals[p] # {}
        BY <1>5, <2>5 DEF IInv, TypeOK
      <3>2. \A v \in Living \ {t} : v \in Living' /\ pid'[v] = pid[v]
        BY <2>5 DEF Living, IInv, TypeOK
      <3> QED BY <2>2, <3>1, <3>2 DEF Alive
    <2> QED BY <1>5, <2>4, <2>5 DEF Leaves, Reaps
  <1>6. ASSUME NEW t \in Programs, NEW fd \in Fds, NEW entry \in UserOpenFile \cup {NULL},
               SetOpenFile(t, fd, entry), UNCHANGED procs
        PROVE  SleepersAreWoken'
    <2>1. \A p \in Pids : /\ PCB_list'[p] = NULL <=> PCB_list[p] = NULL
                          /\ PCB_list[p] # NULL => PCB_list'[p].exitStatus = PCB_list[p].exitStatus
      BY <1>6, DescriptorSet
    <2> QED BY <1>6, <2>1 DEF procs, Living
  <1>7. ASSUME NEW t \in Threads, NEW f \in Files, Opens(t, f) PROVE SleepersAreWoken'
    <2>1. UNCHANGED procs /\ t \in Programs
      BY <1>7 DEF Opens, Open
    <2>2. CASE UNCHANGED PCB_list
      BY <2>1, <2>2 DEF procs, Living
    <2>3. CASE \E fd \in Fds, entry \in UserOpenFile : SetOpenFile(t, fd, entry)
      BY <1>6, <2>1, <2>3
    <2>4. UNCHANGED PCB_list \/ \E fd \in Fds, entry \in UserOpenFile : SetOpenFile(t, fd, entry)
      BY <1>7, OpensSets
    <2> QED BY <2>2, <2>3, <2>4
  <1>8. ASSUME NEW t \in Threads, NEW fd \in Fds, Closes(t, fd) PROVE SleepersAreWoken'
    BY <1>6, <1>8 DEF Closes
  <1> QED BY <1>1, <1>2, <1>3, <1>4, <1>5, <1>7, <1>8 DEF Kind, Alive

(* Nobody sleeps in waitFor on an id that no process will ever broadcast   *)
(* on, however exits, joins and the freeing of ids interleave.             *)
THEOREM SleepersStayWakeable == Spec => []SleepersAreWoken
  <1>1. Init => SleepersAreWoken
    BY DEF Init, SleepersAreWoken
  <1> QED BY <1>1, Invariant, SleepersInductive, PTL DEF Spec

-----------------------------------------------------------------------------
(* The files. *)

(* The entry of a descriptor whose file no Fork has copied is its own. *)
Owns(t, fd) ==
  LET file == OpenFiles(t)[fd]
  IN  file # NULL /\ file.index \notin inherited =>
        /\ openFileTable[file.index] # NULL
        /\ openFileTable[file.index].filename = file.filename
        /\ \A u \in Programs, d \in Fds :
             OpenFiles(u)[d] # NULL /\ OpenFiles(u)[d].index = file.index => u = t /\ d = fd

LEMMA IntactIsOwned ==
  FilesIntact <=> used = Cardinality(Entries) /\ \A t \in Programs, fd \in Fds : Owns(t, fd)
  BY DEF FilesIntact, Owns, Entries

LEMMA OwnsUntouched ==
  ASSUME \A t \in Programs, fd \in Fds : Owns(t, fd), UNCHANGED files, Programs' \subseteq Programs,
         \A v \in Programs' : OpenFiles(v)' = OpenFiles(v)
  PROVE  \A t \in Programs', fd \in Fds : Owns(t, fd)'
  BY DEF Owns, files

LEMMA OwnsInductive ==
  ASSUME IInv, \A t \in Programs, fd \in Fds : Owns(t, fd), Kind
  PROVE  \A t \in Programs', fd \in Fds : Owns(t, fd)'
  <1>1. CASE UNCHANGED vars \/ \E how \in {"halted", "aborted", "crashed"} : Stop(how)
    <2>1. UNCHANGED files /\ Programs' = Programs /\ \A v \in Programs' : OpenFiles(v)' = OpenFiles(v)
      BY <1>1 DEF Stop, vars, procs, Programs, OpenFiles
    <2> QED BY <2>1, OwnsUntouched
  <1>2. ASSUME NEW t \in Threads, NEW u \in Threads, NEW n, NEW o, Launches(t, u, n, o)
        PROVE  \A v \in Programs', fd \in Fds : Owns(v, fd)'
    <2> DEFINE q == First(Pids \ pids)
               e == [PCB(u, pid[t]) EXCEPT !.openFiles = o]
    <2>1. /\ PCB_list' = [PCB_list EXCEPT ![q] = e] /\ pid' = [pid EXCEPT ![u] = q]
          /\ pc' = [pc EXCEPT ![u] = "run"] /\ pc[u] = "none"
          /\ UNCHANGED openFileTable /\ inherited \subseteq inherited'
          /\ \A fd \in Fds : o[fd] # NULL => o[fd].index \in inherited'
      BY <1>2 DEF Launches, Launch
    <2>2. q \in Pids /\ q \notin pids
      <3>1. Pids \ pids # {} /\ Pids \ pids \in SUBSET Nat
        BY <1>2, PidsAreNats DEF Launches, IInv, TypeOK
      <3> QED BY <3>1, FirstIn
    <2>3. e.openFiles = o
      BY DEF PCB
    <2> HIDE DEF q, e
    <2>4. OpenFiles(u)' = o
      BY <2>1, <2>2, <2>3 DEF OpenFiles, IInv, TypeOK
    <2>5. \A v \in Programs' : v # u => v \in Programs /\ OpenFiles(v)' = OpenFiles(v)
      <3> SUFFICES ASSUME NEW v \in Programs', v # u PROVE v \in Programs /\ OpenFiles(v)' = OpenFiles(v)
        OBVIOUS
      <3>1. v \in Programs /\ pid'[v] = pid[v]
        BY <2>1 DEF Programs, IInv, TypeOK
      <3>2. PCB_list'[pid[v]] = PCB_list[pid[v]]
        BY <2>1, <2>2, <3>1, RunsHasPCB DEF IInv, TypeOK
      <3> QED BY <3>1, <3>2 DEF OpenFiles
    <2> QED BY <2>1, <2>4, <2>5 DEF Owns
  <1>3. ASSUME NEW t \in Threads, NEW p, NEW where, Sleeps(t, p, where)
        PROVE  \A v \in Programs', fd \in Fds : Owns(v, fd)'
    <2>1. UNCHANGED files /\ Programs' \subseteq Programs /\ \A v \in Programs' : OpenFiles(v)' = OpenFiles(v)
      BY <1>3 DEF Sleeps, SleepOn, Programs, OpenFiles, IInv, TypeOK
    <2> QED BY <2>1, OwnsUntouched
  <1>4. ASSUME NEW t \in Programs, NEW ps, Frees(t, ps)
        PROVE  \A v \in Programs', fd \in Fds : Owns(v, fd)'
    <2>1. UNCHANGED <<files, pid>> /\ Programs' = Programs
      BY <1>4 DEF Frees, Programs, IInv, TypeOK
    <2>2. \A v \in Programs : PCB_list'[pid[v]] = PCB_list[pid[v]]
      BY <1>4, RunsHasPCB DEF Frees, FreePids, Finished, IInv, ProgramsTracked
    <2> QED BY <2>1, <2>2, OwnsUntouched DEF OpenFiles
  <1>5. ASSUME NEW t \in Threads, NEW list, NEW ps, Leaves(t, list, ps)
        PROVE  \A v \in Programs', fd \in Fds : Owns(v, fd)'
    <2>1. Programs' \subseteq Programs \ {t} /\ UNCHANGED files /\ \A v \in Programs' : pid'[v] = pid[v]
      BY <1>5 DEF Leaves, Reaps, Programs, IInv, TypeOK
    <2>2. \A v \in Programs' : list[pid[v]] = PCB_list[pid[v]] /\ pid[v] \notin ps
      BY <1>5, <2>1 DEF Leaves, Reaps, Given, IInv, ProgramsTracked
    <2>3. \A v \in Programs' : PCB_list'[pid[v]] = PCB_list[pid[v]]
      BY <1>5, <2>1, <2>2, RunsHasPCB DEF Leaves, Reaps
    <2> QED BY <2>1, <2>3, OwnsUntouched DEF OpenFiles
  <1>6. ASSUME NEW t \in Threads, NEW f \in Files, Opens(t, f)
        PROVE  \A v \in Programs', fd \in Fds : Owns(v, fd)'
    <2> DEFINE new == [filename |-> f, numProcOpen |-> 1]
    <2>1. PICK i \in Indices :
            /\ openFileTable[i] = NULL
            /\ openFileTable' = [openFileTable EXCEPT ![i] = new]
            /\ \/ UNCHANGED PCB_list
               \/ \E fd \in Fds : SetOpenFile(t, fd, [filename |-> f, index |-> i])
            /\ [filename |-> f, index |-> i] \in UserOpenFile
      BY <1>6, OpensSets
    <2>2. UNCHANGED <<procs, inherited>> /\ t \in Programs /\ Programs' = Programs
      BY <1>6 DEF Opens, Open, procs, Programs
    <2>3. new \in SysOpenFile /\ new # NULL /\ new.filename = f
      BY <1>6, NullIsNone DEF SysOpenFile
    <2> HIDE DEF new
    <2>4. \A v \in Programs, d \in Fds :
            OpenFiles(v)[d] # NULL /\ OpenFiles(v)[d].index \notin inherited => OpenFiles(v)[d].index # i
      BY <2>1 DEF Owns
    <2>5. \A j \in Indices : openFileTable'[j] = IF j = i THEN new ELSE openFileTable[j]
      BY <2>1 DEF IInv, TypeOK
    <2>6. CASE UNCHANGED PCB_list
      <3>1. \A v \in Programs : OpenFiles(v)' = OpenFiles(v)
        BY <2>2, <2>6 DEF OpenFiles, procs
      <3> QED BY <2>2, <2>4, <2>5, <3>1, DescriptorIndex DEF Owns
    <2>7. ASSUME NEW fd \in Fds, SetOpenFile(t, fd, [filename |-> f, index |-> i])
          PROVE  \A v \in Programs', d \in Fds : Owns(v, d)'
      <3> DEFINE entry == [filename |-> f, index |-> i]
      <3>1. \A v \in Programs, d \in Fds :
              OpenFiles(v)'[d] = IF v = t /\ d = fd THEN entry ELSE OpenFiles(v)[d]
        BY <2>1, <2>2, <2>7, DescriptorSet
      <3>2. entry.index = i /\ entry.filename = f
        OBVIOUS
      <3> HIDE DEF entry
      <3> SUFFICES ASSUME NEW v \in Programs, NEW d \in Fds PROVE Owns(v, d)'
        BY <2>2
      <3>3. CASE v = t /\ d = fd
        <4>1. OpenFiles(v)'[d] = entry
          BY <3>1, <3>3
        <4>2. \A w \in Programs, c \in Fds :
                i \notin inherited /\ OpenFiles(w)'[c] # NULL /\ OpenFiles(w)'[c].index = i => w = v /\ c = d
          BY <2>4, <3>1, <3>3
        <4> QED BY <2>2, <2>3, <2>5, <3>2, <4>1, <4>2 DEF Owns
      <3>4. CASE ~(v = t /\ d = fd)
        <4>1. OpenFiles(v)'[d] = OpenFiles(v)[d]
          BY <3>1, <3>4
        <4> QED BY <2>2, <2>4, <2>5, <3>1, <3>2, <4>1, DescriptorIndex DEF Owns
      <3> QED BY <3>3, <3>4
    <2> QED BY <2>1, <2>6, <2>7
  <1>7. ASSUME NEW t \in Threads, NEW fd \in Fds, Closes(t, fd)
        PROVE  \A v \in Programs', d \in Fds : Owns(v, d)'
    <2> DEFINE i == OpenFiles(t)[fd].index
    <2>1. /\ t \in Programs /\ OpenFiles(t)[fd] # NULL /\ openFileTable[i] # NULL
          /\ Reduce(i) /\ SetOpenFile(t, fd, NULL) /\ UNCHANGED <<procs, inherited>>
      BY <1>7 DEF Closes
    <2>2. i \in Indices
      BY <2>1, DescriptorIndex
    <2>3. \A j \in Indices \ {i} : openFileTable'[j] = openFileTable[j]
      BY <2>1, <2>2, ReduceKeeps
    <2>4. /\ \A v \in Programs, d \in Fds :
               OpenFiles(v)'[d] = IF v = t /\ d = fd THEN NULL ELSE OpenFiles(v)[d]
          /\ Programs' = Programs
      BY <2>1, DescriptorSet
    <2> SUFFICES ASSUME NEW v \in Programs, NEW d \in Fds, ~(v = t /\ d = fd) PROVE Owns(v, d)'
      BY <2>4 DEF Owns
    <2>5. OpenFiles(v)'[d] = OpenFiles(v)[d]
      BY <2>4
    <2>6. OpenFiles(v)[d] # NULL /\ OpenFiles(v)[d].index \notin inherited
            => OpenFiles(v)[d].index \in Indices \ {i}
      BY <2>1, DescriptorIndex DEF Owns
    <2> QED BY <2>1, <2>3, <2>4, <2>5, <2>6 DEF Owns
  <1> QED BY <1>1, <1>2, <1>3, <1>4, <1>5, <1>6, <1>7 DEF Kind

LEMMA FilesInductive == IInv /\ FilesIntact /\ [Next]_vars => FilesIntact'
  <1> SUFFICES ASSUME IInv, FilesIntact, [Next]_vars PROVE FilesIntact'
    OBVIOUS
  <1>1. Kind /\ IInv'
    BY NextKind, Inductive
  <1>2. \A t \in Programs', fd \in Fds : Owns(t, fd)'
    BY <1>1, OwnsInductive, IntactIsOwned
  <1> QED BY <1>1, <1>2 DEF FilesIntact, IInv, Entries, Owns

(* The file a descriptor refers to is there, is the one that was opened    *)
(* and belongs to no other descriptor, unless a Fork has copied it; and    *)
(* the count of open files is the number of entries.                       *)
THEOREM FilesStayIntact == Spec => []FilesIntact
  <1>1. Init => FilesIntact
    <2> SUFFICES ASSUME Init PROVE FilesIntact
      OBVIOUS
    <2>1. IInv
      BY Initially
    <2>2. Programs = {Main} /\ pid[Main] = 0 /\ PCB_list[0] = PCB(Main, NO_PARENT_PID)
      BY SizeAssumption, ThreadAssumption DEF Init, Programs, Pids
    <2>3. \A fd \in Fds : OpenFiles(Main)[fd] = NULL
      BY <2>2 DEF OpenFiles, PCB, NoFiles
    <2> QED BY <2>1, <2>2, <2>3, IntactIsOwned DEF IInv, Owns
  <1> QED BY <1>1, Invariant, FilesInductive, PTL DEF Spec
=============================================================================
