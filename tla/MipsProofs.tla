----------------------------- MODULE MipsProofs -----------------------------
(***************************************************************************)
(* Proofs about MipsMachine for every width of a word that is a multiple   *)
(* of four bits, any number of registers, any sizes of code, memory and    *)
(* pages, and any set of programs that respect the delay slots.            *)
(***************************************************************************)
EXTENDS MipsMachine, FiniteSetTheorems, WellFoundedInduction, TLAPS

-----------------------------------------------------------------------------
(* Powers of two.  The provers know nothing of 2^n but its type; what is   *)
(* needed comes from counting the subsets of 1..n.                         *)

LEMMA Subsets ==
  ASSUME NEW n \in Nat
  PROVE  IsFiniteSet(SUBSET (1..n)) /\ Cardinality(SUBSET (1..n)) = 2^n
  <1>1. IsFiniteSet(1..n) /\ Cardinality(1..n) = n
    BY FS_Interval
  <1> QED BY <1>1, FS_SUBSET

LEMMA PowerNext ==
  ASSUME NEW n \in Nat
  PROVE  2^n \in Nat /\ 2^n > 0 /\ 2^(n + 1) = 2 * 2^n
  <1> DEFINE T == SUBSET (1..n)
             x == n + 1
             U == {A \cup {x} : A \in T}
             f == [A \in T |-> A \cup {x}]
  <1>1. IsFiniteSet(T) /\ Cardinality(T) = 2^n
    BY Subsets
  <1>2. 2^n \in Nat /\ 2^n > 0
    <2>1. T # {}
      OBVIOUS
    <2> HIDE DEF T
    <2>2. Cardinality(T) \in Nat /\ Cardinality(T) # 0
      BY <1>1, <2>1, FS_CardinalityType, FS_EmptySet
    <2> QED BY <1>1, <2>2
  <1>3. SUBSET (1..x) = T \cup U
    <2>1. 1..x = (1..n) \cup {x}
      OBVIOUS
    <2>2. ASSUME NEW A \in SUBSET (1..x) PROVE A \in T \cup U
      <3>1. CASE x \in A
        <4>1. A \ {x} \in T /\ A = (A \ {x}) \cup {x}
          BY <2>1, <3>1
        <4> QED BY <4>1
      <3>2. CASE x \notin A
        BY <2>1, <3>2
      <3> QED BY <3>1, <3>2
    <2>3. ASSUME NEW A \in T PROVE A \in SUBSET (1..x) /\ A \cup {x} \in SUBSET (1..x)
      BY <2>1
    <2>4. T \cup U \subseteq SUBSET (1..x)
      <3>1. T \subseteq SUBSET (1..x)
        BY <2>3
      <3>2. ASSUME NEW C \in U PROVE C \in SUBSET (1..x)
        <4>1. PICK A \in T : C = A \cup {x}
          OBVIOUS
        <4> QED BY <2>3, <4>1
      <3> QED BY <3>1, <3>2
    <2>5. SUBSET (1..x) \subseteq T \cup U
      BY <2>2
    <2> QED BY <2>4, <2>5
  <1>4. x \notin 1..n
    OBVIOUS
  <1>5. T \cap U = {}
    BY <1>4
  <1>6. f \in Bijection(T, U)
    <2>1. f \in [T -> U]
      OBVIOUS
    <2>2. \A A, C \in T : f[A] = f[C] => A = C
      BY <1>4
    <2>3. \A C \in U : \E A \in T : f[A] = C
      OBVIOUS
    <2> QED BY <2>1, <2>2, <2>3 DEF Bijection, Injection, Surjection, IsInjective
  <1>7. IsFiniteSet(U) /\ Cardinality(U) = 2^n
    <2> HIDE DEF T, U, f
    <2> QED BY <1>1, <1>6, FS_Bijection DEF ExistsBijection
  <1>8. Cardinality(T \cup U) = 2^n + 2^n
    <2> HIDE DEF T, U
    <2> QED BY <1>1, <1>2, <1>5, <1>7, FS_Union, FS_EmptySet
  <1>9. Cardinality(SUBSET (1..x)) = 2^x
    BY Subsets
  <1>10. 2^x = 2^n + 2^n
    <2> HIDE DEF T, U
    <2> QED BY <1>3, <1>8, <1>9
  <1>11. PICK p \in Nat : p = 2^n
    BY <1>2
  <1> QED BY <1>2, <1>10, <1>11

LEMMA PowerSum ==
  ASSUME NEW a \in Nat
  PROVE  \A b \in Nat : 2^(a + b) = 2^a * 2^b
  <1> DEFINE Bad == {b \in Nat : 2^(a + b) # 2^a * 2^b}
  <1> SUFFICES ASSUME Bad # {} PROVE FALSE
    OBVIOUS
  <1>1. PICK m \in Bad : \A y \in Bad : ~(<<y, m>> \in OpToRel(<, Nat))
    <2> HIDE DEF Bad
    <2>1. Bad \subseteq Nat
      BY DEF Bad
    <2> QED BY <2>1, NatLessThanWellFounded, WFMin
  <1>2. m # 0
    <2>1. 2^0 = 1 /\ 2^a \in Nat
      BY PowerNext
    <2>2. 2^(a + 0) = 2^a * 2^0
      BY <2>1
    <2> QED BY <2>2
  <1>3. PICK k \in Nat : m = k + 1 /\ k < m
    <2>1. m - 1 \in Nat /\ m = (m - 1) + 1 /\ m - 1 < m
      BY <1>2
    <2> QED BY <2>1
  <1>4. 2^(a + k) = 2^a * 2^k
    BY <1>1, <1>3 DEF OpToRel
  <1>5. 2^((a + k) + 1) = 2 * 2^(a + k) /\ 2^(k + 1) = 2 * 2^k /\ 2^a \in Nat /\ 2^k \in Nat
    BY PowerNext
  <1>6. 2^(a + m) = 2 * (2^a * 2^k) /\ 2^m = 2 * 2^k
    <2>1. a + m = (a + k) + 1
      BY <1>3
    <2> QED BY <1>3, <1>4, <1>5, <2>1
  <1>7. \A p, q \in Nat : 2 * (p * q) = p * (2 * q)
    OBVIOUS
  <1>8. 2^(a + m) = 2^a * 2^m
    BY <1>5, <1>6, <1>7
  <1> QED BY <1>8

-----------------------------------------------------------------------------
(* Quotient and remainder. *)

LEMMA DivMod ==
  ASSUME NEW m \in Nat, m > 0, NEW i \in Int
  PROVE  /\ i \div m \in Int /\ i % m \in Nat /\ i % m < m
         /\ i = m * (i \div m) + (i % m)
  <1>1. i \div m \in Int /\ i % m \in Int
    OBVIOUS
  <1>2. 0 <= i % m /\ i % m < m
    OBVIOUS
  <1>3. i = m * (i \div m) + (i % m)
    OBVIOUS
  <1> QED BY <1>1, <1>2, <1>3

LEMMA Multiple ==
  ASSUME NEW m \in Nat, m > 0, NEW a \in Int, NEW b \in Int, m * a < m * b + m
  PROVE  a <= b
  <1> SUFFICES ASSUME a >= b + 1 PROVE FALSE
    OBVIOUS
  <1>1. PICK d \in Nat : a = b + 1 + d
    <2>1. a - b - 1 \in Nat /\ a = b + 1 + (a - b - 1)
      OBVIOUS
    <2> QED BY <2>1
  <1>2. m * a = m * b + m + m * d /\ m * d >= 0
    BY <1>1
  <1>3. m * a \in Int /\ m * b \in Int
    OBVIOUS
  <1> QED BY <1>2, <1>3

LEMMA DivModIs ==
  ASSUME NEW m \in Nat, m > 0, NEW k \in Int, NEW r \in Nat, r < m
  PROVE  (m * k + r) % m = r /\ (m * k + r) \div m = k
  <1>1. PICK i \in Int : i = m * k + r
    OBVIOUS
  <1>2. PICK d \in Int, e \in Nat : d = i \div m /\ e = i % m /\ e < m /\ i = m * d + e
    BY DivMod
  <1>3. m * d \in Int /\ m * k \in Int
    OBVIOUS
  <1>4. m * k < m * d + m /\ m * d < m * k + m
    BY <1>1, <1>2, <1>3
  <1>5. k <= d /\ d <= k
    BY <1>4, Multiple
  <1>6. k = d
    BY <1>5
  <1>7. e = r
    BY <1>1, <1>2, <1>3, <1>6
  <1> QED BY <1>1, <1>2, <1>6, <1>7

-----------------------------------------------------------------------------
(* Words and bytes. *)

M == 2^Width
H == 2^(Width - 1)

LEMMA Sizes ==
  /\ M \in Nat /\ M > 0 /\ H \in Nat /\ H > 0 /\ M = 2 * H /\ M >= 16
  /\ \E q \in Nat : M = 4 * q
  /\ ByteSize \in Nat /\ ByteSize >= 2
  /\ \A n \in Nat : Bytes(n) \in Nat /\ Bytes(n) > 0
  /\ Bytes(1) = ByteSize /\ Bytes(2) = ByteSize * ByteSize
  /\ Bytes(3) = ByteSize * Bytes(2) /\ M = ByteSize * Bytes(3)
  <1>1. PICK q \in Nat : q = Width \div 4 /\ q >= 1 /\ Width = 4 * q
    <2>1. Width \div 4 \in Nat /\ Width \div 4 >= 1 /\ Width = 4 * (Width \div 4)
      BY SizeAssumption
    <2> QED BY <2>1
  <1>2. \A n \in Nat : 2^n \in Nat /\ 2^n > 0
    BY PowerNext
  <1>3. M \in Nat /\ M > 0 /\ H \in Nat /\ H > 0 /\ M = 2 * H
    <2>1. Width - 1 \in Nat /\ Width = (Width - 1) + 1
      BY <1>1
    <2>2. 2^((Width - 1) + 1) = 2 * 2^(Width - 1)
      BY <2>1, PowerNext
    <2> QED BY <1>1, <1>2, <2>1, <2>2 DEF M, H
  <1>4. \A n \in Nat : Bytes(n) = 2^(n * q) /\ n * q \in Nat
    BY <1>1 DEF Bytes
  <1>5. \A n \in Nat : Bytes(n) \in Nat /\ Bytes(n) > 0
    BY <1>2, <1>4
  <1>6. ByteSize = 2^q
    BY <1>1 DEF ByteSize
  <1>7. \A n \in Nat : Bytes(n + 1) = ByteSize * Bytes(n)
    <2> SUFFICES ASSUME NEW n \in Nat PROVE Bytes(n + 1) = ByteSize * Bytes(n)
      OBVIOUS
    <2>1. n * q \in Nat /\ (n + 1) * q = q + n * q
      BY <1>1
    <2>2. 2^(q + n * q) = 2^q * 2^(n * q)
      BY <1>1, <2>1, PowerSum
    <2>3. Bytes(n + 1) = 2^((n + 1) * q)
      BY <1>4
    <2> QED BY <1>4, <1>6, <2>1, <2>2, <2>3
  <1>8. Bytes(1) = ByteSize
    <2>1. 1 * q = q
      OBVIOUS
    <2> QED BY <1>4, <1>6, <2>1
  <1>9. Bytes(2) = ByteSize * Bytes(1) /\ Bytes(3) = ByteSize * Bytes(2) /\ Bytes(4) = ByteSize * Bytes(3)
    BY <1>7
  <1>10. Bytes(4) = M
    BY <1>1, <1>4 DEF M
  <1>11. ByteSize \in Nat /\ ByteSize >= 2
    <2>1. q - 1 \in Nat /\ q = (q - 1) + 1
      BY <1>1
    <2>2. 2^((q - 1) + 1) = 2 * 2^(q - 1) /\ 2^(q - 1) \in Nat /\ 2^(q - 1) > 0
      BY <2>1, PowerNext
    <2> QED BY <1>6, <2>1, <2>2
  <1>12. \A a, b \in Nat : a >= 2 /\ b > 0 => a * b >= 2 * b
    <2> SUFFICES ASSUME NEW a \in Nat, NEW b \in Nat, a >= 2, b > 0 PROVE a * b >= 2 * b
      OBVIOUS
    <2>1. PICK c \in Nat : a = 2 + c
      <3>1. a - 2 \in Nat /\ a = 2 + (a - 2)
        OBVIOUS
      <3> QED BY <3>1
    <2>2. a * b = 2 * b + c * b /\ c * b >= 0
      BY <2>1
    <2> QED BY <2>2
  <1>13. M >= 16 /\ \E k \in Nat : M = 4 * k
    <2>1. PICK b1, b2, b3, b4 \in Nat : b1 = Bytes(1) /\ b2 = Bytes(2) /\ b3 = Bytes(3) /\ b4 = Bytes(4)
      BY <1>5
    <2>2. b1 >= 2 /\ b2 >= 2 * b1 /\ b3 >= 2 * b2 /\ b4 >= 2 * b3
      BY <1>5, <1>8, <1>9, <1>11, <1>12, <2>1
    <2>3. Width - 2 \in Nat /\ Width = ((Width - 2) + 1) + 1
      BY <1>1
    <2>4. 2^((Width - 2) + 1) = 2 * 2^(Width - 2) /\ 2^(Width - 2) \in Nat
      BY <2>3, PowerNext
    <2>5. 2^(((Width - 2) + 1) + 1) = 2 * 2^((Width - 2) + 1)
      BY <2>3, PowerNext
    <2>6. M = 4 * 2^(Width - 2)
      BY <2>3, <2>4, <2>5 DEF M
    <2> QED BY <1>10, <2>1, <2>2, <2>4, <2>6
  <1> QED BY <1>3, <1>5, <1>8, <1>9, <1>10, <1>11, <1>13

LEMMA WordSize == M \in Nat /\ M > 0 /\ H \in Nat /\ H > 0 /\ M = 2 * H /\ M >= 16
  BY Sizes

LEMMA WordsAre ==
  /\ Words = 0..(M - 1)
  /\ \A i \in Int : Word(i) = i % M
  /\ \A w \in Int : Negative(w) <=> w >= H
  /\ \A w \in Int : Signed(w) = IF w >= H THEN w - M ELSE w
  BY DEF Words, Word, Negative, Signed, M, H

LEMMA WordTyped ==
  ASSUME NEW i \in Int
  PROVE  Word(i) \in Words /\ Word(i) \in 0..(M - 1)
  <1>1. Word(i) = i % M /\ Words = 0..(M - 1)
    BY WordsAre
  <1>2. M \in Nat /\ M > 0
    BY WordSize
  <1>3. i % M \in Nat /\ i % M < M
    BY <1>2, DivMod
  <1> QED BY <1>1, <1>2, <1>3

LEMMA WordOf ==
  ASSUME NEW k \in Int, NEW r \in Words
  PROVE  Word(M * k + r) = r
  <1>1. M \in Nat /\ M > 0 /\ Words = 0..(M - 1)
    BY WordSize, WordsAre
  <1>2. r \in Nat /\ r < M
    BY <1>1
  <1>3. M * k + r \in Int
    BY <1>1, <1>2
  <1>4. Word(M * k + r) = (M * k + r) % M
    BY <1>3, WordsAre
  <1> QED BY <1>1, <1>2, <1>4, DivModIs

LEMMA SignedTyped ==
  ASSUME NEW w \in Words
  PROVE  /\ w \in Nat /\ w < M /\ Signed(w) \in Int /\ Signed(w) >= -H /\ Signed(w) < H
         /\ Signed(w) = (IF w >= H THEN w - M ELSE w) /\ (Negative(w) <=> w >= H)
         /\ w # 0 => Signed(w) # 0
  <1>1. M \in Nat /\ H \in Nat /\ H > 0 /\ M = 2 * H /\ Words = 0..(M - 1)
    BY WordSize, WordsAre
  <1>2. w \in Nat /\ w < M
    BY <1>1
  <1>3. Signed(w) = (IF w >= H THEN w - M ELSE w) /\ (Negative(w) <=> w >= H)
    BY <1>2, WordsAre
  <1> QED BY <1>1, <1>2, <1>3

LEMMA SmallWords == 0 \in Words /\ 1 \in Words /\ 4 \in Words
  <1>1. M \in Nat /\ M >= 16
    BY WordSize
  <1>2. Words = 0..(M - 1)
    BY WordsAre
  <1>3. 0 \in 0..(M - 1)
    BY <1>1
  <1> QED BY <1>1, <1>2

-----------------------------------------------------------------------------
(* The loop of Mult.  Rounds is a recursion; that there is a function that *)
(* obeys it is shown by the least length for which there were none.        *)

FirstRound(x, y) == [a |-> x, bHi |-> 0, bLo |-> y, hi |-> 0, lo |-> 0]
RoundsUpTo(n, f, x, y) == f = [k \in 0..n |-> IF k = 0 THEN FirstRound(x, y) ELSE Round(f[k - 1])]

LEMMA RoundsExist ==
  ASSUME NEW x, NEW y
  PROVE  \A n \in Nat : \E f : RoundsUpTo(n, f, x, y)
  <1> DEFINE Bad == {n \in Nat : ~ \E f : RoundsUpTo(n, f, x, y)}
  <1> SUFFICES ASSUME Bad # {} PROVE FALSE
    OBVIOUS
  <1>1. PICK m \in Bad : \A k \in Bad : ~(<<k, m>> \in OpToRel(<, Nat))
    <2> HIDE DEF Bad
    <2>1. Bad \subseteq Nat
      BY DEF Bad
    <2> QED BY <2>1, NatLessThanWellFounded, WFMin
  <1>2. m \in Nat
    OBVIOUS
  <1>3. m # 0
    <2>1. RoundsUpTo(0, [i \in 0..0 |-> FirstRound(x, y)], x, y)
      BY DEF RoundsUpTo
    <2> QED BY <2>1
  <1>4. m - 1 \in Nat /\ m - 1 < m
    BY <1>2, <1>3
  <1>5. PICK f : RoundsUpTo(m - 1, f, x, y)
    BY <1>1, <1>4 DEF OpToRel
  <1> DEFINE g == [i \in 0..m |-> IF i = m THEN Round(f[m - 1]) ELSE f[i]]
  <1>6. \A j \in 0..(m - 1) : f[j] = IF j = 0 THEN FirstRound(x, y) ELSE Round(f[j - 1])
    BY <1>5 DEF RoundsUpTo
  <1>7. \A i \in 0..m : g[i] = IF i = 0 THEN FirstRound(x, y) ELSE Round(g[i - 1])
    <2> SUFFICES ASSUME NEW i \in 0..m PROVE g[i] = IF i = 0 THEN FirstRound(x, y) ELSE Round(g[i - 1])
      OBVIOUS
    <2>1. CASE i = m
      BY <1>2, <1>3, <2>1
    <2>2. CASE i # m
      <3>1. i \in 0..(m - 1) /\ g[i] = f[i]
        BY <1>2, <2>2
      <3>2. CASE i = 0
        BY <1>6, <3>1, <3>2
      <3>3. CASE i # 0
        <4>1. i - 1 \in 0..m /\ i - 1 # m
          BY <1>2, <3>3
        <4>2. g[i - 1] = f[i - 1]
          BY <4>1
        <4> QED BY <1>6, <3>1, <3>3, <4>2
      <3> QED BY <3>2, <3>3
    <2> QED BY <2>1, <2>2
  <1>8. RoundsUpTo(m, g, x, y)
    BY <1>7 DEF RoundsUpTo
  <1> QED BY <1>8

LEMMA RoundsAre ==
  ASSUME NEW x, NEW y
  PROVE  /\ Rounds(x, y)[0] = FirstRound(x, y)
         /\ \A k \in 1..Width : Rounds(x, y)[k] = Round(Rounds(x, y)[k - 1])
  <1>1. RoundsUpTo(Width, Rounds(x, y), x, y)
    <2>1. \E f : RoundsUpTo(Width, f, x, y)
      BY RoundsExist, SizeAssumption
    <2> QED BY <2>1 DEF RoundsUpTo, Rounds, FirstRound
  <1>2. \A k \in 0..Width : Rounds(x, y)[k] = IF k = 0 THEN FirstRound(x, y) ELSE Round(Rounds(x, y)[k - 1])
    <2>1. PICK f : f = Rounds(x, y)
      OBVIOUS
    <2> QED BY <1>1, <2>1 DEF RoundsUpTo
  <1> QED BY <1>2, SizeAssumption

(* After k rounds: x has been cut into p, the bits that are through, and   *)
(* q, those to come, which a holds with the sign it has drawn in above     *)
(* them; bHi and bLo hold y * 2^k, hi and lo hold p * y, nothing is lost.  *)
RoundTyped(r) == r.a \in Words /\ r.bHi \in Words /\ r.bLo \in Words /\ r.hi \in Words /\ r.lo \in Words

RoundInv(k, r, x, y) ==
  /\ RoundTyped(r)
  /\ \E q, p, c \in Nat :
       /\ x = q * 2^k + p /\ p < 2^k
       /\ r.a = q + c * 2^(Width - k)
       /\ M * r.bHi + r.bLo = y * 2^k
       /\ M * r.hi + r.lo = p * y

(* a shifted: h is the half of it, the sign comes in from above. *)
LEMMA Shifted ==
  ASSUME NEW a \in Words
  PROVE  \E h \in Nat, b \in {0, 1}, e \in {0, 1} :
           /\ a = 2 * h + b /\ a % 2 = b
           /\ Word(Signed(a) \div 2) = h + e * H /\ Word(Signed(a) \div 2) \in Words
  <1>1. M \in Nat /\ H \in Nat /\ H > 0 /\ M = 2 * H /\ Words = 0..(M - 1)
    BY WordSize, WordsAre
  <1>2. a \in Nat /\ a < M
    BY <1>1
  <1>3. PICK h \in Nat, b \in {0, 1} : a = 2 * h + b /\ h = a \div 2 /\ b = a % 2
    BY <1>2
  <1>4. h < H
    BY <1>1, <1>2, <1>3
  <1>5. CASE a < H
    <2>1. Signed(a) = a
      BY <1>5, <1>1, <1>2, SignedTyped
    <2>2. h \in Words /\ h = M * 0 + h
      BY <1>1, <1>4
    <2>3. Word(h) = h
      BY <2>2, WordOf
    <2>4. Word(Signed(a) \div 2) = h + 0 * H
      BY <1>1, <1>3, <2>1, <2>3
    <2> QED BY <1>3, <2>2, <2>3, <2>4, <2>1
  <1>6. CASE a >= H
    <2>1. Signed(a) = a - M
      BY <1>6, SignedTyped
    <2>2. a - M = 2 * (h - H) + b
      BY <1>1, <1>3
    <2>3. (2 * (h - H) + b) \div 2 = h - H
      BY <1>1, <1>3, DivModIs
    <2>4. h + H \in Words /\ h - H = M * (-1) + (h + H)
      BY <1>1, <1>4
    <2>5. Word(M * (-1) + (h + H)) = h + H
      BY <2>4, WordOf
    <2>6. Word(Signed(a) \div 2) = h + H
      BY <2>1, <2>2, <2>3, <2>4, <2>5
    <2>7. h + H = h + 1 * H
      BY <1>1
    <2> QED BY <1>3, <2>4, <2>6, <2>7
  <1> QED BY <1>1, <1>2, <1>5, <1>6

(* Twice a word, and the bit that falls out of it. *)
LEMMA Doubled ==
  ASSUME NEW w \in Words
  PROVE  \E n \in {0, 1} : n = (IF Negative(w) THEN 1 ELSE 0) /\ 2 * w = M * n + Word(2 * w) /\ Word(2 * w) \in Words
  <1>1. M \in Nat /\ H \in Nat /\ H > 0 /\ M = 2 * H /\ Words = 0..(M - 1)
    BY WordSize, WordsAre
  <1>2. w \in Nat /\ w < M
    BY <1>1
  <1>3. CASE w >= H
    <2>1. 2 * w - M \in Words /\ 2 * w = M * 1 + (2 * w - M)
      BY <1>1, <1>2, <1>3
    <2>2. Word(2 * w) = 2 * w - M
      BY <2>1, WordOf
    <2> QED BY <1>3, <2>1, <2>2, SignedTyped
  <1>4. CASE w < H
    <2>1. 2 * w \in Words /\ 2 * w = M * 0 + 2 * w
      BY <1>1, <1>2, <1>4
    <2>2. Word(2 * w) = 2 * w
      BY <2>1, WordOf
    <2>3. ~Negative(w)
      BY <1>1, <1>2, <1>4, SignedTyped
    <2> QED BY <2>1, <2>2, <2>3
  <1> QED BY <1>1, <1>2, <1>3, <1>4

(* The sum of two words, and the carry as the code finds it. *)
LEMMA Summed ==
  ASSUME NEW v \in Words, NEW w \in Words
  PROVE  \E n \in {0, 1} : /\ n = (IF Word(v + w) < w THEN 1 ELSE 0)
                           /\ v + w = M * n + Word(v + w) /\ Word(v + w) \in Words
  <1>1. M \in Nat /\ M > 0 /\ Words = 0..(M - 1)
    BY WordSize, WordsAre
  <1>2. v \in Nat /\ v < M /\ w \in Nat /\ w < M
    BY <1>1
  <1>3. CASE v + w >= M
    <2>1. v + w - M \in Words /\ v + w = M * 1 + (v + w - M)
      BY <1>1, <1>2, <1>3
    <2>2. Word(v + w) = v + w - M
      BY <2>1, WordOf
    <2>3. Word(v + w) < w
      BY <1>1, <1>2, <2>2
    <2> QED BY <2>1, <2>2, <2>3
  <1>4. CASE v + w < M
    <2>1. v + w \in Words /\ v + w = M * 0 + (v + w)
      BY <1>1, <1>2, <1>4
    <2>2. Word(v + w) = v + w
      BY <2>1, WordOf
    <2>3. ~(Word(v + w) < w)
      BY <1>2, <2>2
    <2> QED BY <2>1, <2>2, <2>3
  <1> QED BY <1>1, <1>2, <1>3, <1>4

(* What is less than M words is a word. *)
LEMMA HighIsWord ==
  ASSUME NEW g \in Nat, NEW l \in Words, NEW u \in Nat, NEW v \in Words, u <= M, M * g + l = u * v
  PROVE  g \in Words /\ Word(g) = g
  <1>1. M \in Nat /\ M > 0 /\ Words = 0..(M - 1)
    BY WordSize, WordsAre
  <1>2. l \in Nat /\ v \in Nat /\ v <= M - 1
    BY <1>1
  <1>3. PICK d \in Nat, f \in Nat : M = u + d /\ M - 1 = v + f
    <2>1. M - u \in Nat /\ M = u + (M - u) /\ M - 1 - v \in Nat /\ M - 1 = v + (M - 1 - v)
      BY <1>1, <1>2
    <2> QED BY <2>1
  <1>4. u * v <= M * (M - 1)
    <2>1. M * (M - 1) = u * v + u * f + d * v + d * f
      BY <1>2, <1>3
    <2>2. u * f \in Nat /\ d * v \in Nat /\ d * f \in Nat /\ u * v \in Nat
      BY <1>2, <1>3
    <2> QED BY <2>1, <2>2
  <1>5. M * g < M * (M - 1) + M
    <2>1. M * g \in Nat /\ M * (M - 1) \in Nat /\ u * v \in Nat
      BY <1>1, <1>2
    <2> QED BY <1>1, <1>2, <1>4, <2>1
  <1>6. g <= M - 1
    <2>1. M - 1 \in Int /\ g \in Int
      BY <1>1
    <2> QED BY <1>1, <1>5, <2>1, Multiple
  <1>7. g \in Words
    BY <1>1, <1>6
  <1>8. g = M * 0 + g
    BY <1>1
  <1> QED BY <1>7, <1>8, WordOf

LEMMA RoundStep ==
  ASSUME NEW x \in Words, NEW y \in Words, NEW k \in 0..(Width - 1), NEW r, RoundInv(k, r, x, y)
  PROVE  RoundInv(k + 1, Round(r), x, y)
  <1>1. M \in Nat /\ M > 0 /\ H \in Nat /\ H > 0 /\ M = 2 * H /\ Words = 0..(M - 1)
    BY WordSize, WordsAre
  <1>2. /\ x \in Nat /\ x < M /\ y \in Nat /\ y < M
        /\ r.a \in Words /\ r.bHi \in Words /\ r.bLo \in Words /\ r.hi \in Words /\ r.lo \in Words
    BY <1>1 DEF RoundInv, RoundTyped
  <1>3. PICK P, R \in Nat : P > 0 /\ P = 2^k /\ R = 2^(Width - (k + 1)) /\ 2^(k + 1) = 2 * P
                            /\ 2^(Width - k) = 2 * R /\ H = P * R /\ 2 * P <= M /\ R > 0
    <2>1. k \in Nat /\ Width - (k + 1) \in Nat /\ Width - k = (Width - (k + 1)) + 1
          /\ Width - 1 = k + (Width - (k + 1))
      BY SizeAssumption
    <2>2. /\ 2^k \in Nat /\ 2^k > 0 /\ 2^(k + 1) = 2 * 2^k
          /\ 2^(Width - (k + 1)) \in Nat /\ 2^(Width - (k + 1)) > 0
          /\ 2^((Width - (k + 1)) + 1) = 2 * 2^(Width - (k + 1))
      BY <2>1, PowerNext
    <2>3. 2^(k + (Width - (k + 1))) = 2^k * 2^(Width - (k + 1))
      BY <2>1, PowerSum
    <2>4. PICK P, R \in Nat : P = 2^k /\ R = 2^(Width - (k + 1))
      BY <2>2
    <2>5. H = P * R
      BY <2>1, <2>3, <2>4 DEF H
    <2>6. P * R >= P
      <3>1. PICK s \in Nat : R = s + 1
        <4>1. R - 1 \in Nat /\ R = (R - 1) + 1
          BY <2>2, <2>4
        <4> QED BY <4>1
      <3>2. P * R = P + P * s /\ P * s \in Nat
        BY <3>1
      <3> QED BY <3>2
    <2>7. 2 * P <= M
      BY <1>1, <2>5, <2>6
    <2> QED BY <2>1, <2>2, <2>4, <2>5, <2>7
  <1>4. PICK q, p, c \in Nat :
          /\ x = q * P + p /\ p < P /\ r.a = q + c * (2 * R)
          /\ M * r.bHi + r.bLo = y * P /\ M * r.hi + r.lo = p * y
    BY <1>3 DEF RoundInv
  <1>5. PICK h \in Nat, b \in {0, 1}, e \in {0, 1} :
          /\ r.a = 2 * h + b /\ r.a % 2 = b
          /\ Word(Signed(r.a) \div 2) = h + e * H /\ Word(Signed(r.a) \div 2) \in Words
    BY <1>2, Shifted
  <1>6. PICK n \in {0, 1} :
          n = (IF Negative(r.bLo) THEN 1 ELSE 0) /\ 2 * r.bLo = M * n + Word(2 * r.bLo) /\ Word(2 * r.bLo) \in Words
    BY <1>2, Doubled
  <1>7. PICK i \in {0, 1} :
          /\ i = (IF Word(r.lo + r.bLo) < r.bLo THEN 1 ELSE 0)
          /\ r.lo + r.bLo = M * i + Word(r.lo + r.bLo) /\ Word(r.lo + r.bLo) \in Words
    BY <1>2, Summed
  <1>8. PICK bHi, bLo, hi, lo, l2, s2 \in Nat :
          bHi = r.bHi /\ bLo = r.bLo /\ hi = r.hi /\ lo = r.lo /\ l2 = Word(2 * r.bLo) /\ s2 = Word(r.lo + r.bLo)
    <2>1. /\ r.bHi \in Nat /\ r.bLo \in Nat /\ r.hi \in Nat /\ r.lo \in Nat
          /\ Word(2 * r.bLo) \in Nat /\ Word(r.lo + r.bLo) \in Nat
      BY <1>1, <1>2, <1>6, <1>7
    <2> QED BY <2>1
  <1>9. PICK q2 \in Nat : q2 = h - c * R /\ q = 2 * q2 + b
    <2>1. PICK z \in Nat : z = c * R /\ c * (2 * R) = 2 * z
      <3>1. c * R \in Nat /\ c * (2 * R) = 2 * (c * R)
        OBVIOUS
      <3> QED BY <3>1
    <2>2. q = 2 * (h - z) + b
      BY <1>4, <1>5, <2>1
    <2>3. h - z \in Nat
      BY <2>2
    <2> QED BY <2>1, <2>2, <2>3
  <1>10. PICK p2 \in Nat : p2 = b * P + p /\ p2 < 2 * P /\ x = q2 * (2 * P) + p2 /\ p2 <= M
    <2>1. b * P + p \in Nat /\ b * P + p < 2 * P
      BY <1>3, <1>4
    <2>2. x = q2 * (2 * P) + (b * P + p)
      BY <1>4, <1>9
    <2> QED BY <1>1, <1>3, <2>1, <2>2
  <1>11. PICK c2 \in Nat : h + e * H = q2 + c2 * R
    <2>1. PICK z \in Nat : z = c * R
      OBVIOUS
    <2>2. h = q2 + z
      BY <1>9, <2>1
    <2>3. CASE e = 0
      <3>1. h + e * H = q2 + c * R
        BY <1>1, <2>1, <2>2, <2>3
      <3> QED BY <3>1
    <2>4. CASE e = 1
      <3>1. (c + P) * R = c * R + P * R /\ c + P \in Nat
        OBVIOUS
      <3>2. h + e * H = q2 + (c + P) * R
        <4>1. H = P * R
          BY <1>1, <1>3
        <4> QED BY <2>1, <2>2, <2>4, <3>1, <4>1
      <3> QED BY <3>1, <3>2
    <2> QED BY <2>3, <2>4
  <1>12. M * (2 * bHi + n) + l2 = y * (2 * P) /\ 2 * bHi + n \in Nat
    <2>1. M * bHi + bLo = y * P /\ 2 * bLo = M * n + l2
      BY <1>4, <1>6, <1>8
    <2>2. M * (2 * bHi + n) = 2 * (M * bHi) + M * n
      BY <1>1
    <2>3. y * (2 * P) = 2 * (y * P)
      BY <1>2
    <2>4. M * bHi \in Nat /\ M * n \in Nat /\ y * P \in Nat
      BY <1>1, <1>2
    <2> QED BY <2>1, <2>2, <2>3, <2>4
  <1>13. 2 * bHi + n \in Words
    <2>1. M * (2 * bHi + n) + l2 = (2 * P) * y /\ 2 * P \in Nat /\ l2 \in Words
      BY <1>2, <1>6, <1>8, <1>12
    <2> QED BY <1>3, <1>12, <2>1, HighIsWord
  <1>14. Word(2 * bHi) = 2 * bHi
    <2>1. 2 * bHi \in Words /\ 2 * bHi = M * 0 + 2 * bHi
      BY <1>1, <1>13
    <2> QED BY <2>1, WordOf
  <1>15. ASSUME b = 1
         PROVE  /\ M * (hi + i + bHi) + s2 = p2 * y
                /\ hi + i + bHi \in Words /\ Word(hi + i + bHi) = hi + i + bHi
    <2>1. M * (hi + i + bHi) + s2 = p2 * y
      <3>1. M * (hi + i + bHi) = M * hi + M * i + M * bHi
        BY <1>1
      <3>2. p2 * y = y * P + p * y
        BY <1>2, <1>10, <1>15
      <3>3. M * hi + lo = p * y /\ M * bHi + bLo = y * P /\ lo + bLo = M * i + s2
        BY <1>4, <1>7, <1>8
      <3>4. M * hi \in Nat /\ M * i \in Nat /\ M * bHi \in Nat /\ y * P \in Nat /\ p * y \in Nat
        BY <1>1, <1>2
      <3> QED BY <3>1, <3>2, <3>3, <3>4
    <2>2. hi + i + bHi \in Nat /\ s2 \in Words
      BY <1>7, <1>8
    <2> QED BY <1>10, <2>1, <2>2, HighIsWord
  <1> DEFINE d == Round(r)
  <1>16. /\ d.a = h + e * H /\ d.bHi = 2 * bHi + n /\ d.bLo = l2
         /\ b = 1 => d.hi = hi + i + bHi /\ d.lo = s2
         /\ b = 0 => d.hi = hi /\ d.lo = lo
    <2>1. d.a = Word(Signed(r.a) \div 2) /\ d.bLo = Word(2 * r.bLo)
          /\ d.bHi = Word(2 * r.bHi) + (IF Negative(r.bLo) THEN 1 ELSE 0)
          /\ d.hi = (IF r.a % 2 = 1 THEN Word(r.hi + (IF Word(r.lo + r.bLo) < r.bLo THEN 1 ELSE 0) + r.bHi) ELSE r.hi)
          /\ d.lo = (IF r.a % 2 = 1 THEN Word(r.lo + r.bLo) ELSE r.lo)
      BY DEF Round
    <2> HIDE DEF d
    <2>2. d.a = h + e * H /\ d.bLo = l2 /\ d.bHi = 2 * bHi + n
      BY <1>5, <1>6, <1>8, <1>14, <2>1
    <2>3. b = 1 => d.hi = hi + i + bHi /\ d.lo = s2
      BY <1>5, <1>7, <1>8, <1>15, <2>1
    <2>4. b = 0 => d.hi = hi /\ d.lo = lo
      BY <1>5, <1>8, <2>1
    <2> QED BY <2>2, <2>3, <2>4
  <1> HIDE DEF d
  <1>17. RoundTyped(d) /\ M * d.hi + d.lo = p2 * y
    <2>1. d.a \in Words /\ d.bHi \in Words /\ d.bLo \in Words
      BY <1>5, <1>6, <1>8, <1>13, <1>16
    <2>2. CASE b = 1
      BY <1>7, <1>8, <1>15, <1>16, <2>1, <2>2 DEF RoundTyped
    <2>3. CASE b = 0
      <3>1. p2 = p
        BY <1>10, <2>3
      <3> QED BY <1>2, <1>4, <1>8, <1>16, <2>1, <2>3, <3>1 DEF RoundTyped
    <2> QED BY <2>2, <2>3
  <1>18. /\ x = q2 * 2^(k + 1) + p2 /\ p2 < 2^(k + 1)
         /\ d.a = q2 + c2 * 2^(Width - (k + 1))
         /\ M * d.bHi + d.bLo = y * 2^(k + 1)
    BY <1>3, <1>10, <1>11, <1>12, <1>16
  <1> QED BY <1>17, <1>18 DEF RoundInv, d

LEMMA RoundsInv ==
  ASSUME NEW x \in Words, NEW y \in Words
  PROVE  \A k \in 0..Width : RoundInv(k, Rounds(x, y)[k], x, y)
  <1> DEFINE Bad == {k \in 0..Width : ~RoundInv(k, Rounds(x, y)[k], x, y)}
  <1> SUFFICES ASSUME Bad # {} PROVE FALSE
    OBVIOUS
  <1>1. PICK m \in Bad : \A k \in Bad : ~(<<k, m>> \in OpToRel(<, Nat))
    <2> HIDE DEF Bad
    <2>1. Bad \subseteq Nat
      BY DEF Bad
    <2> QED BY <2>1, NatLessThanWellFounded, WFMin
  <1>2. m # 0
    <2>1. x \in Nat /\ y \in Nat /\ 0 \in Words /\ M \in Nat
      BY WordSize, WordsAre, SmallWords
    <2>2. 2^0 = 1 /\ 0 \in 0..Width
      BY SizeAssumption
    <2>3. PICK f : f = FirstRound(x, y)
      OBVIOUS
    <2>4. f.a = x /\ f.bHi = 0 /\ f.bLo = y /\ f.hi = 0 /\ f.lo = 0
      BY <2>3 DEF FirstRound
    <2>5. PICK z \in Nat : z = 2^(Width - 0)
      <3>1. Width - 0 \in Nat
        BY SizeAssumption
      <3> QED BY <3>1, PowerNext
    <2>6. /\ x = x * 2^0 + 0 /\ 0 < 2^0 /\ f.a = x + 0 * 2^(Width - 0)
          /\ M * f.bHi + f.bLo = y * 2^0 /\ M * f.hi + f.lo = 0 * y
      BY <2>1, <2>2, <2>4, <2>5
    <2>7. RoundInv(0, f, x, y)
      BY <2>1, <2>4, <2>6 DEF RoundInv, RoundTyped
    <2> QED BY <2>3, <2>7, RoundsAre
  <1>3. m \in 1..Width /\ m - 1 \in 0..(Width - 1) /\ m - 1 \in 0..Width /\ m - 1 \in Nat /\ m \in Nat /\ m - 1 < m
    BY <1>2, SizeAssumption
  <1>4. RoundInv(m - 1, Rounds(x, y)[m - 1], x, y)
    BY <1>1, <1>3 DEF OpToRel
  <1>5. RoundInv((m - 1) + 1, Round(Rounds(x, y)[m - 1]), x, y)
    BY <1>3, <1>4, RoundStep
  <1>6. RoundInv(m, Rounds(x, y)[m], x, y)
    <2>1. (m - 1) + 1 = m /\ Round(Rounds(x, y)[m - 1]) = Rounds(x, y)[m]
      BY <1>3, RoundsAre
    <2> QED BY <1>5, <2>1
  <1> QED BY <1>6

(* The loop multiplies. *)
LEMMA RoundsMultiply ==
  ASSUME NEW x \in Words, NEW y \in Words
  PROVE  LET r == Rounds(x, y)[Width] IN r.hi \in Words /\ r.lo \in Words /\ M * r.hi + r.lo = x * y
  <1>1. PICK r : r = Rounds(x, y)[Width]
    OBVIOUS
  <1>2. RoundInv(Width, r, x, y)
    BY <1>1, RoundsInv, SizeAssumption
  <1>3. PICK q, p \in Nat : x = q * M + p /\ p < M /\ M * r.hi + r.lo = p * y
    BY <1>2 DEF RoundInv, M
  <1>4. x = p
    <2>1. M \in Nat /\ M > 0 /\ x \in Nat /\ x < M
      BY WordSize, WordsAre
    <2>2. M * q < M * 0 + M
      BY <1>3, <2>1
    <2>3. q = 0
      BY <2>1, <2>2, Multiple
    <2> QED BY <1>3, <2>1, <2>3
  <1> QED BY <1>1, <1>2, <1>3, <1>4 DEF RoundInv, RoundTyped

(* Mult takes the signs off first, and puts that of the product on. *)
LEMMA PositiveIs ==
  ASSUME NEW w \in Words
  PROVE  /\ Positive(w) \in Words /\ Positive(w) \in Nat
         /\ Signed(w) = (IF Negative(w) THEN -Positive(w) ELSE Positive(w))
  <1>1. M \in Nat /\ H \in Nat /\ H > 0 /\ M = 2 * H /\ Words = 0..(M - 1)
    BY WordSize, WordsAre
  <1>2. /\ w \in Nat /\ w < M /\ (Negative(w) <=> w >= H)
        /\ Signed(w) = (IF w >= H THEN w - M ELSE w)
    BY SignedTyped
  <1>3. CASE w >= H
    <2>1. M - w \in Words /\ -w = M * (-1) + (M - w)
      BY <1>1, <1>2, <1>3
    <2>2. Word(-w) = M - w
      BY <2>1, WordOf
    <2>3. Positive(w) = M - w
      BY <1>2, <1>3, <2>2 DEF Positive
    <2> QED BY <1>1, <1>2, <1>3, <2>1, <2>3
  <1>4. CASE w < H
    <2>1. Positive(w) = w
      BY <1>1, <1>2, <1>4 DEF Positive
    <2> QED BY <1>1, <1>2, <1>4, <2>1
  <1> QED BY <1>1, <1>2, <1>3, <1>4

(* A product written as two words. *)
Double(p) == <<Word(p \div M), Word(p)>>

LEMMA DoubleOf ==
  ASSUME NEW k \in Int, NEW l \in Words
  PROVE  Double(M * k + l) = <<Word(k), l>>
  <1>1. M \in Nat /\ M > 0 /\ Words = 0..(M - 1)
    BY WordSize, WordsAre
  <1>2. l \in Nat /\ l < M
    BY <1>1
  <1>3. (M * k + l) \div M = k
    BY <1>1, <1>2, DivModIs
  <1>4. Word(M * k + l) = l
    BY WordOf
  <1> QED BY <1>3, <1>4 DEF Double

LEMMA DoubleOfWords ==
  ASSUME NEW h \in Words, NEW l \in Words
  PROVE  Double(M * h + l) = <<h, l>>
  <1>1. M \in Nat /\ h \in Int /\ h = M * 0 + h
    BY WordSize, WordsAre
  <1>2. Word(M * 0 + h) = h
    BY WordOf
  <1>3. Double(M * h + l) = <<Word(h), l>>
    BY <1>1, DoubleOf
  <1> QED BY <1>1, <1>2, <1>3

LEMMA DoubleOfNegative ==
  ASSUME NEW h \in Words, NEW l \in Words
  PROVE  Double(-(M * h + l)) = <<Word(-h - 1 + (IF l = 0 THEN 1 ELSE 0)), Word(-l)>>
  <1>1. M \in Nat /\ M > 0 /\ Words = 0..(M - 1) /\ h \in Nat /\ l \in Nat /\ l < M
    BY WordSize, WordsAre
  <1>2. CASE l = 0
    <2>1. -(M * h + l) = M * (-h) + 0
      BY <1>1, <1>2
    <2>2. -h \in Int /\ -h - 1 + 1 = -h /\ 0 \in Words /\ -l = M * 0 + 0
      BY <1>1, <1>2
    <2>3. Double(M * (-h) + 0) = <<Word(-h), 0>>
      BY <2>2, DoubleOf
    <2>4. Word(M * 0 + 0) = 0
      BY <2>2, WordOf
    <2> QED BY <1>2, <2>1, <2>2, <2>3, <2>4
  <1>3. CASE l # 0
    <2>1. -(M * h + l) = M * (-h - 1) + (M - l)
      BY <1>1
    <2>2. -h - 1 \in Int /\ -h - 1 + 0 = -h - 1 /\ M - l \in Words /\ -l = M * (-1) + (M - l)
      BY <1>1, <1>3
    <2>3. Double(M * (-h - 1) + (M - l)) = <<Word(-h - 1), M - l>>
      BY <2>2, DoubleOf
    <2>4. Word(M * (-1) + (M - l)) = M - l
      BY <2>2, WordOf
    <2> QED BY <1>3, <2>1, <2>2, <2>3, <2>4
  <1> QED BY <1>2, <1>3

LEMMA MultUnsigned ==
  ASSUME NEW x \in Words, NEW y \in Words
  PROVE  Mult(x, y, FALSE) = Double(x * y)
  <1>1. PICK r : r = Rounds(x, y)[Width]
    OBVIOUS
  <1>2. r.hi \in Words /\ r.lo \in Words /\ M * r.hi + r.lo = x * y
    BY <1>1, RoundsMultiply
  <1>3. Mult(x, y, FALSE) = <<r.hi, r.lo>>
    BY <1>1 DEF Mult
  <1>4. Double(x * y) = <<r.hi, r.lo>>
    BY <1>2, DoubleOfWords
  <1> QED BY <1>3, <1>4, Zenon

LEMMA MultSigned ==
  ASSUME NEW x \in Words, NEW y \in Words
  PROVE  Mult(x, y, TRUE) = Double(Signed(x) * Signed(y))
  <1>0. M \in Nat /\ M > 0 /\ Words = 0..(M - 1) /\ x \in Nat /\ y \in Nat
    BY WordSize, WordsAre
  <1>1. PICK v \in Words, w \in Words : v = Positive(x) /\ w = Positive(y)
    BY PositiveIs
  <1>2. /\ v \in Nat /\ w \in Nat
        /\ Signed(x) = (IF Negative(x) THEN -v ELSE v)
        /\ Signed(y) = (IF Negative(y) THEN -w ELSE w)
    BY <1>1, PositiveIs
  <1>3. PICK r : r = Rounds(v, w)[Width]
    OBVIOUS
  <1>4. r.hi \in Words /\ r.lo \in Words /\ M * r.hi + r.lo = v * w
    BY <1>3, RoundsMultiply
  <1>5. PICK hi \in Words, lo \in Words : hi = r.hi /\ lo = r.lo /\ M * hi + lo = v * w
    BY <1>4
  <1>6. Negative(x) \in BOOLEAN /\ Negative(y) \in BOOLEAN
    BY <1>0, SignedTyped DEF Negative
  <1>7. CASE x = 0 \/ y = 0
    <2>1. Signed(x) * Signed(y) = M * 0 + 0
      <3>1. Signed(0) = 0
        <4>1. 0 \in Words /\ H > 0 /\ H \in Nat
          BY SmallWords, WordSize
        <4> QED BY <4>1, SignedTyped
      <3>2. Signed(x) \in Int /\ Signed(y) \in Int
        BY SignedTyped
      <3>3. \A n \in Int : 0 * n = 0 /\ n * 0 = 0
        OBVIOUS
      <3> QED BY <1>0, <1>7, <3>1, <3>2, <3>3
    <2>2. Double(M * 0 + 0) = <<0, 0>>
      BY SmallWords, DoubleOfWords
    <2>3. v * w = M * 0 + 0
      <3>1. 0 \in Words /\ H > 0 /\ H \in Nat
        BY SmallWords, WordSize
      <3>2. ~Negative(0)
        BY <3>1, SignedTyped
      <3>3. v = 0 \/ w = 0
        BY <1>1, <1>7, <3>2 DEF Positive
      <3>4. \A n \in Int : 0 * n = 0 /\ n * 0 = 0
        OBVIOUS
      <3> QED BY <1>0, <1>2, <3>3, <3>4
    <2>4. <<hi, lo>> = <<0, 0>>
      BY <1>5, <2>2, <2>3, DoubleOfWords
    <2>5. Mult(x, y, TRUE) = <<hi, lo>>
      BY <1>1, <1>3, <1>5, <1>7 DEF Mult
    <2> QED BY <2>1, <2>2, <2>4, <2>5, Zenon
  <1>8. CASE x # 0 /\ y # 0 /\ Negative(x) = Negative(y)
    <2>1. Signed(x) * Signed(y) = M * hi + lo
      <3>1. (-v) * (-w) = v * w
        BY <1>2
      <3> QED BY <1>2, <1>5, <1>6, <1>8, <3>1
    <2>2. Double(M * hi + lo) = <<hi, lo>>
      BY DoubleOfWords
    <2>3. Mult(x, y, TRUE) = <<hi, lo>>
      BY <1>1, <1>3, <1>5, <1>8 DEF Mult
    <2> QED BY <2>1, <2>2, <2>3, Zenon
  <1>9. CASE x # 0 /\ y # 0 /\ Negative(x) # Negative(y)
    <2>1. Signed(x) * Signed(y) = -(M * hi + lo)
      <3>1. (-v) * w = -(v * w) /\ v * (-w) = -(v * w)
        BY <1>2
      <3> QED BY <1>2, <1>5, <1>6, <1>9, <3>1
    <2>2. Double(-(M * hi + lo)) = <<Word(-hi - 1 + (IF lo = 0 THEN 1 ELSE 0)), Word(-lo)>>
      BY DoubleOfNegative
    <2>3. Mult(x, y, TRUE) = <<Word(-hi - 1 + (IF lo = 0 THEN 1 ELSE 0)), Word(-lo)>>
      BY <1>1, <1>3, <1>5, <1>9 DEF Mult
    <2> QED BY <2>1, <2>2, <2>3, Zenon
  <1> QED BY <1>7, <1>8, <1>9

LEMMA DoubleTyped ==
  ASSUME NEW p \in Int
  PROVE  Double(p) \in Words \X Words
  <1>1. M \in Nat /\ M > 0
    BY WordSize
  <1>2. p \div M \in Int
    BY <1>1
  <1> QED BY <1>2, WordTyped DEF Double

LEMMA MultTyped ==
  ASSUME NEW x \in Words, NEW y \in Words
  PROVE  Mult(x, y, FALSE) \in Words \X Words /\ Mult(x, y, TRUE) \in Words \X Words
  <1>1. x * y \in Int /\ Signed(x) * Signed(y) \in Int
    <2>1. x \in Int /\ y \in Int /\ Signed(x) \in Int /\ Signed(y) \in Int
      BY SignedTyped
    <2> QED BY <2>1
  <1>2. Double(x * y) \in Words \X Words /\ Double(Signed(x) * Signed(y)) \in Words \X Words
    BY <1>1, DoubleTyped
  <1>3. Mult(x, y, FALSE) = Double(x * y) /\ Mult(x, y, TRUE) = Double(Signed(x) * Signed(y))
    BY MultUnsigned, MultSigned, Zenon
  <1> QED BY <1>2, <1>3, Zenon

(* Mult leaves the double-length product of its arguments in hi and lo,    *)
(* whatever the width of a word: nothing is lost in the loop, a is shifted *)
(* as a signed int to no harm, and the number that has no opposite is      *)
(* multiplied right too.                                                   *)
THEOREM MultIsProduct ==
  ASSUME NEW x \in Words, NEW y \in Words
  PROVE  /\ Mult(x, y, FALSE) = ISA!Product(x, y, FALSE)
         /\ Mult(x, y, TRUE) = ISA!Product(x, y, TRUE)
  <1>1. \A p : Double(p) = <<ISA!Word(p \div 2^Width), ISA!Word(p)>>
    BY DEF Double, ISA!Word, Word, M
  <1>2. \A w : ISA!Signed(w) = Signed(w)
    BY DEF ISA!Signed, Signed, ISA!Negative, Negative
  <1>3. ISA!Product(x, y, FALSE) = <<ISA!Word((x * y) \div 2^Width), ISA!Word(x * y)>>
    BY DEF ISA!Product
  <1>4. ISA!Product(x, y, TRUE) = <<ISA!Word((ISA!Signed(x) * ISA!Signed(y)) \div 2^Width),
                                    ISA!Word(ISA!Signed(x) * ISA!Signed(y))>>
    BY DEF ISA!Product
  <1>5. ISA!Product(x, y, FALSE) = Double(x * y)
    <2>1. Double(x * y) = <<ISA!Word((x * y) \div 2^Width), ISA!Word(x * y)>>
      BY <1>1
    <2> QED BY <1>3, <2>1, Zenon
  <1>6. ISA!Product(x, y, TRUE) = Double(Signed(x) * Signed(y))
    <2>1. PICK v, w : v = Signed(x) /\ w = Signed(y) /\ v = ISA!Signed(x) /\ w = ISA!Signed(y)
      BY <1>2
    <2>2. Double(v * w) = <<ISA!Word((v * w) \div 2^Width), ISA!Word(v * w)>>
      BY <1>1
    <2> QED BY <1>4, <2>1, <2>2, Zenon
  <1> QED BY <1>5, <1>6, MultUnsigned, MultSigned, Zenon

-----------------------------------------------------------------------------
(* What instructions compute are words.                                    *)

RegisterFile == [Registers -> Words]
Memories     == [Addresses -> 0..(ByteSize - 1)]

LEMMA RegistersAre ==
  /\ 0 \in Registers /\ R2 \in Registers /\ R31 \in Registers /\ R2 # 0 /\ R31 # 0
  /\ \A i \in Instructions : Dest(i) \in Registers
  <1>1. 0 \in Registers /\ R2 \in Registers /\ R31 \in Registers /\ R2 # 0 /\ R31 # 0
    BY SizeAssumption DEF Registers, R2, R31
  <1>2. ASSUME NEW i \in Instructions PROVE Dest(i) \in Registers
    <2>1. i.rd \in Registers /\ i.rt \in Registers
      BY DEF Instructions
    <2> QED BY <1>1, <2>1 DEF Dest
  <1> QED BY <1>1, <1>2

LEMMA ShiftTyped ==
  ASSUME NEW t \in Words, NEW k \in Nat
  PROVE  Word(t * 2^k) \in Words /\ Word(Signed(t) \div 2^k) \in Words
  <1>1. PICK p \in Nat : p = 2^k /\ p > 0
    BY PowerNext
  <1>2. t * p \in Int
    BY SignedTyped
  <1>3. Signed(t) \div p \in Int
    <2>1. Signed(t) \in Int
      BY SignedTyped
    <2> QED BY <1>1, <2>1, DivMod
  <1> QED BY <1>1, <1>2, <1>3, WordTyped

LEMMA ValueTyped ==
  ASSUME NEW i \in Instructions, NEW reg \in RegisterFile, NEW c \in Words \X Words, NEW n \in Words
  PROVE  Value(i, reg, c, n) \in Words
  <1>1. PICK s \in Words, t \in Words, e \in Int :
          s = reg[i.rs] /\ t = reg[i.rt] /\ e = i.extra /\ (i.op \in {"SLL", "SRA", "SRL"} => e \in Nat)
    <2>1. i.rs \in Registers /\ i.rt \in Registers /\ i.extra \in Int
          /\ (i.op \in {"SLL", "SRA", "SRL"} => i.extra \in Nat)
      BY DEF Instructions
    <2> QED BY <2>1 DEF RegisterFile
  <1>2. s \in Nat /\ t \in Nat /\ n \in Nat
    BY SignedTyped
  <1>3. /\ Word(s + t) \in Words /\ Word(s + e) \in Words /\ Word(s - t) \in Words /\ Word(n + 4) \in Words
    BY <1>2, WordTyped
  <1>4. Word(e * 2^(Width \div 2)) \in Words
    <2>1. Width \div 2 \in Nat
      BY SizeAssumption
    <2>2. PICK p \in Nat : p = 2^(Width \div 2)
      BY <2>1, PowerNext
    <2>3. e * p \in Int
      OBVIOUS
    <2> QED BY <2>2, <2>3, WordTyped
  <1>5. s % Width \in Nat
    BY <1>2, SizeAssumption, DivMod
  <1>6. Word(t * 2^(s % Width)) \in Words /\ Word(Signed(t) \div 2^(s % Width)) \in Words
    BY <1>5, ShiftTyped
  <1>7. i.op \in {"SLL", "SRA", "SRL"} => Word(t * 2^e) \in Words /\ Word(Signed(t) \div 2^e) \in Words
    BY <1>1, ShiftTyped
  <1>8. c[1] \in Words /\ c[2] \in Words
    OBVIOUS
  <1>9. 0 \in Words /\ 1 \in Words
    BY SmallWords
  <1>10. CASE i.op \in {"ADD", "ADDU", "ADDI", "ADDIU", "SUB", "SUBU"}
    BY <1>1, <1>3, <1>10 DEF Value
  <1>11. CASE i.op \in {"SLT", "SLTI", "SLTU", "SLTIU"}
    <2>1. CASE i.op = "SLT"
      BY <1>9, <2>1 DEF Value, Links
    <2>2. CASE i.op = "SLTI"
      BY <1>9, <2>2 DEF Value, Links
    <2>3. CASE i.op = "SLTU"
      BY <1>9, <2>3 DEF Value, Links
    <2>4. CASE i.op = "SLTIU"
      BY <1>9, <2>4 DEF Value, Links
    <2> QED BY <1>11, <2>1, <2>2, <2>3, <2>4
  <1>12. CASE i.op \in {"LUI", "SLL", "SRA", "SRL"}
    <2>1. CASE i.op = "LUI"
      BY <1>4, <1>1, <2>1 DEF Value, Links
    <2>2. CASE i.op = "SLL"
      BY <1>1, <1>7, <2>2 DEF Value, Links
    <2>3. CASE i.op = "SRA"
      BY <1>1, <1>7, <2>3 DEF Value, Links
    <2>4. CASE i.op = "SRL"
      BY <1>1, <1>7, <2>4 DEF Value, Links
    <2> QED BY <1>12, <2>1, <2>2, <2>3, <2>4
  <1>13. CASE i.op \in {"SLLV", "SRAV", "SRLV", "MFHI", "MFLO"}
    <2>1. CASE i.op = "SLLV"
      BY <1>1, <1>6, <2>1 DEF Value, Links
    <2>2. CASE i.op = "SRAV"
      BY <1>1, <1>6, <2>2 DEF Value, Links
    <2>3. CASE i.op = "SRLV"
      BY <1>1, <1>6, <2>3 DEF Value, Links
    <2>4. CASE i.op = "MFHI"
      BY <1>8, <2>4 DEF Value, Links
    <2>5. CASE i.op = "MFLO"
      BY <1>8, <2>5 DEF Value, Links
    <2> QED BY <1>13, <2>1, <2>2, <2>3, <2>4, <2>5
  <1>14. CASE i.op \in Links \cup {"JALR"}
    BY <1>3, <1>14 DEF Value, Links
  <1>15. CASE i.op \notin {"ADD", "ADDU", "ADDI", "ADDIU", "SUB", "SUBU", "SLT", "SLTI", "SLTU", "SLTIU", "LUI", "SLL",
                           "SRA", "SRL", "SLLV", "SRAV", "SRLV", "MFHI", "MFLO"} \cup Links \cup {"JALR"}
    BY <1>9, <1>15 DEF Value
  <1> QED BY <1>10, <1>11, <1>12, <1>13, <1>14, <1>15

LEMMA QuotientTyped ==
  ASSUME NEW s \in Words, NEW t \in Words, t # 0
  PROVE  s % t \in Words /\ s \div t \in Words
  <1>1. M \in Nat /\ M > 0 /\ Words = 0..(M - 1)
    BY WordSize, WordsAre
  <1>2. s \in Nat /\ s < M /\ t \in Nat /\ t < M /\ t > 0
    BY <1>1
  <1>3. PICK q \in Int, r \in Nat : q = s \div t /\ r = s % t /\ r < t /\ s = t * q + r
    BY <1>2, DivMod
  <1>4. 0 <= q
    <2>1. PICK z \in Int : z = t * q
      BY <1>2
    <2>2. t * 0 < t * q + t
      BY <1>2, <1>3, <2>1
    <2> QED BY <1>2, <2>2, Multiple
  <1>5. q <= s
    <2>1. PICK d \in Nat : t = 1 + d
      <3>1. t - 1 \in Nat /\ t = 1 + (t - 1)
        BY <1>2
      <3> QED BY <3>1
    <2>2. t * q = q + d * q /\ d * q >= 0
      BY <1>4, <2>1
    <2>3. d * q \in Int
      OBVIOUS
    <2> QED BY <1>2, <1>3, <2>2, <2>3
  <1> QED BY <1>1, <1>2, <1>3, <1>4, <1>5

LEMMA DividedTyped ==
  ASSUME NEW s \in Words, NEW t \in Words, NEW signed \in BOOLEAN
  PROVE  Divided(s, t, signed) \in Words \X Words
  <1> DEFINE Abs(n) == IF n < 0 THEN -n ELSE n
             sign   == IF Negative(s) = Negative(t) THEN 1 ELSE -1
  <1>1. CASE t = 0
    <2>1. Divided(s, t, signed) = <<0, 0>>
      BY <1>1 DEF Divided
    <2> QED BY <2>1, SmallWords
  <1>2. CASE t # 0 /\ signed = TRUE
    <2>1. PICK v \in Int, w \in Int : v = Signed(s) /\ w = Signed(t) /\ w # 0
      BY <1>2, SignedTyped
    <2>2. Abs(v) \div Abs(w) \in Int
      <3>1. Abs(v) \in Int /\ Abs(w) \in Nat /\ Abs(w) > 0
        BY <2>1
      <3> HIDE DEF Abs
      <3> QED BY <3>1, DivMod
    <2>3. PICK q \in Int : q = sign * (Abs(v) \div Abs(w))
      <3>1. sign \in Int
        OBVIOUS
      <3> HIDE DEF sign, Abs
      <3>2. sign * (Abs(v) \div Abs(w)) \in Int
        BY <2>2, <3>1
      <3> QED BY <3>2
    <2>4. Divided(s, t, signed) = <<Word(v - q * w), Word(q)>>
      BY <1>2, <2>1, <2>3 DEF Divided
    <2>5. v - q * w \in Int
      OBVIOUS
    <2> QED BY <2>4, <2>5, WordTyped
  <1>3. CASE t # 0 /\ signed = FALSE
    <2>1. Divided(s, t, signed) = <<s % t, s \div t>>
      BY <1>3 DEF Divided
    <2> QED BY <1>3, <2>1, QuotientTyped
  <1> QED BY <1>1, <1>2, <1>3

LEMMA HiLoTyped ==
  ASSUME NEW i \in Instructions, NEW reg \in RegisterFile, NEW c \in Words \X Words
  PROVE  HiLo(i, reg, c, Mult(reg[i.rs], reg[i.rt], i.op = "MULT")) \in Words \X Words
  <1>1. PICK s \in Words, t \in Words : s = reg[i.rs] /\ t = reg[i.rt]
    <2>1. i.rs \in Registers /\ i.rt \in Registers
      BY DEF Instructions
    <2> QED BY <2>1 DEF RegisterFile
  <1>2. PICK z : z = Mult(reg[i.rs], reg[i.rt], i.op = "MULT")
    OBVIOUS
  <1>3. i.op \in {"MULT", "MULTU"} => z \in Words \X Words
    <2>1. CASE i.op = "MULT"
      <3>1. (i.op = "MULT") = TRUE
        BY <2>1
      <3>2. z = Mult(s, t, TRUE)
        BY <1>1, <1>2, <3>1, Zenon
      <3> QED BY <3>2, MultTyped, Zenon
    <2>2. CASE i.op = "MULTU"
      <3>1. (i.op = "MULT") = FALSE
        BY <2>2
      <3>2. z = Mult(s, t, FALSE)
        BY <1>1, <1>2, <3>1, Zenon
      <3> QED BY <3>2, MultTyped, Zenon
    <2> QED BY <2>1, <2>2
  <1>4. Divided(s, t, i.op = "DIV") \in Words \X Words
    <2>1. (i.op = "DIV") \in BOOLEAN
      OBVIOUS
    <2> QED BY <2>1, DividedTyped, Zenon
  <1>5. <<s, c[2]>> \in Words \X Words /\ <<c[1], s>> \in Words \X Words
    OBVIOUS
  <1>6. HiLo(i, reg, c, z) \in Words \X Words
    <2>1. CASE i.op \in {"MULT", "MULTU"}
      BY <1>3, <2>1 DEF HiLo
    <2>2. CASE i.op \in {"DIV", "DIVU"}
      <3>1. HiLo(i, reg, c, z) = Divided(s, t, i.op = "DIV")
        BY <1>1, <2>2 DEF HiLo
      <3> QED BY <1>4, <3>1, Zenon
    <2>3. CASE i.op \in {"MTHI", "MTLO"}
      BY <1>1, <1>5, <2>3 DEF HiLo
    <2>4. CASE i.op \notin {"MULT", "MULTU", "DIV", "DIVU", "MTHI", "MTLO"}
      BY <2>4 DEF HiLo
    <2> QED BY <2>1, <2>2, <2>3, <2>4
  <1> QED BY <1>2, <1>6, Zenon

LEMMA PcAfterTyped ==
  ASSUME NEW i \in Instructions, NEW reg \in RegisterFile, NEW n \in Words
  PROVE  PcAfter(i, reg, n) \in Words
  <1>1. i.rs \in Registers /\ i.extra \in Int
    BY DEF Instructions
  <1>2. n \in Int /\ n + 4 * i.extra \in Int /\ n + 4 \in Int /\ 4 * i.extra \in Int
    BY <1>1, SignedTyped
  <1>3. Word(n + 4 * i.extra) \in Words /\ Word(n + 4) \in Words /\ Word(4 * i.extra) \in Words /\ reg[i.rs] \in Words
    BY <1>1, <1>2, WordTyped DEF RegisterFile
  <1> QED BY <1>3 DEF PcAfter

(* Digits of a number to the base ByteSize, as bytes in memory are. *)
LEMMA Digit ==
  ASSUME NEW b \in Nat, NEW d \in Nat, d < b, NEW v \in Nat, NEW n \in Nat, v < n
  PROVE  d + b * v \in Nat /\ d + b * v < b * n
  <1>1. PICK e \in Nat : n = v + 1 + e
    <2>1. n - v - 1 \in Nat /\ n = v + 1 + (n - v - 1)
      OBVIOUS
    <2> QED BY <2>1
  <1>2. b * n = b * v + b + b * e /\ b * e \in Nat /\ b * v \in Nat
    BY <1>1
  <1> QED BY <1>2

LEMMA FourBytes ==
  ASSUME NEW b0 \in 0..(ByteSize - 1), NEW b1 \in 0..(ByteSize - 1),
         NEW b2 \in 0..(ByteSize - 1), NEW b3 \in 0..(ByteSize - 1)
  PROVE  b0 + ByteSize * (b1 + ByteSize * (b2 + ByteSize * b3)) \in Words
  <1>1. PICK b \in Nat : b = ByteSize /\ b >= 2 /\ M = b * (b * (b * b))
    BY Sizes
  <1>2. b0 \in Nat /\ b0 < b /\ b1 \in Nat /\ b1 < b /\ b2 \in Nat /\ b2 < b /\ b3 \in Nat /\ b3 < b
    BY <1>1
  <1>3. PICK v2, n2 \in Nat : v2 = b2 + b * b3 /\ n2 = b * b /\ v2 < n2
    <2>1. b2 + b * b3 \in Nat /\ b2 + b * b3 < b * b
      BY <1>2, Digit
    <2> QED BY <2>1
  <1>4. PICK v1, n1 \in Nat : v1 = b1 + b * v2 /\ n1 = b * n2 /\ v1 < n1
    <2>1. b1 + b * v2 \in Nat /\ b1 + b * v2 < b * n2
      BY <1>2, <1>3, Digit
    <2>2. b * n2 \in Nat
      OBVIOUS
    <2> QED BY <2>1, <2>2
  <1>5. b0 + b * v1 \in Nat /\ b0 + b * v1 < b * n1
    BY <1>2, <1>4, Digit
  <1>6. M = b * n1 /\ Words = 0..(M - 1) /\ M \in Nat
    BY <1>1, <1>3, <1>4, WordSize, WordsAre
  <1>7. b0 + b * v1 \in Words
    BY <1>5, <1>6
  <1> QED BY <1>1, <1>3, <1>4, <1>7

LEMMA AddressTyped ==
  ASSUME NEW i \in Instructions, NEW reg \in RegisterFile
  PROVE  Address(i, reg) \in Words
  <1>1. i.rs \in Registers /\ i.extra \in Int
    BY DEF Instructions
  <1>2. reg[i.rs] \in Nat
    <2>1. reg[i.rs] \in Words
      BY <1>1 DEF RegisterFile
    <2> QED BY <2>1, SignedTyped
  <1>3. reg[i.rs] + i.extra \in Int
    BY <1>1, <1>2
  <1> QED BY <1>3, WordTyped DEF Address

LEMMA AddressInside ==
  ASSUME NEW i \in Instructions, NEW reg \in RegisterFile, i.op \in Loads \cup Stores, ~AddressError(i, reg)
  PROVE  /\ Size(i) \in {1, 2, 4} /\ Address(i, reg) \in Addresses
         /\ Size(i) = 2 => Address(i, reg) + 1 \in Addresses
         /\ Size(i) = 4 => /\ Address(i, reg) + 1 \in Addresses
                           /\ Address(i, reg) + 2 \in Addresses
                           /\ Address(i, reg) + 3 \in Addresses
  <1>1. PICK a : a = Address(i, reg)
    OBVIOUS
  <1>2. a \in Addresses /\ a % Size(i) = 0
    BY <1>1 DEF AddressError
  <1>3. Size(i) \in {1, 2, 4}
    BY DEF Size
  <1>4. a \in Nat /\ a < MemorySize /\ MemorySize \in Nat /\ MemorySize % 4 = 0
    BY <1>2, SizeAssumption DEF Addresses
  <1>5. Size(i) = 2 => a + 1 \in Addresses
    BY <1>2, <1>4 DEF Addresses
  <1>6. Size(i) = 4 => a + 1 \in Addresses /\ a + 2 \in Addresses /\ a + 3 \in Addresses
    BY <1>2, <1>4 DEF Addresses
  <1> QED BY <1>1, <1>2, <1>3, <1>5, <1>6

LEMMA ReadMemTyped ==
  ASSUME NEW i \in Instructions, NEW reg \in RegisterFile, NEW m \in Memories,
         i.op \in Loads, ~AddressError(i, reg)
  PROVE  ReadMem(Address(i, reg), Size(i), m) \in Words
  <1>1. PICK a, z : a = Address(i, reg) /\ z = Size(i)
    OBVIOUS
  <1>2. /\ z \in {1, 2, 4} /\ a \in Addresses /\ (z = 2 => a + 1 \in Addresses)
        /\ (z = 4 => a + 1 \in Addresses /\ a + 2 \in Addresses /\ a + 3 \in Addresses)
    BY <1>1, AddressInside
  <1>3. PICK b \in Nat : b = ByteSize /\ b >= 2
    BY Sizes
  <1>4. 0 \in 0..(b - 1)
    BY <1>3
  <1>5. \A k \in Addresses : m[k] \in 0..(b - 1)
    BY <1>3 DEF Memories
  <1>6. CASE z = 1
    <2>1. PICK b0 \in 0..(b - 1) : b0 = m[a]
      BY <1>2, <1>5
    <2>2. b0 + b * (0 + b * (0 + b * 0)) \in Words
      BY <1>3, <1>4, FourBytes
    <2>3. b0 + b * (0 + b * (0 + b * 0)) = b0
      BY <1>3, <2>1
    <2>4. ReadMem(a, 1, m) = b0
      BY <2>1 DEF ReadMem
    <2> QED BY <1>1, <1>6, <2>2, <2>3, <2>4
  <1>7. CASE z = 2
    <2>1. PICK b0 \in 0..(b - 1), b1 \in 0..(b - 1) : b0 = m[a] /\ b1 = m[a + 1]
      BY <1>2, <1>5, <1>7
    <2>2. b0 + b * (b1 + b * (0 + b * 0)) \in Words
      BY <1>3, <1>4, FourBytes
    <2>3. b0 + b * (b1 + b * (0 + b * 0)) = b0 + b * b1
      BY <1>3, <2>1
    <2>4. ReadMem(a, 2, m) = b0 + b * b1
      BY <1>3, <2>1 DEF ReadMem
    <2> QED BY <1>1, <1>7, <2>2, <2>3, <2>4
  <1>8. CASE z = 4
    <2>1. PICK b0 \in 0..(b - 1), b1 \in 0..(b - 1), b2 \in 0..(b - 1), b3 \in 0..(b - 1) :
            b0 = m[a] /\ b1 = m[a + 1] /\ b2 = m[a + 2] /\ b3 = m[a + 3]
      BY <1>2, <1>5, <1>8
    <2>2. b0 + b * (b1 + b * (b2 + b * b3)) \in Words
      BY <1>3, FourBytes
    <2>3. ReadMem(a, 4, m) = b0 + b * (b1 + b * (b2 + b * b3))
      BY <1>3, <2>1 DEF ReadMem
    <2> QED BY <1>1, <1>8, <2>2, <2>3
  <1> QED BY <1>2, <1>6, <1>7, <1>8

(* LWR puts the high byte of a word in the place of the low one of another. *)
LEMMA MergedTyped ==
  ASSUME NEW v \in Words, NEW old \in Words
  PROVE  (old - (old % ByteSize)) + v \div Bytes(3) \in Words
  <1>1. PICK b, c \in Nat : b = ByteSize /\ c = Bytes(3) /\ b >= 2 /\ c > 0 /\ M = b * c
    BY Sizes
  <1>2. M \in Nat /\ Words = 0..(M - 1) /\ v \in Nat /\ v < M /\ old \in Nat /\ old < M
    BY WordSize, WordsAre
  <1>3. PICK q \in Int, r \in Nat : q = old \div b /\ r = old % b /\ r < b /\ old = b * q + r
    BY <1>1, <1>2, DivMod
  <1>4. PICK p \in Int, s \in Nat : p = v \div c /\ s = v % c /\ s < c /\ v = c * p + s
    <2>1. v \div c \in Int /\ v % c \in Nat /\ v % c < c /\ v = c * (v \div c) + (v % c)
      <3>1. c > 0 /\ v \in Int
        BY <1>1, <1>2
      <3> QED BY <3>1, DivMod
    <2> QED BY <2>1
  <1>5. 0 <= q /\ q <= c - 1
    <2>1. PICK z \in Int : z = b * q
      BY <1>1
    <2>2. b * 0 < b * q + b
      <3>1. b * 0 = 0
        BY <1>1
      <3>2. old = z + r
        BY <1>3, <2>1
      <3>3. 0 <= old
        BY <1>2
      <3>4. 0 < z + b
        <4>1. b \in Nat /\ z \in Int /\ r \in Nat /\ r < b
          BY <1>1, <1>3, <2>1
        <4> QED BY <4>1, <3>2, <3>3
      <3> QED BY <2>1, <3>1, <3>4
    <2>3. b * (c - 1) + b = b * c
      BY <1>1
    <2>4. b * q < b * (c - 1) + b
      <3>1. z + r < M /\ M = b * (c - 1) + b
        BY <1>1, <1>2, <1>3, <2>1, <2>3
      <3> QED BY <1>3, <2>1, <3>1
    <2> QED BY <1>1, <2>2, <2>4, Multiple
  <1>6. 0 <= p /\ p <= b - 1
    <2>1. PICK z \in Int : z = c * p
      OBVIOUS
    <2>2. 0 <= z + s /\ z + s < b * c /\ b * c \in Nat
      <3>1. v = z + s
        BY <1>4, <2>1
      <3>2. PICK f \in Nat : f = b * c
        OBVIOUS
      <3>3. v \in Nat /\ v < f
        BY <1>1, <1>2, <3>2
      <3> QED BY <3>1, <3>2, <3>3
    <2>3. c * 0 < c * p + c
      BY <1>4, <2>1, <2>2
    <2>4. c * (b - 1) + c = b * c
      OBVIOUS
    <2>5. c * p < c * (b - 1) + c
      BY <1>4, <2>1, <2>2, <2>4
    <2> QED BY <1>1, <2>3, <2>5, Multiple
  <1>7. p + b * q \in Nat /\ p + b * q < b * c
    <2>1. p \in Nat /\ p < b /\ q \in Nat /\ q < c
      BY <1>1, <1>5, <1>6
    <2> QED BY <2>1, Digit
  <1>8. (old - (old % b)) + v \div c = p + b * q
    <2>1. PICK z \in Int : z = b * q
      BY <1>1
    <2> QED BY <1>2, <1>3, <1>4, <2>1
  <1>9. p + b * q \in Words
    BY <1>1, <1>2, <1>7
  <1> QED BY <1>1, <1>8, <1>9

LEMMA LoadedTyped ==
  ASSUME NEW i \in Instructions, NEW old \in Words, NEW reg \in RegisterFile, NEW m \in Memories,
         i.op \in Loads, ~AddressError(i, reg)
  PROVE  Loaded(i, old, reg, m) \in Words
  <1>1. PICK v \in Words : v = ReadMem(Address(i, reg), Size(i), m)
    BY ReadMemTyped
  <1>2. PICK l \in Nat : l = Bytes(Size(i))
    <2>1. Size(i) \in Nat
      BY DEF Size
    <2> QED BY <2>1, Sizes
  <1>3. v \in Nat
    BY SignedTyped
  <1>4. Word(v - l) \in Words
    BY <1>3, WordTyped
  <1>5. (old - (old % ByteSize)) + v \div Bytes(3) \in Words
    BY MergedTyped
  <1>6. CASE i.op \in {"LB", "LH"} /\ 2 * v >= l
    BY <1>1, <1>2, <1>4, <1>6 DEF Loaded
  <1>7. CASE i.op = "LWR"
    BY <1>1, <1>2, <1>5, <1>7 DEF Loaded
  <1>8. CASE i.op # "LWR" /\ ~(i.op \in {"LB", "LH"} /\ 2 * v >= l)
    BY <1>1, <1>2, <1>8 DEF Loaded
  <1> QED BY <1>6, <1>7, <1>8

LEMMA StoredTyped ==
  ASSUME NEW i \in Instructions, NEW reg \in RegisterFile, NEW m \in Memories
  PROVE  Stored(i, reg, m) \in Memories
  <1>1. PICK a \in Int, w \in Nat, b \in Nat :
          a = Address(i, reg) /\ w = reg[i.rt] /\ b = ByteSize /\ b >= 2
    <2>1. i.rt \in Registers
      BY DEF Instructions
    <2>2. reg[i.rt] \in Words
      BY <2>1 DEF RegisterFile
    <2> QED BY <2>2, AddressTyped, SignedTyped, Sizes
  <1>2. PICK first \in Int : first = IF i.op = "SWR" THEN a + 3 ELSE a
    OBVIOUS
  <1>3. PICK last \in Int : last = a + Size(i) - 1
    <2>1. Size(i) \in Nat
      BY DEF Size
    <2>2. a + Size(i) - 1 \in Int
      BY <2>1
    <2> QED BY <2>2
  <1>4. ASSUME NEW k \in Addresses
        PROVE  (IF k \in first..last THEN (w \div Bytes(k - first)) % b ELSE m[k]) \in 0..(b - 1)
    <2>1. CASE k \in first..last
      <3>1. k - first \in Nat
        BY <2>1
      <3>2. PICK c \in Nat : c = Bytes(k - first) /\ c > 0
        BY <3>1, Sizes
      <3>3. w \div c \in Int
        BY <3>2
      <3>4. PICK v \in Int : v = w \div c
        BY <3>3
      <3>5. v % b \in Nat /\ v % b < b
        BY <1>1, DivMod
      <3> QED BY <1>1, <2>1, <3>2, <3>4, <3>5
    <2>2. CASE k \notin first..last
      BY <1>1, <2>2 DEF Memories
    <2> QED BY <2>1, <2>2
  <1>5. Stored(i, reg, m) = [k \in Addresses |-> IF k \in first..last THEN (w \div Bytes(k - first)) % b ELSE m[k]]
    BY <1>1, <1>2, <1>3 DEF Stored
  <1> QED BY <1>1, <1>4, <1>5 DEF Memories

-----------------------------------------------------------------------------
(* Every variable has its type.                                            *)

LoadsOf == [reg : Registers, value : Words]

LEMMA AppliedIs ==
  ASSUME load \in LoadsOf, NEW regs \in RegisterFile
  PROVE  /\ Applied(regs) \in RegisterFile /\ Applied(regs)[0] = 0
         /\ \A r \in Registers \ {0} : Applied(regs)[r] = IF r = load.reg THEN load.value ELSE regs[r]
  <1>1. load.reg \in Registers /\ load.value \in Words /\ 0 \in Words /\ 0 \in Registers
    BY RegistersAre, SmallWords DEF LoadsOf
  <1> QED BY <1>1 DEF Applied, RegisterFile

LEMMA NoLoadTyped == NoLoad \in LoadsOf /\ NoLoad.reg = 0 /\ NoLoad.value = 0
  BY RegistersAre, SmallWords DEF NoLoad, LoadsOf

LEMMA TrapTyped ==
  ASSUME TypeOK, Trap
  PROVE  /\ registers' \in RegisterFile /\ registers'[0] = 0
         /\ load' \in LoadsOf /\ registers' = Applied(registers) /\ load' = NoLoad
  <1>1. registers' = Applied(registers) /\ load' = NoLoad
    BY DEF Trap, Trapped
  <1>2. load \in LoadsOf /\ registers \in RegisterFile
    BY DEF TypeOK, LoadsOf, RegisterFile
  <1> QED BY <1>1, <1>2, AppliedIs, NoLoadTyped

LEMMA FetchedIs ==
  ASSUME TypeOK, Fetched
  PROVE  /\ pc \div 4 \in Positions /\ pc \in Nat /\ pc = 4 * (pc \div 4)
         /\ instr = code[pc \div 4] /\ instr \in Instructions
         /\ instr.rs \in Registers /\ instr.rt \in Registers /\ instr.rd \in Registers /\ instr.extra \in Int
         /\ registers[instr.rs] \in Words /\ registers[instr.rt] \in Words
  <1>1. pc \in Nat
    <2>1. pc \in Words
      BY DEF TypeOK
    <2> QED BY <2>1, SignedTyped
  <1>2. pc % 4 = 0 /\ pc \div 4 \in Positions /\ instr = code[pc \div 4]
    BY DEF Fetched, instr
  <1>3. pc = 4 * (pc \div 4)
    BY <1>1, <1>2
  <1>4. code \in [Positions -> Instructions]
    BY ProgramAssumption DEF TypeOK
  <1>5. instr \in Instructions
    BY <1>2, <1>4
  <1>6. instr.rs \in Registers /\ instr.rt \in Registers /\ instr.rd \in Registers /\ instr.extra \in Int
    BY <1>5 DEF Instructions
  <1>7. registers[instr.rs] \in Words /\ registers[instr.rt] \in Words
    BY <1>6 DEF TypeOK
  <1> QED BY <1>1, <1>2, <1>3, <1>5, <1>6, <1>7

(* The registers as an instruction has written them at once. *)
Written == [registers EXCEPT ![Dest(instr)] = Value(instr, registers, hl, npc)]

LEMMA WrittenTyped ==
  ASSUME TypeOK, Fetched
  PROVE  Written \in RegisterFile
  <1>1. instr \in Instructions /\ registers \in RegisterFile /\ hl \in Words \X Words /\ npc \in Words
    BY FetchedIs DEF TypeOK, RegisterFile
  <1>2. Value(instr, registers, hl, npc) \in Words
    BY <1>1, ValueTyped
  <1>3. Dest(instr) \in Registers
    BY <1>1, RegistersAre
  <1> QED BY <1>1, <1>2, <1>3 DEF Written, RegisterFile

(* What Execute does, by name. *)
LEMMA ExecuteIs ==
  ASSUME Execute
  PROVE  /\ on /\ Fetched /\ CodePage \in valid /\ instr.op # "SYSCALL"
         /\ ~Stops(instr, registers) /\ ~HostTraps(instr, registers)
         /\ registers' = Applied(Written)
         /\ load' = IF instr.op \in Loads
                    THEN [reg |-> instr.rt, value |-> Loaded(instr, Merged(instr.rt), registers, mem)]
                    ELSE NoLoad
         /\ hl' = HiLo(instr, registers, hl, Mult(registers[instr.rs], registers[instr.rt], instr.op = "MULT"))
         /\ mem' = IF instr.op \in Stores THEN Stored(instr, registers, mem) ELSE mem
         /\ pc' = npc /\ npc' = PcAfter(instr, Written, npc)
         /\ code' = code /\ valid' = valid /\ on' = on
  BY DEF Execute, Executing, Written

LEMMA ExecuteTyped ==
  ASSUME TypeOK, Execute
  PROVE  TypeOK'
  <1>1. /\ on /\ Fetched /\ ~Stops(instr, registers)
        /\ registers' = Applied(Written)
        /\ load' = IF instr.op \in Loads
                   THEN [reg |-> instr.rt, value |-> Loaded(instr, Merged(instr.rt), registers, mem)]
                   ELSE NoLoad
        /\ hl' = HiLo(instr, registers, hl, Mult(registers[instr.rs], registers[instr.rt], instr.op = "MULT"))
        /\ mem' = IF instr.op \in Stores THEN Stored(instr, registers, mem) ELSE mem
        /\ pc' = npc /\ npc' = PcAfter(instr, Written, npc)
        /\ code' = code /\ valid' = valid /\ on' = on
    BY ExecuteIs, Zenon
  <1>2. /\ registers \in RegisterFile /\ hl \in Words \X Words /\ npc \in Words /\ load \in LoadsOf
        /\ mem \in Memories
    BY DEF TypeOK, RegisterFile, LoadsOf, Memories
  <1>3. instr \in Instructions /\ instr.rt \in Registers
    BY <1>1, FetchedIs
  <1>4. Written \in RegisterFile
    BY <1>1, WrittenTyped
  <1>5. registers' \in RegisterFile /\ registers'[0] = 0
    BY <1>1, <1>2, <1>4, AppliedIs
  <1>6. load' \in LoadsOf
    <2>1. CASE instr.op \in Loads
      <3>1. ~AddressError(instr, registers)
        BY <1>1 DEF Stops
      <3>2. Merged(instr.rt) \in Words
        BY <1>2, <1>3 DEF Merged, RegisterFile, LoadsOf
      <3>3. PICK v \in Words : v = Loaded(instr, Merged(instr.rt), registers, mem)
        BY <1>2, <1>3, <2>1, <3>1, <3>2, LoadedTyped
      <3> QED BY <1>1, <1>3, <2>1, <3>3 DEF LoadsOf
    <2>2. CASE instr.op \notin Loads
      BY <1>1, <2>2, NoLoadTyped
    <2> QED BY <2>1, <2>2
  <1>7. hl' \in Words \X Words
    <2>1. HiLo(instr, registers, hl, Mult(registers[instr.rs], registers[instr.rt], instr.op = "MULT")) \in Words \X Words
      BY <1>2, <1>3, HiLoTyped, Zenon
    <2> QED BY <1>1, <2>1, Zenon
  <1>8. mem' \in Memories
    BY <1>1, <1>2, <1>3, StoredTyped
  <1>9. pc' \in Words /\ npc' \in Words
    BY <1>1, <1>2, <1>3, <1>4, PcAfterTyped
  <1> QED BY <1>1, <1>5, <1>6, <1>7, <1>8, <1>9 DEF TypeOK, RegisterFile, LoadsOf, Memories

LEMMA SyscallTyped ==
  ASSUME TypeOK, Syscall
  PROVE  TypeOK'
  <1>1. load \in LoadsOf /\ registers \in RegisterFile
    BY DEF TypeOK, RegisterFile, LoadsOf
  <1>2. PICK a : a = Applied(registers) /\ a \in RegisterFile /\ a[0] = 0
    BY <1>1, AppliedIs
  <1>3. registers' \in RegisterFile /\ registers'[0] = 0
    <2>1. registers' = a \/ \E r \in Results : registers' = [a EXCEPT ![R2] = r]
      BY <1>2 DEF Syscall, Trapped
    <2>2. CASE registers' = a
      BY <1>2, <2>2
    <2>3. ASSUME NEW r \in Results, registers' = [a EXCEPT ![R2] = r]
          PROVE  registers' \in RegisterFile /\ registers'[0] = 0
      <3>1. r \in Words
        BY ProgramAssumption
      <3> QED BY <1>2, <2>3, <3>1, RegistersAre DEF RegisterFile
    <2> QED BY <2>1, <2>2, <2>3
  <1>4. load' \in LoadsOf
    BY NoLoadTyped DEF Syscall, Trapped
  <1>5. pc' \in Words /\ npc' \in Words
    <2>1. pc + 4 \in Int /\ npc + 4 \in Int
      <3>1. pc \in Words /\ npc \in Words
        BY DEF TypeOK
      <3> QED BY <3>1, SignedTyped
    <2> QED BY <2>1, WordTyped DEF Syscall
  <1> QED BY <1>3, <1>4, <1>5 DEF TypeOK, Syscall, RegisterFile, LoadsOf

LEMMA TypeNext ==
  ASSUME TypeOK, [Next]_vars
  PROVE  TypeOK'
  <1>1. ASSUME Stop PROVE TypeOK'
    BY <1>1, TrapTyped DEF Stop, TypeOK, RegisterFile, LoadsOf
  <1>2. ASSUME NEW p \in {CodePage, DataPage}, PageFault(p) PROVE TypeOK'
    BY <1>2, TrapTyped DEF PageFault, TypeOK, RegisterFile, LoadsOf
  <1>3. CASE Fetch
    BY <1>1, <1>2, <1>3 DEF Fetch
  <1>4. CASE Exception
    BY <1>1, <1>4 DEF Exception
  <1>5. CASE DataFault
    BY <1>2, <1>5 DEF DataFault
  <1>6. CASE Syscall
    BY <1>6, SyscallTyped
  <1>7. CASE Execute
    BY <1>7, ExecuteTyped
  <1>8. CASE Switch
    BY <1>8, TrapTyped DEF Switch, TypeOK, RegisterFile, LoadsOf
  <1>9. CASE HostTrap
    BY <1>9 DEF HostTrap, TypeOK
  <1>10. CASE UNCHANGED vars
    BY <1>10 DEF vars, TypeOK
  <1> QED BY <1>3, <1>4, <1>5, <1>6, <1>7, <1>8, <1>9, <1>10 DEF Next

LEMMA TypeInit == Init => TypeOK
  <1> SUFFICES ASSUME Init PROVE TypeOK
    OBVIOUS
  <1>1. code \in Programs /\ registers \in [Registers -> Words] /\ registers[0] = 0
        /\ mem \in [Addresses -> 0..(ByteSize - 1)]
    BY ProgramAssumption DEF Init
  <1>2. load \in [reg : Registers, value : Words]
    BY NoLoadTyped DEF Init, LoadsOf
  <1>3. hl \in Words \X Words /\ pc \in Words /\ npc \in Words /\ valid \subseteq Pages /\ on \in BOOLEAN
    BY SmallWords DEF Init
  <1> QED BY <1>1, <1>2, <1>3 DEF TypeOK

(* The registers, the counters, hi and lo hold words at all times, memory  *)
(* holds bytes, R0 is zero and no register outside the file is written:    *)
(* whatever instructions compute, loads bring and the kernel returns.      *)
THEOREM TypeCorrect == Spec => []TypeOK
  <1>1. TypeOK /\ [Next]_vars => TypeOK'
    BY TypeNext
  <1> QED BY <1>1, TypeInit, PTL DEF Spec

-----------------------------------------------------------------------------
(* The abstract machine works by the same tables.                          *)

LEMMA SameWords ==
  /\ ISA!Registers = Registers /\ ISA!Words = Words /\ ISA!Positions = Positions /\ ISA!Addresses = Addresses
  /\ ISA!R2 = R2 /\ ISA!ByteSize = ByteSize
  /\ \A w : ISA!Word(w) = Word(w)
  BY DEF ISA!Registers, Registers, ISA!Words, Words, ISA!Positions, Positions, ISA!Addresses, Addresses,
         ISA!R2, R2, ISA!ByteSize, ByteSize, ISA!Word, Word

LEMMA SameForms ==
  ISA!Loads = Loads /\ ISA!Stores = Stores
  BY DEF ISA!Loads, Loads, ISA!Stores, Stores

LEMMA SameDest == \A i : ISA!Dest(i) = Dest(i)
  BY DEF ISA!Dest, Dest, ISA!RegisterForm, RegisterForm, ISA!ImmediateForm, ImmediateForm,
         ISA!Links, Links, ISA!R31, R31

LEMMA SameReads == \A i : ISA!Reads(i) = Reads(i)
  BY DEF ISA!Reads, Reads, ISA!ImmediateForm, ImmediateForm, ISA!Loads, Loads, ISA!Conditional, Conditional

LEMMA SameValue == \A i, reg, c, n : ISA!Value(i, reg, c, n) = Value(i, reg, c, n)
  BY DEF ISA!Value, Value, ISA!Word, Word, ISA!Signed, Signed, ISA!Negative, Negative, ISA!Links, Links

LEMMA SameAddress ==
  /\ \A i, reg : ISA!Address(i, reg) = Address(i, reg)
  /\ \A i : ISA!Size(i) = Size(i)
  BY DEF ISA!Address, Address, ISA!Word, Word, ISA!Size, Size

LEMMA SameStops == \A i, reg : ISA!Stops(i, reg) <=> Stops(i, reg)
  BY DEF ISA!Stops, Stops, ISA!Overflows, Overflows, ISA!AddressError, AddressError, ISA!Address, Address,
         ISA!Size, Size, ISA!Word, Word, ISA!Negative, Negative, ISA!Loads, Loads, ISA!Stores, Stores,
         ISA!Addresses, Addresses

LEMMA SameHostTraps == \A i, reg : ISA!HostTraps(i, reg) <=> HostTraps(i, reg)
  BY DEF ISA!HostTraps, HostTraps, ISA!Signed, Signed, ISA!Negative, Negative
LEMMA SameLoaded == \A i, old, reg, m : ISA!Loaded(i, old, reg, m) = Loaded(i, old, reg, m)
  BY DEF ISA!Loaded, Loaded, ISA!ReadMem, ReadMem, ISA!Address, Address, ISA!Size, Size, ISA!Word, Word,
         ISA!Bytes, Bytes, ISA!ByteSize, ByteSize

LEMMA SameStored == \A i, reg, m : ISA!Stored(i, reg, m) = Stored(i, reg, m)
  BY DEF ISA!Stored, Stored, ISA!Address, Address, ISA!Size, Size, ISA!Word, Word,
         ISA!Bytes, Bytes, ISA!ByteSize, ByteSize, ISA!Addresses, Addresses

LEMMA SameHiLo == \A i, reg, c, p : ISA!HiLo(i, reg, c, p) = HiLo(i, reg, c, p)
  BY DEF ISA!HiLo, HiLo, ISA!Divided, Divided, ISA!Word, Word, ISA!Signed, Signed, ISA!Negative, Negative

LEMMA SamePcAfter == \A i, reg, n : ISA!PcAfter(i, reg, n) = PcAfter(i, reg, n)
  BY DEF ISA!PcAfter, PcAfter, ISA!Taken, Taken, ISA!Word, Word, ISA!Signed, Signed, ISA!Negative, Negative

LEMMA SameWellFormed == \A c : ISA!WellFormed(c) <=> WellFormed(c)
  BY SameReads, SameDest
     DEF ISA!WellFormed, WellFormed, ISA!Positions, Positions, ISA!Branches, Branches,
         ISA!Conditional, Conditional, ISA!Jumps, Jumps, ISA!Loads, Loads, ISA!Registers, Registers,
         ISA!After, After, ISA!Targets, Targets, ISA!Word, Word

-----------------------------------------------------------------------------
(* An instruction sees no registers but those it reads.                    *)

Agree(i, reg1, reg2) == \A r \in Reads(i) : reg1[r] = reg2[r]

LEMMA ReadsAre ==
  ASSUME NEW i \in Instructions
  PROVE  /\ i.op \in {"ADD", "ADDU", "SUB", "SUBU", "SLT", "SLTU", "SLLV", "SRAV", "SRLV", "SB", "SH", "SW", "SWL", "SWR",
                      "MULT", "MULTU", "DIV", "DIVU", "BEQ", "BNE"} => i.rs \in Reads(i) /\ i.rt \in Reads(i)
         /\ i.op \in {"ADDI", "ADDIU", "SLTI", "SLTIU", "LB", "LBU", "LH", "LHU", "LW", "LWL", "LWR", "JR", "JALR", "MTHI",
                      "MTLO", "BGEZ", "BGEZAL", "BGTZ", "BLEZ", "BLTZ", "BLTZAL"} => i.rs \in Reads(i)
         /\ i.op \in {"SLL", "SRA", "SRL"} => i.rt \in Reads(i)
         /\ Reads(i) \subseteq {i.rs, i.rt}
  BY DEF Reads, ImmediateForm, Loads, Conditional

LEMMA AgreeOnValue ==
  ASSUME NEW i \in Instructions, NEW reg1, NEW reg2, Agree(i, reg1, reg2), NEW c, NEW n
  PROVE  Value(i, reg1, c, n) = Value(i, reg2, c, n)
  <1>1. CASE i.op \in {"ADD", "ADDU", "SUB", "SUBU", "SLT", "SLTU", "SLLV", "SRAV", "SRLV"}
    <2>1. reg1[i.rs] = reg2[i.rs] /\ reg1[i.rt] = reg2[i.rt]
      BY <1>1, ReadsAre DEF Agree
    <2> QED BY <2>1, Zenon DEF Value
  <1>2. CASE i.op \in {"ADDI", "ADDIU", "SLTI", "SLTIU"}
    <2>1. reg1[i.rs] = reg2[i.rs]
      BY <1>2, ReadsAre DEF Agree
    <2> QED BY <1>2, <2>1 DEF Value, Links
  <1>3. CASE i.op \in {"SLL", "SRA", "SRL"}
    <2>1. reg1[i.rt] = reg2[i.rt]
      BY <1>3, ReadsAre DEF Agree
    <2> QED BY <1>3, <2>1 DEF Value, Links
  <1>4. CASE i.op \notin {"ADD", "ADDU", "SUB", "SUBU", "SLT", "SLTU", "SLLV", "SRAV", "SRLV",
                          "ADDI", "ADDIU", "SLTI", "SLTIU", "SLL", "SRA", "SRL"}
    BY <1>4 DEF Value, Links
  <1> QED BY <1>1, <1>2, <1>3, <1>4

LEMMA AgreeOnAddress ==
  ASSUME NEW i \in Instructions, NEW reg1, NEW reg2, Agree(i, reg1, reg2), i.op \in Loads \cup Stores
  PROVE  Address(i, reg1) = Address(i, reg2) /\ (AddressError(i, reg1) <=> AddressError(i, reg2))
  <1>1. reg1[i.rs] = reg2[i.rs]
    BY ReadsAre DEF Agree, Loads, Stores
  <1>2. Address(i, reg1) = Address(i, reg2)
    BY <1>1 DEF Address
  <1> QED BY <1>2 DEF AddressError

LEMMA AgreeOnStops ==
  ASSUME NEW i \in Instructions, NEW reg1, NEW reg2, Agree(i, reg1, reg2)
  PROVE  Stops(i, reg1) <=> Stops(i, reg2)
  <1>1. Overflows(i, reg1) <=> Overflows(i, reg2)
    <2>1. CASE i.op \in {"ADD", "SUB"}
      <3>1. reg1[i.rs] = reg2[i.rs] /\ reg1[i.rt] = reg2[i.rt]
        BY <2>1, ReadsAre DEF Agree
      <3> QED BY <3>1, Zenon DEF Overflows
    <2>2. CASE i.op = "ADDI"
      <3>1. reg1[i.rs] = reg2[i.rs]
        BY <2>2, ReadsAre DEF Agree
      <3> QED BY <2>2, <3>1 DEF Overflows
    <2>3. CASE i.op \notin {"ADD", "SUB", "ADDI"}
      BY <2>3 DEF Overflows
    <2> QED BY <2>1, <2>2, <2>3
  <1>2. AddressError(i, reg1) <=> AddressError(i, reg2)
    <2>1. CASE i.op \in Loads \cup Stores
      BY <2>1, AgreeOnAddress
    <2>2. CASE i.op \notin Loads \cup Stores
      BY <2>2 DEF AddressError
    <2> QED BY <2>1, <2>2
  <1> QED BY <1>1, <1>2 DEF Stops

LEMMA AgreeOnHostTraps ==
  ASSUME NEW i \in Instructions, NEW reg1, NEW reg2, Agree(i, reg1, reg2)
  PROVE  HostTraps(i, reg1) <=> HostTraps(i, reg2)
  <1>1. CASE i.op = "DIV"
    <2>1. reg1[i.rs] = reg2[i.rs] /\ reg1[i.rt] = reg2[i.rt]
      BY <1>1, ReadsAre DEF Agree
    <2> QED BY <2>1, Zenon DEF HostTraps
  <1>2. CASE i.op # "DIV"
    BY <1>2 DEF HostTraps
  <1> QED BY <1>1, <1>2

LEMMA AgreeOnLoaded ==
  ASSUME NEW i \in Instructions, NEW reg1, NEW reg2, Agree(i, reg1, reg2), i.op \in Loads, NEW old, NEW m
  PROVE  Loaded(i, old, reg1, m) = Loaded(i, old, reg2, m)
  <1>1. Address(i, reg1) = Address(i, reg2)
    BY AgreeOnAddress
  <1> QED BY <1>1, Zenon DEF Loaded

LEMMA AgreeOnStored ==
  ASSUME NEW i \in Instructions, NEW reg1, NEW reg2, Agree(i, reg1, reg2), i.op \in Stores, NEW m
  PROVE  Stored(i, reg1, m) = Stored(i, reg2, m)
  <1>1. Address(i, reg1) = Address(i, reg2)
    BY AgreeOnAddress
  <1>2. reg1[i.rt] = reg2[i.rt]
    BY ReadsAre DEF Agree, Stores
  <1> QED BY <1>1, <1>2, Zenon DEF Stored

LEMMA AgreeOnHiLo ==
  ASSUME NEW i \in Instructions, NEW reg1, NEW reg2, Agree(i, reg1, reg2), NEW c, NEW p1, NEW p2,
         i.op \in {"MULT", "MULTU"} => p1 = p2
  PROVE  HiLo(i, reg1, c, p1) = HiLo(i, reg2, c, p2)
  <1>1. CASE i.op \in {"MULT", "MULTU"}
    BY <1>1 DEF HiLo
  <1>2. CASE i.op \in {"DIV", "DIVU"}
    <2>1. reg1[i.rs] = reg2[i.rs] /\ reg1[i.rt] = reg2[i.rt]
      BY <1>2, ReadsAre DEF Agree
    <2>2. HiLo(i, reg1, c, p1) = Divided(reg1[i.rs], reg1[i.rt], i.op = "DIV")
      BY <1>2 DEF HiLo
    <2>3. HiLo(i, reg2, c, p2) = Divided(reg2[i.rs], reg2[i.rt], i.op = "DIV")
      BY <1>2 DEF HiLo
    <2> QED BY <2>1, <2>2, <2>3, Zenon
  <1>3. CASE i.op \in {"MTHI", "MTLO"}
    <2>1. reg1[i.rs] = reg2[i.rs]
      BY <1>3, ReadsAre DEF Agree
    <2> QED BY <1>3, <2>1 DEF HiLo
  <1>4. CASE i.op \notin {"MULT", "MULTU", "DIV", "DIVU", "MTHI", "MTLO"}
    BY <1>4 DEF HiLo
  <1> QED BY <1>1, <1>2, <1>3, <1>4

LEMMA AgreeOnPcAfter ==
  ASSUME NEW i \in Instructions, NEW reg1, NEW reg2, Agree(i, reg1, reg2), NEW n
  PROVE  PcAfter(i, reg1, n) = PcAfter(i, reg2, n)
  <1>1. Taken(i, reg1) <=> Taken(i, reg2)
    <2>1. CASE i.op \in {"BEQ", "BNE"}
      <3>1. reg1[i.rs] = reg2[i.rs] /\ reg1[i.rt] = reg2[i.rt]
        BY <2>1, ReadsAre DEF Agree
      <3> QED BY <3>1, Zenon DEF Taken
    <2>2. CASE i.op \in {"BGEZ", "BGEZAL", "BGTZ", "BLEZ", "BLTZ", "BLTZAL"}
      <3>1. reg1[i.rs] = reg2[i.rs]
        BY <2>2, ReadsAre DEF Agree
      <3> QED BY <2>2, <3>1 DEF Taken
    <2>3. CASE i.op \notin {"BEQ", "BNE", "BGEZ", "BGEZAL", "BGTZ", "BLEZ", "BLTZ", "BLTZAL"}
      BY <2>3 DEF Taken
    <2> QED BY <2>1, <2>2, <2>3
  <1>2. i.op \in {"JR", "JALR"} => reg1[i.rs] = reg2[i.rs]
    BY ReadsAre DEF Agree
  <1>3. CASE Taken(i, reg1)
    <2>1. i.op \in {"BEQ", "BNE", "BGEZ", "BGEZAL", "BGTZ", "BLEZ", "BLTZ", "BLTZAL"}
      BY <1>3 DEF Taken
    <2> QED BY <1>1, <1>3, <2>1 DEF PcAfter
  <1>4. CASE ~Taken(i, reg1)
    BY <1>1, <1>2, <1>4 DEF PcAfter
  <1> QED BY <1>3, <1>4

-----------------------------------------------------------------------------
(* The delay slots.  A program goes on with the next instruction, but for  *)
(* the one after a branch, and no branch is there; a load in progress does *)
(* not concern the instruction that is next.                               *)

DelaySlot ==
  \/ npc = Word(pc + 4)
  \/ \E b \in Positions : /\ code[b].op \in Branches /\ pc = 4 * (b + 1)
                          /\ npc % 4 = 0 /\ npc \div 4 \in Positions => npc \div 4 \in Targets(code, b)

LoadDelay == Fetched /\ load.reg # 0 => load.reg \notin Reads(instr) \cup {Dest(instr)}

Inv == TypeOK /\ DelaySlot /\ LoadDelay

(* The positions of a program fit into a word. *)
LEMMA CodeFits ==
  ASSUME NEW k \in Positions
  PROVE  k \in Nat /\ 4 * (k + 1) \in Words /\ Word(4 * k + 4) = 4 * (k + 1)
         /\ (4 * (k + 1)) % 4 = 0 /\ (4 * (k + 1)) \div 4 = k + 1
  <1>1. M \in Nat /\ Words = 0..(M - 1)
    BY WordSize, WordsAre
  <1>2. CodeSize \in Nat /\ 4 * CodeSize < M
    BY SizeAssumption DEF M
  <1>3. k \in Nat /\ k < CodeSize
    BY <1>2 DEF Positions
  <1>4. 4 * (k + 1) \in Words /\ 4 * k + 4 = M * 0 + 4 * (k + 1)
    BY <1>1, <1>2, <1>3
  <1>5. Word(M * 0 + 4 * (k + 1)) = 4 * (k + 1)
    BY <1>4, WordOf
  <1> QED BY <1>3, <1>4, <1>5

(* No branch and no system call is executed in the slot of a branch. *)
LEMMA NotInSlot ==
  ASSUME TypeOK, DelaySlot, Fetched, instr.op \in Branches \cup {"SYSCALL"}
  PROVE  npc = Word(pc + 4) /\ npc = pc + 4
  <1>1. PICK k \in Positions : k = pc \div 4 /\ pc = 4 * k /\ instr = code[k]
    BY FetchedIs
  <1>2. WellFormed(code)
    BY ProgramAssumption DEF TypeOK
  <1>3. ASSUME NEW b \in Positions, code[b].op \in Branches, pc = 4 * (b + 1) PROVE FALSE
    <2>1. k = b + 1
      BY <1>1, <1>3, CodeFits
    <2> QED BY <1>1, <1>2, <1>3, <2>1 DEF WellFormed
  <1>4. npc = Word(pc + 4)
    BY <1>3 DEF DelaySlot
  <1> QED BY <1>1, <1>4, CodeFits

LEMMA DelaySlotNext ==
  ASSUME TypeOK, DelaySlot, Execute
  PROVE  DelaySlot'
  <1>1. Fetched /\ pc' = npc /\ npc' = PcAfter(instr, Written, npc) /\ code' = code
    BY ExecuteIs, Zenon
  <1>2. PICK k \in Positions : k = pc \div 4 /\ pc = 4 * k /\ instr = code[k] /\ k \in Nat
    BY <1>1, FetchedIs, CodeFits
  <1>3. npc' = Word(npc + 4) => DelaySlot'
    BY <1>1 DEF DelaySlot
  <1>4. CASE instr.op \notin Branches
    <2>1. ~Taken(instr, Written)
      BY <1>4 DEF Taken, Branches, Conditional
    <2>2. PcAfter(instr, Written, npc) = Word(npc + 4)
      BY <1>4, <2>1 DEF PcAfter, Branches, Jumps
    <2> QED BY <1>1, <1>3, <2>2
  <1>5. CASE instr.op \in Branches
    <2>1. npc = 4 * (k + 1)
      BY <1>1, <1>2, <1>5, NotInSlot
    <2>2. instr.extra \in Int
      BY <1>1, FetchedIs
    <2>3. PICK n : n = npc'
      OBVIOUS
    <2>4. (n % 4 = 0 /\ n \div 4 \in Positions => n \div 4 \in Targets(code, k)) => DelaySlot'
      <3>1. pc' = 4 * (k + 1) /\ code'[k].op \in Branches
        BY <1>1, <1>2, <1>5, <2>1
      <3>2. (n % 4 = 0 /\ n \div 4 \in Positions => n \div 4 \in Targets(code, k))
            => \E b \in Positions : /\ code'[b].op \in Branches /\ pc' = 4 * (b + 1)
                                    /\ npc' % 4 = 0 /\ npc' \div 4 \in Positions => npc' \div 4 \in Targets(code', b)
        BY <1>1, <2>3, <3>1
      <3> QED BY <3>2 DEF DelaySlot
    <2>5. CASE Taken(instr, Written)
      <3>1. instr.op \in Conditional
        BY <2>5 DEF Taken, Conditional
      <3>2. n = Word(npc + 4 * instr.extra)
        BY <1>1, <2>3, <2>5, <3>1 DEF PcAfter, Conditional
      <3>3. PICK e \in Int : e = instr.extra
        BY <2>2
      <3>4. npc + 4 * e = 4 * (k + 1 + e)
        BY <1>2, <2>1
      <3>5. n = Word(4 * (k + 1 + code[k].extra))
        BY <1>2, <3>2, <3>3, <3>4
      <3>6. Targets(code, k) = {Word(4 * (k + 1 + code[k].extra)) \div 4}
        BY <1>2, <3>1 DEF Targets, Conditional
      <3> QED BY <2>4, <3>5, <3>6
    <2>6. CASE ~Taken(instr, Written) /\ instr.op \in Conditional
      <3>1. PcAfter(instr, Written, npc) = Word(npc + 4)
        BY <2>6 DEF PcAfter, Conditional
      <3> QED BY <1>1, <1>3, <3>1
    <2>7. CASE instr.op \in {"J", "JAL"}
      <3>1. n = Word(4 * instr.extra)
        <4>1. ~Taken(instr, Written)
          BY <2>7 DEF Taken
        <4> QED BY <1>1, <2>3, <2>7, <4>1 DEF PcAfter
      <3>2. Targets(code, k) = {n \div 4}
        BY <1>2, <2>7, <3>1 DEF Targets, Conditional
      <3> QED BY <2>4, <3>2
    <2>8. CASE instr.op \in {"JR", "JALR"}
      <3>1. Targets(code, k) = Positions
        BY <1>2, <2>8 DEF Targets, Conditional
      <3> QED BY <2>4, <3>1
    <2> QED BY <1>5, <2>5, <2>6, <2>7, <2>8 DEF Branches, Jumps
  <1> QED BY <1>4, <1>5

(* Where the next instruction is. *)
LEMMA NextIsAfter ==
  ASSUME TypeOK, DelaySlot, Fetched, npc % 4 = 0, npc \div 4 \in Positions
  PROVE  npc \div 4 \in After(code, pc \div 4)
  <1>1. PICK k \in Positions : k = pc \div 4 /\ pc = 4 * k /\ k \in Nat
    BY FetchedIs, CodeFits
  <1>2. CASE npc = Word(pc + 4)
    <2>1. npc \div 4 = k + 1
      BY <1>1, <1>2, CodeFits
    <2> QED BY <1>1, <2>1 DEF After
  <1>3. CASE \E b \in Positions : pc = 4 * (b + 1) /\ npc \div 4 \in Targets(code, b)
    <2>1. PICK b \in Positions : pc = 4 * (b + 1) /\ npc \div 4 \in Targets(code, b)
      BY <1>3
    <2>2. k = b + 1 /\ k # 0 /\ k - 1 = b
      BY <1>1, <2>1, CodeFits
    <2> QED BY <1>1, <2>1, <2>2 DEF After
  <1> QED BY <1>2, <1>3 DEF DelaySlot

LEMMA LoadDelayNext ==
  ASSUME TypeOK, DelaySlot, Execute
  PROVE  LoadDelay'
  <1>1. /\ Fetched /\ pc' = npc /\ code' = code
        /\ load' = IF instr.op \in Loads
                   THEN [reg |-> instr.rt, value |-> Loaded(instr, Merged(instr.rt), registers, mem)]
                   ELSE NoLoad
    BY ExecuteIs, Zenon
  <1>2. CASE instr.op \notin Loads
    BY <1>1, <1>2, NoLoadTyped DEF LoadDelay
  <1>3. CASE instr.op \in Loads
    <2>1. SUFFICES ASSUME npc % 4 = 0, npc \div 4 \in Positions, instr.rt # 0
                   PROVE  instr.rt \notin Reads(code[npc \div 4]) \cup {Dest(code[npc \div 4])}
      <3>1. load'.reg = instr.rt
        BY <1>1, <1>3
      <3>2. Fetched' <=> (npc % 4 = 0 /\ npc \div 4 \in Positions)
        BY <1>1 DEF Fetched
      <3>3. instr' = code[npc \div 4]
        BY <1>1 DEF instr
      <3> QED BY <3>1, <3>2, <3>3 DEF LoadDelay
    <2>2. PICK k \in Positions : k = pc \div 4 /\ instr = code[k]
      BY <1>1, FetchedIs
    <2>3. npc \div 4 \in After(code, k) \cap Positions
      BY <1>1, <2>1, <2>2, NextIsAfter
    <2>4. WellFormed(code)
      BY ProgramAssumption DEF TypeOK
    <2>5. instr.rt \in {0} \cup (Registers \ (Reads(code[npc \div 4]) \cup {Dest(code[npc \div 4])}))
      BY <1>3, <2>2, <2>3, <2>4 DEF WellFormed
    <2> QED BY <2>1, <2>5
  <1> QED BY <1>2, <1>3

LEMMA InvNext ==
  ASSUME Inv, [Next]_vars
  PROVE  Inv'
  <1>1. TypeOK /\ DelaySlot /\ LoadDelay /\ TypeOK'
    BY TypeNext DEF Inv
  <1>2. ASSUME UNCHANGED <<code, pc, npc>>, load' = NoLoad PROVE DelaySlot' /\ LoadDelay'
    BY <1>1, <1>2, NoLoadTyped DEF DelaySlot, LoadDelay
  <1>3. ASSUME Stop PROVE DelaySlot' /\ LoadDelay'
    BY <1>1, <1>2, <1>3, TrapTyped DEF Stop
  <1>4. ASSUME NEW p \in {CodePage, DataPage}, PageFault(p) PROVE DelaySlot' /\ LoadDelay'
    BY <1>1, <1>2, <1>4, TrapTyped DEF PageFault
  <1>5. CASE Fetch
    BY <1>1, <1>3, <1>4, <1>5 DEF Fetch, Inv
  <1>6. CASE Exception
    BY <1>1, <1>3, <1>6 DEF Exception, Inv
  <1>7. CASE DataFault
    BY <1>1, <1>4, <1>7 DEF DataFault, Inv
  <1>8. CASE Syscall
    <2>1. Fetched /\ instr.op = "SYSCALL" /\ load' = NoLoad /\ pc' = Word(pc + 4) /\ npc' = Word(npc + 4)
      BY <1>8 DEF Syscall, Executing, Trapped
    <2>2. npc = Word(pc + 4)
      BY <1>1, <2>1, NotInSlot
    <2>3. DelaySlot'
      BY <2>1, <2>2 DEF DelaySlot
    <2>4. LoadDelay'
      BY <2>1, NoLoadTyped DEF LoadDelay
    <2> QED BY <1>1, <2>3, <2>4 DEF Inv
  <1>9. CASE Execute
    BY <1>1, <1>9, DelaySlotNext, LoadDelayNext DEF Inv
  <1>10. CASE Switch
    <2>1. DelaySlot' /\ LoadDelay'
      BY <1>1, <1>2, <1>10, TrapTyped DEF Switch
    <2> QED BY <1>1, <2>1 DEF Inv
  <1>11. CASE HostTrap \/ UNCHANGED vars
    <2>1. UNCHANGED <<code, registers, load, pc, npc>>
      BY <1>11 DEF HostTrap, vars
    <2>2. DelaySlot' /\ LoadDelay'
      BY <1>1, <2>1 DEF DelaySlot, LoadDelay, Fetched, instr
    <2> QED BY <1>1, <2>2 DEF Inv
  <1> QED BY <1>5, <1>6, <1>7, <1>8, <1>9, <1>10, <1>11 DEF Next

LEMMA InvInit == Init => Inv
  <1> SUFFICES ASSUME Init PROVE Inv
    OBVIOUS
  <1>1. pc = 0 /\ npc = 4 /\ load = NoLoad
    BY DEF Init
  <1>2. Word(0 + 4) = 4
    <2>1. 4 \in Words /\ M * 0 + 4 = 4 /\ 0 + 4 = 4
      BY SmallWords, WordSize
    <2>2. Word(M * 0 + 4) = 4
      BY <2>1, WordOf
    <2> QED BY <2>1, <2>2
  <1>3. DelaySlot
    BY <1>1, <1>2 DEF DelaySlot
  <1>4. LoadDelay
    BY <1>1, NoLoadTyped DEF LoadDelay
  <1> QED BY <1>3, <1>4, TypeInit DEF Inv

LEMMA SpecInv == Spec => []Inv
  <1>1. Inv /\ [Next]_vars => Inv'
    BY InvNext
  <1> QED BY <1>1, InvInit, PTL DEF Spec

-----------------------------------------------------------------------------
(* Each step as the abstract machine sees it.                              *)

LEMMA SeenIs ==
  ASSUME TypeOK
  PROVE  /\ Seen \in RegisterFile /\ Seen[0] = 0
         /\ \A r \in Registers \ {0} : Seen[r] = IF r = load.reg THEN load.value ELSE registers[r]
  <1>1. load.value \in Words /\ registers \in RegisterFile /\ 0 \in Words /\ 0 \in Registers
    BY RegistersAre, SmallWords DEF TypeOK, RegisterFile
  <1> QED BY <1>1 DEF Seen, RegisterFile

(* The instruction that is next reads what the abstract machine has. *)
LEMMA SeenByInstr ==
  ASSUME TypeOK, LoadDelay, Fetched
  PROVE  Agree(instr, registers, Seen)
  <1>1. instr \in Instructions /\ instr.rs \in Registers /\ instr.rt \in Registers
    BY FetchedIs
  <1>2. Reads(instr) \subseteq Registers
    BY <1>1, ReadsAre
  <1>3. ASSUME NEW r \in Reads(instr) PROVE registers[r] = Seen[r]
    <2>1. CASE r = 0
      BY <2>1, SeenIs DEF TypeOK
    <2>2. CASE r # 0
      <3>1. r # load.reg
        BY <2>2 DEF LoadDelay
      <3> QED BY <1>2, <2>2, <3>1, SeenIs
    <2> QED BY <2>1, <2>2
  <1> QED BY <1>3 DEF Agree

LEMMA SeenNext ==
  ASSUME TypeOK'
  PROVE  /\ Seen' \in RegisterFile /\ Seen'[0] = 0
         /\ \A r \in Registers \ {0} : Seen'[r] = IF r = load'.reg THEN load'.value ELSE registers'[r]
  <1>1. load'.value \in Words /\ registers' \in RegisterFile /\ 0 \in Words /\ 0 \in Registers
    BY RegistersAre, SmallWords DEF TypeOK, RegisterFile
  <1> QED BY <1>1 DEF Seen, RegisterFile

LEMMA SameRegisters ==
  ASSUME NEW f \in RegisterFile, NEW g \in RegisterFile, \A r \in Registers : f[r] = g[r]
  PROVE  f = g
  BY DEF RegisterFile

(* The load in progress was seen before it arrived. *)
LEMMA TrapUnseen ==
  ASSUME TypeOK, TypeOK', Trap
  PROVE  Seen' = Seen
  <1>1. registers' = Applied(registers) /\ load' = NoLoad
    BY TrapTyped
  <1>2. load \in LoadsOf /\ registers \in RegisterFile
    BY DEF TypeOK, LoadsOf, RegisterFile
  <1>3. ASSUME NEW r \in Registers PROVE Seen'[r] = Seen[r]
    <2>1. CASE r = 0
      BY <2>1, SeenIs, SeenNext
    <2>2. CASE r # 0
      <3>1. Seen'[r] = registers'[r]
        BY <1>1, <2>2, SeenNext, NoLoadTyped
      <3> QED BY <1>1, <1>2, <2>2, <3>1, SeenIs, AppliedIs
    <2> QED BY <2>1, <2>2
  <1> QED BY <1>3, SeenIs, SeenNext, SameRegisters

LEMMA StopMaps ==
  ASSUME TypeOK, TypeOK', LoadDelay, Stop, on, ~Fetched \/ Stops(instr, registers)
  PROVE  ISA!Stop
  <1>1. ISA!Fetched <=> Fetched
    BY SameWords DEF ISA!Fetched, Fetched
  <1>2. ISA!instr = instr
    BY DEF ISA!instr, instr
  <1>3. Fetched => (ISA!Stops(instr, Seen) <=> Stops(instr, registers))
    BY FetchedIs, SeenByInstr, AgreeOnStops, SameStops
  <1>4. ISA!Ends
    BY <1>1, <1>2, <1>3 DEF ISA!Ends
  <1>5. Seen' = Seen
    BY TrapUnseen DEF Stop
  <1> QED BY <1>4, <1>5 DEF Stop, ISA!Stop

LEMMA FaultMaps ==
  ASSUME TypeOK, TypeOK', NEW p, PageFault(p)
  PROVE  UNCHANGED ISA!vars
  <1>1. Seen' = Seen
    BY TrapUnseen DEF PageFault
  <1> QED BY <1>1 DEF PageFault, ISA!vars

LEMMA NotEnds ==
  ASSUME TypeOK, LoadDelay, Fetched, ~Stops(instr, registers), ~HostTraps(instr, registers)
  PROVE  ~ISA!Ends /\ ISA!instr = instr
  <1>1. ISA!Fetched
    BY SameWords DEF ISA!Fetched, Fetched
  <1>2. ISA!instr = instr
    BY DEF ISA!instr, instr
  <1>3. ~ISA!Stops(instr, Seen)
    BY FetchedIs, SeenByInstr, AgreeOnStops, SameStops
  <1>4. ~ISA!HostTraps(instr, Seen)
    BY FetchedIs, SeenByInstr, AgreeOnHostTraps, SameHostTraps
  <1> QED BY <1>1, <1>2, <1>3, <1>4 DEF ISA!Ends

(* A division that traps ends the abstract machine too. *)
LEMMA HostTrapMaps ==
  ASSUME TypeOK, LoadDelay, HostTrap
  PROVE  ISA!Stop
  <1>1. on /\ Fetched /\ HostTraps(instr, registers)
    BY DEF HostTrap, Executing
  <1>2. ISA!instr = instr
    BY DEF ISA!instr, instr
  <1>3. ISA!HostTraps(instr, Seen)
    BY <1>1, FetchedIs, SeenByInstr, AgreeOnHostTraps, SameHostTraps
  <1>4. ISA!Ends
    BY <1>2, <1>3 DEF ISA!Ends
  <1>5. UNCHANGED <<code, registers, hl, load, pc, npc, mem>> /\ on' = FALSE
    BY DEF HostTrap
  <1>6. Seen' = Seen
    BY <1>5 DEF Seen
  <1> QED BY <1>1, <1>4, <1>5, <1>6 DEF ISA!Stop

LEMMA SyscallMaps ==
  ASSUME Inv, TypeOK', Syscall
  PROVE  ISA!Syscall
  <1>1. TypeOK /\ DelaySlot /\ LoadDelay
    BY DEF Inv
  <1>2. /\ on /\ Fetched /\ instr.op = "SYSCALL" /\ load' = NoLoad
        /\ registers' = Applied(registers) \/ \E r \in Results : registers' = [Applied(registers) EXCEPT ![R2] = r]
        /\ pc' = Word(pc + 4) /\ npc' = Word(npc + 4) /\ code' = code /\ hl' = hl /\ mem' = mem /\ on' = on
    BY DEF Syscall, Executing, Trapped
  <1>3. ~Stops(instr, registers) /\ ~HostTraps(instr, registers)
    BY <1>2 DEF Stops, Overflows, AddressError, Loads, Stores, HostTraps
  <1>4. ~ISA!Ends /\ ISA!instr = instr
    BY <1>1, <1>2, <1>3, NotEnds
  <1>5. npc = Word(pc + 4)
    BY <1>1, <1>2, NotInSlot
  <1>6. PICK a : a = Applied(registers)
    OBVIOUS
  <1>7. a \in RegisterFile /\ \A r \in Registers \ {0} : a[r] = Seen[r]
    <2>1. load \in LoadsOf /\ registers \in RegisterFile
      BY <1>1 DEF TypeOK, LoadsOf, RegisterFile
    <2> QED BY <1>1, <1>6, <2>1, AppliedIs, SeenIs
  <1>8. \E r \in Results \cup {Seen[R2]} : Seen' = [Seen EXCEPT ![R2] = IF R2 = 0 THEN 0 ELSE r]
    <2>1. PICK q \in Results \cup {Seen[R2]} : registers' = [a EXCEPT ![R2] = q]
      <3>1. CASE registers' = a
        <4>1. a = [a EXCEPT ![R2] = Seen[R2]]
          BY <1>7, RegistersAre DEF RegisterFile
        <4> QED BY <3>1, <4>1
      <3>2. CASE \E r \in Results : registers' = [a EXCEPT ![R2] = r]
        BY <3>2
      <3> QED BY <1>2, <1>6, <3>1, <3>2
    <2>2. PICK s : s = [Seen EXCEPT ![R2] = q]
      OBVIOUS
    <2>3. q \in Words
      BY <1>1, SeenIs, RegistersAre, ProgramAssumption DEF RegisterFile
    <2>4. s \in RegisterFile /\ s[0] = 0 /\ \A r \in Registers \ {0} : s[r] = IF r = R2 THEN q ELSE Seen[r]
      BY <1>1, <2>2, <2>3, SeenIs, RegistersAre DEF RegisterFile
    <2>5. ASSUME NEW r \in Registers PROVE Seen'[r] = s[r]
      <3>1. CASE r = 0
        BY <2>4, <3>1, SeenNext
      <3>2. CASE r # 0
        <4>1. Seen'[r] = registers'[r]
          BY <1>2, <3>2, SeenNext, NoLoadTyped
        <4>2. registers'[r] = IF r = R2 THEN q ELSE a[r]
          BY <1>7, <2>1, RegistersAre DEF RegisterFile
        <4> QED BY <1>7, <2>4, <3>2, <4>1, <4>2
      <3> QED BY <3>1, <3>2
    <2>6. Seen' = s
      BY <2>4, <2>5, SeenNext, SameRegisters
    <2> QED BY <2>2, <2>6, RegistersAre
  <1>9. \E r \in Results \cup {Seen[ISA!R2]} : ISA!Put(ISA!R2, r)
    BY <1>8, SameWords DEF ISA!Put
  <1>10. pc' = npc /\ npc' = ISA!Word(npc + 4)
    BY <1>2, <1>5, SameWords
  <1> QED BY <1>2, <1>4, <1>9, <1>10 DEF ISA!Syscall

(* A load: the value is seen at once, though it arrives one step later. *)
LEMMA LoadMaps ==
  ASSUME Inv, TypeOK', Execute, instr.op \in Loads
  PROVE  Seen' = [Seen EXCEPT ![instr.rt] = IF instr.rt = 0 THEN 0
                                            ELSE Loaded(instr, Seen[instr.rt], Seen, mem)]
  <1>1. TypeOK /\ LoadDelay
    BY DEF Inv
  <1>2. /\ Fetched /\ registers' = Applied(Written)
        /\ load' = [reg |-> instr.rt, value |-> Loaded(instr, Merged(instr.rt), registers, mem)]
    BY ExecuteIs
  <1>3. PICK t \in Registers : t = instr.rt
    BY <1>1, <1>2, FetchedIs
  <1>4. PICK v : v = Loaded(instr, Merged(t), registers, mem)
    OBVIOUS
  <1>5. load'.reg = t /\ load'.value = v
    BY <1>2, <1>3, <1>4
  <1>6. t # 0 => v = Loaded(instr, Seen[t], Seen, mem)
    <2>1. t # 0 => Merged(t) = Seen[t]
      BY <1>1, SeenIs DEF Merged
    <2>2. Loaded(instr, Merged(t), registers, mem) = Loaded(instr, Merged(t), Seen, mem)
      BY <1>1, <1>2, FetchedIs, SeenByInstr, AgreeOnLoaded
    <2> QED BY <1>4, <2>1, <2>2
  <1>7. Written \in RegisterFile /\ \A r \in Registers \ {0} : Written[r] = registers[r]
    <2>1. Dest(instr) = 0
      BY DEF Dest, RegisterForm, ImmediateForm, Links, Loads
    <2>2. registers \in RegisterFile
      BY <1>1 DEF TypeOK, RegisterFile
    <2> QED BY <1>1, <1>2, <2>1, <2>2, WrittenTyped DEF Written, RegisterFile
  <1>8. \A r \in Registers \ {0} : registers'[r] = Seen[r]
    <2>1. load \in LoadsOf
      BY <1>1 DEF TypeOK, LoadsOf
    <2> QED BY <1>1, <1>2, <1>7, <2>1, AppliedIs, SeenIs
  <1>9. PICK s : s = [Seen EXCEPT ![t] = IF t = 0 THEN 0 ELSE v]
    OBVIOUS
  <1>10. s \in RegisterFile /\ s[0] = 0 /\ \A r \in Registers \ {0} : s[r] = IF r = t THEN v ELSE Seen[r]
    <2>1. v \in Words /\ 0 \in Words
      BY <1>5, SmallWords DEF TypeOK
    <2>2. Seen \in RegisterFile /\ Seen[0] = 0
      BY <1>1, SeenIs
    <2> QED BY <1>9, <2>1, <2>2 DEF RegisterFile
  <1>11. ASSUME NEW r \in Registers PROVE Seen'[r] = s[r]
    <2>1. CASE r = 0
      BY <1>10, <2>1, SeenNext
    <2>2. CASE r # 0 /\ r = t
      BY <1>5, <1>10, <2>2, SeenNext
    <2>3. CASE r # 0 /\ r # t
      BY <1>5, <1>8, <1>10, <2>3, SeenNext
    <2> QED BY <2>1, <2>2, <2>3
  <1>12. Seen' = s
    BY <1>10, <1>11, SeenNext, SameRegisters
  <1>13. s = [Seen EXCEPT ![t] = IF t = 0 THEN 0 ELSE Loaded(instr, Seen[t], Seen, mem)]
    <2>1. (IF t = 0 THEN 0 ELSE v) = (IF t = 0 THEN 0 ELSE Loaded(instr, Seen[t], Seen, mem))
      BY <1>6
    <2> QED BY <1>9, <2>1, Zenon
  <1> QED BY <1>3, <1>12, <1>13, Zenon

(* Any other instruction: the load in progress arrives beside it.          *)
LEMMA OtherMaps ==
  ASSUME Inv, TypeOK', Execute, instr.op \notin Loads
  PROVE  /\ Seen' = [Seen EXCEPT ![Dest(instr)] = IF Dest(instr) = 0 THEN 0 ELSE Value(instr, Seen, hl, npc)]
         /\ \A r \in Registers \ {0} : r # load.reg => Seen'[r] = Written[r]
  <1>1. TypeOK /\ LoadDelay
    BY DEF Inv
  <1>2. Fetched /\ registers' = Applied(Written) /\ load' = NoLoad
    BY ExecuteIs
  <1>3. PICK d \in Registers : d = Dest(instr)
    BY <1>1, <1>2, FetchedIs, RegistersAre
  <1>4. PICK v : v = Value(instr, registers, hl, npc)
    OBVIOUS
  <1>5. v = Value(instr, Seen, hl, npc)
    BY <1>1, <1>2, <1>4, FetchedIs, SeenByInstr, AgreeOnValue
  <1>6. v \in Words
    <2>1. registers \in RegisterFile /\ hl \in Words \X Words /\ npc \in Words
      BY <1>1 DEF TypeOK, RegisterFile
    <2> QED BY <1>1, <1>2, <1>4, <2>1, FetchedIs, ValueTyped
  <1>7. Written \in RegisterFile /\ \A r \in Registers : Written[r] = IF r = d THEN v ELSE registers[r]
    <2>1. registers \in RegisterFile
      BY <1>1 DEF TypeOK, RegisterFile
    <2> QED BY <1>1, <1>2, <1>3, <1>4, <2>1, WrittenTyped DEF Written, RegisterFile
  <1>8. \A r \in Registers \ {0} : Seen'[r] = IF r = load.reg THEN load.value ELSE Written[r]
    <2>1. load \in LoadsOf
      BY <1>1 DEF TypeOK, LoadsOf
    <2> QED BY <1>2, <1>7, <2>1, AppliedIs, SeenNext, NoLoadTyped
  <1>9. d # 0 => d # load.reg
    BY <1>1, <1>2, <1>3 DEF LoadDelay
  <1>10. PICK s : s = [Seen EXCEPT ![d] = IF d = 0 THEN 0 ELSE v]
    OBVIOUS
  <1>11. s \in RegisterFile /\ s[0] = 0 /\ \A r \in Registers \ {0} : s[r] = IF r = d THEN v ELSE Seen[r]
    <2>1. Seen \in RegisterFile /\ Seen[0] = 0 /\ 0 \in Words
      BY <1>1, SeenIs, SmallWords
    <2> QED BY <1>6, <1>10, <2>1 DEF RegisterFile
  <1>12. ASSUME NEW r \in Registers PROVE Seen'[r] = s[r]
    <2>1. CASE r = 0
      BY <1>11, <2>1, SeenNext
    <2>2. CASE r # 0 /\ r = d
      BY <1>7, <1>8, <1>9, <1>11, <2>2
    <2>3. CASE r # 0 /\ r # d
      BY <1>1, <1>7, <1>8, <1>11, <2>3, SeenIs
    <2> QED BY <2>1, <2>2, <2>3
  <1>13. Seen' = s
    BY <1>11, <1>12, SeenNext, SameRegisters
  <1> QED BY <1>3, <1>5, <1>8, <1>10, <1>13, Zenon

(* Where a branch goes does not depend on the load in progress; R0 is read *)
(* as zero, for what may have been written to it for a moment is no        *)
(* branch's to read.                                                       *)
LEMMA BranchMaps ==
  ASSUME Inv, TypeOK', Execute
  PROVE  PcAfter(instr, Written, npc) = PcAfter(instr, Seen', npc)
  <1>1. TypeOK /\ LoadDelay
    BY DEF Inv
  <1>2. Fetched
    BY ExecuteIs
  <1>3. instr \in Instructions /\ instr.rs \in Registers /\ instr.rt \in Registers
    BY <1>1, <1>2, FetchedIs
  <1>4. CASE instr.op \in Branches
    <2>1. instr.op \notin Loads
      BY <1>4 DEF Branches, Conditional, Jumps, Loads
    <2>2. ASSUME NEW r \in Reads(instr) PROVE Written[r] = Seen'[r]
      <3>1. r \in Registers
        BY <1>3, ReadsAre
      <3>2. CASE r # 0
        <4>1. r # load.reg
          BY <1>1, <1>2, <3>2 DEF LoadDelay
        <4> QED BY <2>1, <3>1, <3>2, <4>1, OtherMaps
      <3>3. CASE r = 0
        <4>1. registers[0] = 0 /\ Seen'[0] = 0 /\ registers \in RegisterFile
          BY <1>1, SeenNext DEF TypeOK, RegisterFile
        <4>2. CASE Dest(instr) # 0
          BY <1>3, <3>1, <3>3, <4>1, <4>2, RegistersAre DEF Written, RegisterFile
        <4>3. CASE Dest(instr) = 0
          <5>1. instr.op # "JALR"
            <6>1. SUFFICES ASSUME instr.op = "JALR" PROVE FALSE
              OBVIOUS
            <6>2. Reads(instr) = {instr.rs} /\ Dest(instr) = instr.rd
              <7>1. Reads(instr) = {instr.rs}
                BY <6>1 DEF Reads, ImmediateForm, Loads, Conditional
              <7>2. Dest(instr) = instr.rd
                BY <6>1 DEF Dest, RegisterForm, ImmediateForm, Links
              <7> QED BY <7>1, <7>2
            <6>3. instr.rs = instr.rd
              BY <3>3, <4>3, <6>2
            <6>4. PICK k \in Positions : instr = code[k]
              BY <1>1, <1>2, FetchedIs
            <6>5. WellFormed(code)
              BY <1>1, ProgramAssumption DEF TypeOK
            <6> QED BY <6>1, <6>3, <6>4, <6>5 DEF WellFormed
          <5>2. instr.op \notin Links
            BY <4>3, RegistersAre DEF Dest, RegisterForm, ImmediateForm, Links
          <5>3. Value(instr, registers, hl, npc) = 0
            BY <1>4, <5>1, <5>2 DEF Value, Branches, Conditional, Jumps, Links
          <5> QED BY <3>3, <4>1, <4>3, <5>3, RegistersAre DEF Written, RegisterFile
        <4> QED BY <4>2, <4>3
      <3> QED BY <3>2, <3>3
    <2>3. Agree(instr, Written, Seen')
      BY <2>2 DEF Agree
    <2> QED BY <1>3, <2>3, AgreeOnPcAfter
  <1>5. CASE instr.op \notin Branches
    <2>1. ~Taken(instr, Written) /\ ~Taken(instr, Seen')
      BY <1>5 DEF Taken, Branches, Conditional
    <2> QED BY <1>5, <2>1 DEF PcAfter, Branches, Jumps
  <1> QED BY <1>4, <1>5

LEMMA HiLoMaps ==
  ASSUME TypeOK, LoadDelay, Fetched
  PROVE  HiLo(instr, registers, hl, Mult(registers[instr.rs], registers[instr.rt], instr.op = "MULT"))
          = HiLo(instr, Seen, hl, ISA!Product(Seen[instr.rs], Seen[instr.rt], instr.op = "MULT"))
  <1>1. instr \in Instructions /\ registers[instr.rs] \in Words /\ registers[instr.rt] \in Words
        /\ Agree(instr, registers, Seen)
    BY FetchedIs, SeenByInstr
  <1>2. PICK p, q : /\ p = Mult(registers[instr.rs], registers[instr.rt], instr.op = "MULT")
                    /\ q = ISA!Product(Seen[instr.rs], Seen[instr.rt], instr.op = "MULT")
    OBVIOUS
  <1>3. instr.op \in {"MULT", "MULTU"} => registers[instr.rs] = Seen[instr.rs] /\ registers[instr.rt] = Seen[instr.rt]
    BY <1>1, ReadsAre DEF Agree
  <1>4. CASE instr.op = "MULT"
    <2>1. (instr.op = "MULT") = TRUE
      BY <1>4
    <2>2. p = Mult(registers[instr.rs], registers[instr.rt], TRUE)
      BY <1>2, <2>1, Zenon
    <2>3. q = ISA!Product(registers[instr.rs], registers[instr.rt], TRUE)
      <3>1. registers[instr.rs] = Seen[instr.rs] /\ registers[instr.rt] = Seen[instr.rt]
        BY <1>3, <1>4
      <3> QED BY <1>2, <2>1, <3>1, Zenon
    <2>4. p = q
      BY <1>1, <2>2, <2>3, MultIsProduct, Zenon
    <2> QED BY <1>1, <1>2, <2>4, AgreeOnHiLo
  <1>5. CASE instr.op = "MULTU"
    <2>1. (instr.op = "MULT") = FALSE
      BY <1>5
    <2>2. p = Mult(registers[instr.rs], registers[instr.rt], FALSE)
      BY <1>2, <2>1, Zenon
    <2>3. q = ISA!Product(registers[instr.rs], registers[instr.rt], FALSE)
      <3>1. registers[instr.rs] = Seen[instr.rs] /\ registers[instr.rt] = Seen[instr.rt]
        BY <1>3, <1>5
      <3> QED BY <1>2, <2>1, <3>1, Zenon
    <2>4. p = q
      BY <1>1, <2>2, <2>3, MultIsProduct, Zenon
    <2> QED BY <1>1, <1>2, <2>4, AgreeOnHiLo
  <1>6. CASE instr.op \notin {"MULT", "MULTU"}
    <2>1. HiLo(instr, registers, hl, p) = HiLo(instr, Seen, hl, q)
      BY <1>1, <1>6, AgreeOnHiLo
    <2> QED BY <1>2, <2>1, Zenon
  <1> QED BY <1>4, <1>5, <1>6

LEMMA ExecuteMaps ==
  ASSUME Inv, TypeOK', Execute
  PROVE  ISA!Execute
  <1>1. TypeOK /\ LoadDelay
    BY DEF Inv
  <1>2. /\ on /\ Fetched /\ instr.op # "SYSCALL" /\ ~Stops(instr, registers) /\ ~HostTraps(instr, registers)
        /\ hl' = HiLo(instr, registers, hl, Mult(registers[instr.rs], registers[instr.rt], instr.op = "MULT"))
        /\ mem' = IF instr.op \in Stores THEN Stored(instr, registers, mem) ELSE mem
        /\ pc' = npc /\ npc' = PcAfter(instr, Written, npc)
        /\ code' = code /\ on' = on
    BY ExecuteIs, Zenon
  <1>3. ~ISA!Ends /\ ISA!instr = instr
    BY <1>1, <1>2, NotEnds
  <1>4. IF instr.op \in ISA!Loads THEN ISA!Put(instr.rt, ISA!Loaded(instr, Seen[instr.rt], Seen, mem))
                                  ELSE ISA!Put(ISA!Dest(instr), ISA!Value(instr, Seen, hl, npc))
    <2>1. CASE instr.op \in Loads
      <3>1. Seen' = [Seen EXCEPT ![instr.rt] = IF instr.rt = 0 THEN 0
                                               ELSE ISA!Loaded(instr, Seen[instr.rt], Seen, mem)]
        BY <2>1, LoadMaps, SameLoaded, Zenon
      <3> QED BY <2>1, <3>1, SameForms, Zenon DEF ISA!Put
    <2>2. CASE instr.op \notin Loads
      <3>1. Seen' = [Seen EXCEPT ![ISA!Dest(instr)] = IF ISA!Dest(instr) = 0 THEN 0
                                                      ELSE ISA!Value(instr, Seen, hl, npc)]
        <4>1. ISA!Dest(instr) = Dest(instr) /\ ISA!Value(instr, Seen, hl, npc) = Value(instr, Seen, hl, npc)
          BY SameDest, SameValue, Zenon
        <4> QED BY <2>2, <4>1, OtherMaps, Zenon
      <3> QED BY <2>2, <3>1, SameForms, Zenon DEF ISA!Put
    <2> QED BY <2>1, <2>2
  <1>5. hl' = ISA!HiLo(instr, Seen, hl, ISA!Product(Seen[instr.rs], Seen[instr.rt], instr.op = "MULT"))
    BY <1>1, <1>2, HiLoMaps, SameHiLo, Zenon
  <1>6. mem' = IF instr.op \in ISA!Stores THEN ISA!Stored(instr, Seen, mem) ELSE mem
    <2>1. CASE instr.op \in Stores
      <3>1. Stored(instr, registers, mem) = Stored(instr, Seen, mem)
        BY <1>1, <1>2, <2>1, FetchedIs, SeenByInstr, AgreeOnStored
      <3> QED BY <1>2, <2>1, <3>1, SameForms, SameStored
    <2>2. CASE instr.op \notin Stores
      BY <1>2, <2>2, SameForms
    <2> QED BY <2>1, <2>2
  <1>7. npc' = ISA!PcAfter(instr, Seen', npc)
    BY <1>2, BranchMaps, SamePcAfter
  <1> QED BY <1>2, <1>3, <1>4, <1>5, <1>6, <1>7, Zenon DEF ISA!Execute

LEMMA StepMaps ==
  ASSUME Inv, [Next]_vars
  PROVE  ISA!Next \/ UNCHANGED ISA!vars
  <1>1. TypeOK /\ LoadDelay /\ TypeOK'
    BY InvNext DEF Inv
  <1>2. CASE Fetch
    BY <1>1, <1>2, StopMaps, FaultMaps DEF Fetch, ISA!Next
  <1>3. CASE Exception
    BY <1>1, <1>3, StopMaps DEF Exception, Executing, ISA!Next
  <1>4. CASE DataFault
    BY <1>1, <1>4, FaultMaps DEF DataFault
  <1>5. CASE Syscall
    BY <1>1, <1>5, SyscallMaps DEF ISA!Next
  <1>6. CASE Execute
    BY <1>1, <1>6, ExecuteMaps DEF ISA!Next
  <1>7. CASE Switch
    <2>1. Seen' = Seen
      BY <1>1, <1>7, TrapUnseen DEF Switch
    <2> QED BY <1>7, <2>1 DEF Switch, ISA!vars
  <1>8. CASE HostTrap
    BY <1>1, <1>8, HostTrapMaps DEF ISA!Next
  <1>9. CASE UNCHANGED vars
    <2>1. UNCHANGED <<code, registers, hl, load, pc, npc, mem, on>>
      BY <1>9 DEF vars
    <2>2. Seen' = Seen
      BY <2>1 DEF Seen
    <2> QED BY <2>1, <2>2 DEF ISA!vars
  <1> QED BY <1>2, <1>3, <1>4, <1>5, <1>6, <1>7, <1>8, <1>9 DEF Next

LEMMA InitMaps == Init => ISA!Init
  <1> SUFFICES ASSUME Init PROVE ISA!Init
    OBVIOUS
  <1>1. TypeOK
    BY TypeInit
  <1>2. ISA!WellFormed(code)
    BY ProgramAssumption, SameWellFormed DEF Init
  <1>3. Seen \in [ISA!Registers -> ISA!Words] /\ Seen[0] = 0
    BY <1>1, SeenIs, SameWords DEF RegisterFile
  <1>4. hl \in ISA!Words \X ISA!Words /\ mem \in [ISA!Addresses -> 0..(ISA!ByteSize - 1)]
    BY <1>1, SameWords DEF TypeOK
  <1> QED BY <1>2, <1>3, <1>4 DEF Init, ISA!Init

(* A program that respects the delay slots runs on the simulated processor *)
(* as on a machine whose loads take effect at once and that never faults,  *)
(* whatever the sizes of words, code, memory and pages: delayed loads,     *)
(* instructions begun again, the kernel's visits and other processes are   *)
(* not seen, and MULT gives the product.                                   *)
THEOREM ImplementsISA == Spec => Implements
  <1>1. Inv /\ [Next]_vars => [ISA!Next]_ISA!vars
    BY StepMaps
  <1> QED BY <1>1, InitMaps, SpecInv, PTL DEF Spec, Implements, ISA!Spec
=============================================================================
