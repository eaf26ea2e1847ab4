----------------------------- MODULE NumberLemmas -----------------------------
(***************************************************************************)
(* Facts about natural numbers that the proofs of several components need: *)
(* division with a variable divisor, for addresses and slots, and          *)
(* induction over sets of numbers, for what a recursive function computes. *)
(***************************************************************************)
EXTENDS Integers, WellFoundedInduction, TLAPS

(***************************************************************************)
(* Division.                                                               *)
(***************************************************************************)
\* A positive multiple of a is at least a.
LEMMA Multiple == ASSUME NEW a \in Nat \ {0}, NEW k \in Int, k >= 1
                  PROVE  a * k >= a
  BY SMTT(20)

\* Multiplication distributes over subtraction.
LEMMA Distributes == ASSUME NEW a \in Int, NEW k \in Int, NEW j \in Int
                     PROVE  a * (k - j) = a * k - a * j
  BY SMTT(20)

\* Quotient and remainder are unique.
LEMMA DivisionUnique ==
    ASSUME NEW a \in Nat \ {0}, NEW k \in Int, NEW j \in Int,
           NEW r \in 0..(a - 1), NEW s \in 0..(a - 1), a * k + r = a * j + s
    PROVE  k = j /\ r = s
<1>1. a * (k - j) = s - r /\ a * (j - k) = r - s
  <2>1. a * k \in Int /\ a * j \in Int
    OBVIOUS
  <2> QED
    BY Distributes, <2>1
<1>2. k - j \in Int /\ j - k \in Int
  OBVIOUS
<1>3. ~(k - j >= 1) /\ ~(j - k >= 1)
  BY <1>1, <1>2, Multiple
<1> QED
  BY <1>3

\* A number is its quotient and its remainder.
LEMMA Division == ASSUME NEW a \in Nat \ {0}, NEW o \in Int
                  PROVE  o \div a \in Int /\ o % a \in 0..(a - 1) /\ o = a * (o \div a) + (o % a)
  BY SMTT(20)

\* The remainder of a multiple plus r is r.
LEMMA RemainderOfSum == ASSUME NEW a \in Nat \ {0}, NEW k \in Int, NEW r \in 0..(a - 1)
                   PROVE  (a * k + r) % a = r
<1>1. PICK o \in Int : o = a * k + r
  OBVIOUS
<1>2. o \div a \in Int /\ o % a \in 0..(a - 1) /\ o = a * (o \div a) + (o % a)
  BY Division
<1>3. PICK q \in Int, s \in 0..(a - 1) : s = o % a /\ o = a * q + s
  BY <1>2
<1>4. a * k + r = a * q + s
  BY <1>1, <1>3
<1>5. r = s
  BY <1>4, DivisionUnique
<1> QED
  BY <1>1, <1>3, <1>5

\* Adding the divisor does not change the remainder.
LEMMA RemainderShift == ASSUME NEW a \in Nat \ {0}, NEW o \in Int
                        PROVE  (o + a) % a = o % a
<1>1. o \div a \in Int /\ o % a \in 0..(a - 1) /\ o = a * (o \div a) + (o % a)
  BY Division
<1>2. PICK q \in Int, s \in 0..(a - 1) : s = o % a /\ o = a * q + s
  BY <1>1
<1>3. a * (q + 1) = a * q + a
  <2>1. a * (q - (-1)) = a * q - a * (-1)
    BY Distributes
  <2> QED
    BY <2>1
<1>4. (a * (q + 1) + s) % a = s
  BY RemainderOfSum
<1>5. o + a = a * (q + 1) + s
  <2>1. a * q \in Int
    OBVIOUS
  <2> QED
    BY <1>2, <1>3, <2>1
<1> QED
  BY <1>2, <1>4, <1>5

\* A number below the divisor is its own remainder.
LEMMA RemainderSmall == ASSUME NEW a \in Nat \ {0}, NEW o \in 0..(a - 1)
                        PROVE  o % a = o
  BY SMTT(20)

\* There is a multiple of a among the next a numbers.
LEMMA MultipleAbove ==
    ASSUME NEW a \in Nat \ {0}, NEW o \in Nat
    PROVE  \E w \in o..(o + a - 1) : w % a = 0
<1>1. o \div a \in Int /\ o % a \in 0..(a - 1) /\ o = a * (o \div a) + (o % a)
  BY Division
<1>2. PICK q \in Int, s \in 0..(a - 1) : s = o % a /\ o = a * q + s
  BY <1>1
<1>3. CASE s = 0
  BY <1>2, <1>3
<1>4. CASE s # 0
  <2>1. PICK p \in Int : p = a * q + 0
    OBVIOUS
  <2>2. p = o - s
    BY <1>2, <2>1
  <2>3. PICK w \in Int : w = p + a
    OBVIOUS
  <2>4. w % a = 0
    BY <2>1, <2>3, RemainderOfSum, RemainderShift
  <2>5. w \in o..(o + a - 1)
    BY <2>2, <2>3, <1>4
  <2> QED
    BY <2>4, <2>5
<1> QED
  BY <1>3, <1>4

\* Two multiples of a are at least a apart.
LEMMA MultiplesApart ==
    ASSUME NEW a \in Nat \ {0}, NEW o \in Int, NEW p \in Int, o % a = p % a, o < p
    PROVE  o + a <= p
<1>1. /\ o \div a \in Int /\ o % a \in 0..(a - 1) /\ o = a * (o \div a) + (o % a)
      /\ p \div a \in Int /\ p = a * (p \div a) + (p % a)
  BY Division
<1>2. PICK q \in Int, k \in Int, s \in 0..(a - 1) : o = a * q + s /\ p = a * k + s
  BY <1>1
<1>3. a * k \in Int /\ a * q \in Int /\ k - q \in Int /\ q - k \in Int
  OBVIOUS
<1>4. a * (k - q) = p - o /\ a * (q - k) = o - p
  BY <1>2, <1>3, Distributes
<1>5. k - q >= 1
  <2>1. ASSUME q - k >= 1
        PROVE  FALSE
    BY <1>3, <1>4, <2>1, Multiple
  <2>2. q # k
    BY <1>2
  <2> QED
    BY <2>1, <2>2
<1> QED
  BY <1>3, <1>4, <1>5, Multiple

(***************************************************************************)
(* Induction.  The predicates are sets: the provers cannot instantiate the *)
(* operator of a theorem.                                                  *)
(***************************************************************************)
\* A non-empty set of natural numbers has a least element.
LEMMA LeastNumber == ASSUME NEW T, T \subseteq Nat, T # {}
                     PROVE  \E n \in T : \A m \in T : n <= m
<1>1. IsWellFoundedOn(OpToRel(<, Nat), Nat)
  BY NatLessThanWellFounded, Zenon
<1>2. PICK n \in T : \A m \in T : ~(<<m, n>> \in OpToRel(<, Nat))
  BY <1>1, WFMin, Zenon
<1>3. \A m \in T : ~(m < n)
  BY <1>2, Zenon DEF OpToRel
<1> QED
  BY <1>3

\* A set of the numbers up to N that contains zero, and with each number below N
\* the next one, contains them all.
LEMMA InductionUpTo ==
    ASSUME NEW N \in Nat, NEW T, 0 \in T, \A n \in 0..(N - 1) : n \in T => n + 1 \in T
    PROVE  \A n \in 0..N : n \in T
<1> DEFINE Missing == (0..N) \ T
<1> SUFFICES ASSUME Missing # {}
             PROVE  FALSE
  OBVIOUS
<1>1. PICK n \in Missing : \A m \in Missing : n <= m
  <2>1. Missing \subseteq Nat
    OBVIOUS
  <2> HIDE DEF Missing
  <2> QED
    BY <2>1, LeastNumber
<1>2. n # 0 /\ n - 1 \in T
  BY <1>1
<1>3. n - 1 \in 0..(N - 1) /\ (n - 1) + 1 = n
  BY <1>2
<1> QED
  BY <1>1, <1>2, <1>3

\* g[0] is c, and g[i] what step i makes of g[i - 1].
Follows(g, n, c, step) == g[0] = c /\ \A i \in 1..n : g[i] = step[i][g[i - 1]]

\* A recursion over the numbers up to N: step i takes a value of S to a value of S.
LEMMA RecursionUpTo ==
    ASSUME NEW N \in Nat, NEW S, NEW c \in S, NEW step \in [1..N -> [S -> S]]
    PROVE  \E g \in [0..N -> S] : Follows(g, N, c, step)
<1> DEFINE T == {n \in 0..N : \E g \in [0..N -> S] : Follows(g, n, c, step)}
<1>1. 0 \in T
  <2> DEFINE g == [i \in 0..N |-> c]
  <2>1. g \in [0..N -> S] /\ g[0] = c /\ \A i \in 1..0 : g[i] = step[i][g[i - 1]]
    OBVIOUS
  <2>2. 0 \in 0..N
    OBVIOUS
  <2> HIDE DEF g
  <2> QED
    BY <2>1, <2>2 DEF Follows
<1>2. ASSUME NEW n \in 0..(N - 1), n \in T
      PROVE  n + 1 \in T
  <2>1. PICK g \in [0..N -> S] : Follows(g, n, c, step)
    BY <1>2
  <2> DEFINE h == [g EXCEPT ![n + 1] = step[n + 1][g[n]]]
  <2>2. n + 1 \in 1..N /\ n \in 0..N /\ n + 1 \in 0..N
    OBVIOUS
  <2>3. step[n + 1] \in [S -> S] /\ g[n] \in S
    BY <2>2
  <2>4. h \in [0..N -> S]
    BY <2>2, <2>3
  <2>5. \A i \in 0..n : h[i] = g[i]
    BY <2>2
  <2>6. h[n + 1] = step[n + 1][g[n]]
    BY <2>2
  <2>7. Follows(h, n + 1, c, step)
    <3>1. h[0] = c
      BY <2>1, <2>5 DEF Follows
    <3>2. ASSUME NEW i \in 1..n
          PROVE  h[i] = step[i][h[i - 1]]
      <4>1. i \in 0..n /\ i - 1 \in 0..n
        OBVIOUS
      <4> QED
        BY <2>1, <2>5, <4>1 DEF Follows
    <3>3. h[n + 1] = step[n + 1][h[(n + 1) - 1]]
      BY <2>5, <2>6
    <3>4. \A i \in 1..(n + 1) : i \in 1..n \/ i = n + 1
      OBVIOUS
    <3> HIDE DEF h
    <3> QED
      BY <3>1, <3>2, <3>3, <3>4 DEF Follows
  <2> QED
    BY <2>2, <2>4, <2>7
<1> HIDE DEF T
<1>3. \A n \in 0..N : n \in T
  BY <1>1, <1>2, InductionUpTo
<1>4. N \in T
  BY <1>3
<1> QED
  BY <1>4 DEF T
===============================================================================
