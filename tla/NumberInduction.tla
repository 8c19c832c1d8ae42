---------------------------- MODULE NumberInduction ----------------------------
(***************************************************************************)
(* Induction for the provers, which cannot take the step of an induction    *)
(* as an operator: it is a step of membership in a SET here, and what is    *)
(* defined by recursion is a function.  Behind it, how the numbers of a set *)
(* up to some number are counted.                                          *)
(***************************************************************************)
EXTENDS Integers, Sequences, FiniteSetTheorems, WellFoundedInduction, TLAPS

\* A set of numbers has a least one.
LEMMA LeastNumber ==
  ASSUME NEW S, S \subseteq Nat, S # {}
  PROVE  \E x \in S : \A y \in S : x <= y
<1> DEFINE R == {p \in Nat \X Nat : p[1] < p[2]}
<1>1. R = OpToRel(<, Nat)
  BY DEF OpToRel
<1>2. IsWellFoundedOn(R, Nat)
  BY <1>1, NatLessThanWellFounded
<1>3. \A x, y \in Nat : y < x => <<y, x>> \in R
  OBVIOUS
<1> HIDE DEF R
<1>4. PICK x \in S : \A y \in S : ~(<<y, x>> \in R)
  BY <1>2, WFMin
<1>5. \A y \in S : x <= y
  <2> TAKE y \in S
  <2>1. x \in Nat /\ y \in Nat /\ ~(y < x)
    BY <1>3, <1>4
  <2> QED
    BY <2>1
<1> QED
  BY <1>5

\* What holds of a number and passes on to the next one holds up to n.
LEMMA UpTo ==
  ASSUME NEW a \in Nat, NEW n \in Nat, NEW S, a \in S,
         \A i \in Nat : a <= i /\ i < n /\ i \in S => i + 1 \in S
  PROVE  \A i \in a..n : i \in S
<1> DEFINE out == (a..n) \ S
<1> SUFFICES ASSUME out # {} PROVE FALSE
  OBVIOUS
<1>1. PICK x \in out : \A y \in out : x <= y
  <2>1. out \subseteq Nat /\ out # {}
    OBVIOUS
  <2> HIDE DEF out
  <2> QED
    BY <2>1, LeastNumber
<1>2. x \in Nat /\ a < x /\ x <= n /\ x \notin S
  <2>1. x \in a..n /\ x \notin S
    OBVIOUS
  <2> QED
    BY <2>1
<1>3. x - 1 \in a..n /\ x - 1 \in S
  BY <1>1, <1>2
<1>4. x - 1 \in Nat /\ a <= x - 1 /\ x - 1 < n /\ (x - 1) + 1 = x
  BY <1>2
<1> QED
  BY <1>2, <1>3, <1>4

\* What one comes to, going through s item by item, from a on.
FoldsOf(V, a, step, s) ==
  {f \in [0..Len(s) -> V] :
     f[0] = a /\ \A i \in 1..Len(s) : f[i] = step[<<f[i - 1], s[i]>>]}

LEMMA FoldExists ==
  ASSUME NEW V, NEW T, NEW a \in V, NEW step \in [V \X T -> V], NEW s \in Seq(T)
  PROVE  FoldsOf(V, a, step, s) # {}
<1> DEFINE Good(n) == {f \in [0..n -> V] :
                         f[0] = a /\ \A i \in 1..n : f[i] = step[<<f[i - 1], s[i]>>]}
           S == {n \in 0..Len(s) : Good(n) # {}}
<1>1. Len(s) \in Nat /\ \A i \in 1..Len(s) : s[i] \in T
  OBVIOUS
<1>2. 0 \in S
  <2>1. [i \in 0..0 |-> a] \in Good(0)
    OBVIOUS
  <2> QED
    BY <1>1, <2>1
<1>3. ASSUME NEW n \in Nat, n < Len(s), n \in S PROVE n + 1 \in S
  <2>1. PICK f \in [0..n -> V] :
          f[0] = a /\ \A i \in 1..n : f[i] = step[<<f[i - 1], s[i]>>]
    BY <1>3
  <2> DEFINE g == [i \in 0..(n + 1) |-> IF i = n + 1 THEN step[<<f[n], s[n + 1]>>] ELSE f[i]]
  <2>2. f[n] \in V /\ s[n + 1] \in T
    BY <1>1, <1>3, <2>1
  <2>3. step[<<f[n], s[n + 1]>>] \in V
    BY <2>2
  <2>4. g \in [0..(n + 1) -> V]
    BY <2>1, <2>3
  <2>5. g[0] = a
    BY <2>1
  <2>6. ASSUME NEW i \in 1..(n + 1) PROVE g[i] = step[<<g[i - 1], s[i]>>]
    <3>1. CASE i = n + 1
      <4>1. g[n] = f[n]
        BY <1>3
      <4>2. g[n + 1] = step[<<f[n], s[n + 1]>>]
        BY <1>3
      <4>3. i - 1 = n
        BY <3>1
      <4> HIDE DEF g
      <4> QED
        BY <3>1, <4>1, <4>2, <4>3
    <3>2. CASE i # n + 1
      <4>1. i \in 1..n /\ g[i] = f[i] /\ g[i - 1] = f[i - 1]
        BY <3>2
      <4> QED
        BY <2>1, <4>1
    <3> QED
      BY <3>1, <3>2
  <2> HIDE DEF g
  <2>7. g \in Good(n + 1)
    BY <2>4, <2>5, <2>6
  <2>8. n + 1 \in 0..Len(s)
    BY <1>1, <1>3
  <2> QED
    BY <2>7, <2>8
<1>4. \A i \in 0..Len(s) : i \in S
  <2> HIDE DEF S
  <2> QED
    BY <1>1, <1>2, <1>3, UpTo
<1>5. Len(s) \in S
  BY <1>1, <1>4
<1> QED
  BY <1>5 DEF FoldsOf

\* The same of what is defined by recursion on a number.
RecursionsOf(V, a, step, n) ==
  {f \in [0..n -> V] : f[0] = a /\ \A i \in 1..n : f[i] = step[<<f[i - 1], i>>]}

LEMMA RecursionExists ==
  ASSUME NEW V, NEW a \in V, NEW n \in Nat, NEW step \in [V \X (1..n) -> V]
  PROVE  RecursionsOf(V, a, step, n) # {}
<1> DEFINE s == [i \in 1..n |-> i]
           T == 1..n
<1>1. s \in Seq(T) /\ Len(s) = n /\ \A i \in 1..n : s[i] = i
  OBVIOUS
<1>2. step \in [V \X T -> V]
  OBVIOUS
<1> HIDE DEF s, T
<1>3. FoldsOf(V, a, step, s) # {}
  BY <1>1, <1>2, FoldExists
<1>4. PICK f \in [0..n -> V] : f[0] = a /\ \A i \in 1..n : f[i] = step[<<f[i - 1], s[i]>>]
  BY <1>1, <1>3 DEF FoldsOf
<1> QED
  BY <1>1, <1>4 DEF RecursionsOf

-----------------------------------------------------------------------------
(* How many of some positive numbers are smaller than n.                     *)

LowerPart(S, n) == {k \in S : k < n}

CountBelow(S, n) == Cardinality(LowerPart(S, n))

LEMMA ArePositive ==
  ASSUME NEW S, S \subseteq Nat \ {0}
  PROVE  \A k \in S : k \in Nat /\ k > 0
<1> TAKE k \in S
<1>1. k \in Nat \ {0}
  OBVIOUS
<1> QED
  BY <1>1

LEMMA CountOne ==
  ASSUME NEW S, S \subseteq Nat \ {0}
  PROVE  CountBelow(S, 1) = 0
<1>1. \A k \in S : ~(k < 1)
  BY ArePositive
<1>2. LowerPart(S, 1) = {}
  BY <1>1 DEF LowerPart
<1> QED
  BY <1>2, FS_EmptySet DEF CountBelow

LEMMA CountIsNat ==
  ASSUME NEW S, S \subseteq Nat \ {0}, NEW n \in Nat
  PROVE  IsFiniteSet(LowerPart(S, n)) /\ CountBelow(S, n) \in Nat
<1> DEFINE B == LowerPart(S, n)
<1>1. B \in SUBSET Nat /\ \A k \in B : k <= n
  <2>1. \A k \in B : k \in Nat /\ k <= n
    <3> TAKE k \in B
    <3>1. k \in S /\ k < n
      BY DEF LowerPart
    <3> QED
      BY <3>1, ArePositive
  <2> QED
    BY <2>1
<1> HIDE DEF B
<1>2. IsFiniteSet(B)
  BY <1>1, FS_BoundedSetOfNaturals
<1>3. Cardinality(B) \in Nat
  BY <1>2, FS_CardinalityType
<1> QED
  BY <1>2, <1>3 DEF B, CountBelow

LEMMA CountNext ==
  ASSUME NEW S, S \subseteq Nat \ {0}, NEW n \in Nat
  PROVE  CountBelow(S, n + 1) = IF n \in S THEN CountBelow(S, n) + 1 ELSE CountBelow(S, n)
<1>1. IsFiniteSet(LowerPart(S, n)) /\ n \notin LowerPart(S, n)
  <2>1. ~(n < n)
    OBVIOUS
  <2> QED
    BY <2>1, CountIsNat DEF LowerPart
<1>2. LowerPart(S, n + 1) = IF n \in S THEN LowerPart(S, n) \cup {n} ELSE LowerPart(S, n)
  <2>1. \A k \in S : k < n + 1 <=> k < n \/ k = n
    BY ArePositive
  <2>2. ~(n < n)
    OBVIOUS
  <2> QED
    BY <2>1 DEF LowerPart
<1>3. Cardinality(LowerPart(S, n) \cup {n}) = Cardinality(LowerPart(S, n)) + 1
  BY <1>1, FS_AddElement
<1> QED
  BY <1>2, <1>3 DEF CountBelow

LEMMA CountGrows ==
  ASSUME NEW S, S \subseteq Nat \ {0}, NEW k \in Nat, NEW m \in Nat, k <= m
  PROVE  CountBelow(S, k) <= CountBelow(S, m)
<1>1. IsFiniteSet(LowerPart(S, m))
  BY CountIsNat
<1>2. LowerPart(S, k) \in SUBSET LowerPart(S, m)
  <2>1. \A x \in S : x < k => x < m
    BY ArePositive
  <2> QED
    BY <2>1 DEF LowerPart
<1> QED
  BY <1>1, <1>2, FS_Subset DEF CountBelow

\* The bytes between two places follow each other.
LEMMA CountSpreads ==
  ASSUME NEW S, S \subseteq Nat \ {0}, NEW k \in Nat, NEW m \in Nat, k <= m
  PROVE  {CountBelow(S, o) : o \in {x \in S : k <= x /\ x < m}} = CountBelow(S, k)..(CountBelow(S, m) - 1)
<1> DEFINE C(n) == CountBelow(S, n)
           W(n) == {x \in S : k <= x /\ x < n}
           I(n) == {C(o) : o \in W(n)}
           P == {n \in Nat : I(n) = C(k)..(C(n) - 1)}
<1>1. \A n \in Nat : C(n) \in Nat
  BY CountIsNat
<1>2. k \in P
  <2>1. W(k) = {}
    <3>1. \A x \in S : ~(k <= x /\ x < k)
      BY ArePositive
    <3> QED
      BY <3>1
  <2>2. I(k) = {}
    BY <2>1
  <2>3. C(k)..(C(k) - 1) = {}
    <3>1. C(k) \in Nat
      BY <1>1
    <3> HIDE DEF C
    <3> QED
      BY <3>1
  <2> QED
    BY <2>2, <2>3
<1>3. \A n \in Nat : k <= n /\ n < m /\ n \in P => n + 1 \in P
  <2> TAKE n \in Nat
  <2> HAVE k <= n /\ n < m /\ n \in P
  <2>1. n + 1 \in Nat /\ I(n) = C(k)..(C(n) - 1)
    OBVIOUS
  <2>2. C(k) \in Nat /\ C(n) \in Nat /\ C(k) <= C(n)
    BY <1>1, CountGrows
  <2>3. C(n + 1) = IF n \in S THEN C(n) + 1 ELSE C(n)
    BY CountNext
  <2>4. \A x \in S : k <= x /\ x < n + 1 <=> (k <= x /\ x < n) \/ x = n
    BY ArePositive
  <2>5. W(n + 1) = IF n \in S THEN W(n) \cup {n} ELSE W(n)
    BY <2>4
  <2>6. I(n + 1) = IF n \in S THEN I(n) \cup {C(n)} ELSE I(n)
    <3> HIDE DEF W, C
    <3> QED
      BY <2>5
  <2>7. (C(k)..(C(n) - 1)) \cup {C(n)} = C(k)..(C(n) + 1 - 1)
    <3> HIDE DEF C
    <3>1. ASSUME NEW a \in Nat, NEW b \in Nat, a <= b
          PROVE  (a..(b - 1)) \cup {b} = a..(b + 1 - 1)
      BY <3>1
    <3> QED
      BY <2>2, <3>1
  <2>8. I(n + 1) = C(k)..(C(n + 1) - 1)
    <3> DEFINE a == C(n)
               b == C(n + 1)
               now == I(n)
               next == I(n + 1)
    <3>1. /\ b = IF n \in S THEN a + 1 ELSE a
          /\ next = IF n \in S THEN now \cup {a} ELSE now
          /\ now = C(k)..(a - 1)
          /\ (C(k)..(a - 1)) \cup {a} = C(k)..(a + 1 - 1)
      BY <2>1, <2>3, <2>6, <2>7
    <3>2. next = C(k)..(b - 1)
      <4> HIDE DEF a, b, now, next, C
      <4>1. CASE n \in S
        BY <3>1, <4>1
      <4>2. CASE n \notin S
        BY <3>1, <4>2
      <4> QED
        BY <4>1, <4>2
    <3> QED
      BY <3>2
  <2> QED
    BY <2>1, <2>8
<1>4. m \in P
  <2>1. m \in k..m
    OBVIOUS
  <2> HIDE DEF P
  <2> QED
    BY <1>2, <1>3, <2>1, UpTo
<1> QED
  BY <1>4

================================================================================
