---------------------------- MODULE LoadOrder_proofs ---------------------------
(***************************************************************************)
(* Proofs about what is loaded, and in which order.                        *)
(*   DependencySolver: what the solver promises for every set of names and  *)
(*     every table.                                                        *)
(*   ExtensionMatcher: FindsTheNewest and MissesNothing, for every number   *)
(*     of extensions and versions of any length.  Text of digits is         *)
(*     compared with the numbers it writes by induction over its digits.    *)
(***************************************************************************)
EXTENDS DependencySolver, ExtensionMatcher, NumberInduction

-----------------------------------------------------------------------------
(* DependencySolver.                                                         *)

\* Nothing is lost: what is placed and what is left make up the input.
Coverage ==
  Placed(r) \cup DOMAIN d \cup Mentioned(d)
    = DOMAIN modules \cup Mentioned(modules)

\* A knot of the input has no member in any layer.
KnotsUnplaced ==
  \A S \in SUBSET DOMAIN modules : Knot(S) => S \cap Placed(r) = {}

IInv ==
  /\ SolverTypeOK
  /\ Remainder
  /\ OrderRespectsDependencies
  /\ PlacedOnce
  /\ Coverage
  /\ KnotsUnplaced

-----------------------------------------------------------------------------
\* Every member of Graphs is a function from some names to sets of names.
LEMMA GraphShape ==
  ASSUME NEW g
  PROVE  g \in Graphs <=> /\ g \in [DOMAIN g -> SUBSET Ext]
                          /\ DOMAIN g \subseteq Ext
BY DEF Graphs

\* What a turn leaves of a table is a table again.
LEMMA WithoutShape ==
  ASSUME NEW g \in Graphs, NEW t
  PROVE  /\ Without(g, t) \in Graphs
         /\ DOMAIN Without(g, t) = Dependants(g)
         /\ \A k \in Dependants(g) : Without(g, t)[k] = g[k] \ t
BY GraphShape DEF Without, Dependants

\* A layer is a set of names.
LEMMA LayerShape ==
  ASSUME NEW g \in Graphs
  PROVE  Layer(g) \in SUBSET Ext
BY GraphShape DEF Layer, Mentioned, Dependants

\* Appending a layer places exactly its members.
LEMMA PlacedAppend ==
  ASSUME NEW q \in Seq(SUBSET Ext), NEW t \in SUBSET Ext
  PROVE  Placed(Append(q, t)) = Placed(q) \cup t
<1>1. /\ DOMAIN Append(q, t) = 1..(Len(q) + 1)
      /\ DOMAIN q = 1..Len(q)
      /\ \A i \in 1..Len(q) : Append(q, t)[i] = q[i]
      /\ Append(q, t)[Len(q) + 1] = t
      /\ Len(q) \in Nat
  OBVIOUS
<1>2. ASSUME NEW x \in Placed(Append(q, t)) PROVE x \in Placed(q) \cup t
  <2>1. PICK i \in 1..(Len(q) + 1) : x \in Append(q, t)[i]
    BY <1>1 DEF Placed
  <2>2. i \in 1..Len(q) \/ i = Len(q) + 1
    BY <1>1
  <2> QED BY <1>1, <2>1, <2>2 DEF Placed
<1>3. ASSUME NEW x \in Placed(q) PROVE x \in Placed(Append(q, t))
  <2>1. PICK i \in 1..Len(q) : x \in q[i]
    BY <1>1 DEF Placed
  <2>2. i \in 1..(Len(q) + 1) /\ x \in Append(q, t)[i]
    BY <1>1, <2>1
  <2> QED BY <1>1, <2>2 DEF Placed
<1>4. ASSUME NEW x \in t PROVE x \in Placed(Append(q, t))
  <2>1. Len(q) + 1 \in 1..(Len(q) + 1)
    BY <1>1
  <2> QED BY <1>1, <2>1 DEF Placed
<1> QED BY <1>2, <1>3, <1>4

-----------------------------------------------------------------------------
\* The facts of one turn of the loop, in terms of what is placed.
LEMMA RoundFacts ==
  ASSUME IInv, Round
  PROVE  /\ modules' = modules
         /\ Layer(d) \in SUBSET Ext
         /\ Placed(r') = Placed(r) \cup Layer(d)
         /\ d' = Without(d, Layer(d))
         /\ Layer(d) \cap Placed(r) = {}
         /\ \A k \in Layer(d) \cap DOMAIN modules : modules[k] \subseteq Placed(r)
<1>1. modules' = modules /\ d' = Without(d, Layer(d))
  BY DEF Round
<1>2. Layer(d) \in SUBSET Ext
  BY LayerShape DEF IInv, SolverTypeOK
<1>3. Placed(r') = Placed(r) \cup Layer(d)
  <2>1. CASE Layer(d) = {}
    BY <2>1 DEF Round
  <2>2. CASE Layer(d) # {}
    BY <2>2, <1>2, PlacedAppend DEF Round, IInv, SolverTypeOK
  <2> QED BY <2>1, <2>2
<1>4. ASSUME NEW k \in Layer(d) PROVE k \notin Placed(r)
  BY <1>4 DEF Layer, Mentioned, Dependants, IInv, Remainder
<1>5. ASSUME NEW k \in Layer(d) \cap DOMAIN modules
      PROVE  modules[k] \subseteq Placed(r)
  <2>1. k \in DOMAIN d
    BY <1>4 DEF IInv, Remainder
  <2>2. d[k] = {}
    BY <2>1 DEF Layer, Dependants
  <2> QED BY <2>1, <2>2 DEF IInv, Remainder
<1> QED BY <1>1, <1>2, <1>3, <1>4, <1>5

\* Either the sequence of layers is unchanged or it is one layer longer.
LEMMA RoundLayers ==
  ASSUME IInv, Round
  PROVE  \/ r' = r
         \/ /\ r \in Seq(SUBSET Ext)
            /\ Layer(d) \in SUBSET Ext
            /\ r' = Append(r, Layer(d))
BY RoundFacts DEF Round, IInv, SolverTypeOK

\* Type correctness is kept by a turn.
LEMMA RoundType ==
  ASSUME IInv, Round
  PROVE  SolverTypeOK'
<1>1. modules' \in Graphs /\ d' \in Graphs
  BY RoundFacts, WithoutShape DEF IInv, SolverTypeOK
<1>2. r' \in Seq(SUBSET Ext)
  BY RoundLayers DEF IInv, SolverTypeOK
<1> QED BY <1>1, <1>2 DEF SolverTypeOK

\* A turn takes from d exactly what it places.
LEMMA RoundRemainder ==
  ASSUME IInv, Round
  PROVE  Remainder'
<1>1. /\ DOMAIN d' = Dependants(d)
      /\ \A k \in Dependants(d) : d'[k] = d[k] \ Layer(d)
  BY RoundFacts, WithoutShape DEF IInv, SolverTypeOK
<1>2. DOMAIN d' = DOMAIN modules' \ Placed(r')
  BY <1>1, RoundFacts DEF IInv, Remainder, Layer, Dependants, Mentioned
<1>3. ASSUME NEW k \in DOMAIN d' PROVE d'[k] = modules'[k] \ Placed(r')
  BY <1>1, <1>3, RoundFacts DEF IInv, Remainder, Dependants
<1> QED BY <1>2, <1>3 DEF Remainder

\* The new layer depends on earlier layers only.
LEMMA RoundOrder ==
  ASSUME IInv, Round
  PROVE  OrderRespectsDependencies'
<1>1. CASE r' = r
  BY <1>1, RoundFacts DEF OrderRespectsDependencies, IInv
<1>2. CASE r' = Append(r, Layer(d)) /\ r \in Seq(SUBSET Ext) /\ Layer(d) \in SUBSET Ext
  <2>1. /\ DOMAIN r' = 1..(Len(r) + 1)
        /\ DOMAIN r = 1..Len(r)
        /\ \A i \in 1..Len(r) : r'[i] = r[i]
        /\ r'[Len(r) + 1] = Layer(d)
        /\ Len(r) \in Nat
    BY <1>2
  <2>2. SUFFICES ASSUME NEW i \in 1..(Len(r) + 1), NEW k \in r'[i] \cap DOMAIN modules
                 PROVE  modules[k] \subseteq UNION {r'[j] : j \in 1..(i - 1)}
    BY <2>1, RoundFacts DEF OrderRespectsDependencies
  <2>3. \A j \in 1..(i - 1) : j \in 1..Len(r)
    BY <2>1
  <2>4. UNION {r'[j] : j \in 1..(i - 1)} = UNION {r[j] : j \in 1..(i - 1)}
    BY <2>1, <2>3
  <2>5. CASE i \in 1..Len(r)
    BY <2>1, <2>4, <2>5 DEF OrderRespectsDependencies, IInv
  <2>6. CASE i = Len(r) + 1
    <3>1. modules[k] \subseteq Placed(r)
      BY <2>1, <2>6, RoundFacts
    <3>2. 1..(i - 1) = DOMAIN r
      BY <2>1, <2>6
    <3> QED BY <2>4, <3>1, <3>2 DEF Placed
  <2> QED BY <2>1, <2>5, <2>6
<1> QED BY <1>1, <1>2, RoundLayers

\* The new layer shares no member with an earlier one.
LEMMA RoundOnce ==
  ASSUME IInv, Round
  PROVE  PlacedOnce'
<1>1. CASE r' = r
  BY <1>1 DEF PlacedOnce, IInv
<1>2. CASE r' = Append(r, Layer(d)) /\ r \in Seq(SUBSET Ext) /\ Layer(d) \in SUBSET Ext
  <2>1. /\ DOMAIN r' = 1..(Len(r) + 1)
        /\ DOMAIN r = 1..Len(r)
        /\ \A i \in 1..Len(r) : r'[i] = r[i]
        /\ r'[Len(r) + 1] = Layer(d)
        /\ Len(r) \in Nat
    BY <1>2
  <2>2. \A i \in 1..Len(r) : r[i] \cap Layer(d) = {}
    BY <2>1, RoundFacts DEF Placed
  <2>3. SUFFICES ASSUME NEW i \in 1..(Len(r) + 1), NEW j \in 1..(Len(r) + 1), i # j
                 PROVE  r'[i] \cap r'[j] = {}
    BY <2>1 DEF PlacedOnce
  <2>4. CASE i \in 1..Len(r) /\ j \in 1..Len(r)
    BY <2>1, <2>3, <2>4 DEF PlacedOnce, IInv
  <2>5. CASE i = Len(r) + 1
    BY <2>1, <2>2, <2>3, <2>5
  <2>6. CASE j = Len(r) + 1
    BY <2>1, <2>2, <2>3, <2>6
  <2> QED BY <2>1, <2>4, <2>5, <2>6
<1> QED BY <1>1, <1>2, RoundLayers

\* A turn moves names from what is left to what is placed.
LEMMA RoundCoverage ==
  ASSUME IInv, Round
  PROVE  Coverage'
<1>1. /\ DOMAIN d' = Dependants(d)
      /\ \A k \in Dependants(d) : d'[k] = d[k] \ Layer(d)
  BY RoundFacts, WithoutShape DEF IInv, SolverTypeOK
<1>2. Mentioned(d') = Mentioned(d) \ Layer(d)
  BY <1>1 DEF Mentioned, Dependants
<1>3. Layer(d) \subseteq Mentioned(d) \cup DOMAIN d
  BY DEF Layer
<1>4. DOMAIN d \subseteq Layer(d) \cup DOMAIN d'
  BY <1>1 DEF Layer
<1>5. DOMAIN d' \subseteq DOMAIN d
  BY <1>1 DEF Dependants
<1>6. Placed(r') \cup DOMAIN d' \cup Mentioned(d')
        = Placed(r) \cup DOMAIN d \cup Mentioned(d)
  BY <1>2, <1>3, <1>4, <1>5, RoundFacts
<1> QED BY <1>6, RoundFacts DEF Coverage, IInv

\* A knot stays out of the next layer: each member still waits for another.
LEMMA RoundKnots ==
  ASSUME IInv, Round
  PROVE  KnotsUnplaced'
<1>1. SUFFICES ASSUME NEW S \in SUBSET DOMAIN modules, Knot(S)
               PROVE  S \cap Placed(r') = {}
  BY RoundFacts DEF KnotsUnplaced, Knot
<1>2. S \cap Placed(r) = {}
  BY <1>1 DEF IInv, KnotsUnplaced
<1>3. ASSUME NEW k \in S PROVE k \notin Layer(d)
  <2>1. k \in DOMAIN d /\ d[k] = modules[k] \ Placed(r)
    BY <1>2 DEF IInv, Remainder
  <2>2. modules[k] \cap S # {}
    BY <1>1 DEF Knot
  <2>3. d[k] # {}
    BY <1>2, <2>1, <2>2
  <2> QED BY <2>1, <2>3 DEF Layer, Dependants
<1> QED BY <1>2, <1>3, RoundFacts

-----------------------------------------------------------------------------
\* Before the loop nothing is placed and all is left.
LEMMA InitIInv == SolverInit => IInv
<1>1. SUFFICES ASSUME SolverInit PROVE IInv
  OBVIOUS
<1>2. r \in Seq(SUBSET Ext) /\ DOMAIN r = {}
  BY <1>1 DEF SolverInit
<1>3. Placed(r) = {}
  BY <1>2 DEF Placed
<1>4. DOMAIN modules = DOMAIN modules \ {}
  OBVIOUS
<1>5. Remainder
  BY <1>1, <1>3 DEF SolverInit, Remainder
<1>6. OrderRespectsDependencies /\ PlacedOnce
  BY <1>2 DEF OrderRespectsDependencies, PlacedOnce
<1>7. Coverage
  BY <1>1, <1>3 DEF SolverInit, Coverage
<1>8. KnotsUnplaced
  BY <1>3 DEF KnotsUnplaced
<1> QED BY <1>1, <1>2, <1>5, <1>6, <1>7, <1>8 DEF IInv, SolverTypeOK, SolverInit

\* The invariant is inductive.
LEMMA NextIInv == IInv /\ [SolverNext]_solverVars => IInv'
<1>1. SUFFICES ASSUME IInv, [SolverNext]_solverVars PROVE IInv'
  OBVIOUS
<1>2. CASE Round
  BY <1>1, <1>2, RoundType, RoundRemainder, RoundOrder, RoundOnce,
     RoundCoverage, RoundKnots DEF IInv
<1>3. CASE UNCHANGED solverVars
  BY <1>1, <1>3 DEF solverVars, IInv, SolverTypeOK, Remainder, OrderRespectsDependencies,
     PlacedOnce, Coverage, KnotsUnplaced, Knot, Placed, Mentioned
<1> QED BY <1>1, <1>2, <1>3 DEF SolverNext, Returned

\* The strengthening holds in every behaviour of the solver.
THEOREM Inductive == SolverSpec => []IInv
BY InitIInv, NextIInv, PTL DEF SolverSpec

\* The table and the layers keep their types.
THEOREM TypeCorrect == SolverSpec => []SolverTypeOK
<1>1. IInv => SolverTypeOK
  BY DEF IInv
<1> QED BY <1>1, Inductive, PTL

\* For every table the flattened layers list each extension after everything it
\* depends on, as the list extensionLoadOrder of config/order.lua is meant to.
THEOREM OrderIsSound == SolverSpec => []OrderRespectsDependencies
<1>1. IInv => OrderRespectsDependencies
  BY DEF IInv
<1> QED BY <1>1, Inductive, PTL

\* No extension is placed twice.
THEOREM OrderHasNoRepeats == SolverSpec => []PlacedOnce
<1>1. IInv => PlacedOnce
  BY DEF IInv
<1> QED BY <1>1, Inductive, PTL

\* Whatever solve() returns is complete.
THEOREM OrderIsComplete == SolverSpec => []CompleteWhenDone
<1>1. ASSUME IInv PROVE CompleteWhenDone
  <2>1. SUFFICES ASSUME Done PROVE Placed(r) = DOMAIN modules \cup Mentioned(modules)
    BY DEF CompleteWhenDone
  <2>2. Mentioned(d) = {}
    BY <2>1 DEF Done, Mentioned
  <2> QED BY <1>1, <2>1, <2>2 DEF IInv, Coverage, Done
<1> QED BY <1>1, Inductive, PTL

\* On a table with a cycle the while loop of solve() is never left, whatever the
\* number of extensions: a knot is never placed, so d is never empty.
THEOREM CyclesHang == SolverSpec => CyclicNeverReturns
<1>1. IInv /\ ~Acyclic => ~Done
  <2>1. SUFFICES ASSUME IInv, NEW S \in SUBSET DOMAIN modules, Knot(S)
                 PROVE  DOMAIN d # {}
    BY DEF Acyclic, Done
  <2>2. S \cap Placed(r) = {} /\ S # {}
    BY <2>1 DEF IInv, KnotsUnplaced, Knot
  <2> QED BY <2>1, <2>2 DEF IInv, Remainder
<1>2. ~Acyclic /\ [SolverNext]_solverVars => ~Acyclic'
  BY DEF SolverNext, Round, Returned, solverVars, Acyclic, Knot
<1> QED BY <1>1, <1>2, Inductive, PTL DEF SolverSpec, CyclicNeverReturns


-----------------------------------------------------------------------------
(* ExtensionMatcher.                                                         *)

Digits == Seq(0..9)

\* A part of a version is text of digits, or missing.
LEMMA PartShape ==
  ASSUME NEW v \in Version, NEW i \in 1..3
  PROVE  /\ Part(v, i) \in Digits
         /\ Part(v, i) = Missing <=> i > Len(v)
<1>1. Len(v) \in 1..3 /\ \A j \in 1..Len(v) : v[j] \in Seq(0..9) /\ v[j] # <<>>
  BY MatcherAssumption
<1> QED
  BY <1>1 DEF Part, Missing, Digits

\* The values of a text's beginnings, from the recursion.
LEMMA ValuesShape ==
  ASSUME NEW p \in Digits
  PROVE  /\ Values(p) \in [0..Len(p) -> Nat]
         /\ Values(p)[0] = 0
         /\ \A i \in 1..Len(p) : Values(p)[i] = 10 * Values(p)[i - 1] + p[i]
<1> DEFINE Def(g) == [i \in 0..Len(p) |-> IF i = 0 THEN 0 ELSE 10 * g[i - 1] + p[i]]
           D == 0..9
           step == [x \in Nat \X D |-> 10 * x[1] + x[2]]
<1>1. p \in Seq(D) /\ Len(p) \in Nat /\ \A i \in 1..Len(p) : p[i] \in D /\ p[i] \in Nat
  BY DEF Digits
<1>2. step \in [Nat \X D -> Nat]
  OBVIOUS
<1>3. \A f \in [0..Len(p) -> Nat] : \A i \in 1..Len(p) :
        step[<<f[i - 1], p[i]>>] = 10 * f[i - 1] + p[i]
  <2> TAKE f \in [0..Len(p) -> Nat]
  <2> TAKE i \in 1..Len(p)
  <2>1. f[i - 1] \in Nat /\ p[i] \in D
    BY <1>1
  <2> HIDE DEF D
  <2> QED
    BY <2>1
<1>4. PICK f \in [0..Len(p) -> Nat] :
        f[0] = 0 /\ \A i \in 1..Len(p) : f[i] = step[<<f[i - 1], p[i]>>]
  <2> HIDE DEF step, D
  <2>1. 0 \in Nat
    OBVIOUS
  <2> QED
    <3>1. FoldsOf(Nat, 0, step, p) # {}
      BY <1>1, <1>2, <2>1, FoldExists
    <3> QED
      BY <3>1 DEF FoldsOf
<1>5. f = Def(f)
  <2>1. \A i \in 1..Len(p) : f[i] = 10 * f[i - 1] + p[i]
    BY <1>3, <1>4
  <2> HIDE DEF step, D
  <2> QED
    BY <1>4, <2>1
<1>6. Values(p) = CHOOSE g : g = Def(g)
  BY DEF Values
<1>7. Values(p) = Def(Values(p))
  <2> HIDE DEF Def
  <2> QED
    BY <1>5, <1>6
<1>8. /\ Values(p) = [i \in 0..Len(p) |-> Values(p)[i]]
      /\ Values(p)[0] = 0
      /\ \A i \in 1..Len(p) : Values(p)[i] = 10 * Values(p)[i - 1] + p[i]
  <2>1. Values(p) = [i \in 0..Len(p) |-> IF i = 0 THEN 0 ELSE 10 * Values(p)[i - 1] + p[i]]
    BY <1>7
  <2> DEFINE g == Values(p)
  <2> HIDE DEF g
  <2>2. g = [i \in 0..Len(p) |-> IF i = 0 THEN 0 ELSE 10 * g[i - 1] + p[i]]
    BY <2>1 DEF g
  <2>3. g = [i \in 0..Len(p) |-> g[i]]
    BY <2>2
  <2>4. g[0] = 0
    BY <1>1, <2>2
  <2>5. \A i \in 1..Len(p) : g[i] = 10 * g[i - 1] + p[i]
    <3> TAKE i \in 1..Len(p)
    <3>1. i \in 0..Len(p) /\ i # 0
      BY <1>1
    <3> QED
      BY <2>2, <3>1
  <2> QED
    BY <2>3, <2>4, <2>5 DEF g
<1> HIDE DEF Def
<1> DEFINE S == {i \in 0..Len(p) : Values(p)[i] \in Nat}
<1>9. 0 \in S
  BY <1>1, <1>8
<1>10. \A i \in Nat : 0 <= i /\ i < Len(p) /\ i \in S => i + 1 \in S
  <2> TAKE i \in Nat
  <2> HAVE 0 <= i /\ i < Len(p) /\ i \in S
  <2>1. i + 1 \in 1..Len(p) /\ (i + 1) - 1 = i /\ Values(p)[i] \in Nat
    BY <1>1
  <2>2. Values(p)[i + 1] = 10 * Values(p)[i] + p[i + 1]
    BY <1>8, <2>1
  <2> QED
    BY <1>1, <2>1, <2>2
<1>11. \A i \in 0..Len(p) : i \in S
  <2> HIDE DEF S
  <2>1. 0 \in Nat
    OBVIOUS
  <2> QED
    BY <1>1, <1>9, <1>10, <2>1, UpTo
<1> QED
  BY <1>8, <1>11

LEMMA DigitCounts ==
  ASSUME NEW a \in Nat, NEW b \in Nat, NEW x \in 0..9, NEW y \in 0..9, a < b
  PROVE  10 * a + x < 10 * b + y
OBVIOUS

\* Text of one length has the order of the numbers it writes.
LEMMA TextHasTheOrder ==
  ASSUME NEW p \in Digits, NEW q \in Digits, Len(p) = Len(q), TextLess(p, q)
  PROVE  NumberOf(p) < NumberOf(q)
<1> DEFINE n == Len(p)
<1>1. n \in Nat /\ \A i \in 1..n : p[i] \in 0..9 /\ q[i] \in 0..9
  BY DEF Digits
<1>2. PICK i \in 1..n : (\A j \in 1..(i - 1) : p[j] = q[j]) /\ p[i] < q[i]
  BY <1>1 DEF TextLess
<1>3. /\ Values(p) \in [0..n -> Nat] /\ Values(p)[0] = 0
      /\ \A j \in 1..n : Values(p)[j] = 10 * Values(p)[j - 1] + p[j]
  BY ValuesShape
<1>4. /\ Values(q) \in [0..n -> Nat] /\ Values(q)[0] = 0
      /\ \A j \in 1..n : Values(q)[j] = 10 * Values(q)[j - 1] + q[j]
  BY ValuesShape
<1> HIDE DEF n
<1> DEFINE S == {j \in 0..n : Values(p)[j] = Values(q)[j]}
           T == {j \in 1..n : Values(p)[j] < Values(q)[j]}
<1>5. \A j \in 0..(i - 1) : j \in S
  <2>1. 0 \in S
    BY <1>1, <1>3, <1>4
  <2>2. \A j \in Nat : 0 <= j /\ j < i - 1 /\ j \in S => j + 1 \in S
    <3> TAKE j \in Nat
    <3> HAVE 0 <= j /\ j < i - 1 /\ j \in S
    <3>1. j + 1 \in 1..n /\ (j + 1) - 1 = j /\ p[j + 1] = q[j + 1]
      BY <1>1, <1>2
    <3>2. Values(p)[j + 1] = 10 * Values(p)[j] + p[j + 1] /\ Values(q)[j + 1] = 10 * Values(q)[j] + q[j + 1]
      BY <1>3, <1>4, <3>1
    <3> QED
      BY <3>1, <3>2
  <2>3. 0 \in Nat /\ i - 1 \in Nat
    BY <1>1
  <2> HIDE DEF S
  <2> QED
    BY <2>1, <2>2, <2>3, UpTo
<1>6. i \in T
  <2>1. i - 1 \in 0..(i - 1) /\ i - 1 \in 0..n
    BY <1>1
  <2>2. Values(p)[i - 1] = Values(q)[i - 1] /\ Values(p)[i - 1] \in Nat
    BY <1>3, <1>5, <2>1
  <2>3. Values(p)[i] = 10 * Values(p)[i - 1] + p[i] /\ Values(q)[i] = 10 * Values(q)[i - 1] + q[i]
    BY <1>3, <1>4
  <2>4. Values(p)[i] < Values(q)[i]
    <3> DEFINE a == Values(p)[i - 1]
               digit == p[i]
               other == q[i]
               v == Values(p)[i]
               w == Values(q)[i]
    <3>1. a \in Nat /\ digit \in 0..9 /\ other \in 0..9 /\ digit < other
      BY <1>1, <1>2, <2>2
    <3>2. v = 10 * a + digit /\ w = 10 * a + other
      BY <2>2, <2>3
    <3> HIDE DEF a, digit, other, v, w
    <3>3. v < w
      BY ONLY <3>1, <3>2
    <3> QED
      BY <3>3 DEF v, w
  <2> QED
    BY <2>4
<1>7. \A j \in i..n : j \in T
  <2>1. \A j \in Nat : i <= j /\ j < n /\ j \in T => j + 1 \in T
    <3> TAKE j \in Nat
    <3> HAVE i <= j /\ j < n /\ j \in T
    <3>1. /\ j + 1 \in 1..n /\ (j + 1) - 1 = j /\ p[j + 1] \in 0..9 /\ q[j + 1] \in 0..9
          /\ Values(p)[j] \in Nat /\ Values(q)[j] \in Nat
      <4>1. j \in 0..n /\ j + 1 \in 1..n /\ (j + 1) - 1 = j
        BY <1>1
      <4> QED
        BY <1>1, <1>3, <1>4, <4>1
    <3>2. Values(p)[j + 1] = 10 * Values(p)[j] + p[j + 1] /\ Values(q)[j + 1] = 10 * Values(q)[j] + q[j + 1]
      BY <1>3, <1>4, <3>1
    <3>3. Values(p)[j] < Values(q)[j]
      OBVIOUS
    <3>4. Values(p)[j + 1] < Values(q)[j + 1]
      BY <3>1, <3>2, <3>3, DigitCounts
    <3> QED
      BY <3>1, <3>4
  <2>2. i \in Nat
    BY <1>1
  <2> HIDE DEF T
  <2> QED
    BY <1>1, <1>6, <2>1, <2>2, UpTo
<1>8. Values(p)[n] < Values(q)[n]
  BY <1>1, <1>7
<1> QED
  BY <1>8 DEF NumberOf, n

\* Two texts of one length are the same or one is less.
LEMMA TextIsOrdered ==
  ASSUME NEW p \in Digits, NEW q \in Digits, Len(p) = Len(q), p # q
  PROVE  TextLess(p, q) \/ TextLess(q, p)
<1> DEFINE differs == {i \in 1..Len(p) : p[i] # q[i]}
<1>1. Len(p) \in Nat /\ \A i \in 1..Len(p) : p[i] \in 0..9 /\ q[i] \in 0..9
  BY DEF Digits
<1>2. differs # {}
  BY DEF Digits
<1>3. PICK i \in differs : \A j \in differs : i <= j
  <2>1. differs \subseteq Nat
    BY <1>1
  <2> HIDE DEF differs
  <2> QED
    BY <1>2, <2>1, LeastNumber
<1>4. i \in 1..Len(p) /\ p[i] # q[i] /\ \A j \in 1..(i - 1) : j <= Len(p) /\ p[j] = q[j]
  BY <1>1, <1>3
<1>5. p[i] < q[i] \/ q[i] < p[i]
  BY <1>1, <1>4
<1> QED
  BY <1>1, <1>4, <1>5 DEF TextLess

LEMMA NumberShape == ASSUME NEW p \in Digits PROVE NumberOf(p) \in Nat
<1>1. Len(p) \in 0..Len(p)
  BY DEF Digits
<1> QED
  BY <1>1, ValuesShape DEF NumberOf

-----------------------------------------------------------------------------
\* The order of versions is that of their three numbers.
Precedes(a, b) ==
  \/ a[1] < b[1]
  \/ a[1] = b[1] /\ a[2] < b[2]
  \/ a[1] = b[1] /\ a[2] = b[2] /\ a[3] < b[3]

Numbers(v) == <<NumberOf(Part(v, 1)), NumberOf(Part(v, 2)), NumberOf(Part(v, 3))>>

LEMMA NumbersShape ==
  ASSUME NEW v \in Version
  PROVE  /\ \A i \in 1..3 : NumberOf(Part(v, i)) \in Nat /\ Numbers(v)[i] = NumberOf(Part(v, i))
         /\ Numbers(v) \in Nat \X Nat \X Nat
<1>1. \A i \in 1..3 : NumberOf(Part(v, i)) \in Nat
  BY PartShape, NumberShape
<1> QED
  BY <1>1 DEF Numbers

\* The first of some places, as Compare and Order choose it.
LEMMA FirstPlace ==
  ASSUME NEW differs \in SUBSET (1..3), differs # {}
  PROVE  LET first == CHOOSE i \in differs : \A j \in differs : i <= j
         IN  first \in differs /\ \A j \in differs : first <= j
<1>1. \E i \in differs : \A j \in differs : i <= j
  <2>1. differs \subseteq Nat
    OBVIOUS
  <2> QED
    BY <2>1, LeastNumber
<1> QED
  BY <1>1

LEMMA OrderCases ==
  ASSUME NEW v \in Version, NEW w \in Version
  PROVE  /\ Order(v, w) \in {"equal", "less", "greater"}
         /\ Order(v, w) = "equal" <=> Numbers(v) = Numbers(w)
         /\ Order(v, w) = "less" <=> Precedes(Numbers(v), Numbers(w))
         /\ Order(v, w) = "greater" <=> Precedes(Numbers(w), Numbers(v))
<1> DEFINE differs == {i \in 1..3 : NumberOf(Part(v, i)) # NumberOf(Part(w, i))}
           first == CHOOSE i \in differs : \A j \in differs : i <= j
<1>1. \A i \in 1..3 : /\ NumberOf(Part(v, i)) \in Nat /\ Numbers(v)[i] = NumberOf(Part(v, i))
                      /\ NumberOf(Part(w, i)) \in Nat /\ Numbers(w)[i] = NumberOf(Part(w, i))
  BY NumbersShape
<1>2. CASE differs = {}
  <2>1. Order(v, w) = "equal"
    BY <1>2 DEF Order
  <2>2. \A i \in 1..3 : NumberOf(Part(v, i)) = NumberOf(Part(w, i))
    BY <1>2
  <2>3. Numbers(v) = Numbers(w)
    BY <2>2 DEF Numbers
  <2> QED
    BY <1>1, <2>1, <2>3 DEF Precedes
<1>3. CASE differs # {}
  <2>1. first \in differs /\ \A j \in differs : first <= j
    <3>1. differs \in SUBSET (1..3)
      OBVIOUS
    <3> HIDE DEF differs
    <3> QED
      BY <1>3, <3>1, FirstPlace
  <2>2. Order(v, w) = IF NumberOf(Part(v, first)) < NumberOf(Part(w, first)) THEN "less" ELSE "greater"
    BY <1>3 DEF Order
  <2> HIDE DEF first
  <2>3. /\ first \in 1..3 /\ NumberOf(Part(v, first)) # NumberOf(Part(w, first))
        /\ \A j \in 1..3 : j < first => NumberOf(Part(v, j)) = NumberOf(Part(w, j))
    BY <2>1
  <2>4. /\ Numbers(v)[first] # Numbers(w)[first]
        /\ \A j \in 1..3 : j < first => Numbers(v)[j] = Numbers(w)[j]
        /\ \A j \in 1..3 : Numbers(v)[j] \in Nat /\ Numbers(w)[j] \in Nat
        /\ Order(v, w) = IF Numbers(v)[first] < Numbers(w)[first] THEN "less" ELSE "greater"
    BY <1>1, <2>2, <2>3
  <2>5. first = 1 \/ first = 2 \/ first = 3
    BY <2>3
  <2> QED
    BY <2>4, <2>5 DEF Precedes
<1> QED
  BY <1>2, <1>3

LEMMA PrecedesIsAnOrder ==
  ASSUME NEW a \in Nat \X Nat \X Nat, NEW b \in Nat \X Nat \X Nat, NEW c \in Nat \X Nat \X Nat
  PROVE  /\ a = b \/ Precedes(a, b) \/ Precedes(b, a)
         /\ Precedes(a, b) /\ Precedes(b, c) => Precedes(a, c)
         /\ ~Precedes(a, a)
BY DEF Precedes

-----------------------------------------------------------------------------
\* Two versions whose parts have as many digits where both have a part.
Alike(v, w) ==
  \A i \in 1..3 :
    {Part(v, i), Part(w, i)} \cap {Missing} # {} \/ Len(Part(v, i)) = Len(Part(w, i))

\* Text that can be compared, and has as many digits, has the order of the numbers.
LEMMA CompareIsOrder ==
  ASSUME NEW v \in Version, NEW w \in Version, Alike(v, w), Compare(v, w) # "error"
  PROVE  Compare(v, w) = Order(v, w)
<1> DEFINE differs == {i \in 1..3 : Part(v, i) # Part(w, i)}
           first == CHOOSE i \in differs : \A j \in differs : i <= j
<1>1. \A i \in 1..3 : /\ Part(v, i) \in Digits /\ Part(w, i) \in Digits
                      /\ NumberOf(Part(v, i)) \in Nat /\ Numbers(v)[i] = NumberOf(Part(v, i))
                      /\ NumberOf(Part(w, i)) \in Nat /\ Numbers(w)[i] = NumberOf(Part(w, i))
  BY NumbersShape, PartShape
<1>2. CASE differs = {}
  <2>1. Compare(v, w) = "equal"
    BY <1>2 DEF Compare
  <2>2. \A i \in 1..3 : Part(v, i) = Part(w, i)
    BY <1>2
  <2>3. Numbers(v) = Numbers(w)
    BY <2>2 DEF Numbers
  <2> QED
    BY <2>1, <2>3, OrderCases
<1>3. CASE differs # {}
  <2>1. first \in differs /\ \A j \in differs : first <= j
    <3>1. differs \in SUBSET (1..3)
      OBVIOUS
    <3> HIDE DEF differs
    <3> QED
      BY <1>3, <3>1, FirstPlace
  <2>2. Compare(v, w) = IF Missing \in {Part(v, first), Part(w, first)} THEN "error"
                        ELSE IF TextLess(Part(v, first), Part(w, first)) THEN "less" ELSE "greater"
    BY <1>3 DEF Compare
  <2> HIDE DEF first
  <2>3. /\ first \in 1..3 /\ Part(v, first) # Part(w, first)
        /\ \A j \in 1..3 : j < first => Part(v, j) = Part(w, j)
    BY <2>1
  <2>4. Missing \notin {Part(v, first), Part(w, first)}
    BY <2>2
  <2>5. Len(Part(v, first)) = Len(Part(w, first))
    BY <2>3, <2>4 DEF Alike
  <2>6. \/ /\ TextLess(Part(v, first), Part(w, first))
           /\ NumberOf(Part(v, first)) < NumberOf(Part(w, first)) /\ Compare(v, w) = "less"
        \/ /\ NumberOf(Part(w, first)) < NumberOf(Part(v, first)) /\ Compare(v, w) = "greater"
    <3>1. CASE TextLess(Part(v, first), Part(w, first))
      BY <1>1, <2>2, <2>3, <2>4, <2>5, <3>1, TextHasTheOrder
    <3>2. CASE ~TextLess(Part(v, first), Part(w, first))
      <4>1. TextLess(Part(w, first), Part(v, first))
        BY <1>1, <2>3, <2>5, <3>2, TextIsOrdered
      <4> QED
        BY <1>1, <2>2, <2>3, <2>4, <2>5, <3>2, <4>1, TextHasTheOrder
    <3> QED
      BY <3>1, <3>2
  <2>7. /\ \A j \in 1..3 : j < first => Numbers(v)[j] = Numbers(w)[j]
        /\ \A j \in 1..3 : Numbers(v)[j] \in Nat /\ Numbers(w)[j] \in Nat
        /\ \/ Numbers(v)[first] < Numbers(w)[first] /\ Compare(v, w) = "less"
           \/ Numbers(w)[first] < Numbers(v)[first] /\ Compare(v, w) = "greater"
    BY <1>1, <2>3, <2>6
  <2>8. first = 1 \/ first = 2 \/ first = 3
    BY <2>3
  <2>9. \/ Precedes(Numbers(v), Numbers(w)) /\ Compare(v, w) = "less"
        \/ Precedes(Numbers(w), Numbers(v)) /\ Compare(v, w) = "greater"
    BY <2>7, <2>8 DEF Precedes
  <2> QED
    BY <2>9, OrderCases
<1> QED
  BY <1>2, <1>3

\* Versions that cannot be compared have not the same number of parts.
LEMMA ErrorHasFewerParts ==
  ASSUME NEW v \in Version, NEW w \in Version, Compare(v, w) = "error"
  PROVE  Len(v) # Len(w)
<1> SUFFICES ASSUME Len(v) = Len(w) PROVE FALSE
  OBVIOUS
<1> DEFINE differs == {i \in 1..3 : Part(v, i) # Part(w, i)}
           first == CHOOSE i \in differs : \A j \in differs : i <= j
<1>1. differs # {}
  BY DEF Compare
<1>2. first \in differs
  <2>1. differs \in SUBSET (1..3)
    OBVIOUS
  <2> HIDE DEF differs
  <2> QED
    BY <1>1, <2>1, FirstPlace
<1>3. Missing \in {Part(v, first), Part(w, first)}
  BY <1>1 DEF Compare
<1> HIDE DEF first
<1>4. first \in 1..3 /\ Part(v, first) # Part(w, first)
  BY <1>2
<1> QED
  BY <1>3, <1>4, PartShape

-----------------------------------------------------------------------------
(* The search.                                                               *)

MatchTypeOK ==
  /\ installed \in [Extension -> [kind : Kinds, name : Name, version : Version]]
  /\ req \in [name : Name, op : Operator, version : Version]
  /\ kind \in Kinds
  /\ rest \subseteq Of(kind)
  /\ m \in Of(kind) \cup {None}
  /\ status \in {"searching", "found", "none", "raised"}

Named(e) == installed[e].name = req.name

\* The match so far answers, and is the newest of those that were come to.
BestSoFar ==
  /\ m # None => Answers(m)
  /\ \A e \in Of(kind) \ rest :
       Answers(e) => m # None /\ Order(Ver(e), Ver(m)) # "greater"
  /\ kind = "plugin" => \A e \in Of("module") : ~Answers(e)

StatusIsRight ==
  /\ status = "found" => rest = {} /\ m # None
  /\ status = "none" => rest = {} /\ m = None /\ kind = "plugin"
  /\ status = "raised" =>
       \E e \in Extension : Named(e) /\ Len(Ver(e)) # Len(req.version)

MatchInv ==
  /\ MatchTypeOK
  /\ m # None => Named(m)
  /\ SameDigits => BestSoFar
  /\ StatusIsRight

LEMMA InstalledShape ==
  ASSUME MatchTypeOK, NEW e \in Extension
  PROVE  Ver(e) \in Version /\ req.version \in Version /\ installed[e].kind \in Kinds
BY DEF MatchTypeOK, Ver

\* Versions of the name that is searched can be compared by their digits.
LEMMA NamedAreAlike ==
  ASSUME SameDigits, MatchTypeOK, NEW e \in Extension, Named(e)
  PROVE  /\ Alike(Ver(e), req.version)
         /\ \A f \in Extension : Named(f) => Alike(Ver(e), Ver(f))
BY DEF SameDigits, Alike, Named

LEMMA MatchInvInit == MatchInit => MatchInv
<1> SUFFICES ASSUME MatchInit PROVE MatchInv
  OBVIOUS
<1>1. MatchTypeOK
  BY DEF MatchInit, MatchTypeOK, Kinds
<1> QED
  BY <1>1 DEF MatchInit, MatchInv, BestSoFar, StatusIsRight

\* Which extension answers depends on nothing that the search changes.
Fixed == UNCHANGED <<installed, req>>

LEMMA AnswersStay ==
  ASSUME Fixed
  PROVE  /\ SameDigits' = SameDigits
         /\ \A e : Ver(e)' = Ver(e) /\ Answers(e)' = Answers(e) /\ Named(e)' = Named(e)
         /\ \A k : Of(k)' = Of(k)
<1>1. \A e : Ver(e)' = Ver(e)
  BY DEF Ver, Fixed
<1>2. \A e : Answers(e)' = Answers(e) /\ Named(e)' = Named(e)
  BY <1>1 DEF Answers, Named, Fixed
<1>3. \A k : Of(k)' = Of(k)
  BY DEF Of, Fixed
<1>4. SameDigits' = SameDigits
  BY DEF SameDigits, Ver, Fixed
<1> QED
  BY <1>1, <1>2, <1>3, <1>4

\* No newer one was come to than e, if the match so far is not newer than e.
LEMMA NewerTakesOver ==
  ASSUME NEW u \in Version, NEW v \in Version, NEW w \in Version,
         Order(u, v) # "greater", Order(w, v) = "greater" \/ Order(w, v) = "equal"
  PROVE  Order(u, w) # "greater"
<1>1. \A x \in Version : Numbers(x) \in Nat \X Nat \X Nat
  BY NumbersShape
<1>2. ~Precedes(Numbers(v), Numbers(u)) /\ (Precedes(Numbers(v), Numbers(w)) \/ Numbers(w) = Numbers(v))
  BY OrderCases
<1>3. ~Precedes(Numbers(w), Numbers(u))
  BY <1>1, <1>2, PrecedesIsAnOrder
<1> QED
  BY <1>3, OrderCases

LEMMA OrderReflexive == ASSUME NEW v \in Version PROVE Order(v, v) = "equal"
BY OrderCases

\* Does e, which can be compared, satisfy the requirement?  The text says what the
\* numbers say.
LEMMA SatisfiesIsAnswers ==
  ASSUME MatchTypeOK, SameDigits, NEW e \in Extension, ~CannotCompare(e)
  PROVE  Answers(e) <=> Named(e) /\ Compare(Ver(e), req.version) \in Satisfying(req.op)
<1>1. CASE Named(e) /\ req.op \in {"==", ">", ">="}
  <2>1. Compare(Ver(e), req.version) # "error"
    BY <1>1 DEF CannotCompare, Named
  <2>2. Compare(Ver(e), req.version) = Order(Ver(e), req.version)
    BY <1>1, <2>1, NamedAreAlike, InstalledShape, CompareIsOrder
  <2> QED
    BY <1>1, <2>2 DEF Answers, Named
<1>2. CASE req.op \notin {"==", ">", ">="}
  BY <1>2 DEF Satisfying, Answers
<1>3. CASE ~Named(e)
  BY <1>3 DEF Answers, Named
<1> QED
  BY <1>1, <1>2, <1>3

LEMMA ConsiderKeepsBest ==
  ASSUME MatchInv, SameDigits, NEW e \in Extension, Consider(e)
  PROVE  BestSoFar'
<1>1. MatchTypeOK /\ BestSoFar /\ e \in rest /\ e \in Of(kind) /\ ~CannotCompare(e)
  BY DEF MatchInv, MatchTypeOK, Consider
<1>2. /\ Fixed /\ kind' = kind /\ rest' = rest \ {e}
      /\ m' = IF Answers(e) /\ Replaces(e) THEN e ELSE m
  BY <1>1, SatisfiesIsAnswers DEF Consider, Fixed, Named
<1>3. \A f \in Of(kind) \ rest' : f = e \/ f \in Of(kind) \ rest
  BY <1>2
<1>4. Of(kind) \subseteq Extension /\ \A f \in Extension : Ver(f) \in Version
  BY <1>1, InstalledShape DEF Of
<1>5. e # None /\ None \notin Extension
  BY MatcherAssumption
<1>6. m # None => m \in Extension /\ Named(m)
  BY <1>4 DEF MatchInv, MatchTypeOK
<1>7. ASSUME m # None, Answers(e), Compare(Ver(e), Ver(m)) # "error"
      PROVE  Compare(Ver(e), Ver(m)) = Order(Ver(e), Ver(m))
  BY <1>1, <1>4, <1>6, <1>7, NamedAreAlike, CompareIsOrder DEF Answers, Named
<1>8. m' # None => Answers(m')
  BY <1>1, <1>2 DEF BestSoFar
<1>9. ASSUME NEW f \in Of(kind) \ rest', Answers(f)
      PROVE  m' # None /\ Order(Ver(f), Ver(m')) # "greater"
  <2>1. CASE Answers(e) /\ Replaces(e)
    <3>1. m' = e
      BY <1>2, <2>1
    <3>2. CASE f = e
      BY <1>4, <1>5, <3>1, <3>2, OrderReflexive
    <3>3. CASE f # e
      <4>1. f \in Extension /\ m # None /\ Order(Ver(f), Ver(m)) # "greater"
        BY <1>1, <1>3, <1>4, <1>9, <3>3 DEF BestSoFar
      <4>2. CASE req.op = "=="
        <5>1. Order(Ver(f), req.version) = "equal" /\ Order(Ver(e), req.version) = "equal"
          BY <1>9, <2>1, <4>2 DEF Answers, Satisfying
        <5>2. Order(Ver(f), Ver(e)) = "equal"
          BY <1>1, <1>4, <4>1, <5>1, OrderCases, InstalledShape
        <5> QED
          BY <1>5, <3>1, <5>2
      <4>3. CASE req.op # "=="
        <5>1. Compare(Ver(e), Ver(m)) = "greater"
          BY <2>1, <4>1, <4>3 DEF Replaces
        <5>2. Order(Ver(e), Ver(m)) = "greater"
          BY <1>7, <2>1, <4>1, <5>1
        <5>3. Order(Ver(f), Ver(e)) # "greater"
          BY <1>4, <1>6, <4>1, <5>2, NewerTakesOver
        <5> QED
          BY <1>5, <3>1, <5>3
      <4> QED
        BY <4>2, <4>3
    <3> QED
      BY <3>2, <3>3
  <2>2. CASE ~(Answers(e) /\ Replaces(e))
    <3>1. m' = m
      BY <1>2, <2>2
    <3>2. CASE f = e
      <4>1. m # None /\ req.op # "==" /\ Compare(Ver(e), Ver(m)) # "greater"
        BY <1>9, <2>2, <3>2 DEF Replaces
      <4>2. Compare(Ver(e), Ver(m)) # "error"
        BY <1>1, <1>9, <3>2, <4>1, SatisfiesIsAnswers DEF CannotCompare, Named
      <4> QED
        BY <1>7, <1>9, <3>1, <3>2, <4>1, <4>2
    <3>3. CASE f # e
      BY <1>1, <1>3, <1>9, <3>1, <3>3 DEF BestSoFar
    <3> QED
      BY <3>2, <3>3
  <2> QED
    BY <2>1, <2>2
<1>10. kind = "plugin" => \A f \in Of("module") : ~Answers(f)
  BY <1>1 DEF BestSoFar
<1> QED
  BY <1>2, <1>8, <1>9, <1>10, AnswersStay DEF BestSoFar

LEMMA ConsiderKeeps ==
  ASSUME MatchInv, NEW e \in Extension, Consider(e)
  PROVE  MatchInv'
<1>1. Fixed /\ kind' = kind /\ status' = status /\ status = "searching" /\ rest' = rest \ {e}
  BY DEF Consider, Fixed
<1>2. m' = m \/ (m' = e /\ Named(e) /\ e \in rest)
  BY DEF Consider, Named
<1>3. MatchTypeOK'
  BY <1>1, <1>2, AnswersStay DEF MatchInv, MatchTypeOK, Fixed
<1>4. m' # None => Named(m')
  BY <1>2 DEF MatchInv
<1>5. (m # None => Named(m))'
  BY <1>1, <1>4 DEF Named, Fixed
<1>6. StatusIsRight'
  BY <1>1 DEF StatusIsRight
<1> QED
  BY <1>1, <1>3, <1>5, <1>6, ConsiderKeepsBest, AnswersStay DEF MatchInv

\* A search that fails has come to a version of another number of parts.
LEMMA RaiseKeeps ==
  ASSUME MatchInv, NEW e \in Extension, Raise(e)
  PROVE  MatchInv'
<1>1. /\ UNCHANGED <<installed, req, kind, rest, m>> /\ status' = "raised"
      /\ e \in rest /\ CannotCompare(e)
  BY DEF Raise
<1>2. MatchTypeOK /\ Named(e) /\ Ver(e) \in Version /\ req.version \in Version
  BY <1>1, InstalledShape DEF MatchInv, CannotCompare, Named
<1>3. \E f \in Extension : Named(f) /\ Len(Ver(f)) # Len(req.version)
  <2>1. \/ Compare(Ver(e), req.version) = "error"
        \/ m # None /\ Compare(Ver(e), Ver(m)) = "error"
    BY <1>1 DEF CannotCompare
  <2>2. CASE Compare(Ver(e), req.version) = "error"
    BY <1>2, <2>2, ErrorHasFewerParts
  <2>3. CASE m # None /\ Compare(Ver(e), Ver(m)) = "error"
    <3>1. m \in Extension /\ Named(m) /\ Ver(m) \in Version
      BY <1>2, <2>3, InstalledShape DEF MatchInv, MatchTypeOK, Of
    <3>2. Len(Ver(e)) # Len(Ver(m))
      BY <1>2, <2>3, <3>1, ErrorHasFewerParts
    <3> QED
      BY <1>2, <3>1, <3>2
  <2> QED
    BY <2>1, <2>2, <2>3
<1>4. StatusIsRight'
  BY <1>1, <1>3 DEF StatusIsRight, Named, Ver
<1>5. MatchTypeOK' /\ (m # None => Named(m))' /\ (SameDigits => BestSoFar)'
  BY <1>1, AnswersStay DEF MatchInv, MatchTypeOK, Fixed, BestSoFar, Named, Of
<1> QED
  BY <1>4, <1>5 DEF MatchInv

\* The steps that only say how the search ended, or go on to the plugins.
LEMMA EndKeeps ==
  ASSUME MatchInv, Found \/ NotFound \/ LookAmongPlugins
  PROVE  MatchInv'
<1>1. Fixed /\ m' = m
  BY DEF Found, NotFound, LookAmongPlugins, Fixed
<1>2. MatchTypeOK'
  BY <1>1, AnswersStay DEF MatchInv, MatchTypeOK, Found, NotFound, LookAmongPlugins, Fixed, Kinds
<1>3. (m # None => Named(m))'
  BY <1>1 DEF MatchInv, Named, Fixed
<1>4. StatusIsRight'
  BY DEF Found, NotFound, LookAmongPlugins, StatusIsRight
<1>5. ASSUME SameDigits PROVE BestSoFar'
  <2>1. BestSoFar
    BY <1>5 DEF MatchInv
  <2>2. CASE Found \/ NotFound
    BY <1>1, <2>1, <2>2, AnswersStay DEF Found, NotFound, BestSoFar
  <2>3. CASE LookAmongPlugins
    <3>1. m = None /\ rest = {} /\ kind = "module" /\ kind' = "plugin" /\ rest' = Of("plugin")
      BY <2>3 DEF LookAmongPlugins
    <3>2. \A e \in Of("module") : ~Answers(e)
      BY <2>1, <3>1 DEF BestSoFar
    <3> QED
      BY <1>1, <3>1, <3>2, AnswersStay DEF BestSoFar
  <2> QED
    BY <2>2, <2>3
<1> QED
  BY <1>1, <1>2, <1>3, <1>4, <1>5, AnswersStay DEF MatchInv

LEMMA MatchInvStep == MatchInv /\ [MatchNext]_matchVars => MatchInv'
<1> SUFFICES ASSUME MatchInv, [MatchNext]_matchVars PROVE MatchInv'
  OBVIOUS
<1>1. CASE UNCHANGED matchVars
  <2>1. UNCHANGED <<installed, req, kind, rest, m, status>>
    BY <1>1 DEF matchVars
  <2> QED
    BY <2>1, AnswersStay DEF Fixed, MatchInv, MatchTypeOK, Named, BestSoFar, StatusIsRight, Ver, Of
<1> QED
  BY <1>1, ConsiderKeeps, RaiseKeeps, EndKeeps DEF MatchNext

THEOREM MatchInductive == MatchSpec => []MatchInv
BY MatchInvInit, MatchInvStep, PTL DEF MatchSpec

\* The extension that main.lua loads for an entry of the load order is one the
\* requirement asks for, and the newest such one of its folder: for every number of
\* extensions, digits and parts, in whatever order pairs() goes through the folder
\* (findPreMatchForExtensionRequirement), as long as the parts at one place have as
\* many digits.
THEOREM NewestIsFound == MatchSpec => []FindsTheNewest
<1>1. MatchInv => FindsTheNewest
  BY DEF MatchInv, StatusIsRight, BestSoFar, FindsTheNewest
<1> QED
  BY MatchInductive, <1>1, PTL

\* No entry is skipped, and no plugin is taken for a module, where something could
\* have answered; and a search only fails over versions with another number of
\* parts than the one that is required.
THEOREM NothingIsMissed == MatchSpec => []MissesNothing
<1>1. ASSUME MatchInv PROVE MissesNothing
  <2>1. \A e \in Extension : e \in Of("module") \/ e \in Of("plugin")
    BY <1>1 DEF MatchInv, MatchTypeOK, Kinds, Of
  <2> QED
    BY <1>1, <2>1 DEF MatchInv, StatusIsRight, BestSoFar, MissesNothing, Named
<1> QED
  BY MatchInductive, <1>1, PTL
================================================================================
