------------------------- MODULE CodeInjection_proofs -------------------------
(***************************************************************************)
(* What insertCode and allocateAssembly leave alone, and what the game does*)
(* at a hook, for every code table, game and heap (CodeInjection).         *)
(*                                                                         *)
(* core.compile returns as many bytes as calculateCodeSize said, every     *)
(* block ends where the next one begins, and so what is written never      *)
(* leaves the patch or the block it is meant for.  What is in the block    *)
(* then does, element by element, what the caller's table means.           *)
(***************************************************************************)
EXTENDS CodeInjection, NumberInduction, SequenceTheorems

-----------------------------------------------------------------------------
\* The bytes of an element, and how many there are.

LEMMA FunctionIsSeq ==
  ASSUME NEW T, NEW n \in Nat, NEW s \in [1..n -> T]
  PROVE  s \in Seq(T) /\ Len(s) = n
OBVIOUS

LEMMA ByteIsCell == \A b \in Int : Byte(b) \in Cell
  BY DEF Byte, Cell

LEMMA Int4Shape ==
  ASSUME NEW v \in Int
  PROVE  Int4(v) \in Seq(Cell) /\ Len(Int4(v)) = 4
<1>1. \A n \in 1..4 : <<"int", v, n>> \in Cell
  BY DEF Cell
<1>2. Int4(v) \in [1..4 -> Cell]
  BY <1>1 DEF Int4
<1> HIDE DEF Cell
<1>3. 4 \in Nat
  OBVIOUS
<1> QED
  BY <1>2, <1>3, FunctionIsSeq

LEMMA NumberShape ==
  ASSUME NEW v \in Int
  PROVE  Number(v) \in Seq(Cell) /\ Len(Number(v)) \in 1..4
<1>1. <<Byte(v)>> \in Seq(Cell) /\ Len(<<Byte(v)>>) = 1
  BY ByteIsCell
<1> QED
  BY <1>1, Int4Shape DEF Number

LEMMA JumpShape ==
  ASSUME NEW from \in Int, NEW to \in Int
  PROVE  JumpTo(from, to) \in Seq(Cell) /\ Len(JumpTo(from, to)) \in 1..5
<1> DEFINE v == to - from - 5
<1>1. v \in Int /\ <<Byte(JMP)>> \in Seq(Cell) /\ Len(<<Byte(JMP)>>) = 1
  BY ByteIsCell DEF JMP
<1> HIDE DEF v
<1>2. Number(v) \in Seq(Cell) /\ Len(Number(v)) \in 1..4
  BY <1>1, NumberShape
<1>3. JumpTo(from, to) = <<Byte(JMP)>> \o Number(v)
  BY DEF JumpTo, v
<1>4. JumpTo(from, to) \in Seq(Cell) /\ Len(JumpTo(from, to)) = Len(<<Byte(JMP)>>) + Len(Number(v))
  BY <1>1, <1>2, <1>3, ConcatProperties
<1>5. Len(JumpTo(from, to)) = 1 + Len(Number(v))
  BY <1>1, <1>4
<1>6. ASSUME NEW m \in 1..4 PROVE 1 + m \in 1..5
  OBVIOUS
<1>7. Len(JumpTo(from, to)) \in 1..5
  BY <1>2, <1>5, <1>6
<1> QED
  BY <1>4, <1>7

LEMMA BytesShape ==
  ASSUME NEW s \in Script, NEW size \in Nat
  PROVE  Bytes(s, size) \in Seq(Cell) /\ Len(Bytes(s, size)) = size
<1>1. \A n \in 1..size : <<"assembled", s, n>> \in Cell
  BY DEF Cell
<1>2. Bytes(s, size) \in [1..size -> Cell]
  BY <1>1 DEF Bytes
<1> HIDE DEF Cell
<1> QED
  BY <1>2

LEMMA SizeIsNat ==
  ASSUME NEW e \in Element
  PROVE  SizeOf(e) \in Nat
<1>1. CASE e \in [kind : {"number", "callTo", "short"}, value : Int]
  BY <1>1, NumberShape DEF SizeOf
<1>2. CASE e \in [kind : {"bytes"}, value : Seq(Cell)]
  <2>1. e.kind = "bytes" /\ e.value \in Seq(Cell)
    BY <1>2
  <2> QED
    BY <2>1 DEF SizeOf
<1>3. CASE e \in [kind : {"label", "relTo"}, value : Label]
  BY <1>3 DEF SizeOf
<1>4. CASE e \in [kind : {"assembly"}, value : Script]
  BY <1>4, InjectionAssumption DEF SizeOf
<1> QED
  BY <1>1, <1>2, <1>3, <1>4 DEF Element

\* Ends is what its recursion says.
LEMMA EndsShape ==
  ASSUME NEW code \in Seq(Element)
  PROVE  /\ Ends(code) \in [0..Len(code) -> Nat]
         /\ Ends(code)[0] = 0
         /\ \A i \in 1..Len(code) : Ends(code)[i] = Ends(code)[i - 1] + SizeOf(code[i])
<1> DEFINE Def(g) == [i \in 0..Len(code) |-> IF i = 0 THEN 0 ELSE g[i - 1] + SizeOf(code[i])]
           step == [x \in Nat \X Element |-> x[1] + SizeOf(x[2])]
<1>1. Len(code) \in Nat /\ \A i \in 1..Len(code) : code[i] \in Element /\ SizeOf(code[i]) \in Nat
  <2>1. \A i \in 1..Len(code) : code[i] \in Element
    BY ElementOfSeq
  <2> QED
    BY <2>1, SizeIsNat
<1>2. step \in [Nat \X Element -> Nat]
  <2>1. \A e \in Element : SizeOf(e) \in Nat
    BY SizeIsNat
  <2> QED
    BY <2>1
<1>3. \A f \in [0..Len(code) -> Nat] : \A i \in 1..Len(code) :
        step[<<f[i - 1], code[i]>>] = f[i - 1] + SizeOf(code[i])
  <2> TAKE f \in [0..Len(code) -> Nat]
  <2> TAKE i \in 1..Len(code)
  <2>1. f[i - 1] \in Nat /\ code[i] \in Element
    <3> HIDE DEF step
    <3>1. i - 1 \in 0..Len(code)
      BY <1>1
    <3> QED
      BY <1>1, <3>1
  <2> QED
    BY <2>1
<1>4. FoldsOf(Nat, 0, step, code) # {}
  <2> HIDE DEF step
  <2>1. 0 \in Nat
    OBVIOUS
  <2> QED
    BY <1>2, <2>1, FoldExists
<1>5. PICK f \in [0..Len(code) -> Nat] :
        f[0] = 0 /\ \A i \in 1..Len(code) : f[i] = step[<<f[i - 1], code[i]>>]
  BY <1>4 DEF FoldsOf
<1>6. f = Def(f)
  <2>1. \A i \in 1..Len(code) : f[i] = f[i - 1] + SizeOf(code[i])
    BY <1>3, <1>5
  <2> HIDE DEF step
  <2> QED
    BY <1>5, <2>1
<1>7. Ends(code) = CHOOSE g : g = Def(g)
  BY DEF Ends
<1>8. Ends(code) = Def(Ends(code))
  <2> HIDE DEF Def
  <2> QED
    BY <1>6, <1>7
<1> DEFINE g == Ends(code)
<1>9. g = [i \in 0..Len(code) |-> IF i = 0 THEN 0 ELSE g[i - 1] + SizeOf(code[i])]
  BY <1>8
<1> HIDE DEF g, Def, step
<1>10. g = [i \in 0..Len(code) |-> g[i]] /\ g[0] = 0
  BY <1>1, <1>9
<1>11. \A i \in 1..Len(code) : g[i] = g[i - 1] + SizeOf(code[i])
  <2> TAKE i \in 1..Len(code)
  <2>1. i \in 0..Len(code) /\ i # 0
    BY <1>1
  <2> QED
    BY <1>9, <2>1
<1> DEFINE S == {i \in 0..Len(code) : g[i] \in Nat}
<1>12. 0 \in S
  BY <1>1, <1>10
<1>13. \A i \in Nat : 0 <= i /\ i < Len(code) /\ i \in S => i + 1 \in S
  <2> TAKE i \in Nat
  <2> HAVE 0 <= i /\ i < Len(code) /\ i \in S
  <2>1. i + 1 \in 1..Len(code) /\ (i + 1) - 1 = i /\ g[i] \in Nat
    BY <1>1
  <2>2. g[i + 1] = g[i] + SizeOf(code[i + 1]) /\ SizeOf(code[i + 1]) \in Nat
    BY <1>1, <1>11, <2>1
  <2> QED
    BY <2>1, <2>2
<1>14. \A i \in 0..Len(code) : i \in S
  <2> HIDE DEF S
  <2> QED
    BY <1>1, <1>12, <1>13, UpTo
<1> QED
  BY <1>10, <1>11, <1>14 DEF g

LEMMA EndsGrow ==
  ASSUME NEW code \in Seq(Element), NEW i \in 0..Len(code)
  PROVE  Ends(code)[i] \in Nat /\ CodeSize(code) \in Nat /\ Ends(code)[i] <= CodeSize(code)
<1> DEFINE n == Len(code)
           ends == Ends(code)
           S == {j \in 0..n : ends[i] <= ends[j]}
<1>1. /\ n \in Nat /\ i \in Nat /\ i \in 0..n /\ n \in 0..n /\ n \in i..n
      /\ \A j \in 0..n : ends[j] \in Nat
      /\ \A j \in 1..n : ends[j] = ends[j - 1] + SizeOf(code[j])
  BY EndsShape
<1>2. \A j \in 1..n : SizeOf(code[j]) \in Nat
  <2> TAKE j \in 1..n
  <2>1. code[j] \in Element
    BY ElementOfSeq
  <2> QED
    BY <2>1, SizeIsNat
<1> HIDE DEF n, ends
<1>3. i \in S
  BY <1>1
<1>4. \A j \in Nat : i <= j /\ j < n /\ j \in S => j + 1 \in S
  <2> SUFFICES ASSUME NEW j \in Nat, j < n, ends[i] <= ends[j] PROVE ends[i] <= ends[j + 1]
    BY <1>1
  <2> DEFINE k == j + 1
  <2>1. k \in 1..n /\ k - 1 = j /\ j \in 0..n /\ k \in 0..n
    BY <1>1
  <2> HIDE DEF k
  <2>2. ends[k] = ends[j] + SizeOf(code[k]) /\ SizeOf(code[k]) \in Nat /\ ends[j] \in Nat /\ ends[i] \in Nat
    BY <1>1, <1>2, <2>1
  <2>3. ends[i] <= ends[k]
    BY <2>2
  <2> QED
    BY <2>3 DEF k
<1>5. \A j \in i..n : j \in S
  <2> HIDE DEF S
  <2> QED
    BY <1>1, <1>3, <1>4, UpTo
<1>6. ends[i] <= ends[n] /\ CodeSize(code) = ends[n]
  BY <1>1, <1>5 DEF CodeSize, n, ends
<1> QED
  BY <1>1, <1>6 DEF ends

LEMMA LabelOffsetIsNat ==
  ASSUME NEW code \in Seq(Element), NEW label, Places(code, label) # {}
  PROVE  LabelOffset(code, label) \in Nat
<1> DEFINE P == Places(code, label)
           n == Len(code)
           S == {x \in 0..n : \E i \in P : x = n - i}
<1>1. n \in Nat /\ P \subseteq 1..n /\ P # {}
  BY DEF Places
<1> HIDE DEF P, n
<1>2. S \subseteq Nat /\ S # {}
  <2>1. PICK i \in P : TRUE
    BY <1>1
  <2>2. n - i \in 0..n
    BY <1>1
  <2> QED
    BY <2>2
<1>3. PICK x \in S : \A y \in S : x <= y
  <2> HIDE DEF S
  <2> QED
    BY <1>2, LeastNumber
<1>4. PICK i \in P : x = n - i
  BY <1>3
<1>5. \A j \in P : j <= i
  <2> TAKE j \in P
  <2>1. n - j \in S
    BY <1>1
  <2>2. x <= n - j
    BY <1>3, <2>1
  <2> QED
    BY <1>1, <1>4, <2>2
<1> DEFINE last == CHOOSE k \in P : \A j \in P : j <= k
<1>6. last \in P
  BY <1>5
<1>7. LabelOffset(code, label) = Ends(code)[last - 1]
  BY DEF LabelOffset, Offset, P
<1> HIDE DEF last
<1>8. last - 1 \in 0..Len(code)
  BY <1>1, <1>6 DEF n
<1> QED
  BY <1>7, <1>8, EndsShape

\* An element is as long as calculateCodeSize said, in code that can be compiled.
LEMMA EmitShape ==
  ASSUME NEW code \in Seq(Element), ~Uncompilable(code), NEW base \in Nat, NEW i \in 1..Len(code)
  PROVE  Emit(code, i, base) \in Seq(Cell) /\ Len(Emit(code, i, base)) = SizeOf(code[i])
<1> DEFINE e == code[i]
           at == base + Offset(code, i)
<1>1. e \in Element
  BY ElementOfSeq
<1>2. /\ e.kind # "short"
      /\ e.kind = "relTo" => Places(code, e.value) # {}
      /\ e.kind = "assembly" => Assembly[e.value].atBlock = Assembly[e.value].atZero
  BY DEF Uncompilable
<1>3. at \in Int
  <2>1. i - 1 \in 0..Len(code)
    OBVIOUS
  <2>2. Ends(code)[i - 1] \in Nat
    BY <2>1, EndsShape
  <2> QED
    BY <2>2 DEF Offset
<1>4. Emit(code, i, base) =
        CASE e.kind = "number" -> Number(e.value)
          [] e.kind = "bytes" -> e.value
          [] e.kind = "label" -> <<>>
          [] e.kind = "relTo" -> Int4(base + LabelOffset(code, e.value) - at - 4)
          [] e.kind = "assembly" -> Bytes(e.value, Assembly[e.value].atBlock)
          [] e.kind = "callTo" -> <<Byte(CALL)>> \o Int4(e.value - at - 5)
  BY DEF Emit
<1>5. SizeOf(code[i]) =
        CASE e.kind = "number" -> Len(Number(e.value))
          [] e.kind = "bytes" -> Len(e.value)
          [] e.kind = "label" -> 0
          [] e.kind = "relTo" -> 4
          [] e.kind = "assembly" -> Assembly[e.value].atZero
          [] OTHER -> 5
  BY DEF SizeOf
<1> HIDE DEF e, at
<1>6. CASE e \in [kind : {"number", "callTo", "short"}, value : Int]
  <2>1. CASE e.kind = "number"
    <3>1. Emit(code, i, base) = Number(e.value) /\ SizeOf(code[i]) = Len(Number(e.value)) /\ e.value \in Int
      BY <1>4, <1>5, <1>6, <2>1
    <3> QED
      BY <3>1, NumberShape
  <2>2. CASE e.kind = "callTo"
    <3> DEFINE v == e.value - at - 5
    <3>1. Emit(code, i, base) = <<Byte(CALL)>> \o Int4(v) /\ SizeOf(code[i]) = 5 /\ v \in Int
      BY <1>3, <1>4, <1>5, <1>6, <2>2
    <3> HIDE DEF v
    <3>2. Int4(v) \in Seq(Cell) /\ Len(Int4(v)) = 4
      BY <3>1, Int4Shape
    <3>3. <<Byte(CALL)>> \in Seq(Cell) /\ Len(<<Byte(CALL)>>) = 1
      BY ByteIsCell DEF CALL
    <3>4. /\ <<Byte(CALL)>> \o Int4(v) \in Seq(Cell)
          /\ Len(<<Byte(CALL)>> \o Int4(v)) = Len(<<Byte(CALL)>>) + Len(Int4(v))
      BY <3>2, <3>3, ConcatProperties
    <3> QED
      BY <3>1, <3>2, <3>3, <3>4
  <2> QED
    BY <1>2, <1>6, <2>1, <2>2 DEF e
<1>7. CASE e \in [kind : {"bytes"}, value : Seq(Cell)]
  <2>1. e.kind = "bytes" /\ e.value \in Seq(Cell)
    BY <1>7
  <2> QED
    BY <1>4, <1>5, <2>1
<1>8. CASE e \in [kind : {"label", "relTo"}, value : Label]
  <2>1. CASE e.kind = "label"
    <3>1. Emit(code, i, base) = <<>> /\ SizeOf(code[i]) = 0
      BY <1>4, <1>5, <2>1
    <3> QED
      BY <3>1, EmptySeq
  <2>2. CASE e.kind = "relTo"
    <3> DEFINE v == base + LabelOffset(code, e.value) - at - 4
    <3>1. LabelOffset(code, e.value) \in Nat
      BY <1>2, <2>2, LabelOffsetIsNat DEF e
    <3>2. Emit(code, i, base) = Int4(v) /\ SizeOf(code[i]) = 4 /\ v \in Int
      BY <1>3, <1>4, <1>5, <2>2, <3>1
    <3> HIDE DEF v
    <3> QED
      BY <3>2, Int4Shape
  <2> QED
    BY <1>8, <2>1, <2>2
<1>9. CASE e \in [kind : {"assembly"}, value : Script]
  <2>1. /\ e.kind = "assembly" /\ e.value \in Script
        /\ Assembly[e.value].atBlock = Assembly[e.value].atZero
        /\ Assembly[e.value].atBlock \in Nat
    BY <1>2, <1>9, InjectionAssumption DEF e
  <2>2. Emit(code, i, base) = Bytes(e.value, Assembly[e.value].atBlock) /\ SizeOf(code[i]) = Assembly[e.value].atBlock
    BY <1>4, <1>5, <2>1
  <2> QED
    BY <2>1, <2>2, BytesShape
<1> QED
  BY <1>1, <1>6, <1>7, <1>8, <1>9 DEF Element, e

\* Compile is what its recursion says.
LEMMA CompileUpTo ==
  ASSUME NEW code \in Seq(Element), ~Uncompilable(code), NEW base \in Nat
  PROVE  \E g :
           /\ \A i \in 0..Len(code) : g[i] \in Seq(Cell) /\ Len(g[i]) = Ends(code)[i]
           /\ \A i \in 1..Len(code) : g[i] = g[i - 1] \o Emit(code, i, base)
           /\ Compile(code, base) = g[Len(code)]
<1> DEFINE n == Len(code)
           V == Seq(Cell)
           emits == [i \in 1..n |-> Emit(code, i, base)]
           step == [x \in V \X V |-> x[1] \o x[2]]
           Def(g) == [i \in 0..n |-> IF i = 0 THEN <<>> ELSE g[i - 1] \o Emit(code, i, base)]
<1>1. n \in Nat /\ \A i \in 1..n : Emit(code, i, base) \in V /\ Len(Emit(code, i, base)) = SizeOf(code[i])
  BY EmitShape
<1>2. emits \in Seq(V) /\ Len(emits) = n /\ \A i \in 1..n : emits[i] = Emit(code, i, base)
  <2>1. emits \in [1..n -> V]
    BY <1>1
  <2> HIDE DEF emits, V, n
  <2>2. emits \in Seq(V) /\ Len(emits) = n
    BY <1>1, <2>1, FunctionIsSeq
  <2> QED
    BY <2>2 DEF emits
<1>3. step \in [V \X V -> V]
  BY ConcatProperties
<1>4. <<>> \in V
  BY EmptySeq
<1> HIDE DEF emits, n, V, step
<1>5. FoldsOf(V, <<>>, step, emits) # {}
  BY <1>2, <1>3, <1>4, FoldExists
<1>6. PICK f \in [0..n -> V] : f[0] = <<>> /\ \A i \in 1..n : f[i] = step[<<f[i - 1], emits[i]>>]
  BY <1>2, <1>5 DEF FoldsOf
<1>7. \A i \in 1..n : f[i] = f[i - 1] \o Emit(code, i, base)
  <2> TAKE i \in 1..n
  <2>1. i - 1 \in 0..n
    BY <1>1
  <2>2. f[i - 1] \in V /\ emits[i] \in V
    BY <1>1, <1>2, <1>6, <2>1
  <2>3. step[<<f[i - 1], emits[i]>>] = f[i - 1] \o emits[i]
    BY <2>2 DEF step
  <2> QED
    BY <1>2, <1>6, <2>3
<1>8. f = Def(f)
  BY <1>6, <1>7
<1> DEFINE g == CHOOSE g : g = Def(g)
<1>9. g = Def(g)
  <2> HIDE DEF Def
  <2> QED
    BY <1>8
<1>10. Compile(code, base) = g[n]
  BY DEF Compile, n
<1> HIDE DEF g
<1>11. g[0] = <<>> /\ \A i \in 1..n : g[i] = g[i - 1] \o Emit(code, i, base)
  <2>1. g[0] = <<>>
    BY <1>1, <1>9
  <2>2. ASSUME NEW i \in 1..n PROVE g[i] = g[i - 1] \o Emit(code, i, base)
    <3>1. i \in 0..n /\ i # 0
      BY <1>1
    <3> QED
      BY <1>9, <3>1
  <2> QED
    BY <2>1, <2>2
<1> DEFINE S == {i \in 0..n : g[i] \in V /\ Len(g[i]) = Ends(code)[i]}
<1>12. /\ Ends(code) \in [0..n -> Nat] /\ Ends(code)[0] = 0
       /\ \A i \in 1..n : Ends(code)[i] = Ends(code)[i - 1] + SizeOf(code[i])
  BY EndsShape DEF n
<1>13. 0 \in S
  <2>1. Len(<<>>) = 0 /\ 0 \in 0..n
    BY <1>1
  <2>2. g[0] \in V /\ Len(g[0]) = Ends(code)[0]
    BY <1>4, <1>11, <1>12, <2>1
  <2> QED
    BY <2>1, <2>2
<1>14. \A i \in Nat : 0 <= i /\ i < n /\ i \in S => i + 1 \in S
  <2> TAKE i \in Nat
  <2> HAVE 0 <= i /\ i < n /\ i \in S
  <2> DEFINE e == Emit(code, i + 1, base)
  <2>1. i + 1 \in 1..n /\ (i + 1) - 1 = i /\ g[i] \in V /\ Len(g[i]) = Ends(code)[i]
    BY <1>1
  <2>2. e \in V /\ Len(e) = SizeOf(code[i + 1]) /\ g[i + 1] = g[i] \o e
    BY <1>1, <1>11, <2>1
  <2> HIDE DEF e
  <2>3. g[i] \o e \in V /\ Len(g[i] \o e) = Len(g[i]) + Len(e)
    BY <2>1, <2>2, ConcatProperties DEF V
  <2>4. Ends(code)[i + 1] = Ends(code)[i] + SizeOf(code[i + 1])
    BY <1>12, <2>1
  <2>5. i + 1 \in 0..n
    BY <2>1
  <2> QED
    BY <2>1, <2>2, <2>3, <2>4, <2>5
<1>15. \A i \in 0..n : i \in S
  <2> HIDE DEF S
  <2> QED
    BY <1>1, <1>13, <1>14, UpTo
<1>16. \A i \in 0..n : g[i] \in V /\ Len(g[i]) = Ends(code)[i]
  BY <1>15
<1> QED
  BY <1>10, <1>11, <1>16 DEF V, n

\* core.compile's last check never fails: there are as many bytes as were counted.
LEMMA CompileShape ==
  ASSUME NEW code \in Seq(Element), ~Uncompilable(code), NEW base \in Nat
  PROVE  /\ CodeSize(code) \in Nat
         /\ Compile(code, base) \in Seq(Cell)
         /\ Len(Compile(code, base)) = CodeSize(code)
<1> DEFINE n == Len(code)
<1>1. PICK g : /\ \A i \in 0..n : g[i] \in Seq(Cell) /\ Len(g[i]) = Ends(code)[i]
               /\ Compile(code, base) = g[n]
  BY CompileUpTo
<1>2. n \in 0..n /\ Ends(code)[n] \in Nat /\ CodeSize(code) = Ends(code)[n]
  BY EndsShape DEF CodeSize
<1> QED
  BY <1>1, <1>2

\* Each element is where it was counted to be.
LEMMA EmitInCompile ==
  ASSUME NEW code \in Seq(Element), ~Uncompilable(code), NEW base \in Nat,
         NEW i \in 1..Len(code), NEW m \in 1..SizeOf(code[i])
  PROVE  /\ Offset(code, i) + m \in 1..CodeSize(code)
         /\ Compile(code, base)[Offset(code, i) + m] = Emit(code, i, base)[m]
<1> DEFINE n == Len(code)
           ends == Ends(code)
           size == SizeOf(code[i])
           e == Emit(code, i, base)
           p == ends[i - 1] + m
<1>1. PICK g : /\ \A j \in 0..n : g[j] \in Seq(Cell) /\ Len(g[j]) = ends[j]
               /\ \A j \in 1..n : g[j] = g[j - 1] \o Emit(code, j, base)
               /\ Compile(code, base) = g[n]
  BY CompileUpTo
<1>2. /\ n \in Nat /\ i \in 1..n /\ \A j \in 0..n : ends[j] \in Nat
      /\ \A j \in 1..n : ends[j] = ends[j - 1] + SizeOf(code[j])
  BY EndsShape
<1>3. e \in Seq(Cell) /\ Len(e) = size /\ size \in Nat
  <2>1. code[i] \in Element
    BY ElementOfSeq
  <2> QED
    BY <2>1, EmitShape, SizeIsNat
<1>4. \A j \in 1..n : Emit(code, j, base) \in Seq(Cell)
  BY EmitShape
<1> HIDE DEF n, ends, e, size
<1>5. p \in Nat /\ p >= 1 /\ p <= ends[i] /\ p > ends[i - 1] /\ p - ends[i - 1] = m
  <2>1. i - 1 \in 0..n /\ ends[i] = ends[i - 1] + size /\ m \in 1..size
    BY <1>2 DEF size
  <2> QED
    BY <1>2, <1>3, <2>1
<1> HIDE DEF p
<1> DEFINE S == {j \in 1..n : p <= ends[j] /\ g[j][p] = e[m]}
<1>6. i \in S
  <2>1. i - 1 \in 0..n /\ i \in 0..n
    BY <1>2
  <2>2. g[i] = g[i - 1] \o e /\ g[i - 1] \in Seq(Cell) /\ Len(g[i - 1]) = ends[i - 1] /\ Len(g[i]) = ends[i]
    BY <1>1, <1>2, <2>1 DEF e
  <2> DEFINE s == g[i - 1]
  <2> HIDE DEF s
  <2>3. \A k \in 1..Len(s) + Len(e) : (s \o e)[k] = IF k <= Len(s) THEN s[k] ELSE e[k - Len(s)]
    BY <1>3, <2>2, ConcatProperties DEF s
  <2>4. p \in 1..Len(s) + Len(e) /\ ~(p <= Len(s)) /\ p - Len(s) = m
    <3>1. m \in 1..size /\ ends[i - 1] \in Nat /\ Len(s) = ends[i - 1] /\ Len(e) = size /\ p = ends[i - 1] + m
      BY <1>2, <1>3, <2>1, <2>2 DEF s, size, p
    <3> QED
      BY <1>3, <1>5, <3>1
  <2>5. (s \o e)[p] = e[m]
    BY <2>3, <2>4
  <2> QED
    BY <1>2, <1>5, <2>2, <2>5 DEF s
<1>7. \A j \in Nat : i <= j /\ j < n /\ j \in S => j + 1 \in S
  <2> SUFFICES ASSUME NEW j \in Nat, i <= j, j < n, j \in S PROVE j + 1 \in S
    OBVIOUS
  <2> DEFINE k == j + 1
             t == Emit(code, k, base)
             s == g[j]
  <2>1. k \in 1..n /\ k - 1 = j /\ j \in 0..n /\ k \in 0..n
    BY <1>2
  <2>2. g[k] = s \o t /\ s \in Seq(Cell) /\ Len(s) = ends[j] /\ Len(g[k]) = ends[k] /\ t \in Seq(Cell)
    <3> HIDE DEF k
    <3> QED
      BY <1>1, <1>4, <2>1
  <2>3. s[p] = e[m] /\ p <= ends[j]
    OBVIOUS
  <2> HIDE DEF k, t, s
  <2>4. /\ Len(s \o t) = Len(s) + Len(t)
        /\ \A q \in 1..Len(s) + Len(t) : (s \o t)[q] = IF q <= Len(s) THEN s[q] ELSE t[q - Len(s)]
    BY <2>2, ConcatProperties
  <2>5. Len(t) \in Nat /\ p \in 1..Len(s) + Len(t) /\ p <= Len(s)
    <3>1. Len(t) \in Nat /\ Len(s) \in Nat
      BY <2>2, LenProperties
    <3> QED
      BY <1>5, <2>2, <2>3, <3>1
  <2>6. g[k][p] = e[m]
    BY <2>2, <2>3, <2>4, <2>5
  <2>7. p <= ends[k]
    <3>1. ends[k] = Len(s) + Len(t)
      BY <2>2, <2>4
    <3> QED
      BY <2>5, <3>1
  <2>8. k \in S
    BY <2>1, <2>6, <2>7
  <2> QED
    BY <2>8 DEF k
<1>8. \A j \in i..n : j \in S
  <2> HIDE DEF S
  <2>1. i \in Nat
    BY <1>2
  <2> QED
    BY <1>2, <1>6, <1>7, <2>1, UpTo
<1>9. p <= ends[n] /\ g[n][p] = e[m]
  <2>1. n \in i..n
    BY <1>2
  <2> QED
    BY <1>8, <2>1
<1>10. CodeSize(code) = ends[n] /\ ends[n] \in Nat /\ Offset(code, i) + m = p
  <2>1. n \in 0..n
    BY <1>2
  <2> QED
    BY <1>2, <2>1 DEF CodeSize, Offset, n, ends, p
<1> QED
  BY <1>1, <1>5, <1>9, <1>10 DEF e

-----------------------------------------------------------------------------
\* The invariant: where the blocks are.  insertCode and allocateAssembly take
\* them one after the other from top on, above the game.

Addresses == Game \cup Heap[1]..Heap[2]

Call == [pc : {"nopped", "placed"}, site : Site, table : CodeTable, original : Originals,
         returnTo : Nat, cleanTable : BOOLEAN, cleanSite : BOOLEAN, block : Nat, size : Nat]

InjectionTypeOK ==
  /\ mem \in [Addresses -> Cell]
  /\ tables \in [CodeTable -> Seq(Element)]
  /\ top \in Nat /\ Heap[1] <= top /\ (top = Heap[1] \/ top <= Heap[2])
  /\ call \in Call \cup {Idle}
  /\ hooks \in [Site -> Call \cup {Idle}]

BlockEnd(h) == h.block + h.size + 5

HooksAreBelow(address) ==
  \A s \in Site : hooks[s] # Idle => Heap[1] <= hooks[s].block /\ BlockEnd(hooks[s]) <= address

Layout ==
  /\ HooksAreBelow(top)
  /\ call.pc = "placed" =>
       Heap[1] <= call.block /\ BlockEnd(call) = top /\ HooksAreBelow(call.block)

\* What the blocks of scripts add to it.
AssemblyLayout ==
  \A x \in assembled :
    /\ x.block \in Nat /\ x.bytes \in Seq(Cell)
    /\ Heap[1] <= x.block /\ x.block + Len(x.bytes) <= top
    /\ call.pc = "placed" => x.block + Len(x.bytes) <= call.block

\* A contract of the scripts that the code does not check: none is longer at its
\* block than at 0.
NoLonger == \A s \in Script : Assembly[s].atBlock <= Assembly[s].atZero

LEMMA WrittenShape ==
  ASSUME NEW D, NEW memory \in [D -> Cell], NEW address \in Nat, NEW cells \in Seq(Cell), D \subseteq Nat
  PROVE  Written(memory, address, cells) \in [D -> Cell]
<1>1. Len(cells) \in Nat /\ \A i \in 1..Len(cells) : cells[i] \in Cell
  <2>1. \A i \in 1..Len(cells) : cells[i] \in Cell
    BY ElementOfSeq
  <2> QED
    BY <2>1
<1> DEFINE in(a) == a \in address..(address + Len(cells) - 1)
<1>2. Written(memory, address, cells) = [a \in D |-> IF in(a) THEN cells[a - address + 1] ELSE memory[a]]
  BY DEF Written
<1>3. ASSUME NEW a \in D, in(a) PROVE cells[a - address + 1] \in Cell
  <2>1. a - address + 1 \in 1..Len(cells)
    BY <1>1, <1>3
  <2> QED
    BY <1>1, <2>1
<1> HIDE DEF in
<1> QED
  BY <1>2, <1>3

LEMMA Outside ==
  ASSUME NEW memory \in [Addresses -> Cell], NEW address \in Nat, NEW cells \in Seq(Cell), NEW a \in Addresses
  PROVE  a \in address..(address + Len(cells) - 1) \/ Written(memory, address, cells)[a] = memory[a]
<1> DEFINE block == address..(address + Len(cells) - 1)
<1>1. /\ Written(memory, address, cells) =
           [b \in DOMAIN memory |-> IF b \in block THEN cells[b - address + 1] ELSE memory[b]]
      /\ a \in DOMAIN memory
  BY DEF Written
<1> HIDE DEF block
<1>2. a \in block \/ Written(memory, address, cells)[a] = memory[a]
  BY <1>1
<1> QED
  BY <1>2 DEF block

LEMMA Inside ==
  ASSUME NEW memory \in [Addresses -> Cell], NEW address \in Nat, NEW cells \in Seq(Cell),
         NEW n \in 1..Len(cells), address + n - 1 \in Addresses
  PROVE  Written(memory, address, cells)[address + n - 1] = cells[n]
<1> DEFINE a == address + n - 1
           block == address..(address + Len(cells) - 1)
<1>1. a \in block /\ a - address + 1 = n
  OBVIOUS
<1>2. /\ Written(memory, address, cells) =
           [b \in DOMAIN memory |-> IF b \in block THEN cells[b - address + 1] ELSE memory[b]]
      /\ a \in DOMAIN memory
  BY DEF Written
<1> HIDE DEF a, block
<1>3. Written(memory, address, cells)[a] = cells[a - address + 1]
  BY <1>1, <1>2
<1> QED
  BY <1>1, <1>3 DEF a

LEMMA AddressesAreNat ==
  /\ Addresses \subseteq Nat /\ Heap[1] \in Nat /\ Heap[2] \in Nat
  /\ \A a \in Game : a \in Nat /\ a < Heap[1] /\ a \in Addresses
  /\ \A a \in Nat : Heap[1] <= a /\ a <= Heap[2] => a \in Addresses
<1>1. /\ Game \subseteq Nat /\ Heap[1] \in Nat /\ Heap[2] \in Nat
      /\ \A a \in Game : a < Heap[1]
  BY InjectionAssumption
<1> DEFINE lo == Heap[1]
           hi == Heap[2]
<1>2. Addresses = Game \cup lo..hi
  BY DEF Addresses
<1>3. Game \subseteq Nat /\ lo \in Nat /\ hi \in Nat /\ \A a \in Game : a < lo
  BY <1>1
<1> HIDE DEF lo, hi
<1>4. /\ Addresses \subseteq Nat
      /\ \A a \in Game : a \in Nat /\ a \in Addresses
      /\ \A a \in Nat : lo <= a /\ a <= hi => a \in Addresses
  BY <1>2, <1>3
<1> QED
  BY <1>1, <1>4 DEF lo, hi

LEMMA SitesAreGame ==
  ASSUME NEW s \in Site
  PROVE  /\ s \in Nat /\ PatchSize[s] \in Nat \ {0}
         /\ \A a \in s..(s + PatchSize[s]) : a \in Game
BY InjectionAssumption

\* readBytes returns a table of bytes, that may stand in a code table.
LEMMA WithOriginalShape ==
  ASSUME InjectionTypeOK, NEW s \in Site, NEW t \in CodeTable, NEW o \in Originals
  PROVE  WithOriginal(tables[t], s, o) \in Seq(Element)
<1> DEFINE c == Cells(s)
           e == [kind |-> "bytes", value |-> c]
           code == tables[t]
<1>1. c \in Seq(Cell)
  <2>1. s \in Nat /\ PatchSize[s] \in Nat
    BY SitesAreGame
  <2>2. \A n \in 1..PatchSize[s] : s + n - 1 \in s..(s + PatchSize[s])
    BY <2>1
  <2>3. \A n \in 1..PatchSize[s] : s + n - 1 \in Addresses
    BY <2>2, SitesAreGame, AddressesAreNat
  <2>4. \A n \in 1..PatchSize[s] : mem[s + n - 1] \in Cell
    BY <2>3 DEF InjectionTypeOK
  <2>5. c \in [1..PatchSize[s] -> Cell]
    BY <2>4 DEF Cells
  <2> HIDE DEF c
  <2> QED
    BY <2>1, <2>5, FunctionIsSeq
<1> HIDE DEF c
<1>2. e \in Element
  BY <1>1 DEF Element
<1>3. code \in Seq(Element)
  BY DEF InjectionTypeOK
<1>4. WithOriginal(code, s, o) =
        CASE o = "before" -> <<e>> \o code [] o = "after" -> Append(code, e) [] OTHER -> code
  BY DEF WithOriginal, c
<1> HIDE DEF e, code
<1>5. <<e>> \in Seq(Element)
  BY <1>2
<1>6. <<e>> \o code \in Seq(Element)
  BY <1>3, <1>5, ConcatProperties
<1>7. Append(code, e) \in Seq(Element)
  BY <1>2, <1>3, AppendProperties
<1> QED
  BY <1>3, <1>4, <1>6, <1>7 DEF code

LEMMA NopsShape ==
  ASSUME NEW s \in Site
  PROVE  /\ [n \in 1..PatchSize[s] |-> Byte(NOP)] \in Seq(Cell)
         /\ Len([n \in 1..PatchSize[s] |-> Byte(NOP)]) = PatchSize[s]
<1> DEFINE nops == [n \in 1..PatchSize[s] |-> Byte(NOP)]
<1>1. PatchSize[s] \in Nat /\ nops \in [1..PatchSize[s] -> Cell]
  BY SitesAreGame, ByteIsCell DEF NOP
<1> HIDE DEF nops
<1>2. nops \in Seq(Cell) /\ Len(nops) = PatchSize[s]
  BY <1>1, FunctionIsSeq
<1> QED
  BY <1>2 DEF nops

-----------------------------------------------------------------------------
\* Every step keeps the invariant.

LEMMA InitLayout == Init => InjectionTypeOK /\ Layout
<1> SUFFICES ASSUME Init PROVE InjectionTypeOK /\ Layout
  OBVIOUS
<1>1. mem \in [Addresses -> Cell]
  <2>1. \A a \in Addresses : Original(a) \in Cell
    BY AddressesAreNat DEF Original, Cell
  <2> QED
    BY <2>1 DEF Init, Addresses
<1>2. tables \in [CodeTable -> Seq(Element)]
  BY SourceAssumption DEF Init
<1>3. top \in Nat /\ Heap[1] <= top /\ (top = Heap[1] \/ top <= Heap[2])
  BY AddressesAreNat DEF Init
<1>4. call = Idle /\ call.pc # "placed" /\ \A s \in Site : hooks[s] = Idle
  BY DEF Init, Idle
<1>5. hooks \in [Site -> Call \cup {Idle}]
  BY DEF Init
<1> QED
  BY <1>1, <1>2, <1>3, <1>4, <1>5 DEF InjectionTypeOK, Layout, HooksAreBelow

LEMMA CallOf ==
  ASSUME InjectionTypeOK, call.pc = "nopped" \/ call.pc = "placed"
  PROVE  call \in Call
BY DEF InjectionTypeOK, Idle

LEMMA InsertCodeKeeps ==
  ASSUME InjectionTypeOK, Layout, NEW s \in Site, NEW t \in CodeTable, NEW o \in Originals,
         NEW r \in ReturnTo(s), InsertCode(s, t, o, r)
  PROVE  InjectionTypeOK' /\ Layout'
<1> USE DEF InsertCode
<1>1. mem' \in [Addresses -> Cell]
  <2>1. s \in Nat
    BY SitesAreGame
  <2> QED
    BY <2>1, NopsShape, WrittenShape, AddressesAreNat DEF InjectionTypeOK
<1>2. tables' \in [CodeTable -> Seq(Element)]
  <2> DEFINE code == WithOriginal(tables[t], s, o)
  <2>1. code \in Seq(Element)
    BY WithOriginalShape
  <2>2. tables' = [tables EXCEPT ![t] = code]
    OBVIOUS
  <2> HIDE DEF code
  <2> QED
    BY <2>1, <2>2 DEF InjectionTypeOK
<1>3. call' \in Call /\ call'.pc = "nopped"
  <2>1. r \in Nat
    BY SitesAreGame, InjectionAssumption DEF ReturnTo
  <2>2. (tables[t] = Source[t]) \in BOOLEAN
        /\ (\A n \in 1..PatchSize[s] : mem[s + n - 1] = Original(s + n - 1)) \in BOOLEAN
    OBVIOUS
  <2> QED
    BY <2>1, <2>2 DEF Call
<1> QED
  BY <1>1, <1>2, <1>3 DEF InjectionTypeOK, Layout, HooksAreBelow

LEMMA PlaceCodeKeeps ==
  ASSUME InjectionTypeOK, Layout, PlaceCode
  PROVE  InjectionTypeOK' /\ Layout'
<1> DEFINE code == tables[call.table]
           size == CodeSize(code)
<1>1. call \in Call /\ call.pc = "nopped"
  BY CallOf DEF PlaceCode
<1>2. code \in Seq(Element) /\ ~Uncompilable(code)
  BY <1>1 DEF InjectionTypeOK, Call, PlaceCode
<1>3. /\ top \in Nat /\ size \in Nat
      /\ Compile(code, top) \in Seq(Cell) /\ Len(Compile(code, top)) = size
  <2>1. top \in Nat
    BY DEF InjectionTypeOK
  <2> HIDE DEF code
  <2> QED
    BY <1>2, <2>1, CompileShape
<1>4. /\ top' = top + size + 5 /\ top' <= Heap[2]
      /\ mem' = Written(mem, top, Compile(code, top))
      /\ call' = [call EXCEPT !.pc = "placed", !.block = top, !.size = size]
      /\ UNCHANGED <<tables, hooks>>
  BY DEF PlaceCode
<1> HIDE DEF code, size
<1>5. mem' \in [Addresses -> Cell]
  BY <1>3, <1>4, WrittenShape, AddressesAreNat DEF InjectionTypeOK
<1>6. call' \in Call /\ call'.pc = "placed" /\ call'.block = top /\ call'.size = size
  BY <1>1, <1>3, <1>4 DEF Call
<1>7. Heap[1] \in Nat /\ Heap[1] <= top
  BY AddressesAreNat DEF InjectionTypeOK
<1>8. top' \in Nat /\ Heap[1] <= top' /\ top <= top' /\ BlockEnd(call') = top'
  BY <1>3, <1>4, <1>6, <1>7 DEF BlockEnd
<1>9. HooksAreBelow(top)' /\ HooksAreBelow(call.block)'
  <2>1. ASSUME NEW s \in Site, hooks'[s] # Idle
        PROVE  Heap[1] <= hooks'[s].block /\ BlockEnd(hooks'[s]) <= top /\ BlockEnd(hooks'[s]) <= top'
    <3>1. hooks[s] \in Call /\ Heap[1] <= hooks[s].block /\ BlockEnd(hooks[s]) <= top
      BY <1>4, <2>1 DEF InjectionTypeOK, Layout, HooksAreBelow
    <3>2. BlockEnd(hooks[s]) \in Nat
      BY <3>1 DEF Call, BlockEnd
    <3> QED
      BY <1>3, <1>4, <1>8, <3>1, <3>2
  <2> QED
    BY <1>6, <2>1 DEF HooksAreBelow
<1> QED
  BY <1>4, <1>5, <1>6, <1>7, <1>8, <1>9 DEF InjectionTypeOK, Layout

LEMMA CompileFailsKeeps ==
  ASSUME InjectionTypeOK, Layout, CompileFails
  PROVE  InjectionTypeOK' /\ Layout'
<1> DEFINE code == tables[call.table]
           size == CodeSize(code)
<1>1. call \in Call /\ call.pc = "nopped"
  BY CallOf DEF CompileFails
<1>2. code \in Seq(Element)
  BY <1>1 DEF InjectionTypeOK, Call
<1>3. top \in Nat /\ size \in Nat
  <2>1. top \in Nat /\ Len(code) \in 0..Len(code)
    BY <1>2 DEF InjectionTypeOK
  <2> HIDE DEF code
  <2> QED
    BY <1>2, <2>1, EndsShape DEF CodeSize
<1>4. /\ top' = top + size + 5 /\ top' <= Heap[2] /\ call' = Idle /\ call'.pc # "placed"
      /\ hooks' = [hooks EXCEPT ![call.site] = Idle]
      /\ UNCHANGED <<mem, tables>>
  BY DEF CompileFails, Idle
<1> HIDE DEF code, size
<1>5. top' \in Nat /\ top <= top' /\ Heap[1] <= top'
  BY <1>3, <1>4, AddressesAreNat DEF InjectionTypeOK
<1>6. HooksAreBelow(top)'
  <2>1. ASSUME NEW s \in Site, hooks'[s] # Idle
        PROVE  Heap[1] <= hooks'[s].block /\ BlockEnd(hooks'[s]) <= top'
    <3>1. hooks'[s] = hooks[s]
      BY <1>4, <2>1 DEF InjectionTypeOK
    <3>2. hooks[s] \in Call /\ Heap[1] <= hooks[s].block /\ BlockEnd(hooks[s]) <= top
      BY <2>1, <3>1 DEF InjectionTypeOK, Layout, HooksAreBelow
    <3>3. BlockEnd(hooks[s]) \in Nat
      BY <3>2 DEF Call, BlockEnd
    <3> QED
      BY <1>3, <1>5, <3>1, <3>2, <3>3
  <2> QED
    BY <2>1 DEF HooksAreBelow
<1> QED
  BY <1>4, <1>5, <1>6 DEF InjectionTypeOK, Layout

\* Where the two jumps of a hook go.
LEMMA WrittenJump ==
  ASSUME NEW memory \in [Addresses -> Cell], NEW from \in Nat, NEW to \in Nat
  PROVE  /\ Written(memory, from, JumpTo(from, to)) \in [Addresses -> Cell]
         /\ \A a \in Addresses : \/ a \in from..(from + 4)
                                 \/ Written(memory, from, JumpTo(from, to))[a] = memory[a]
<1> DEFINE jump == JumpTo(from, to)
<1>1. jump \in Seq(Cell) /\ Len(jump) \in 1..5
  <2>1. from \in Int /\ to \in Int
    OBVIOUS
  <2> QED
    BY <2>1, JumpShape
<1> HIDE DEF jump
<1>2. Written(memory, from, jump) \in [Addresses -> Cell]
  <2>1. Addresses \subseteq Nat
    BY AddressesAreNat
  <2> QED
    BY <1>1, <2>1, WrittenShape
<1>3. ASSUME NEW m \in 1..5, NEW a \in from..(from + m - 1)
      PROVE  a \in from..(from + 4)
  OBVIOUS
<1>4. ASSUME NEW a \in Addresses
      PROVE  a \in from..(from + 4) \/ Written(memory, from, jump)[a] = memory[a]
  BY <1>1, <1>3, Outside
<1> QED
  BY <1>2, <1>4 DEF jump

LEMMA PlaceJumpsWrites ==
  ASSUME InjectionTypeOK, Layout, PlaceJumps
  PROVE  /\ call \in Call
         /\ mem' \in [Addresses -> Cell]
         /\ \A a \in Addresses : \/ a \in call.site..(call.site + 4)
                                 \/ a \in (call.block + call.size)..(call.block + call.size + 4)
                                 \/ mem'[a] = mem[a]
<1> DEFINE back == call.block + call.size
           once == Written(mem, call.site, JumpTo(call.site, call.block))
<1>1. call \in Call /\ call.pc = "placed"
  BY CallOf DEF PlaceJumps
<1>2. call.site \in Nat /\ call.block \in Nat /\ back \in Nat /\ call.returnTo \in Nat
  BY <1>1, SitesAreGame DEF Call
<1>3. mem' = Written(once, back, JumpTo(back, call.returnTo))
  BY DEF PlaceJumps
<1> HIDE DEF back
<1>4. /\ once \in [Addresses -> Cell]
      /\ \A a \in Addresses : a \in call.site..(call.site + 4) \/ once[a] = mem[a]
  BY <1>2, WrittenJump DEF InjectionTypeOK
<1> HIDE DEF once
<1>5. /\ mem' \in [Addresses -> Cell]
      /\ \A a \in Addresses : a \in back..(back + 4) \/ mem'[a] = once[a]
  BY <1>2, <1>3, <1>4, WrittenJump
<1>6. \A a \in Addresses :
        a \in call.site..(call.site + 4) \/ a \in back..(back + 4) \/ mem'[a] = mem[a]
  BY <1>4, <1>5
<1> QED
  BY <1>1, <1>5, <1>6 DEF back

LEMMA PlaceJumpsKeeps ==
  ASSUME InjectionTypeOK, Layout, PlaceJumps
  PROVE  InjectionTypeOK' /\ Layout'
<1>1. call \in Call /\ call.pc = "placed" /\ mem' \in [Addresses -> Cell]
  BY PlaceJumpsWrites DEF PlaceJumps
<1>2. /\ hooks' = [hooks EXCEPT ![call.site] = call] /\ call' = Idle /\ call'.pc # "placed"
      /\ UNCHANGED <<tables, top>>
  BY DEF PlaceJumps, Idle
<1>3. hooks' \in [Site -> Call \cup {Idle}]
  BY <1>1, <1>2 DEF InjectionTypeOK
<1>4. HooksAreBelow(top)'
  <2>1. ASSUME NEW s \in Site, hooks'[s] # Idle
        PROVE  Heap[1] <= hooks'[s].block /\ BlockEnd(hooks'[s]) <= top
    <3>1. CASE s = call.site
      <4>1. hooks'[s] = call
        BY <1>2, <3>1 DEF InjectionTypeOK
      <4> QED
        BY <1>1, <4>1 DEF Layout, InjectionTypeOK
    <3>2. CASE s # call.site
      <4>1. hooks'[s] = hooks[s]
        BY <1>2, <3>2 DEF InjectionTypeOK
      <4> QED
        BY <2>1, <4>1 DEF Layout, HooksAreBelow
    <3> QED
      BY <3>1, <3>2
  <2> QED
    BY <1>2, <2>1 DEF HooksAreBelow
<1> QED
  BY <1>1, <1>2, <1>3, <1>4 DEF InjectionTypeOK, Layout

\* What allocateAssembly does, when it writes and when it does not.
LEMMA AllocateAssemblyWrites ==
  ASSUME InjectionTypeOK, NEW s \in Script, AllocateAssembly(s)
  PROVE  /\ call = Idle /\ call' = call /\ call'.pc # "placed" /\ UNCHANGED <<tables, hooks>>
         /\ top' \in Nat /\ top <= top' /\ top' <= Heap[2]
         /\ \/ UNCHANGED <<mem, assembled>>
            \/ \E bytes \in Seq(Cell) :
                 /\ Len(bytes) = Assembly[s].atBlock
                 /\ top' = top + Assembly[s].atZero
                 /\ mem' = Written(mem, top, bytes)
                 /\ assembled' = assembled \cup {[block |-> top, bytes |-> bytes]}
<1> DEFINE zero == Assembly[s].atZero
           block == Assembly[s].atBlock
<1>1. zero \in Nat /\ block \in Nat /\ top \in Nat
  BY InjectionAssumption DEF InjectionTypeOK
<1>2. /\ top' = IF Assembles(zero) THEN top + zero ELSE top
      /\ top' <= Heap[2]
      /\ call = Idle /\ call' = call /\ call'.pc # "placed" /\ UNCHANGED <<tables, hooks>>
      /\ \/ UNCHANGED <<mem, assembled>>
         \/ /\ Assembles(zero)
            /\ mem' = Written(mem, top, Bytes(s, block))
            /\ assembled' = assembled \cup {[block |-> top, bytes |-> Bytes(s, block)]}
  BY DEF AllocateAssembly, Idle
<1> HIDE DEF zero, block
<1>3. Bytes(s, block) \in Seq(Cell) /\ Len(Bytes(s, block)) = block
  BY <1>1, BytesShape
<1>4. top' \in Nat /\ top <= top'
  BY <1>1, <1>2
<1> QED
  BY <1>2, <1>3, <1>4 DEF zero, block

LEMMA AllocateAssemblyKeeps ==
  ASSUME InjectionTypeOK, Layout, NEW s \in Script, AllocateAssembly(s)
  PROVE  InjectionTypeOK' /\ Layout'
<1>1. /\ call = Idle /\ call' = call /\ call'.pc # "placed" /\ UNCHANGED <<tables, hooks>>
      /\ top' \in Nat /\ top <= top' /\ top' <= Heap[2]
      /\ mem' = mem \/ \E bytes \in Seq(Cell) : mem' = Written(mem, top, bytes)
  BY AllocateAssemblyWrites
<1>2. mem' \in [Addresses -> Cell]
  <2>1. mem \in [Addresses -> Cell] /\ top \in Nat /\ Addresses \subseteq Nat
    BY AddressesAreNat DEF InjectionTypeOK
  <2>2. ASSUME NEW bytes \in Seq(Cell), mem' = Written(mem, top, bytes)
        PROVE  mem' \in [Addresses -> Cell]
    BY <2>1, <2>2, WrittenShape
  <2> QED
    BY <1>1, <2>1, <2>2
<1>3. Heap[1] <= top'
  BY <1>1, AddressesAreNat DEF InjectionTypeOK
<1>4. HooksAreBelow(top)'
  <2>1. ASSUME NEW t \in Site, hooks[t] # Idle
        PROVE  Heap[1] <= hooks[t].block /\ BlockEnd(hooks[t]) <= top'
    <3>1. hooks[t] \in Call /\ Heap[1] <= hooks[t].block /\ BlockEnd(hooks[t]) <= top
      BY <2>1 DEF InjectionTypeOK, Layout, HooksAreBelow
    <3>2. BlockEnd(hooks[t]) \in Nat /\ top \in Nat
      BY <3>1 DEF Call, BlockEnd, InjectionTypeOK
    <3> QED
      BY <1>1, <3>1, <3>2
  <2> QED
    BY <1>1, <2>1 DEF HooksAreBelow
<1> QED
  BY <1>1, <1>2, <1>3, <1>4 DEF InjectionTypeOK, Layout

LEMMA LayoutStep ==
  InjectionTypeOK /\ Layout /\ [Next]_vars => InjectionTypeOK' /\ Layout'
<1> SUFFICES ASSUME InjectionTypeOK, Layout, [Next]_vars PROVE InjectionTypeOK' /\ Layout'
  OBVIOUS
<1>1. ASSUME NEW s \in Site, NEW t \in CodeTable, NEW o \in Originals, NEW r \in ReturnTo(s),
             InsertCode(s, t, o, r)
      PROVE  InjectionTypeOK' /\ Layout'
  BY <1>1, InsertCodeKeeps
<1>2. CASE PlaceCode
  BY <1>2, PlaceCodeKeeps
<1>3. CASE CompileFails
  BY <1>3, CompileFailsKeeps
<1>4. CASE PlaceJumps
  BY <1>4, PlaceJumpsKeeps
<1>5. ASSUME NEW s \in Script, AllocateAssembly(s)
      PROVE  InjectionTypeOK' /\ Layout'
  BY <1>5, AllocateAssemblyKeeps
<1>6. CASE UNCHANGED vars
  BY <1>6 DEF vars, InjectionTypeOK, Layout, HooksAreBelow
<1> QED
  BY <1>1, <1>2, <1>3, <1>4, <1>5, <1>6 DEF Next

\* Blocks are taken one after the other: the block of every hook ends before the
\* next one begins and before what is free (the calls of core.allocateCode in
\* core.insertCode and core.allocateAssembly).
THEOREM BlocksLieApart == Spec => [](InjectionTypeOK /\ Layout)
<1>1. Init => InjectionTypeOK /\ Layout
  BY InitLayout
<1>2. InjectionTypeOK /\ Layout /\ [Next]_vars => (InjectionTypeOK /\ Layout)'
  BY LayoutStep
<1> QED
  BY <1>1, <1>2, PTL DEF Spec

-----------------------------------------------------------------------------
\* What a step writes.

Patches(s) == call # Idle /\ call.site = s

LEMMA GameStep ==
  ASSUME InjectionTypeOK, Layout, WidePatches, [Next]_vars, NEW a \in Game
  PROVE  \/ mem'[a] = mem[a]
         \/ \E s \in Site : (Patches(s) \/ Patches(s)') /\ a \in s..(s + PatchSize[s] - 1)
<1>1. a \in Addresses /\ a \in Nat /\ a < Heap[1] /\ Heap[1] \in Nat /\ Addresses \subseteq Nat
  BY AddressesAreNat
<1>2. mem \in [Addresses -> Cell] /\ top \in Nat /\ Heap[1] <= top
  BY DEF InjectionTypeOK
<1>3. ASSUME NEW s \in Site, NEW t \in CodeTable, NEW o \in Originals, NEW r \in ReturnTo(s),
             InsertCode(s, t, o, r)
      PROVE  mem'[a] = mem[a] \/ (Patches(s)' /\ a \in s..(s + PatchSize[s] - 1))
  <2> DEFINE nops == [n \in 1..PatchSize[s] |-> Byte(NOP)]
  <2>1. nops \in Seq(Cell) /\ Len(nops) = PatchSize[s] /\ mem' = Written(mem, s, nops) /\ s \in Nat
    BY <1>3, NopsShape, SitesAreGame DEF InsertCode
  <2> HIDE DEF nops
  <2>2. a \in s..(s + Len(nops) - 1) \/ mem'[a] = mem[a]
    BY <1>1, <1>2, <2>1, Outside
  <2>3. call'.site = s /\ call'.pc # Idle.pc
    BY <1>3 DEF InsertCode, Idle
  <2> QED
    BY <2>1, <2>2, <2>3 DEF Patches
<1>4. ASSUME NEW bytes \in Seq(Cell), mem' = Written(mem, top, bytes)
      PROVE  mem'[a] = mem[a]
  <2>1. a \in top..(top + Len(bytes) - 1) \/ mem'[a] = mem[a]
    BY <1>1, <1>2, <1>4, Outside
  <2> QED
    BY <1>1, <1>2, <2>1
<1>5. CASE PlaceCode
  <2> DEFINE code == tables[call.table]
  <2>1. code \in Seq(Element) /\ ~Uncompilable(code) /\ mem' = Written(mem, top, Compile(code, top))
    BY <1>5, CallOf DEF PlaceCode, InjectionTypeOK, Call
  <2> HIDE DEF code
  <2>2. Compile(code, top) \in Seq(Cell)
    BY <1>2, <2>1, CompileShape
  <2> QED
    BY <1>4, <2>1, <2>2
<1>6. CASE PlaceJumps
  <2>1. /\ call \in Call /\ call # Idle
        /\ \/ a \in call.site..(call.site + 4)
           \/ a \in (call.block + call.size)..(call.block + call.size + 4)
           \/ mem'[a] = mem[a]
    BY <1>1, <1>6, PlaceJumpsWrites DEF PlaceJumps, Idle
  <2>2. call.site \in Site /\ call.block \in Nat /\ call.size \in Nat /\ Heap[1] <= call.block
    BY <1>6, <2>1 DEF Call, Layout, PlaceJumps
  <2>3. call.site \in Nat /\ PatchSize[call.site] \in Nat /\ PatchSize[call.site] >= 5
    BY <2>2, SitesAreGame DEF WidePatches
  <2>4. ~(a \in (call.block + call.size)..(call.block + call.size + 4))
    BY <1>1, <2>2
  <2>5. a \in call.site..(call.site + 4) => a \in call.site..(call.site + PatchSize[call.site] - 1)
    BY <1>1, <2>3
  <2> QED
    BY <2>1, <2>2, <2>4, <2>5 DEF Patches
<1>7. ASSUME NEW s \in Script, AllocateAssembly(s)
      PROVE  mem'[a] = mem[a]
  BY <1>4, <1>7, AllocateAssemblyWrites
<1>8. CASE CompileFails
  BY <1>8 DEF CompileFails
<1>9. CASE UNCHANGED vars
  BY <1>9 DEF vars
<1> QED
  BY <1>3, <1>5, <1>6, <1>7, <1>8, <1>9 DEF Next

\* What is allocated is written only by the insertCode that just allocated it.
LEMMA BlockStep ==
  ASSUME InjectionTypeOK, Layout, WidePatches, [Next]_vars,
         NEW a \in Addresses, Heap[1] <= a, a < top, call.pc = "placed" => a < call.block
  PROVE  mem'[a] = mem[a]
<1>1. a \in Nat /\ Heap[1] \in Nat /\ Addresses \subseteq Nat /\ a \notin Game
  BY AddressesAreNat
<1>2. mem \in [Addresses -> Cell] /\ top \in Nat
  BY DEF InjectionTypeOK
<1>3. ASSUME NEW s \in Site, NEW t \in CodeTable, NEW o \in Originals, NEW r \in ReturnTo(s),
             InsertCode(s, t, o, r)
      PROVE  mem'[a] = mem[a]
  <2> DEFINE nops == [n \in 1..PatchSize[s] |-> Byte(NOP)]
  <2>1. nops \in Seq(Cell) /\ Len(nops) = PatchSize[s] /\ mem' = Written(mem, s, nops)
        /\ s \in Nat /\ PatchSize[s] \in Nat
    BY <1>3, NopsShape, SitesAreGame DEF InsertCode
  <2> HIDE DEF nops
  <2>2. a \in s..(s + PatchSize[s] - 1) \/ mem'[a] = mem[a]
    <3>1. a \in s..(s + Len(nops) - 1) \/ mem'[a] = mem[a]
      BY <1>2, <2>1, Outside
    <3> QED
      BY <2>1, <3>1
  <2>3. a \in s..(s + PatchSize[s] - 1) => a \in s..(s + PatchSize[s])
    BY <1>1, <2>1
  <2> QED
    BY <1>1, <2>2, <2>3, SitesAreGame
<1>4. ASSUME NEW bytes \in Seq(Cell), mem' = Written(mem, top, bytes)
      PROVE  mem'[a] = mem[a]
  <2>1. a \in top..(top + Len(bytes) - 1) \/ mem'[a] = mem[a]
    BY <1>1, <1>2, <1>4, Outside
  <2> QED
    BY <1>1, <1>2, <2>1
<1>5. CASE PlaceCode
  <2> DEFINE code == tables[call.table]
  <2>1. code \in Seq(Element) /\ ~Uncompilable(code) /\ mem' = Written(mem, top, Compile(code, top))
    BY <1>5, CallOf DEF PlaceCode, InjectionTypeOK, Call
  <2> HIDE DEF code
  <2>2. Compile(code, top) \in Seq(Cell)
    BY <1>2, <2>1, CompileShape
  <2> QED
    BY <1>4, <2>1, <2>2
<1>6. CASE PlaceJumps
  <2>1. /\ call \in Call /\ call.pc = "placed"
        /\ \/ a \in call.site..(call.site + 4)
           \/ a \in (call.block + call.size)..(call.block + call.size + 4)
           \/ mem'[a] = mem[a]
    BY <1>6, PlaceJumpsWrites DEF PlaceJumps
  <2>2. call.site \in Site /\ call.block \in Nat /\ call.size \in Nat /\ a < call.block
    BY <2>1 DEF Call
  <2>3. call.site \in Nat /\ PatchSize[call.site] \in Nat /\ PatchSize[call.site] >= 5
    BY <2>2, SitesAreGame DEF WidePatches
  <2>4. ~(a \in (call.block + call.size)..(call.block + call.size + 4))
    BY <1>1, <2>2
  <2>5. a \in call.site..(call.site + 4) => a \in call.site..(call.site + PatchSize[call.site])
    BY <1>1, <2>3
  <2> QED
    BY <1>1, <2>1, <2>2, <2>4, <2>5, SitesAreGame
<1>7. ASSUME NEW s \in Script, AllocateAssembly(s)
      PROVE  mem'[a] = mem[a]
  BY <1>4, <1>7, AllocateAssemblyWrites
<1>8. CASE CompileFails
  BY <1>8 DEF CompileFails
<1>9. CASE UNCHANGED vars
  BY <1>9 DEF vars
<1> QED
  BY <1>3, <1>5, <1>6, <1>7, <1>8, <1>9 DEF Next

\* A jump needs five bytes, and a patch of five bytes and more has room for it:
\* of the game's code, insertCode overwrites nothing else, whatever its callers ask
\* for, whether it returns or raises an error on the way (core.insertCode).
THEOREM OnlyPatches == WidePatches /\ Spec => []OnlyPatchesOverwritten
<1> SUFFICES ASSUME WidePatches PROVE Spec => []OnlyPatchesOverwritten
  OBVIOUS
<1>1. Init => OnlyPatchesOverwritten
  <2> SUFFICES ASSUME Init, NEW a \in Game PROVE mem[a] = Original(a)
    BY DEF OnlyPatchesOverwritten
  <2> QED
    BY DEF Init
<1>2. InjectionTypeOK /\ Layout /\ OnlyPatchesOverwritten /\ [Next]_vars => OnlyPatchesOverwritten'
  <2> SUFFICES ASSUME InjectionTypeOK, Layout, OnlyPatchesOverwritten, [Next]_vars, NEW a \in Game
               PROVE  mem'[a] = Original(a) \/ \E s \in Site : a \in s..(s + PatchSize[s] - 1)
    BY DEF OnlyPatchesOverwritten
  <2>1. mem'[a] = mem[a] \/ \E s \in Site : a \in s..(s + PatchSize[s] - 1)
    BY GameStep
  <2> QED
    BY <2>1 DEF OnlyPatchesOverwritten
<1> QED
  BY <1>1, <1>2, BlocksLieApart, PTL DEF Spec

-----------------------------------------------------------------------------
\* Scripts that are not longer at their block than at 0 end where it ends.

LEMMA AssemblyStep ==
  ASSUME NoLonger, InjectionTypeOK, Layout, AssemblyLayout, [Next]_vars
  PROVE  AssemblyLayout'
<1>1. /\ Heap[1] \in Nat /\ top \in Nat /\ Heap[1] <= top
      /\ top' \in Nat /\ top <= top'
      /\ call'.pc = "placed" =>
           \/ call'.block = top
           \/ call.pc = "placed" /\ call'.block = call.block
      /\ \/ assembled' = assembled
         \/ \E s \in Script, bytes \in Seq(Cell) :
              /\ Len(bytes) = Assembly[s].atBlock /\ call'.pc # "placed"
              /\ top' = top + Assembly[s].atZero
              /\ assembled' = assembled \cup {[block |-> top, bytes |-> bytes]}
  <2>1. Heap[1] \in Nat /\ top \in Nat /\ Heap[1] <= top
    BY AddressesAreNat DEF InjectionTypeOK
  <2>2. ASSUME NEW s \in Site, NEW t \in CodeTable, NEW o \in Originals, NEW r \in ReturnTo(s),
               InsertCode(s, t, o, r)
        PROVE  top' = top /\ assembled' = assembled /\ call'.pc # "placed"
    BY <2>2 DEF InsertCode
  <2>3. CASE PlaceCode
    <3> DEFINE size == CodeSize(tables[call.table])
    <3>1. call \in Call /\ tables[call.table] \in Seq(Element)
      BY <2>3, CallOf DEF PlaceCode, InjectionTypeOK, Call
    <3>2. size \in Nat
      BY <2>1, <2>3, <3>1, CompileShape DEF PlaceCode
    <3>3. top' = top + size + 5 /\ call' = [call EXCEPT !.pc = "placed", !.block = top, !.size = size]
          /\ assembled' = assembled
      BY <2>3 DEF PlaceCode
    <3> HIDE DEF size
    <3>4. call'.block = top /\ top' \in Nat /\ top <= top'
      BY <2>1, <3>1, <3>2, <3>3 DEF Call
    <3> QED
      BY <2>1, <3>3, <3>4
  <2>4. CASE CompileFails
    <3> DEFINE code == tables[call.table]
    <3>1. code \in Seq(Element) /\ top' = top + CodeSize(code) + 5 /\ assembled' = assembled
          /\ call'.pc # "placed"
      BY <2>4, CallOf DEF CompileFails, InjectionTypeOK, Call, Idle
    <3> HIDE DEF code
    <3>2. Len(code) \in 0..Len(code)
      BY <3>1
    <3>3. CodeSize(code) \in Nat
      BY <3>1, <3>2, EndsShape DEF CodeSize
    <3> QED
      BY <2>1, <3>1, <3>3
  <2>5. CASE PlaceJumps
    BY <2>1, <2>5 DEF PlaceJumps, Idle
  <2>6. ASSUME NEW s \in Script, AllocateAssembly(s)
        PROVE  /\ top' \in Nat /\ top <= top' /\ call'.pc # "placed"
               /\ \/ assembled' = assembled
                  \/ \E bytes \in Seq(Cell) :
                       /\ Len(bytes) = Assembly[s].atBlock
                       /\ top' = top + Assembly[s].atZero
                       /\ assembled' = assembled \cup {[block |-> top, bytes |-> bytes]}
    BY <2>6, AllocateAssemblyWrites
  <2>7. CASE UNCHANGED vars
    BY <2>1, <2>7 DEF vars
  <2> QED
    BY <2>1, <2>2, <2>3, <2>4, <2>5, <2>6, <2>7 DEF Next
<1> SUFFICES ASSUME NEW x \in assembled'
             PROVE  /\ x.block \in Nat /\ x.bytes \in Seq(Cell)
                    /\ Heap[1] <= x.block /\ x.block + Len(x.bytes) <= top'
                    /\ call'.pc = "placed" => x.block + Len(x.bytes) <= call'.block
  BY DEF AssemblyLayout
<1>2. CASE x \in assembled
  <2>1. /\ x.block \in Nat /\ x.bytes \in Seq(Cell)
        /\ Heap[1] <= x.block /\ x.block + Len(x.bytes) <= top
        /\ call.pc = "placed" => x.block + Len(x.bytes) <= call.block
    BY <1>2 DEF AssemblyLayout
  <2>2. Len(x.bytes) \in Nat
    BY <2>1
  <2> QED
    BY <1>1, <2>1, <2>2
<1>3. CASE x \notin assembled
  <2>1. PICK s \in Script, bytes \in Seq(Cell) :
          /\ Len(bytes) = Assembly[s].atBlock /\ call'.pc # "placed"
          /\ top' = top + Assembly[s].atZero
          /\ assembled' = assembled \cup {[block |-> top, bytes |-> bytes]}
    BY <1>1, <1>3
  <2>2. x = [block |-> top, bytes |-> bytes]
    BY <1>3, <2>1
  <2>3. Assembly[s].atBlock \in Nat /\ Assembly[s].atZero \in Nat /\ Assembly[s].atBlock <= Assembly[s].atZero
    BY InjectionAssumption DEF NoLonger
  <2> QED
    BY <1>1, <2>1, <2>2, <2>3
<1> QED
  BY <1>2, <1>3

\* What is below the block of the call that runs is not written by the next step.
LEMMA BelowKept ==
  ASSUME WidePatches, InjectionTypeOK, Layout, [Next]_vars,
         NEW a \in Nat, Heap[1] <= a, a < top, call.pc = "placed" => a < call.block
  PROVE  mem'[a] = mem[a]
<1>1. Heap[1] \in Nat /\ Heap[2] \in Nat /\ top \in Nat /\ (top = Heap[1] \/ top <= Heap[2])
  BY AddressesAreNat DEF InjectionTypeOK
<1>2. a \in Addresses
  BY <1>1, AddressesAreNat
<1> QED
  BY <1>2, BlockStep

\* Nor are the addresses that a hook or a script has got.
LEMMA HookKept ==
  ASSUME WidePatches, InjectionTypeOK, Layout, [Next]_vars,
         NEW h \in Established, NEW a \in h.block..(h.block + h.size + 4)
  PROVE  mem'[a] = mem[a]
<1>1. Heap[1] \in Nat /\ top \in Nat /\ (call.pc = "placed" => call.block \in Nat)
  BY AddressesAreNat, CallOf DEF InjectionTypeOK, Call
<1>2. PICK u \in Site : h = hooks[u] /\ hooks[u] # Idle
  BY DEF Established
<1>3. h \in Call /\ Heap[1] <= h.block /\ BlockEnd(h) <= top
      /\ (call.pc = "placed" => BlockEnd(h) <= call.block)
  BY <1>2 DEF InjectionTypeOK, Layout, HooksAreBelow
<1>4. h.block \in Nat /\ h.size \in Nat /\ BlockEnd(h) = h.block + h.size + 5
  BY <1>3 DEF Call, BlockEnd
<1> HIDE DEF BlockEnd
<1>5. a \in Nat /\ Heap[1] <= a /\ a < top /\ (call.pc = "placed" => a < call.block)
  BY <1>1, <1>3, <1>4
<1> QED
  BY <1>5, BelowKept

LEMMA KeptStep ==
  ASSUME NoLonger, WidePatches, InjectionTypeOK, Layout, AssemblyLayout, [Next]_vars
  PROVE  /\ \A h \in Established :
              \A a \in h.block..(h.block + h.size + 4) : mem'[a] = mem[a]
         /\ \A x \in assembled :
              \A a \in x.block..(x.block + Len(x.bytes) - 1) : mem'[a] = mem[a]
<1>1. ASSUME NEW x \in assembled, NEW a \in x.block..(x.block + Len(x.bytes) - 1)
      PROVE  mem'[a] = mem[a]
  <2>1. /\ x.block \in Nat /\ Len(x.bytes) \in Nat
        /\ Heap[1] <= x.block /\ x.block + Len(x.bytes) <= top
        /\ call.pc = "placed" => x.block + Len(x.bytes) <= call.block
    BY DEF AssemblyLayout
  <2>2. Heap[1] \in Nat /\ top \in Nat /\ (call.pc = "placed" => call.block \in Nat)
    BY AddressesAreNat, CallOf DEF InjectionTypeOK, Call
  <2>3. a \in Nat /\ Heap[1] <= a /\ a < top /\ (call.pc = "placed" => a < call.block)
    BY <2>1, <2>2
  <2> QED
    BY <2>3, BelowKept
<1> QED
  BY <1>1, HookKept

LEMMA AssemblyInvariant == NoLonger /\ Spec => []AssemblyLayout
<1> SUFFICES ASSUME NoLonger PROVE Spec => []AssemblyLayout
  OBVIOUS
<1>1. Init => AssemblyLayout
  BY DEF Init, AssemblyLayout
<1>2. InjectionTypeOK /\ Layout /\ AssemblyLayout /\ [Next]_vars => AssemblyLayout'
  BY AssemblyStep
<1> QED
  BY <1>1, <1>2, BlocksLieApart, PTL DEF Spec

\* What a hook or a script has got stays as it is, whatever is inserted and
\* assembled later, if the callers keep to the two contracts (core.allocateCode and
\* core.writeCode in core.insertCode and core.allocateAssembly).
THEOREM BlocksKept == NoLonger /\ WidePatches /\ Spec => BlocksAreKept
<1> SUFFICES ASSUME NoLonger, WidePatches PROVE Spec => BlocksAreKept
  OBVIOUS
<1>1. InjectionTypeOK /\ Layout /\ AssemblyLayout /\ [Next]_vars =>
        [/\ \A h \in Established :
              \A a \in h.block..(h.block + h.size + 4) : mem'[a] = mem[a]
         /\ \A x \in assembled :
              \A a \in x.block..(x.block + Len(x.bytes) - 1) : mem'[a] = mem[a]]_vars
  BY KeptStep
<1> QED
  BY <1>1, AssemblyInvariant, BlocksLieApart, PTL DEF Spec, BlocksAreKept

\* So what allocateAssembly wrote is all there for as long as the game runs: that
\* scripts which are longer at their block break it (AssemblyIsThere is violated
\* for one that pushes a label) is the only way it can (core.allocateAssembly).
THEOREM AssemblyStays == NoLonger /\ WidePatches /\ Spec => []AssemblyIsThere
<1> SUFFICES ASSUME NoLonger, WidePatches PROVE Spec => []AssemblyIsThere
  OBVIOUS
<1>1. Init => AssemblyIsThere
  BY DEF Init, AssemblyIsThere
<1>2. ASSUME InjectionTypeOK, Layout, AssemblyLayout, AssemblyIsThere, [Next]_vars
      PROVE  AssemblyIsThere'
  <2>1. /\ Heap[1] \in Nat /\ Heap[2] \in Nat /\ top \in Nat /\ Heap[1] <= top
        /\ mem \in [Addresses -> Cell]
    BY <1>2, AddressesAreNat DEF InjectionTypeOK
  <2>2. ASSUME NEW x \in assembled, NEW n \in DOMAIN x.bytes
        PROVE  mem'[x.block + n - 1] = x.bytes[n]
    <3>1. x.block \in Nat /\ x.bytes \in Seq(Cell)
      BY <1>2 DEF AssemblyLayout
    <3>2. Len(x.bytes) \in Nat /\ n \in 1..Len(x.bytes)
      BY <3>1
    <3>3. x.block + n - 1 \in x.block..(x.block + Len(x.bytes) - 1)
      BY <3>1, <3>2
    <3>4. mem'[x.block + n - 1] = mem[x.block + n - 1]
      BY <1>2, <3>3, KeptStep
    <3> QED
      BY <1>2, <3>4 DEF AssemblyIsThere
  <2>3. ASSUME NEW s \in Script, AllocateAssembly(s), NEW x \in assembled', x \notin assembled,
               NEW n \in DOMAIN x.bytes
        PROVE  mem'[x.block + n - 1] = x.bytes[n]
    <3>1. PICK bytes \in Seq(Cell) :
            /\ Len(bytes) = Assembly[s].atBlock
            /\ top' = top + Assembly[s].atZero /\ top' <= Heap[2]
            /\ mem' = Written(mem, top, bytes)
            /\ assembled' = assembled \cup {[block |-> top, bytes |-> bytes]}
      BY <1>2, <2>3, AllocateAssemblyWrites
    <3>2. x = [block |-> top, bytes |-> bytes]
      BY <2>3, <3>1
    <3>3. Assembly[s].atBlock \in Nat /\ Assembly[s].atZero \in Nat /\ Assembly[s].atBlock <= Assembly[s].atZero
      BY InjectionAssumption DEF NoLonger
    <3>4. x.block = top /\ x.bytes = bytes /\ n \in 1..Len(bytes)
      BY <3>2
    <3>5. top + n - 1 \in Nat /\ Heap[1] <= top + n - 1 /\ top + n - 1 <= Heap[2]
      <4>1. /\ Len(bytes) = Assembly[s].atBlock /\ top + Assembly[s].atZero <= Heap[2]
            /\ n \in 1..Len(bytes)
        BY <3>1, <3>4
      <4> DEFINE atZero == Assembly[s].atZero
                 atBlock == Assembly[s].atBlock
                 first == Heap[1]
                 last == Heap[2]
      <4>2. /\ first \in Nat /\ last \in Nat /\ top \in Nat /\ first <= top
            /\ atZero \in Nat /\ atBlock \in Nat /\ atBlock <= atZero /\ top + atZero <= last
            /\ n \in 1..atBlock
        BY <2>1, <3>3, <4>1
      <4> HIDE DEF atZero, atBlock, first, last
      <4>3. top + n - 1 \in Nat /\ first <= top + n - 1 /\ top + n - 1 <= last
        BY ONLY <4>2
      <4> QED
        BY <4>3 DEF first, last
    <3>6. top + n - 1 \in Addresses
      BY <3>5, AddressesAreNat
    <3> QED
      BY <2>1, <3>1, <3>4, <3>6, Inside
  <2>4. assembled' = assembled \/ \E s \in Script : AllocateAssembly(s)
    BY <1>2 DEF Next, vars, InsertCode, PlaceCode, CompileFails, PlaceJumps
  <2> QED
    BY <2>2, <2>3, <2>4 DEF AssemblyIsThere
<1> QED
  BY <1>1, <1>2, AssemblyInvariant, BlocksLieApart, PTL DEF Spec

-----------------------------------------------------------------------------
\* What the game does when it comes to a hook, step by step.

Event == Cell \cup ({"call"} \X Int \X Nat)

State == [at : Int, events : Seq(Event)]

LEMMA CellsAreEvents == Seq(Cell) \subseteq Seq(Event)
<1> DEFINE C == Cell
           E == Event
<1>1. C \subseteq E
  BY DEF Event
<1> HIDE DEF C, E
<1>2. \A s \in Seq(C) : s \in Seq(E)
  BY <1>1, SeqMonotonic
<1> QED
  BY <1>2 DEF C, E

\* The hook and its block are in memory.
Readable(h) ==
  /\ mem \in [Addresses -> Cell] /\ h.site \in Addresses
  /\ \A a \in h.block..(h.block + h.size + 4) : a \in Addresses

LEMMA IntegerIsInt ==
  ASSUME mem \in [Addresses -> Cell], NEW a, IsInt(a), a \in Int
  PROVE  Integer(a) \in Int
<1>1. a + 1 - 1 = a
  OBVIOUS
<1>2. a \in Addresses /\ mem[a] = <<"int", Integer(a), 1>>
  BY <1>1 DEF IsInt
<1>3. mem[a] \in Cell
  BY <1>2
<1>4. ASSUME NEW x, <<"int", x, 1>> \in Cell PROVE x \in Int
  BY <1>4 DEF Cell
<1> QED
  BY <1>2, <1>3, <1>4

LEMMA RunStepShape ==
  ASSUME NEW h \in Call, Readable(h), NEW st \in State
  PROVE  RunStep(h, st) \in State
<1> DEFINE a == st.at
           E == Event
<1>1. a \in Int /\ st.events \in Seq(E) /\ mem \in [Addresses -> Cell]
  BY DEF State, Readable
<1>2. CASE a # h.site /\ a \notin h.block..(h.block + h.size + 4)
  BY <1>2 DEF RunStep
<1>3. CASE ~(a # h.site /\ a \notin h.block..(h.block + h.size + 4))
  <2>1. a \in Addresses /\ mem[a] \in Cell
    BY <1>1, <1>3 DEF Readable
  <2>2. CASE mem[a] = Byte(JMP) /\ IsInt(a + 1)
    <3>1. Integer(a + 1) \in Int
      BY <1>1, <2>2, IntegerIsInt
    <3>2. RunStep(h, st) = [st EXCEPT !.at = a + 5 + Integer(a + 1)]
      BY <1>3, <2>2 DEF RunStep
    <3> QED
      BY <1>1, <3>1, <3>2 DEF State
  <2>3. CASE ~(mem[a] = Byte(JMP) /\ IsInt(a + 1)) /\ mem[a] = Byte(CALL) /\ IsInt(a + 1)
    <3> DEFINE e == <<"call", a + 5 + Integer(a + 1), 0>>
    <3>1. Integer(a + 1) \in Int
      BY <1>1, <2>3, IntegerIsInt
    <3>2. e \in E
      BY <1>1, <3>1 DEF Event
    <3>3. RunStep(h, st) = [at |-> a + 5, events |-> Append(st.events, e)]
      BY <1>3, <2>3 DEF RunStep
    <3> HIDE DEF e, E
    <3>4. Append(st.events, e) \in Seq(E)
      BY <1>1, <3>2, AppendProperties
    <3> QED
      BY <1>1, <3>3, <3>4 DEF State, E
  <2>4. CASE ~(mem[a] = Byte(JMP) /\ IsInt(a + 1)) /\ ~(mem[a] = Byte(CALL) /\ IsInt(a + 1))
    <3> DEFINE e == mem[a]
    <3>1. e \in E
      BY <2>1 DEF Event
    <3>2. RunStep(h, st) = [at |-> a + 1, events |-> Append(st.events, e)]
      BY <1>3, <2>4 DEF RunStep
    <3> HIDE DEF e, E
    <3>3. Append(st.events, e) \in Seq(E)
      BY <1>1, <3>1, AppendProperties
    <3> QED
      BY <1>1, <3>2, <3>3 DEF State, E
  <2> QED
    BY <2>2, <2>3, <2>4
<1> QED
  BY <1>2, <1>3

\* Steps is what its recursion says.
LEMMA StepsShape ==
  ASSUME NEW h \in Call, Readable(h)
  PROVE  /\ Steps(h) \in [0..(h.size + 2) -> State]
         /\ Steps(h)[0] = [at |-> h.site, events |-> <<>>]
         /\ \A n \in 0..(h.size + 1) : Steps(h)[n + 1] = RunStep(h, Steps(h)[n])
<1> DEFINE start == [at |-> h.site, events |-> <<>>]
           last == h.size + 2
           Def(g) == [n \in 0..last |-> IF n = 0 THEN start ELSE RunStep(h, g[n - 1])]
           step == [x \in State \X (1..last) |-> RunStep(h, x[1])]
           V == State
<1>1. last \in Nat /\ start \in V
  <2>1. h.site \in Int /\ h.size \in Nat
    BY SitesAreGame DEF Call
  <2>2. <<>> \in Seq(Event)
    BY EmptySeq
  <2> QED
    BY <2>1, <2>2 DEF State
<1>2. step \in [V \X (1..last) -> V]
  BY RunStepShape
<1>3. \A x \in V : \A i \in 1..last : step[<<x, i>>] = RunStep(h, x)
  OBVIOUS
<1> HIDE DEF step, V, start, last
<1>4. RecursionsOf(V, start, step, last) # {}
  BY <1>1, <1>2, RecursionExists
<1>5. PICK f \in [0..last -> V] : f[0] = start /\ \A i \in 1..last : f[i] = step[<<f[i - 1], i>>]
  BY <1>4 DEF RecursionsOf
<1>6. \A i \in 1..last : f[i] = RunStep(h, f[i - 1])
  <2> TAKE i \in 1..last
  <2>1. i - 1 \in 0..last
    BY <1>1
  <2> QED
    BY <1>3, <1>5, <2>1
<1>7. f = Def(f)
  BY <1>1, <1>5, <1>6
<1> DEFINE g == Steps(h)
<1>8. g = CHOOSE u : u = Def(u)
  BY DEF Steps, start, last
<1>9. g = Def(g)
  <2> HIDE DEF Def, g
  <2> QED
    BY <1>7, <1>8
<1> HIDE DEF g
<1>10. g = [n \in 0..last |-> g[n]] /\ g[0] = start
  BY <1>1, <1>9
<1>11. \A n \in Nat : n < last => g[n + 1] = RunStep(h, g[n])
  <2> SUFFICES ASSUME NEW n \in Nat, n < last PROVE g[n + 1] = RunStep(h, g[n])
    OBVIOUS
  <2> DEFINE m == n + 1
  <2>1. m \in 0..last /\ m # 0 /\ m - 1 = n
    BY <1>1
  <2> HIDE DEF m
  <2>2. g[m] = RunStep(h, g[m - 1])
    BY <1>9, <2>1
  <2> QED
    BY <2>1, <2>2 DEF m
<1> DEFINE S == {n \in 0..last : g[n] \in V}
<1>12. \A n \in 0..last : n \in S
  <2>1. 0 \in S
    BY <1>1, <1>10
  <2>2. \A i \in Nat : 0 <= i /\ i < last /\ i \in S => i + 1 \in S
    <3> TAKE i \in Nat
    <3> HAVE 0 <= i /\ i < last /\ i \in S
    <3>1. g[i] \in V /\ i + 1 \in 0..last /\ g[i + 1] = RunStep(h, g[i])
      BY <1>1, <1>11
    <3>2. g[i + 1] \in V
      BY <3>1, RunStepShape DEF V
    <3> QED
      BY <3>1, <3>2
  <2> HIDE DEF S
  <2> QED
    BY <1>1, <2>1, <2>2, UpTo
<1>13. h.size \in Nat /\ last = h.size + 2
  BY DEF Call, last
<1>14. \A n \in 0..(h.size + 1) : g[n + 1] = RunStep(h, g[n])
  BY <1>11, <1>13
<1> QED
  BY <1>10, <1>12, <1>13, <1>14 DEF g, V, start, last

\* It comes to an address after so many steps at most, when it has done these events.
Reaches(h, a, events, d) ==
  \E k \in 0..d : Steps(h)[k] = [at |-> a, events |-> events]

IntAt(a, v) ==
  a \in Int /\ v \in Int /\ \A n \in 1..4 : a + n - 1 \in Addresses /\ mem[a + n - 1] = <<"int", v, n>>

LEMMA IntIsRead ==
  ASSUME mem \in [Addresses -> Cell], NEW a, NEW v, IntAt(a, v)
  PROVE  IsInt(a) /\ Integer(a) = v
<1>1. a + 1 - 1 = a
  BY DEF IntAt
<1>2. mem[a] = <<"int", v, 1>>
  BY <1>1 DEF IntAt
<1>3. Integer(a) = v
  BY <1>2 DEF Integer
<1> QED
  BY <1>3 DEF IsInt, IntAt

\* One step from where the game is.
LEMMA Runs ==
  ASSUME NEW h \in Call, Readable(h), NEW d \in Nat, d <= h.size + 1,
         NEW a, NEW events, Reaches(h, a, events, d),
         NEW b, NEW after, RunStep(h, [at |-> a, events |-> events]) = [at |-> b, events |-> after]
  PROVE  Reaches(h, b, after, d + 1)
<1>1. PICK k \in 0..d : Steps(h)[k] = [at |-> a, events |-> events]
  BY DEF Reaches
<1>2. h.size \in Nat
  BY DEF Call
<1>3. k \in 0..(h.size + 1) /\ k + 1 \in 0..(d + 1)
  BY <1>2
<1>4. Steps(h)[k + 1] = RunStep(h, Steps(h)[k])
  BY <1>3, StepsShape
<1> QED
  BY <1>1, <1>3, <1>4 DEF Reaches

At(h, a) == a \in Int /\ (a = h.site \/ a \in h.block..(h.block + h.size + 4))

LEMMA JumpRuns ==
  ASSUME NEW h \in Call, Readable(h), NEW d \in Nat, d <= h.size + 1,
         NEW a, NEW events, Reaches(h, a, events, d), At(h, a),
         NEW v, mem[a] = Byte(JMP), IntAt(a + 1, v)
  PROVE  Reaches(h, a + 5 + v, events, d + 1)
<1>1. IsInt(a + 1) /\ Integer(a + 1) = v
  BY IntIsRead DEF Readable
<1>2. RunStep(h, [at |-> a, events |-> events]) = [at |-> a + 5 + v, events |-> events]
  BY <1>1 DEF RunStep, At
<1> QED
  BY <1>2, Runs

LEMMA CallRuns ==
  ASSUME NEW h \in Call, Readable(h), NEW d \in Nat, d <= h.size + 1,
         NEW a, NEW events, Reaches(h, a, events, d), At(h, a),
         NEW v, mem[a] = Byte(CALL), IntAt(a + 1, v)
  PROVE  Reaches(h, a + 5, Append(events, <<"call", a + 5 + v, 0>>), d + 1)
<1>1. IsInt(a + 1) /\ Integer(a + 1) = v
  BY IntIsRead DEF Readable
<1>2. Byte(CALL) # Byte(JMP)
  BY DEF Byte, CALL, JMP
<1>3. RunStep(h, [at |-> a, events |-> events]) =
        [at |-> a + 5, events |-> Append(events, <<"call", a + 5 + v, 0>>)]
  BY <1>1, <1>2 DEF RunStep, At
<1> QED
  BY <1>3, Runs

LEMMA CellRuns ==
  ASSUME NEW h \in Call, Readable(h), NEW d \in Nat, d <= h.size + 1,
         NEW a, NEW events, Reaches(h, a, events, d), At(h, a),
         mem[a] # Byte(JMP), mem[a] # Byte(CALL)
  PROVE  Reaches(h, a + 1, Append(events, mem[a]), d + 1)
<1>1. RunStep(h, [at |-> a, events |-> events]) = [at |-> a + 1, events |-> Append(events, mem[a])]
  BY DEF RunStep, At
<1> QED
  BY <1>1, Runs

LEMMA PrefixGrows ==
  ASSUME NEW T, NEW s \in Seq(T), NEW t \in Seq(T), NEW m \in Nat, m < Len(t)
  PROVE  Append(s \o SubSeq(t, 1, m), t[m + 1]) = s \o SubSeq(t, 1, m + 1)
<1>1. Len(t) \in Nat /\ m + 1 \in 1..Len(t) /\ 1 \in 1..Len(t) /\ m + 1 - 1 = m
  BY LenProperties
<1>2. t[m + 1] \in T /\ SubSeq(t, 1, m) \in Seq(T)
  <2>1. \A i \in 1..m : t[i] \in T
    BY <1>1, ElementOfSeq
  <2>2. 1 \in Int /\ m \in Int
    OBVIOUS
  <2> QED
    BY <1>1, <2>1, <2>2, ElementOfSeq, SubSeqProperties
<1> DEFINE p == SubSeq(t, 1, m)
           e == t[m + 1]
<1>3. SubSeq(t, 1, m + 1) = p \o <<e>>
  BY <1>1, SubSeqRecursiveSecond
<1>4. p \in Seq(T) /\ e \in T
  BY <1>2
<1> HIDE DEF p, e
<1>5. s \o p \in Seq(T) /\ <<e>> \in Seq(T)
  BY <1>4, ConcatProperties
<1>6. Append(s \o p, e) = (s \o p) \o <<e>>
  BY <1>4, <1>5, AppendIsConcat
<1>7. (s \o p) \o <<e>> = s \o (p \o <<e>>)
  BY <1>4, <1>5, ConcatAssociative
<1> QED
  BY <1>3, <1>6, <1>7 DEF p, e

\* Cells that are no jumps and calls are done one after the other.
LEMMA CellsRun ==
  ASSUME NEW h \in Call, Readable(h), NEW d \in Nat, NEW cells \in Seq(Cell), Plain(cells),
         d + Len(cells) <= h.size + 2, NEW a \in Nat, NEW events \in Seq(Event),
         Reaches(h, a, events, d),
         \A n \in 1..Len(cells) : At(h, a + n - 1) /\ mem[a + n - 1] = cells[n]
  PROVE  Reaches(h, a + Len(cells), events \o cells, d + Len(cells))
<1> DEFINE n == Len(cells)
           E == Event
           S == {m \in 0..n : Reaches(h, a + m, events \o SubSeq(cells, 1, m), d + m)}
<1>1. n \in Nat /\ h.size \in Nat /\ cells \in Seq(E)
  BY CellsAreEvents DEF Call
<1> HIDE DEF n, E
<1>2. 0 \in S
  <2>1. SubSeq(cells, 1, 0) = <<>>
    BY SubSeqEmpty
  <2>2. events \o <<>> = events
    BY ConcatEmptySeq
  <2>3. a + 0 = a /\ d + 0 = d /\ 0 \in 0..n
    BY <1>1
  <2>4. Reaches(h, a + 0, events \o SubSeq(cells, 1, 0), d + 0)
    BY <2>1, <2>2, <2>3, Zenon
  <2> QED
    BY <2>3, <2>4
<1>3. \A m \in Nat : 0 <= m /\ m < n /\ m \in S => m + 1 \in S
  <2> SUFFICES ASSUME NEW m \in Nat, m < n, m \in S PROVE m + 1 \in S
    OBVIOUS
  <2> DEFINE b == a + m
             before == events \o SubSeq(cells, 1, m)
             e == d + m
  <2>1. Reaches(h, b, before, e) /\ e \in Nat /\ e <= h.size + 1
    BY <1>1 DEF n
  <2>2. m + 1 \in 1..n /\ a + (m + 1) - 1 = b
    BY <1>1
  <2>3. At(h, b) /\ mem[b] = cells[m + 1]
    BY <2>2 DEF n
  <2>4. mem[b] # Byte(JMP) /\ mem[b] # Byte(CALL)
    BY <2>2, <2>3 DEF Plain, n
  <2>5. Append(before, mem[b]) = events \o SubSeq(cells, 1, m + 1)
    <3>1. events \in Seq(E)
      BY DEF E
    <3>2. m < Len(cells)
      BY DEF n
    <3>3. Append(before, cells[m + 1]) = events \o SubSeq(cells, 1, m + 1)
      BY <1>1, <3>1, <3>2, PrefixGrows
    <3> QED
      BY <2>3, <3>3
  <2>6. b + 1 = a + (m + 1) /\ e + 1 = d + (m + 1)
    OBVIOUS
  <2> HIDE DEF b, before, e
  <2>7. Reaches(h, b + 1, Append(before, mem[b]), e + 1)
    BY <2>1, <2>3, <2>4, CellRuns
  <2> QED
    BY <1>1, <2>2, <2>5, <2>6, <2>7
<1>4. n \in S
  <2> HIDE DEF S
  <2>1. \A m \in 0..n : m \in S
    BY <1>1, <1>2, <1>3, UpTo
  <2>2. n \in 0..n
    BY <1>1
  <2> QED
    BY <2>1, <2>2
<1>5. SubSeq(cells, 1, n) = cells
  BY SubSeqFull DEF n
<1> QED
  BY <1>4, <1>5 DEF n

-----------------------------------------------------------------------------
\* What a table means, element by element.

Meant == [events : Seq(Event), jump : SUBSET Label]

LEMMA KindsOfElements ==
  ASSUME NEW e \in Element
  PROVE  /\ e.kind \in {"number", "callTo", "short", "bytes", "label", "relTo", "assembly"}
         /\ e.kind \in {"number", "callTo", "short"} => e.value \in Int
         /\ e.kind = "bytes" => e.value \in Seq(Cell)
         /\ e.kind \in {"label", "relTo"} => e.value \in Label
         /\ e.kind = "assembly" => e.value \in Script
<1>1. CASE e \in [kind : {"number", "callTo", "short"}, value : Int]
  BY <1>1
<1>2. CASE e \in [kind : {"bytes"}, value : Seq(Cell)]
  <2>1. e.kind = "bytes" /\ e.value \in Seq(Cell)
    BY <1>2
  <2> QED
    BY <2>1
<1>3. CASE e \in [kind : {"label", "relTo"}, value : Label]
  BY <1>3
<1>4. CASE e \in [kind : {"assembly"}, value : Script]
  BY <1>4
<1> QED
  BY <1>1, <1>2, <1>3, <1>4 DEF Element

LEMMA SaysShape ==
  ASSUME NEW e \in Element
  PROVE  Says(e) \in Seq(Event)
<1> DEFINE E == Event
<1>1. CASE e.kind = "number"
  <2>1. Says(e) = Number(e.value) /\ e.value \in Int
    BY <1>1, KindsOfElements DEF Says
  <2> QED
    BY <2>1, NumberShape, CellsAreEvents
<1>2. CASE e.kind = "bytes"
  <2>1. Says(e) = e.value /\ e.value \in Seq(Cell)
    BY <1>2, KindsOfElements DEF Says
  <2> QED
    BY <2>1, CellsAreEvents
<1>3. CASE e.kind = "callTo"
  <2> DEFINE x == <<"call", e.value, 0>>
  <2>1. Says(e) = <<x>> /\ e.value \in Int
    BY <1>3, KindsOfElements DEF Says
  <2>2. x \in E
    BY <2>1 DEF Event
  <2> HIDE DEF x, E
  <2>3. <<x>> \in Seq(E)
    BY <2>2
  <2> QED
    BY <2>1, <2>3 DEF E
<1>4. CASE e.kind = "assembly"
  <2>1. /\ Says(e) = Bytes(e.value, Assembly[e.value].atZero)
        /\ e.value \in Script /\ Assembly[e.value].atZero \in Nat
    BY <1>4, KindsOfElements, InjectionAssumption DEF Says
  <2> QED
    BY <2>1, BytesShape, CellsAreEvents
<1>5. CASE ~(e.kind \in {"number", "bytes", "callTo", "assembly"})
  <2>1. Says(e) = <<>>
    BY <1>5 DEF Says
  <2> QED
    BY <2>1, EmptySeq
<1> QED
  BY <1>1, <1>2, <1>3, <1>4, <1>5

LEMMA SaysNextShape ==
  ASSUME NEW code \in Seq(Element), NEW i \in 1..Len(code), NEW before \in Meant
  PROVE  SaysNext(code, i, before) \in Meant
<1>1. before.events \in Seq(Event) /\ before.jump \in SUBSET Label /\ code[i] \in Element
  BY ElementOfSeq DEF Meant
<1>2. CASE before.jump # {}
  BY <1>1, <1>2 DEF SaysNext, Meant
<1>3. CASE before.jump = {} /\ IsJump(code, i)
  <2>1. i + 1 \in 1..Len(code)
    BY <1>3 DEF IsJump
  <2>2. code[i + 1].value \in Label
    BY <1>3, <2>1, ElementOfSeq, KindsOfElements DEF IsJump
  <2>3. SaysNext(code, i, before) = [events |-> before.events, jump |-> {code[i + 1].value}]
    BY <1>3 DEF SaysNext
  <2> QED
    BY <1>1, <2>2, <2>3 DEF Meant
<1>4. CASE before.jump = {} /\ ~IsJump(code, i)
  <2>1. SaysNext(code, i, before) = [events |-> before.events \o Says(code[i]), jump |-> {}]
    BY <1>4 DEF SaysNext
  <2>2. before.events \o Says(code[i]) \in Seq(Event)
    BY <1>1, SaysShape, ConcatProperties
  <2> QED
    BY <2>1, <2>2 DEF Meant
<1> QED
  BY <1>2, <1>3, <1>4

\* Meanings is what its recursion says.
LEMMA MeaningsShape ==
  ASSUME NEW code \in Seq(Element)
  PROVE  /\ Meanings(code) \in [0..Len(code) -> Meant]
         /\ Meanings(code)[0] = [events |-> <<>>, jump |-> {}]
         /\ \A i \in 1..Len(code) : Meanings(code)[i] = SaysNext(code, i, Meanings(code)[i - 1])
<1> DEFINE nothing == [events |-> <<>>, jump |-> {}]
           n == Len(code)
           Def(g) == [i \in 0..n |-> IF i = 0 THEN nothing ELSE SaysNext(code, i, g[i - 1])]
           step == [x \in Meant \X (1..n) |-> SaysNext(code, x[2], x[1])]
           V == Meant
<1>1. n \in Nat /\ nothing \in V
  <2>1. <<>> \in Seq(Event)
    BY EmptySeq
  <2> QED
    BY <2>1 DEF Meant
<1>2. step \in [V \X (1..n) -> V]
  BY SaysNextShape
<1>3. \A x \in V : \A i \in 1..n : step[<<x, i>>] = SaysNext(code, i, x)
  OBVIOUS
<1>4. \A x \in V : \A i \in 1..n : SaysNext(code, i, x) \in V
  BY SaysNextShape
<1> HIDE DEF step, V, nothing, n
<1>5. RecursionsOf(V, nothing, step, n) # {}
  BY <1>1, <1>2, RecursionExists
<1>6. PICK f \in [0..n -> V] : f[0] = nothing /\ \A i \in 1..n : f[i] = step[<<f[i - 1], i>>]
  BY <1>5 DEF RecursionsOf
<1>7. \A i \in 1..n : f[i] = SaysNext(code, i, f[i - 1])
  <2> TAKE i \in 1..n
  <2>1. i - 1 \in 0..n
    BY <1>1
  <2> QED
    BY <1>3, <1>6, <2>1
<1>8. f = Def(f)
  BY <1>1, <1>6, <1>7
<1> DEFINE g == Meanings(code)
<1>9. g = CHOOSE u : u = Def(u)
  BY DEF Meanings, nothing, n
<1>10. g = Def(g)
  <2> HIDE DEF Def, g
  <2> QED
    BY <1>8, <1>9
<1> HIDE DEF g
<1>11. g = [i \in 0..n |-> g[i]] /\ g[0] = nothing
  BY <1>1, <1>10
<1>12. \A i \in 1..n : g[i] = SaysNext(code, i, g[i - 1])
  <2> TAKE i \in 1..n
  <2>1. i \in 0..n /\ i # 0
    BY <1>1
  <2> QED
    BY <1>10, <2>1
<1> DEFINE S == {i \in 0..n : g[i] \in V}
<1>13. \A i \in 0..n : i \in S
  <2>1. 0 \in S
    BY <1>1, <1>11
  <2>2. \A i \in Nat : 0 <= i /\ i < n /\ i \in S => i + 1 \in S
    <3> SUFFICES ASSUME NEW i \in Nat, i < n, i \in S PROVE i + 1 \in S
      OBVIOUS
    <3> DEFINE j == i + 1
    <3>1. g[i] \in V /\ j \in 0..n /\ j \in 1..n /\ j - 1 = i
      BY <1>1
    <3> HIDE DEF j
    <3>2. g[j] = SaysNext(code, j, g[i])
      BY <1>12, <3>1
    <3>3. g[j] \in V
      BY <1>4, <3>1, <3>2
    <3> QED
      BY <3>1, <3>3 DEF j
  <2> HIDE DEF S
  <2> QED
    BY <1>1, <2>1, <2>2, UpTo
<1> QED
  BY <1>11, <1>12, <1>13 DEF g, V, nothing, n

\* A jump of a well spelt table is behind its label before the table ends, and a
\* distance to a label is met only on a jump.
Lands(code, i) ==
  LET jump == Meanings(code)[i].jump IN
  /\ jump = {} \/ \E k \in 1..Len(code) : k > i /\ code[k].kind = "label" /\ jump = {code[k].value}
  /\ i > 0 /\ IsJump(code, i) => jump # {}

LEMMA JumpsLand ==
  ASSUME NEW code \in Seq(Element), WellSpelt(code), NEW i \in 0..Len(code)
  PROVE  Lands(code, i)
<1> DEFINE n == Len(code)
           M == Meanings(code)
           S == {j \in 0..n : Lands(code, j)}
<1>1. n \in Nat
  OBVIOUS
<1>2. 0 \in S
  <2>1. M[0].jump = {}
    BY MeaningsShape
  <2> QED
    BY <1>1, <2>1 DEF Lands
<1>3. \A j \in Nat : 0 <= j /\ j < n /\ j \in S => j + 1 \in S
  <2> SUFFICES ASSUME NEW j \in Nat, j < n, Lands(code, j) PROVE Lands(code, j + 1)
    BY <1>1
  <2> DEFINE m == j + 1
             before == M[j]
  <2>1. m \in 1..n /\ m - 1 = j
    BY <1>1
  <2>2. M[m] = SaysNext(code, m, before)
    BY <2>1, MeaningsShape
  <2>3. CASE before.jump # {} /\ code[m].kind = "label" /\ code[m].value \in before.jump
    <3>1. M[m].jump = {}
      BY <2>2, <2>3 DEF SaysNext
    <3>2. ~IsJump(code, m)
      BY <2>3 DEF IsJump
    <3> HIDE DEF m, M
    <3>3. Lands(code, m)
      BY <3>1, <3>2 DEF Lands, M
    <3> QED
      BY <3>3 DEF m
  <2>4. CASE before.jump # {} /\ ~(code[m].kind = "label" /\ code[m].value \in before.jump)
    <3>1. M[m] = before
      BY <2>2, <2>4 DEF SaysNext
    <3>2. PICK k \in 1..n : k > j /\ code[k].kind = "label" /\ before.jump = {code[k].value}
      BY <2>4 DEF Lands
    <3>3. k # m
      BY <2>4, <3>2
    <3>4. k > m
      BY <2>1, <3>2, <3>3
    <3>5. k \in 1..Len(code) /\ M[m].jump = {code[k].value} /\ code[k].kind = "label"
      BY <3>1, <3>2
    <3> HIDE DEF m, M
    <3>6. Lands(code, m)
      BY <3>4, <3>5 DEF Lands, M
    <3> QED
      BY <3>6 DEF m
  <2>5. CASE before.jump = {} /\ IsJump(code, m)
    <3>1. M[m].jump = {code[m + 1].value}
      BY <2>2, <2>5 DEF SaysNext
    <3>2. m + 1 \in 1..n /\ code[m + 1].kind = "relTo"
      BY <2>1, <2>5 DEF IsJump
    <3>3. PICK k \in Places(code, code[m + 1].value) : k > m + 1
      BY <3>2 DEF WellSpelt
    <3>4. k \in 1..Len(code) /\ k > m /\ code[k].kind = "label" /\ M[m].jump = {code[k].value}
      BY <2>1, <3>1, <3>3 DEF Places
    <3> HIDE DEF m, M
    <3>5. Lands(code, m)
      BY <3>4 DEF Lands, M
    <3> QED
      BY <3>5 DEF m
  <2>6. CASE before.jump = {} /\ ~IsJump(code, m)
    <3>1. M[m].jump = {}
      BY <2>2, <2>6 DEF SaysNext
    <3> HIDE DEF m, M
    <3>2. Lands(code, m)
      BY <2>6, <3>1 DEF Lands, M
    <3> QED
      BY <3>2 DEF m
  <2> QED
    BY <2>3, <2>4, <2>5, <2>6
<1>4. \A j \in 0..n : j \in S
  <2> HIDE DEF S
  <2> QED
    BY <1>1, <1>2, <1>3, UpTo
<1> QED
  BY <1>4

LEMMA NoJumpAtTheEnd ==
  ASSUME NEW code \in Seq(Element), WellSpelt(code)
  PROVE  Meanings(code)[Len(code)].jump = {}
<1>1. Len(code) \in Nat /\ Len(code) \in 0..Len(code)
  OBVIOUS
<1> QED
  BY <1>1, JumpsLand DEF Lands

LEMMA SaysTheSame ==
  ASSUME NEW code, NEW i, NEW other, NEW j, NEW before, code[i] = other[j],
         IsJump(code, i) <=> IsJump(other, j),
         IsJump(code, i) => code[i + 1] = other[j + 1]
  PROVE  SaysNext(code, i, before) = SaysNext(other, j, before)
BY DEF SaysNext

\* Bytes that are put before a table, or after it.
LEMMA MeaningOfAppended ==
  ASSUME NEW code \in Seq(Element), WellSpelt(code), NEW b \in Element, b.kind = "bytes"
  PROVE  Meaning(Append(code, b)) = Meaning(code) \o b.value
<1> DEFINE n == Len(code)
           longer == Append(code, b)
           M == Meanings(code)
           L == Meanings(longer)
           S == {i \in 0..n : L[i] = M[i]}
<1>1. /\ n \in Nat /\ longer \in Seq(Element) /\ Len(longer) = n + 1
      /\ \A i \in 1..n : longer[i] = code[i]
      /\ longer[n + 1] = b
  BY AppendProperties
<1> HIDE DEF longer
<1>2. \A i \in 1..n : IsJump(longer, i) <=> IsJump(code, i)
  <2> TAKE i \in 1..n
  <2>1. CASE i = n
    <3>1. longer[i + 1] = b
      BY <1>1, <2>1
    <3>2. ~IsJump(longer, i)
      BY <3>1 DEF IsJump
    <3>3. ~IsJump(code, i)
      BY <2>1 DEF IsJump
    <3> QED
      BY <3>2, <3>3
  <2>2. CASE i # n
    <3>1. i < Len(code) /\ i < Len(longer) /\ i + 1 \in 1..n
      BY <1>1, <2>2
    <3>2. longer[i + 1] = code[i + 1] /\ longer[i] = code[i]
      BY <1>1, <3>1
    <3> QED
      BY <3>1, <3>2 DEF IsJump
  <2> QED
    BY <2>1, <2>2
<1>3. 0 \in S
  BY <1>1, MeaningsShape
<1>4. \A i \in Nat : 0 <= i /\ i < n /\ i \in S => i + 1 \in S
  <2> SUFFICES ASSUME NEW i \in Nat, i < n, L[i] = M[i] PROVE L[i + 1] = M[i + 1]
    BY <1>1
  <2> DEFINE j == i + 1
  <2>1. j \in 1..n /\ j - 1 = i /\ j \in 1..Len(longer)
    BY <1>1
  <2> HIDE DEF j
  <2>2. M[j] = SaysNext(code, j, M[j - 1]) /\ L[j] = SaysNext(longer, j, L[j - 1])
    BY <1>1, <2>1, MeaningsShape
  <2> HIDE DEF L, M
  <2>3. M[j] = SaysNext(code, j, M[i]) /\ L[j] = SaysNext(longer, j, M[i])
    BY <2>1, <2>2
  <2>4. longer[j] = code[j] /\ (IsJump(longer, j) <=> IsJump(code, j))
    BY <1>1, <1>2, <2>1
  <2>5. IsJump(code, j) => longer[j + 1] = code[j + 1]
    <3>1. IsJump(code, j) => j + 1 \in 1..n
      BY <2>1 DEF IsJump
    <3> QED
      BY <1>1, <3>1
  <2>6. SaysNext(longer, j, M[i]) = SaysNext(code, j, M[i])
    BY <2>4, <2>5, SaysTheSame
  <2> QED
    BY <2>3, <2>6 DEF j
<1>5. L[n] = M[n]
  <2> HIDE DEF S
  <2>1. \A i \in 0..n : i \in S
    BY <1>1, <1>3, <1>4, UpTo
  <2>2. n \in 0..n
    BY <1>1
  <2> QED
    BY <2>1, <2>2 DEF S
<1>6. L[n + 1] = SaysNext(longer, n + 1, M[n])
  <2> DEFINE j == n + 1
  <2>1. j \in 1..Len(longer) /\ j - 1 = n
    BY <1>1
  <2> HIDE DEF j
  <2>2. L[j] = SaysNext(longer, j, L[j - 1])
    BY <1>1, <2>1, MeaningsShape
  <2> QED
    BY <1>5, <2>1, <2>2 DEF j
<1>7. M[n].jump = {}
  BY NoJumpAtTheEnd
<1>8. Says(b) = b.value
  BY DEF Says
<1>9. ~IsJump(longer, n + 1)
  BY <1>1 DEF IsJump
<1> HIDE DEF L, M
<1>10. L[n + 1] = [events |-> M[n].events \o b.value, jump |-> {}]
  BY <1>1, <1>6, <1>7, <1>8, <1>9 DEF SaysNext
<1>11. Meaning(longer) = L[n + 1].events /\ Meaning(code) = M[n].events
  BY <1>1 DEF Meaning, L, M
<1>12. L[n + 1].events = M[n].events \o b.value
  <2> DEFINE after == M[n].events \o b.value
  <2>1. L[n + 1] = [events |-> after, jump |-> {}]
    BY <1>10
  <2> HIDE DEF after
  <2>2. L[n + 1].events = after
    BY <2>1
  <2> QED
    BY <2>2 DEF after
<1>13. Meaning(longer) = Meaning(code) \o b.value
  BY <1>11, <1>12, Zenon
<1> QED
  BY <1>13 DEF longer

LEMMA Prepended ==
  ASSUME NEW code \in Seq(Element), NEW b \in Element
  PROVE  /\ <<b>> \o code \in Seq(Element) /\ Len(<<b>> \o code) = Len(code) + 1
         /\ (<<b>> \o code)[1] = b
         /\ \A i \in 1..Len(code) : (<<b>> \o code)[i + 1] = code[i]
<1> DEFINE n == Len(code)
           T == Element
           one == <<b>>
<1>1. n \in Nat /\ one \in Seq(T) /\ Len(one) = 1 /\ one[1] = b /\ code \in Seq(T)
  OBVIOUS
<1> HIDE DEF one, T
<1>2. /\ one \o code \in Seq(T) /\ Len(one \o code) = 1 + n
      /\ \A i \in 1..(1 + n) : (one \o code)[i] = IF i <= 1 THEN one[i] ELSE code[i - 1]
  BY <1>1, ConcatProperties
<1>3. (one \o code)[1] = b
  BY <1>1, <1>2
<1>4. ASSUME NEW i \in 1..n PROVE (one \o code)[i + 1] = code[i]
  <2> DEFINE j == i + 1
  <2>1. j \in 1..(1 + n) /\ ~(j <= 1) /\ j - 1 = i
    BY <1>1
  <2> HIDE DEF j
  <2>2. (one \o code)[j] = code[i]
    BY <1>2, <2>1
  <2> QED
    BY <2>2 DEF j
<1> QED
  BY <1>1, <1>2, <1>3, <1>4 DEF one, T

LEMMA JumpsOfPrepended ==
  ASSUME NEW code \in Seq(Element), NEW b \in Element, b.kind = "bytes"
  PROVE  /\ ~IsJump(<<b>> \o code, 1)
         /\ \A i \in 1..Len(code) : IsJump(<<b>> \o code, i + 1) <=> IsJump(code, i)
<1> DEFINE n == Len(code)
           longer == <<b>> \o code
<1>1. /\ n \in Nat /\ Len(longer) = n + 1 /\ longer[1] = b
      /\ \A i \in 1..n : longer[i + 1] = code[i]
  BY Prepended
<1> HIDE DEF longer
<1>2. ~IsJump(longer, 1)
  BY <1>1 DEF IsJump
<1>3. ASSUME NEW i \in 1..n PROVE IsJump(longer, i + 1) <=> IsJump(code, i)
  <2>1. i + 1 < Len(longer) <=> i < Len(code)
    BY <1>1
  <2>2. i < Len(code) => longer[i + 1 + 1] = code[i + 1]
    <3>1. i < Len(code) => i + 1 \in 1..n
      OBVIOUS
    <3> QED
      BY <1>1, <3>1
  <2>3. longer[i + 1] = code[i]
    BY <1>1
  <2> QED
    BY <2>1, <2>2, <2>3 DEF IsJump
<1> QED
  BY <1>2, <1>3 DEF longer

LEMMA MeaningOfPrepended ==
  ASSUME NEW code \in Seq(Element), NEW b \in Element, b.kind = "bytes"
  PROVE  Meaning(<<b>> \o code) = b.value \o Meaning(code)
<1> DEFINE n == Len(code)
           longer == <<b>> \o code
           M == Meanings(code)
           L == Meanings(longer)
           v == b.value
           then(i) == [events |-> v \o M[i].events, jump |-> M[i].jump]
           S == {i \in 0..n : L[i + 1] = then(i)}
<1>1. /\ n \in Nat /\ longer \in Seq(Element) /\ Len(longer) = n + 1 /\ longer[1] = b
      /\ \A i \in 1..n : longer[i + 1] = code[i]
  BY Prepended
<1>2. ~IsJump(longer, 1) /\ \A i \in 1..n : IsJump(longer, i + 1) <=> IsJump(code, i)
  BY JumpsOfPrepended
<1>3. v \in Seq(Event)
  BY KindsOfElements, CellsAreEvents
<1> HIDE DEF longer, v
<1>4. /\ M \in [0..n -> Meant] /\ M[0] = [events |-> <<>>, jump |-> {}]
      /\ \A i \in 1..n : M[i] = SaysNext(code, i, M[i - 1])
      /\ L[0] = [events |-> <<>>, jump |-> {}]
      /\ \A i \in 1..(n + 1) : L[i] = SaysNext(longer, i, L[i - 1])
  BY <1>1, MeaningsShape
<1> HIDE DEF L, M
<1>5. 0 \in S
  <2>1. Says(b) = v
    BY DEF Says, v
  <2>2. L[1] = SaysNext(longer, 1, L[0])
    <3>1. 1 \in 1..(n + 1) /\ 1 - 1 = 0
      BY <1>1
    <3> QED
      BY <1>4, <3>1
  <2>3. L[1] = [events |-> <<>> \o v, jump |-> {}]
    BY <1>1, <1>2, <1>4, <2>1, <2>2 DEF SaysNext
  <2>4. <<>> \o v = v /\ v \o <<>> = v
    BY <1>3, ConcatEmptySeq
  <2>5. L[1] = [events |-> v, jump |-> {}] /\ then(0) = [events |-> v, jump |-> {}]
    BY <1>4, <2>3, <2>4
  <2>6. 0 + 1 = 1 /\ 0 \in 0..n
    BY <1>1
  <2> QED
    BY <2>5, <2>6
<1> HIDE DEF then
<1>6. \A i \in Nat : 0 <= i /\ i < n /\ i \in S => i + 1 \in S
  <2> SUFFICES ASSUME NEW i \in Nat, i < n, L[i + 1] = then(i) PROVE L[i + 1 + 1] = then(i + 1)
    BY <1>1
  <2> DEFINE j == i + 1
             k == j + 1
  <2>1. j \in 1..n /\ j - 1 = i /\ k \in 1..(n + 1) /\ k - 1 = j /\ i \in 0..n
    BY <1>1
  <2>2. longer[k] = code[j] /\ (IsJump(longer, k) <=> IsJump(code, j))
    BY <1>1, <1>2, <2>1
  <2>3. IsJump(code, j) => longer[k + 1] = code[j + 1]
    <3>1. IsJump(code, j) => j + 1 \in 1..n
      BY <2>1 DEF IsJump
    <3> QED
      BY <1>1, <3>1
  <2> HIDE DEF j, k
  <2>4. L[k] = SaysNext(longer, k, L[j]) /\ M[j] = SaysNext(code, j, M[i])
    BY <1>4, <2>1
  <2>5. L[k] = SaysNext(code, j, L[j])
    BY <2>2, <2>3, <2>4, SaysTheSame
  <2> DEFINE before == M[i]
             says == Says(code[j])
  <2>6. L[j] = [events |-> v \o before.events, jump |-> before.jump] /\ before \in Meant
    BY <1>4, <2>1 DEF j, then
  <2>7. before.events \in Seq(Event) /\ says \in Seq(Event)
    <3>1. code[j] \in Element
      BY <2>1, ElementOfSeq
    <3> QED
      BY <2>6, <3>1, SaysShape DEF Meant
  <2>8. L[j].events = v \o before.events /\ L[j].jump = before.jump
    BY <2>6
  <2>9. SaysNext(code, j, L[j]) = [events |-> v \o M[j].events, jump |-> M[j].jump]
    <3> HIDE DEF before, says
    <3>1. M[j] = SaysNext(code, j, before)
      BY <2>4 DEF before
    <3>2. CASE before.jump # {} /\ code[j].kind = "label" /\ code[j].value \in before.jump
      <4>1. M[j] = [events |-> before.events, jump |-> {}]
        BY <3>1, <3>2 DEF SaysNext
      <4>2. SaysNext(code, j, L[j]) = [events |-> L[j].events, jump |-> {}]
        BY <2>8, <3>2 DEF SaysNext
      <4> QED
        BY <2>8, <4>1, <4>2
    <3>3. CASE before.jump # {} /\ ~(code[j].kind = "label" /\ code[j].value \in before.jump)
      <4>1. M[j] = before
        BY <3>1, <3>3 DEF SaysNext
      <4>2. SaysNext(code, j, L[j]) = L[j]
        BY <2>8, <3>3 DEF SaysNext
      <4>3. L[j] = [events |-> v \o before.events, jump |-> before.jump]
        BY <2>6
      <4> QED
        BY <4>1, <4>2, <4>3
    <3>4. CASE before.jump = {} /\ IsJump(code, j)
      <4>1. M[j] = [events |-> before.events, jump |-> {code[j + 1].value}]
        BY <3>1, <3>4 DEF SaysNext
      <4>2. SaysNext(code, j, L[j]) = [events |-> L[j].events, jump |-> {code[j + 1].value}]
        BY <2>8, <3>4 DEF SaysNext
      <4> QED
        BY <2>8, <4>1, <4>2
    <3>5. CASE before.jump = {} /\ ~IsJump(code, j)
      <4>1. M[j] = [events |-> before.events \o says, jump |-> {}]
        BY <3>1, <3>5 DEF SaysNext, says
      <4>2. SaysNext(code, j, L[j]) = [events |-> (v \o before.events) \o says, jump |-> {}]
        BY <2>8, <3>5 DEF SaysNext, says
      <4>3. (v \o before.events) \o says = v \o (before.events \o says)
        <5> DEFINE had == before.events
        <5>1. had \in Seq(Event)
          BY <2>7
        <5> HIDE DEF had
        <5>2. (v \o had) \o says = v \o (had \o says)
          BY <1>3, <2>7, <5>1, ConcatAssociative
        <5> QED
          BY <5>2 DEF had
      <4> DEFINE after == before.events \o says
      <4>4. M[j].events = after /\ M[j].jump = {}
        <5>1. M[j] = [events |-> after, jump |-> {}]
          BY <4>1
        <5> HIDE DEF after
        <5> QED
          BY <5>1
      <4>5. SaysNext(code, j, L[j]) = [events |-> v \o after, jump |-> {}]
        BY <4>2, <4>3
      <4> HIDE DEF after
      <4> QED
        BY <4>4, <4>5
    <3> QED
      BY <3>2, <3>3, <3>4, <3>5
  <2>10. L[k] = then(j)
    BY <2>5, <2>9 DEF then
  <2> QED
    BY <2>10 DEF j, k
<1>7. L[n + 1] = then(n)
  <2>1. \A i \in 0..n : i \in S
    <3> HIDE DEF S
    <3> QED
      BY <1>1, <1>5, <1>6, UpTo
  <2>2. n \in 0..n
    BY <1>1
  <2> QED
    BY <2>1, <2>2
<1>8. Meaning(longer) = L[n + 1].events /\ Meaning(code) = M[n].events
  BY <1>1 DEF Meaning, L, M
<1> DEFINE said == M[n].events
<1>9. L[n + 1].events = v \o said
  <2> DEFINE all == v \o said
  <2>1. L[n + 1] = [events |-> all, jump |-> M[n].jump]
    BY <1>7 DEF then, said
  <2> HIDE DEF all
  <2>2. L[n + 1].events = all
    BY <2>1
  <2> QED
    BY <2>2 DEF all
<1>10. Meaning(longer) = v \o Meaning(code)
  BY <1>8, <1>9, Zenon
<1> QED
  BY <1>10 DEF longer, v

LEMMA PrependedIsWellSpelt ==
  ASSUME NEW code \in Seq(Element), WellSpelt(code), NEW b \in Element, b.kind = "bytes", Plain(b.value)
  PROVE  WellSpelt(<<b>> \o code)
<1> DEFINE n == Len(code)
           longer == <<b>> \o code
<1>1. /\ n \in Nat /\ Len(longer) = n + 1 /\ longer[1] = b
      /\ \A i \in 1..n : longer[i + 1] = code[i]
      /\ \A i \in 1..n : IsJump(longer, i + 1) <=> IsJump(code, i)
  BY Prepended, JumpsOfPrepended
<1> HIDE DEF longer
<1> DEFINE Fits(i) ==
             /\ longer[i].kind = "number" =>
                  longer[i].value # CALL /\ (longer[i].value = JMP => IsJump(longer, i))
             /\ longer[i].kind = "bytes" => Plain(longer[i].value)
             /\ longer[i].kind = "relTo" =>
                  i > 1 /\ IsJump(longer, i - 1) /\ \E k \in Places(longer, longer[i].value) : k > i
<1>2. Fits(1)
  BY <1>1
<1>3. ASSUME NEW j \in 1..n PROVE Fits(j + 1)
  <2>1. longer[j + 1] = code[j] /\ (IsJump(longer, j + 1) <=> IsJump(code, j))
    BY <1>1
  <2>2. /\ code[j].kind = "number" => code[j].value # CALL /\ (code[j].value = JMP => IsJump(code, j))
        /\ code[j].kind = "bytes" => Plain(code[j].value)
        /\ code[j].kind = "relTo" =>
             j > 1 /\ IsJump(code, j - 1) /\ \E k \in Places(code, code[j].value) : k > j
    BY DEF WellSpelt
  <2>3. ASSUME code[j].kind = "relTo"
        PROVE  /\ j + 1 > 1 /\ IsJump(longer, j + 1 - 1)
               /\ \E k \in Places(longer, longer[j + 1].value) : k > j + 1
    <3>1. j > 1 /\ IsJump(code, j - 1)
      BY <2>2, <2>3
    <3> DEFINE m == j - 1
    <3>2. m \in 1..n /\ m + 1 = j /\ j + 1 - 1 = j
      BY <1>1, <3>1
    <3>3. IsJump(longer, m + 1)
      BY <1>1, <3>1, <3>2
    <3>4. PICK k \in Places(code, code[j].value) : k > j
      BY <2>2, <2>3
    <3>5. k \in 1..n /\ code[k].kind = "label" /\ code[k].value = code[j].value
      BY <3>4 DEF Places
    <3>6. longer[k + 1] = code[k] /\ k + 1 \in 1..Len(longer) /\ k + 1 > j + 1
      BY <1>1, <3>4, <3>5
    <3>7. k + 1 \in Places(longer, longer[j + 1].value)
      BY <2>1, <3>5, <3>6 DEF Places
    <3> HIDE DEF m
    <3>8. IsJump(longer, j + 1 - 1)
      BY <3>2, <3>3
    <3> QED
      BY <3>6, <3>7, <3>8
  <2> QED
    BY <2>1, <2>2, <2>3
<1>4. ASSUME NEW i \in 1..Len(longer) PROVE Fits(i)
  <2> DEFINE j == i - 1
  <2>1. i = 1 \/ (j \in 1..n /\ i = j + 1)
    BY <1>1
  <2> HIDE DEF Fits, j
  <2>2. CASE i = 1
    BY <1>2, <2>2
  <2>3. CASE j \in 1..n /\ i = j + 1
    <3>1. Fits(j + 1)
      BY <1>3, <2>3
    <3> QED
      BY <2>3, <3>1
  <2> QED
    BY <2>1, <2>2, <2>3
<1>5. WellSpelt(longer)
  BY <1>4 DEF WellSpelt
<1> QED
  BY <1>5 DEF longer

LEMMA AppendedIsWellSpelt ==
  ASSUME NEW code \in Seq(Element), WellSpelt(code), NEW b \in Element, b.kind = "bytes", Plain(b.value)
  PROVE  WellSpelt(Append(code, b))
<1> DEFINE n == Len(code)
           longer == Append(code, b)
<1>1. n \in Nat /\ Len(longer) = n + 1 /\ longer[n + 1] = b /\ \A i \in 1..n : longer[i] = code[i]
  BY AppendProperties
<1> HIDE DEF longer
<1>2. \A i \in 1..n : IsJump(code, i) => IsJump(longer, i)
  <2> SUFFICES ASSUME NEW i \in 1..n, IsJump(code, i) PROVE IsJump(longer, i)
    OBVIOUS
  <2>1. i < n /\ i + 1 \in 1..n
    BY DEF IsJump
  <2>2. longer[i] = code[i] /\ longer[i + 1] = code[i + 1] /\ i < Len(longer)
    BY <1>1, <2>1
  <2> QED
    BY <2>2 DEF IsJump
<1> DEFINE Fits(i) ==
             /\ longer[i].kind = "number" =>
                  longer[i].value # CALL /\ (longer[i].value = JMP => IsJump(longer, i))
             /\ longer[i].kind = "bytes" => Plain(longer[i].value)
             /\ longer[i].kind = "relTo" =>
                  i > 1 /\ IsJump(longer, i - 1) /\ \E k \in Places(longer, longer[i].value) : k > i
<1>3. Fits(n + 1)
  BY <1>1
<1>4. ASSUME NEW i \in 1..n PROVE Fits(i)
  <2>1. longer[i] = code[i]
    BY <1>1
  <2>2. /\ code[i].kind = "number" => code[i].value # CALL /\ (code[i].value = JMP => IsJump(code, i))
        /\ code[i].kind = "bytes" => Plain(code[i].value)
        /\ code[i].kind = "relTo" =>
             i > 1 /\ IsJump(code, i - 1) /\ \E k \in Places(code, code[i].value) : k > i
    BY DEF WellSpelt
  <2>3. ASSUME code[i].kind = "relTo"
        PROVE  i > 1 /\ IsJump(longer, i - 1) /\ \E k \in Places(longer, longer[i].value) : k > i
    <3>1. i > 1 /\ IsJump(code, i - 1) /\ i - 1 \in 1..n
      BY <2>2, <2>3
    <3>2. PICK k \in Places(code, code[i].value) : k > i
      BY <2>2, <2>3
    <3>3. k \in 1..n /\ code[k].kind = "label" /\ code[k].value = code[i].value
      BY <3>2 DEF Places
    <3>4. k \in 1..Len(longer) /\ longer[k] = code[k]
      BY <1>1, <3>3
    <3>5. k \in Places(longer, longer[i].value)
      BY <2>1, <3>3, <3>4 DEF Places
    <3> QED
      BY <1>2, <3>1, <3>2, <3>5
  <2> QED
    BY <1>2, <2>1, <2>2, <2>3
<1>5. ASSUME NEW i \in 1..Len(longer) PROVE Fits(i)
  <2>1. i = n + 1 \/ i \in 1..n
    BY <1>1
  <2> HIDE DEF Fits
  <2> QED
    BY <1>3, <1>4, <2>1
<1>6. WellSpelt(longer)
  BY <1>5 DEF WellSpelt
<1> QED
  BY <1>6 DEF longer

\* The table of a hook as insertCode compiles it, if it was passed for the first time.
OriginalBytes(s) ==
  [kind |-> "bytes", value |-> [n \in 1..PatchSize[s] |-> Original(s + n - 1)]]

HookCode(h) ==
  CASE h.original = "before" -> <<OriginalBytes(h.site)>> \o Source[h.table]
    [] h.original = "after" -> Append(Source[h.table], OriginalBytes(h.site))
    [] OTHER -> Source[h.table]

LEMMA OriginalBytesShape ==
  ASSUME NEW s \in Site
  PROVE  /\ OriginalBytes(s) \in Element /\ OriginalBytes(s).kind = "bytes"
         /\ OriginalBytes(s).value = [n \in 1..PatchSize[s] |-> Original(s + n - 1)]
         /\ Plain(OriginalBytes(s).value)
<1> DEFINE c == [n \in 1..PatchSize[s] |-> Original(s + n - 1)]
<1>1. s \in Nat /\ PatchSize[s] \in Nat
  BY SitesAreGame
<1>2. \A n \in 1..PatchSize[s] : Original(s + n - 1) \in Cell
  BY <1>1 DEF Original, Cell
<1>3. c \in [1..PatchSize[s] -> Cell]
  BY <1>2
<1>4. Plain(c)
  BY DEF Plain, Original, Byte
<1> HIDE DEF c
<1>5. c \in Seq(Cell)
  BY <1>1, <1>3, FunctionIsSeq
<1>6. OriginalBytes(s) = [kind |-> "bytes", value |-> c]
  BY DEF OriginalBytes, c
<1>7. OriginalBytes(s) \in Element
  BY <1>5, <1>6 DEF Element
<1> QED
  BY <1>4, <1>6, <1>7 DEF c

LEMMA HookCodeMeans ==
  ASSUME Contracts, NEW h \in Call
  PROVE  /\ HookCode(h) \in Seq(Element) /\ WellSpelt(HookCode(h))
         /\ Meaning(HookCode(h)) = Promised(h)
<1> DEFINE code == Source[h.table]
           b == OriginalBytes(h.site)
<1>1. code \in Seq(Element) /\ WellSpelt(code) /\ h.site \in Site /\ h.original \in Originals
  BY SourceAssumption DEF Contracts, Call
<1>2. b \in Element /\ b.kind = "bytes" /\ Plain(b.value)
      /\ b.value = [n \in 1..PatchSize[h.site] |-> Original(h.site + n - 1)]
  BY <1>1, OriginalBytesShape
<1>3. /\ HookCode(h) = CASE h.original = "before" -> <<b>> \o code
                         [] h.original = "after" -> Append(code, b)
                         [] OTHER -> code
      /\ Promised(h) = CASE h.original = "before" -> b.value \o Meaning(code)
                         [] h.original = "after" -> Meaning(code) \o b.value
                         [] OTHER -> Meaning(code)
  BY <1>2 DEF HookCode, Promised
<1> HIDE DEF code, b
<1>4. CASE h.original = "before"
  <2>1. <<b>> \o code \in Seq(Element) /\ WellSpelt(<<b>> \o code)
    BY <1>1, <1>2, Prepended, PrependedIsWellSpelt
  <2>2. Meaning(<<b>> \o code) = b.value \o Meaning(code)
    BY <1>1, <1>2, MeaningOfPrepended
  <2>3. HookCode(h) = <<b>> \o code /\ Promised(h) = b.value \o Meaning(code)
    BY <1>3, <1>4
  <2> QED
    BY <2>1, <2>2, <2>3
<1>5. CASE h.original = "after"
  <2>1. Append(code, b) \in Seq(Element) /\ WellSpelt(Append(code, b))
    BY <1>1, <1>2, AppendProperties, AppendedIsWellSpelt
  <2>2. Meaning(Append(code, b)) = Meaning(code) \o b.value
    BY <1>1, <1>2, MeaningOfAppended
  <2>3. HookCode(h) = Append(code, b) /\ Promised(h) = Meaning(code) \o b.value
    BY <1>3, <1>5
  <2> QED
    BY <2>1, <2>2, <2>3
<1>6. CASE h.original # "before" /\ h.original # "after"
  BY <1>1, <1>3, <1>6
<1> QED
  BY <1>4, <1>5, <1>6

-----------------------------------------------------------------------------
\* What is in the block of a hook does what its table means.

Holds(h, code) ==
  /\ code \in Seq(Element) /\ ~Uncompilable(code) /\ h.size = CodeSize(code)
  /\ \A n \in 1..h.size : mem[h.block + n - 1] = Compile(code, h.block)[n]

LEMMA EmitInMemory ==
  ASSUME NEW h \in Call, NEW code, Holds(h, code), Readable(h),
         NEW i \in 1..Len(code), NEW m \in 1..SizeOf(code[i])
  PROVE  LET a == h.block + Offset(code, i) + m - 1 IN
         At(h, a) /\ a \in Addresses /\ mem[a] = Emit(code, i, h.block)[m]
<1> DEFINE p == Offset(code, i) + m
           a == h.block + Offset(code, i) + m - 1
<1>1. h.block \in Nat /\ h.size \in Nat /\ h.size = CodeSize(code)
  BY DEF Call, Holds
<1>2. p \in 1..h.size /\ Compile(code, h.block)[p] = Emit(code, i, h.block)[m]
  BY <1>1, EmitInCompile DEF Holds
<1>3. Offset(code, i) \in Nat /\ m \in Nat
  <2>1. i - 1 \in 0..Len(code) /\ code \in Seq(Element)
    BY DEF Holds
  <2>2. code[i] \in Element
    BY <2>1, ElementOfSeq
  <2>3. SizeOf(code[i]) \in Nat
    BY <2>2, SizeIsNat
  <2>4. m \in Nat
    BY <2>3
  <2>5. Ends(code)[i - 1] \in Nat
    BY <2>1, EndsShape
  <2> QED
    BY <2>4, <2>5 DEF Offset
<1>4. a = h.block + p - 1
  BY <1>1, <1>3
<1> HIDE DEF p, a
<1>5. a \in Int /\ a \in h.block..(h.block + h.size + 4)
  BY <1>1, <1>2, <1>4
<1>6. mem[a] = Emit(code, i, h.block)[m]
  BY <1>2, <1>4 DEF Holds
<1>7. At(h, a) /\ a \in Addresses
  BY <1>5 DEF At, Readable
<1> QED
  BY <1>6, <1>7 DEF a

\* Numbers, bytes, scripts and labels are written as they are said.
LEMMA PlainEmit ==
  ASSUME NEW code \in Seq(Element), ~Uncompilable(code), WellSpelt(code), NEW base \in Nat,
         NEW i \in 1..Len(code), ~IsJump(code, i),
         code[i].kind \in {"number", "bytes", "assembly", "label"}
  PROVE  /\ Emit(code, i, base) = Says(code[i])
         /\ Emit(code, i, base) \in Seq(Cell) /\ Plain(Emit(code, i, base))
<1> DEFINE e == code[i]
           cells == Emit(code, i, base)
<1>1. e \in Element /\ cells \in Seq(Cell)
  BY ElementOfSeq, EmitShape
<1>2. CASE e.kind = "number"
  <2>1. cells = Number(e.value) /\ Says(e) = Number(e.value)
    BY <1>2 DEF Emit, Says
  <2>2. e.value \in Int /\ e.value # CALL /\ e.value # JMP
    BY <1>1, <1>2, KindsOfElements DEF WellSpelt
  <2>3. Plain(Number(e.value))
    <3>1. Plain(<<Byte(e.value)>>)
      BY <2>2 DEF Plain, Byte
    <3>2. Plain(Int4(e.value))
      BY DEF Plain, Int4, Byte
    <3> QED
      BY <3>1, <3>2 DEF Number
  <2> QED
    BY <1>1, <2>1, <2>3
<1>3. CASE e.kind = "bytes"
  <2>1. cells = e.value /\ Says(e) = e.value /\ Plain(e.value)
    BY <1>3 DEF Emit, Says, WellSpelt
  <2> QED
    BY <1>1, <2>1
<1>4. CASE e.kind = "assembly"
  <2>1. /\ cells = Bytes(e.value, Assembly[e.value].atBlock)
        /\ Says(e) = Bytes(e.value, Assembly[e.value].atZero)
        /\ Assembly[e.value].atBlock = Assembly[e.value].atZero
    BY <1>4 DEF Emit, Says, Uncompilable
  <2>2. Plain(Bytes(e.value, Assembly[e.value].atBlock))
    BY DEF Plain, Bytes, Byte
  <2> QED
    BY <1>1, <2>1, <2>2
<1>5. CASE e.kind = "label"
  <2>1. cells = <<>> /\ Says(e) = <<>>
    BY <1>5 DEF Emit, Says
  <2>2. Plain(<<>>)
    BY DEF Plain
  <2> QED
    BY <1>1, <2>1, <2>2
<1> QED
  BY <1>2, <1>3, <1>4, <1>5

LEMMA ReachesLater ==
  ASSUME NEW h, NEW a, NEW events, NEW d \in Nat, NEW e \in Nat, d <= e, Reaches(h, a, events, d)
  PROVE  Reaches(h, a, events, e)
BY DEF Reaches

\* Up to each element, the game has done what the table says, and is at the next
\* element or at the label that was jumped to.
RunsUpTo(h, code, i) ==
  LET m == Meanings(code)[i]
      d == 1 + Ends(code)[i]
  IN  /\ m.jump = {} => Reaches(h, h.block + Ends(code)[i], m.events, d)
      /\ \A l \in m.jump : Reaches(h, h.block + LabelOffset(code, l), m.events, d)

LEMMA PlainElementRuns ==
  ASSUME NEW h \in Call, Readable(h), NEW code, Holds(h, code), WellSpelt(code),
         NEW i \in 1..Len(code), ~IsJump(code, i),
         code[i].kind \in {"number", "bytes", "assembly", "label"},
         NEW events \in Seq(Event),
         Reaches(h, h.block + Offset(code, i), events, 1 + Offset(code, i))
  PROVE  Reaches(h, h.block + Ends(code)[i], events \o Says(code[i]), 1 + Ends(code)[i])
<1> DEFINE a == h.block + Offset(code, i)
           d == 1 + Offset(code, i)
           cells == Emit(code, i, h.block)
<1>1. h.block \in Nat /\ code \in Seq(Element) /\ ~Uncompilable(code)
  BY DEF Call, Holds
<1>2. /\ cells = Says(code[i]) /\ cells \in Seq(Cell) /\ Plain(cells)
      /\ Len(cells) = SizeOf(code[i])
  BY <1>1, PlainEmit, EmitShape
<1>3. /\ Offset(code, i) \in Nat /\ Ends(code)[i] = Offset(code, i) + Len(cells)
      /\ Len(cells) \in Nat /\ Ends(code)[i] <= h.size /\ h.size \in Nat
  <2>1. i - 1 \in 0..Len(code)
    OBVIOUS
  <2>2. Offset(code, i) \in Nat /\ Ends(code)[i] = Offset(code, i) + SizeOf(code[i])
    BY <1>1, <2>1, EndsShape DEF Offset
  <2>3. h.size \in Nat /\ Ends(code)[i] <= h.size
    BY <1>1, EndsGrow DEF Holds, Call
  <2>4. Len(cells) \in Nat
    BY <1>2, LenProperties
  <2> QED
    BY <1>2, <2>2, <2>3, <2>4
<1>4. a \in Nat /\ d \in Nat /\ d + Len(cells) <= h.size + 2
  BY <1>1, <1>3
<1>5. \A n \in 1..Len(cells) : At(h, a + n - 1) /\ mem[a + n - 1] = cells[n]
  BY <1>2, EmitInMemory
<1>6. Reaches(h, a, events, d)
  OBVIOUS
<1>7. a + Len(cells) = h.block + Ends(code)[i] /\ d + Len(cells) = 1 + Ends(code)[i]
  BY <1>1, <1>3
<1> HIDE DEF a, d, cells
<1>8. Reaches(h, a + Len(cells), events \o cells, d + Len(cells))
  BY <1>2, <1>4, <1>5, <1>6, CellsRun
<1> QED
  BY <1>2, <1>7, <1>8

LEMMA InstructionShape ==
  ASSUME NEW c \in Int, NEW v \in Int
  PROVE  /\ <<Byte(c)>> \o Int4(v) \in Seq(Cell) /\ Len(<<Byte(c)>> \o Int4(v)) = 5
         /\ (<<Byte(c)>> \o Int4(v))[1] = Byte(c)
         /\ \A n \in 1..4 : (<<Byte(c)>> \o Int4(v))[n + 1] = <<"int", v, n>>
<1> DEFINE one == <<Byte(c)>>
           int == Int4(v)
           x == one \o int
<1>1. one \in Seq(Cell) /\ Len(one) = 1 /\ one[1] = Byte(c)
  BY ByteIsCell
<1>2. int \in Seq(Cell) /\ Len(int) = 4 /\ \A n \in 1..4 : int[n] = <<"int", v, n>>
  BY Int4Shape DEF Int4
<1> HIDE DEF one, int
<1>3. /\ x \in Seq(Cell) /\ Len(x) = 5
      /\ \A k \in 1..5 : x[k] = IF k <= 1 THEN one[k] ELSE int[k - 1]
  <2>1. /\ x \in Seq(Cell) /\ Len(x) = Len(one) + Len(int)
        /\ \A k \in 1..Len(one) + Len(int) : x[k] = IF k <= Len(one) THEN one[k] ELSE int[k - Len(one)]
    BY <1>1, <1>2, ConcatProperties
  <2>2. Len(one) = 1 /\ Len(int) = 4
    BY <1>1, <1>2
  <2> QED
    BY <2>1, <2>2
<1> HIDE DEF x
<1>4. x[1] = Byte(c)
  BY <1>1, <1>3
<1>5. ASSUME NEW n \in 1..4 PROVE x[n + 1] = <<"int", v, n>>
  <2> DEFINE k == n + 1
  <2>1. k \in 1..5 /\ ~(k <= 1) /\ k - 1 = n
    OBVIOUS
  <2> HIDE DEF k
  <2>2. x[k] = int[n]
    BY <1>3, <2>1
  <2>3. x[k] = <<"int", v, n>>
    BY <1>2, <2>2
  <2> QED
    BY <2>3 DEF k
<1> QED
  BY <1>3, <1>4, <1>5 DEF x, one, int

LEMMA CallElementRuns ==
  ASSUME NEW h \in Call, Readable(h), NEW code, Holds(h, code),
         NEW i \in 1..Len(code), code[i].kind = "callTo", NEW events \in Seq(Event),
         Reaches(h, h.block + Offset(code, i), events, 1 + Offset(code, i))
  PROVE  Reaches(h, h.block + Ends(code)[i], events \o Says(code[i]), 1 + Ends(code)[i])
<1> DEFINE e == code[i]
           at == Offset(code, i)
           a == h.block + at
           v == e.value - a - 5
           cells == Emit(code, i, h.block)
           d == 1 + at
<1>1. h.block \in Nat /\ h.size \in Nat /\ code \in Seq(Element) /\ e \in Element
  BY ElementOfSeq DEF Call, Holds
<1>2. e.value \in Int /\ SizeOf(e) = 5 /\ Says(e) = <<<<"call", e.value, 0>>>>
  BY <1>1, KindsOfElements DEF SizeOf, Says
<1>3. at \in Nat /\ Ends(code)[i] = at + 5 /\ at + 5 <= h.size
  <2>1. i - 1 \in 0..Len(code) /\ i \in 0..Len(code)
    OBVIOUS
  <2>2. Ends(code)[i - 1] \in Nat /\ Ends(code)[i] = Ends(code)[i - 1] + SizeOf(e)
    BY <1>1, <2>1, EndsShape
  <2>3. Ends(code)[i] <= h.size
    BY <1>1, <2>1, EndsGrow DEF Holds
  <2> QED
    BY <1>2, <2>2, <2>3 DEF Offset
<1>4. v \in Int /\ a \in Int
  BY <1>1, <1>2, <1>3
<1>5. cells[1] = Byte(CALL) /\ \A n \in 1..4 : cells[n + 1] = <<"int", v, n>>
  <2>1. cells = <<Byte(CALL)>> \o Int4(v)
    BY DEF Emit
  <2>2. CALL \in Int
    BY DEF CALL
  <2> HIDE DEF cells, v
  <2> QED
    BY <1>4, <2>1, <2>2, InstructionShape
<1>6. ASSUME NEW m \in 1..5
      PROVE  At(h, a + m - 1) /\ a + m - 1 \in Addresses /\ mem[a + m - 1] = cells[m]
  BY <1>2, EmitInMemory
<1>7. a + 5 = h.block + Ends(code)[i] /\ d + 1 <= 1 + Ends(code)[i] /\ d \in Nat /\ d <= h.size + 1
      /\ d + 1 \in Nat /\ 1 + Ends(code)[i] \in Nat
  <2> DEFINE end == Ends(code)[i]
             size == h.size
             block == h.block
  <2>1. block \in Nat /\ size \in Nat /\ at \in Nat /\ end = at + 5 /\ at + 5 <= size
    BY <1>1, <1>3
  <2> HIDE DEF at, end, size, block
  <2>2. /\ block + at + 5 = block + end /\ 1 + at + 1 <= 1 + end /\ 1 + at \in Nat
        /\ 1 + at <= size + 1 /\ 1 + at + 1 \in Nat /\ 1 + end \in Nat
    BY ONLY <2>1
  <2> QED
    BY <2>2 DEF end, size, block
<1>8. Reaches(h, a, events, d) /\ a + 5 + v = e.value
  BY <1>2, <1>4
<1> HIDE DEF e, at, a, v, cells, d
<1>9. At(h, a) /\ mem[a] = Byte(CALL)
  <2>1. 1 \in 1..5 /\ a + 1 - 1 = a
    BY <1>4
  <2> QED
    BY <1>5, <1>6, <2>1
<1>10. IntAt(a + 1, v)
  <2>1. ASSUME NEW n \in 1..4
        PROVE  a + 1 + n - 1 \in Addresses /\ mem[a + 1 + n - 1] = <<"int", v, n>>
    <3> DEFINE m == n + 1
    <3>1. m \in 1..5 /\ a + m - 1 = a + 1 + n - 1
      BY <1>4
    <3>2. cells[m] = <<"int", v, n>>
      BY <1>5
    <3> HIDE DEF m
    <3>3. a + m - 1 \in Addresses /\ mem[a + m - 1] = <<"int", v, n>>
      BY <1>6, <3>1, <3>2
    <3> QED
      BY <3>1, <3>3
  <2> QED
    BY <1>4, <2>1 DEF IntAt
<1> DEFINE x == <<"call", a + 5 + v, 0>>
<1>11. Reaches(h, a + 5, Append(events, x), d + 1)
  BY <1>7, <1>8, <1>9, <1>10, CallRuns
<1>12. Says(e) = <<x>> /\ x \in Event
  BY <1>2, <1>8 DEF Event, e
<1> HIDE DEF x
<1>13. Append(events, x) = events \o Says(e)
  BY <1>12, AppendIsConcat
<1>14. Reaches(h, a + 5, events \o Says(e), 1 + Ends(code)[i])
  BY <1>7, <1>11, <1>13, ReachesLater
<1> QED
  BY <1>7, <1>14 DEF e

LEMMA JumpElementRuns ==
  ASSUME NEW h \in Call, Readable(h), NEW code, Holds(h, code),
         NEW i \in 1..Len(code), IsJump(code, i), NEW events,
         Reaches(h, h.block + Offset(code, i), events, 1 + Offset(code, i))
  PROVE  Reaches(h, h.block + LabelOffset(code, code[i + 1].value), events, 1 + Ends(code)[i])
<1> DEFINE e == code[i]
           at == Offset(code, i)
           a == h.block + at
           k == i + 1
           target == LabelOffset(code, code[k].value)
           v == h.block + target - (h.block + Offset(code, k)) - 4
           d == 1 + at
<1>1. /\ h.block \in Nat /\ h.size \in Nat /\ code \in Seq(Element) /\ ~Uncompilable(code)
      /\ Len(code) \in Nat
  BY LenProperties DEF Call, Holds
<1>2. /\ e.kind = "number" /\ e.value = JMP /\ k \in 1..Len(code) /\ k - 1 = i
      /\ code[k].kind = "relTo" /\ i \in 0..Len(code) /\ i - 1 \in 0..Len(code)
  BY <1>1 DEF IsJump
<1>3. Number(e.value) = <<Byte(JMP)>>
  BY <1>2 DEF Number, JMP
<1>4. SizeOf(e) = 1 /\ Emit(code, i, h.block)[1] = Byte(JMP)
  <2>1. SizeOf(e) = Len(Number(e.value)) /\ Emit(code, i, h.block) = Number(e.value)
    BY <1>2 DEF SizeOf, Emit
  <2> QED
    BY <1>3, <2>1
<1>5. SizeOf(code[k]) = 4 /\ Emit(code, k, h.block) = Int4(v)
  BY <1>2 DEF SizeOf, Emit
<1>6. target \in Nat
  <2>1. Places(code, code[k].value) # {}
    BY <1>1, <1>2 DEF Uncompilable
  <2> HIDE DEF k
  <2> QED
    BY <1>1, <2>1, LabelOffsetIsNat
<1>7. at \in Nat /\ Ends(code)[i] = at + 1 /\ Ends(code)[i] <= h.size /\ Offset(code, k) = at + 1
  <2>1. Ends(code)[i - 1] \in Nat /\ Ends(code)[i] = Ends(code)[i - 1] + SizeOf(e)
    BY <1>1, <1>2, EndsShape
  <2>2. Ends(code)[i] <= h.size
    BY <1>1, <1>2, EndsGrow DEF Holds
  <2>3. Offset(code, k) = Ends(code)[i]
    BY <1>2 DEF Offset
  <2> QED
    BY <1>4, <2>1, <2>2, <2>3 DEF Offset
<1>8. v \in Int /\ a \in Int /\ v = target - at - 5 /\ a + 5 + v = h.block + target
  <2> DEFINE block == h.block
             next == Offset(code, k)
  <2>1. block \in Nat /\ target \in Nat /\ at \in Nat /\ next = at + 1
    BY <1>1, <1>6, <1>7
  <2> HIDE DEF target, at, block, next
  <2>2. /\ block + target - (block + next) - 4 \in Int /\ block + at \in Int
        /\ block + target - (block + next) - 4 = target - at - 5
        /\ block + at + 5 + (block + target - (block + next) - 4) = block + target
    BY ONLY <2>1
  <2> QED
    BY <2>2 DEF block, next
<1>9. d \in Nat /\ d <= h.size + 1 /\ d + 1 = 1 + Ends(code)[i]
  BY <1>1, <1>7
<1>10. Reaches(h, a, events, d)
  OBVIOUS
<1>11. At(h, a) /\ mem[a] = Byte(JMP)
  <2>1. 1 \in 1..SizeOf(code[i])
    BY <1>4
  <2>2. /\ At(h, h.block + Offset(code, i) + 1 - 1)
        /\ mem[h.block + Offset(code, i) + 1 - 1] = Emit(code, i, h.block)[1]
    BY <2>1, EmitInMemory
  <2>3. h.block + Offset(code, i) + 1 - 1 = a
    BY <1>8
  <2> QED
    BY <1>4, <2>2, <2>3
<1>12. IntAt(a + 1, v)
  <2> DEFINE b == h.block + Offset(code, k)
  <2>1. b = a + 1
    BY <1>1, <1>7
  <2>2. ASSUME NEW n \in 1..4
        PROVE  b + n - 1 \in Addresses /\ mem[b + n - 1] = <<"int", v, n>>
    <3>1. b + n - 1 \in Addresses /\ mem[b + n - 1] = Emit(code, k, h.block)[n]
      <4> HIDE DEF k
      <4>1. n \in 1..SizeOf(code[k])
        BY <1>5
      <4> QED
        BY <1>2, <4>1, EmitInMemory
    <3>2. Int4(v)[n] = <<"int", v, n>>
      BY DEF Int4
    <3> QED
      BY <1>5, <3>1, <3>2
  <2>3. b \in Int
    BY <1>8, <2>1
  <2> HIDE DEF b, v
  <2>4. IntAt(b, v)
    BY <1>8, <2>2, <2>3 DEF IntAt
  <2> QED
    BY <2>1, <2>4
<1> HIDE DEF a, v, d
<1>13. Reaches(h, a + 5 + v, events, d + 1)
  BY <1>9, <1>10, <1>11, <1>12, JumpRuns
<1> QED
  BY <1>8, <1>9, <1>13

LEMMA ElementRuns ==
  ASSUME NEW h \in Call, Readable(h), NEW code, Holds(h, code), WellSpelt(code),
         NEW i \in 1..Len(code), RunsUpTo(h, code, i - 1)
  PROVE  RunsUpTo(h, code, i)
<1> DEFINE before == Meanings(code)[i - 1]
           e == code[i]
           at == Offset(code, i)
           end == Ends(code)[i]
<1>1. code \in Seq(Element) /\ ~Uncompilable(code) /\ e \in Element
  BY ElementOfSeq DEF Holds
<1>2. before \in Meant /\ Meanings(code)[i] = SaysNext(code, i, before)
  <2>1. i - 1 \in 0..Len(code)
    OBVIOUS
  <2> QED
    BY <1>1, <2>1, MeaningsShape
<1>3. /\ at \in Nat /\ end \in Nat /\ at <= end /\ at = Ends(code)[i - 1]
      /\ end = at + SizeOf(e)
  <2>1. i - 1 \in 0..Len(code) /\ i \in 0..Len(code)
    OBVIOUS
  <2>2. Ends(code)[i - 1] \in Nat /\ end = Ends(code)[i - 1] + SizeOf(e)
    BY <1>1, <2>1, EndsShape
  <2>3. SizeOf(e) \in Nat
    BY <1>1, SizeIsNat
  <2> QED
    BY <2>2, <2>3 DEF Offset
<1>4. /\ before.jump = {} => Reaches(h, h.block + at, before.events, 1 + at)
      /\ \A l \in before.jump : Reaches(h, h.block + LabelOffset(code, l), before.events, 1 + at)
  BY <1>3 DEF RunsUpTo
<1> DEFINE after == Meanings(code)[i]
<1> SUFFICES /\ after.jump = {} => Reaches(h, h.block + end, after.events, 1 + end)
             /\ \A l \in after.jump : Reaches(h, h.block + LabelOffset(code, l), after.events, 1 + end)
  BY DEF RunsUpTo
<1>5. after = SaysNext(code, i, before)
  BY <1>2
<1> HIDE DEF before, at, end, after
<1>6. CASE before.jump # {} /\ e.kind = "label" /\ e.value \in before.jump
  <2>1. after.events = before.events /\ after.jump = {}
    BY <1>5, <1>6 DEF SaysNext
  <2>2. LabelOffset(code, e.value) = at /\ end = at
    <3>1. LabelOffset(code, e.value) = Offset(code, i)
      BY <1>1, <1>6 DEF Uncompilable
    <3>2. SizeOf(e) = 0
      BY <1>6 DEF SizeOf
    <3> QED
      BY <1>3, <3>1, <3>2 DEF at
  <2>3. Reaches(h, h.block + at, before.events, 1 + at)
    BY <1>4, <1>6, <2>2
  <2> QED
    BY <2>1, <2>2, <2>3
<1>7. CASE before.jump # {} /\ ~(e.kind = "label" /\ e.value \in before.jump)
  <2>1. after = before
    BY <1>5, <1>7 DEF SaysNext
  <2>2. 1 + at \in Nat /\ 1 + end \in Nat /\ 1 + at <= 1 + end
    BY <1>3
  <2>3. ASSUME NEW l \in before.jump
        PROVE  Reaches(h, h.block + LabelOffset(code, l), before.events, 1 + end)
    BY <1>4, <2>2, ReachesLater
  <2> QED
    BY <1>7, <2>1, <2>3
<1>8. CASE before.jump = {} /\ IsJump(code, i)
  <2>1. after.events = before.events /\ after.jump = {code[i + 1].value}
    BY <1>5, <1>8 DEF SaysNext
  <2>2. Reaches(h, h.block + Offset(code, i), before.events, 1 + Offset(code, i))
    BY <1>4, <1>8 DEF at
  <2>3. Reaches(h, h.block + LabelOffset(code, code[i + 1].value), before.events, 1 + Ends(code)[i])
    BY <1>8, <2>2, JumpElementRuns
  <2> QED
    BY <2>1, <2>3 DEF end
<1>9. CASE before.jump = {} /\ ~IsJump(code, i)
  <2> DEFINE events == before.events
             said == events \o Says(e)
  <2>1. after = [events |-> said, jump |-> {}]
    BY <1>5, <1>9 DEF SaysNext
  <2>2. events \in Seq(Event)
    BY <1>2 DEF Meant
  <2>3. Reaches(h, h.block + Offset(code, i), events, 1 + Offset(code, i))
    BY <1>4, <1>9 DEF at
  <2>4. e.kind \in {"number", "bytes", "assembly", "label", "callTo"}
    <3>1. e.kind # "short"
      BY <1>1 DEF Uncompilable
    <3>2. e.kind # "relTo"
      <4> SUFFICES ASSUME e.kind = "relTo" PROVE FALSE
        OBVIOUS
      <4>1. i > 1 /\ IsJump(code, i - 1)
        BY DEF WellSpelt
      <4>2. i - 1 \in 0..Len(code) /\ i - 1 > 0
        BY <4>1
      <4> DEFINE j == i - 1
      <4>3. j \in 0..Len(code) /\ j > 0 /\ IsJump(code, j) /\ before = Meanings(code)[j]
        BY <4>1, <4>2 DEF before
      <4> HIDE DEF j
      <4>4. Meanings(code)[j].jump # {}
        BY <1>1, <4>3, JumpsLand DEF Lands
      <4> QED
        BY <1>9, <4>3, <4>4
    <3> QED
      BY <1>1, <3>1, <3>2, KindsOfElements
  <2>5. Reaches(h, h.block + Ends(code)[i], events \o Says(e), 1 + Ends(code)[i])
    <3>1. CASE e.kind = "callTo"
      BY <2>2, <2>3, <3>1, CallElementRuns
    <3>2. CASE e.kind # "callTo"
      BY <1>9, <2>2, <2>3, <2>4, <3>2, PlainElementRuns
    <3> QED
      BY <3>1, <3>2
  <2>6. Reaches(h, h.block + end, said, 1 + end)
    BY <2>5 DEF end
  <2> HIDE DEF said
  <2> QED
    BY <2>1, <2>6
<1> QED
  BY <1>6, <1>7, <1>8, <1>9

\* A jump is at an address.
JumpAt(from, to) == mem[from] = Byte(JMP) /\ IntAt(from + 1, to - from - 5)

\* The jump at the end of the code is come to with what the table means done.
LEMMA CodeRuns ==
  ASSUME NEW h \in Call, Readable(h), NEW code, Holds(h, code), WellSpelt(code),
         Reaches(h, h.block, <<>>, 1)
  PROVE  Reaches(h, h.block + h.size, Meaning(code), 1 + h.size)
<1> DEFINE n == Len(code)
           S == {i \in 0..n : RunsUpTo(h, code, i)}
<1>1. code \in Seq(Element) /\ n \in Nat /\ h.block \in Nat
  BY DEF Holds, Call
<1>2. 0 \in S
  <2>1. Meanings(code)[0] = [events |-> <<>>, jump |-> {}] /\ Ends(code)[0] = 0
    BY <1>1, MeaningsShape, EndsShape
  <2>2. h.block + 0 = h.block /\ 1 + 0 = 1
    BY <1>1
  <2>3. Reaches(h, h.block + 0, <<>>, 1 + 0)
    BY <2>2
  <2>4. RunsUpTo(h, code, 0)
    BY <2>1, <2>3 DEF RunsUpTo
  <2> QED
    BY <1>1, <2>4
<1>3. ASSUME NEW i \in Nat, i < n, i \in S PROVE i + 1 \in S
  <2> DEFINE k == i + 1
  <2>1. k \in 1..n /\ k - 1 = i
    BY <1>1, <1>3
  <2> HIDE DEF k
  <2>2. RunsUpTo(h, code, k)
    BY <1>3, <2>1, ElementRuns
  <2>3. k \in S
    BY <2>1, <2>2
  <2> QED
    BY <2>3 DEF k
<1> HIDE DEF n, S
<1>4. n \in S
  <2>1. \A i \in 0..n : i \in S
    BY <1>1, <1>2, <1>3, UpTo
  <2> QED
    BY <1>1, <2>1
<1>5. RunsUpTo(h, code, n)
  BY <1>4 DEF S
<1>6. Meanings(code)[n].jump = {} /\ Meanings(code)[n].events = Meaning(code) /\ Ends(code)[n] = h.size
  BY <1>1, NoJumpAtTheEnd DEF n, Meaning, Holds, CodeSize
<1> QED
  BY <1>5, <1>6 DEF RunsUpTo

\* The whole of it: the jump to the code, the code, the jump back.
LEMMA HookExecutes ==
  ASSUME NEW h \in Call, Readable(h), NEW code, Holds(h, code), WellSpelt(code),
         JumpAt(h.site, h.block), JumpAt(h.block + h.size, h.returnTo),
         h.returnTo # h.site, h.returnTo \notin h.block..(h.block + h.size + 4)
  PROVE  Run(h) = [at |-> h.returnTo, events |-> Meaning(code)]
<1>1. h.block \in Nat /\ h.size \in Nat /\ h.returnTo \in Nat /\ h.site \in Nat
  BY SitesAreGame DEF Call
<1>2. Reaches(h, h.block, <<>>, 1)
  <2>1. Reaches(h, h.site, <<>>, 0)
    <3>1. Steps(h)[0] = [at |-> h.site, events |-> <<>>]
      BY StepsShape
    <3> QED
      BY <3>1 DEF Reaches
  <2>2. At(h, h.site) /\ 0 \in Nat /\ 0 <= h.size + 1
    BY <1>1 DEF At
  <2> DEFINE v == h.block - h.site - 5
  <2>3. mem[h.site] = Byte(JMP) /\ IntAt(h.site + 1, v)
    BY DEF JumpAt
  <2>4. h.site + 5 + v = h.block /\ 0 + 1 = 1
    BY <1>1
  <2> HIDE DEF v
  <2>5. Reaches(h, h.site + 5 + v, <<>>, 0 + 1)
    BY <2>1, <2>2, <2>3, JumpRuns
  <2> QED
    BY <2>4, <2>5
<1> DEFINE events == Meaning(code)
           back == h.block + h.size
<1>3. Reaches(h, h.returnTo, events, h.size + 2)
  <2> DEFINE d == 1 + h.size
             v == h.returnTo - back - 5
  <2>1. Reaches(h, back, events, d)
    BY <1>2, CodeRuns
  <2>2. back \in Int /\ back \in h.block..(h.block + h.size + 4) /\ d \in Nat /\ d <= h.size + 1
    BY <1>1
  <2>3. At(h, back)
    BY <2>2 DEF At
  <2>4. mem[back] = Byte(JMP) /\ IntAt(back + 1, v)
    BY DEF JumpAt
  <2>5. back + 5 + v = h.returnTo /\ d + 1 = h.size + 2
    BY <1>1
  <2> HIDE DEF d, v, back, events
  <2>6. Reaches(h, back + 5 + v, events, d + 1)
    BY <2>1, <2>2, <2>3, <2>4, JumpRuns
  <2> QED
    BY <2>5, <2>6
<1> DEFINE end == [at |-> h.returnTo, events |-> events]
           last == h.size + 2
           S == {i \in 0..last : Steps(h)[i] = end}
<1>4. RunStep(h, end) = end
  BY DEF RunStep
<1>5. PICK k \in 0..last : Steps(h)[k] = end
  BY <1>3 DEF Reaches
<1>6. k \in Nat /\ last \in Nat /\ k <= last /\ k \in S
  BY <1>1, <1>5
<1> HIDE DEF end, events
<1>7. ASSUME NEW i \in Nat, k <= i, i < last, i \in S PROVE i + 1 \in S
  <2>1. i \in 0..(h.size + 1) /\ i + 1 \in 0..last
    BY <1>1, <1>7
  <2>2. Steps(h)[i + 1] = RunStep(h, Steps(h)[i])
    BY <2>1, StepsShape
  <2> QED
    BY <1>4, <1>7, <2>1, <2>2
<1> HIDE DEF last, S
<1>8. last \in S
  <2>1. \A i \in k..last : i \in S
    BY <1>6, <1>7, UpTo
  <2> QED
    BY <1>6, <2>1
<1> QED
  BY <1>8 DEF S, last, Run, end, events

-----------------------------------------------------------------------------
\* The invariant of insertCode: what the call that runs has in its table or block,
\* and what the hooks have in their block and at both ends.

CodeIsIn(h) == h.cleanTable /\ Fresh(h) => Holds(h, HookCode(h))

JumpsAreIn(h) == JumpAt(h.site, h.block) /\ JumpAt(h.block + h.size, h.returnTo)

Underway ==
  /\ call # Idle => call.returnTo \in ReturnTo(call.site)
  /\ call.pc = "nopped" => (call.cleanTable /\ Fresh(call) => tables[call.table] = HookCode(call))
  /\ call.pc = "placed" => CodeIsIn(call)

AtTheirSites ==
  \A s \in Site : hooks[s] # Idle => hooks[s].site = s /\ hooks[s].returnTo \in ReturnTo(s)

Injected ==
  /\ Underway /\ AtTheirSites
  /\ \A h \in Established : CodeIsIn(h) /\ JumpsAreIn(h)

\* They depend on no other memory.
LEMMA CodeStays ==
  ASSUME NEW h \in Call, \A a \in h.block..(h.block + h.size - 1) : mem'[a] = mem[a], CodeIsIn(h)
  PROVE  CodeIsIn(h)'
<1>1. h.block \in Nat /\ h.size \in Nat
  BY DEF Call
<1>2. ASSUME NEW n \in 1..h.size PROVE mem'[h.block + n - 1] = mem[h.block + n - 1]
  <2>1. h.block + n - 1 \in h.block..(h.block + h.size - 1)
    BY <1>1
  <2> QED
    BY <2>1
<1>3. ASSUME NEW code, Holds(h, code) PROVE Holds(h, code)'
  BY <1>2, <1>3 DEF Holds
<1> QED
  BY <1>3 DEF CodeIsIn, Fresh, HookCode

LEMMA JumpStays ==
  ASSUME NEW from \in Nat, NEW to \in Nat, \A a \in from..(from + 4) : mem'[a] = mem[a], JumpAt(from, to)
  PROVE  JumpAt(from, to)'
<1>1. mem'[from] = mem[from]
  OBVIOUS
<1>2. ASSUME NEW n \in 1..4 PROVE mem'[from + 1 + n - 1] = mem[from + 1 + n - 1]
  <2>1. from + 1 + n - 1 \in from..(from + 4)
    OBVIOUS
  <2> QED
    BY <2>1
<1> QED
  BY <1>1, <1>2 DEF JumpAt, IntAt

\* A patch is written by the calls for its site.
LEMMA SiteKept ==
  ASSUME Contracts, InjectionTypeOK, Layout, [Next]_vars,
         NEW u \in Site, ~Patches(u), ~Patches(u)', NEW a \in u..(u + 4)
  PROVE  mem'[a] = mem[a]
<1>1. u \in Nat /\ PatchSize[u] \in Nat /\ PatchSize[u] >= 5 /\ WidePatches /\ PatchesApart
  BY SitesAreGame DEF Contracts, WidePatches
<1>2. a \in Nat /\ u <= a /\ a < u + PatchSize[u] /\ a \in u..(u + PatchSize[u])
  BY <1>1
<1>3. a \in Game
  BY <1>2, SitesAreGame
<1>4. ASSUME NEW s \in Site, Patches(s) \/ Patches(s)', a \in s..(s + PatchSize[s] - 1)
      PROVE  FALSE
  <2>1. s # u /\ s \in Nat /\ PatchSize[s] \in Nat
    BY <1>4, SitesAreGame
  <2>2. s + PatchSize[s] <= u \/ u + PatchSize[u] <= s
    BY <1>1, <2>1 DEF PatchesApart
  <2> QED
    BY <1>1, <1>2, <1>4, <2>1, <2>2
<1> QED
  BY <1>1, <1>3, <1>4, GameStep

\* What established hooks have is not written while they are.
LEMMA HookStays ==
  ASSUME Contracts, InjectionTypeOK, Layout, Injected, [Next]_vars,
         NEW u \in Site, NEW h \in Call, h = hooks[u], ~Patches(u), ~Patches(u)'
  PROVE  CodeIsIn(h)' /\ JumpsAreIn(h)'
<1>1. h # Idle /\ h \in Established
  BY DEF Call, Idle, Established, Patches
<1>2. CodeIsIn(h) /\ JumpsAreIn(h) /\ h.site = u /\ WidePatches
  BY <1>1 DEF Injected, AtTheirSites, Contracts
<1>3. h.block \in Nat /\ h.size \in Nat /\ h.returnTo \in Nat /\ u \in Nat
  BY SitesAreGame DEF Call
<1>4. \A a \in h.block..(h.block + h.size + 4) : mem'[a] = mem[a]
  BY <1>1, <1>2, HookKept
<1>5. CodeIsIn(h)'
  <2>1. \A a \in h.block..(h.block + h.size - 1) : a \in h.block..(h.block + h.size + 4)
    BY <1>3
  <2> QED
    BY <1>2, <1>4, <2>1, CodeStays
<1>6. JumpAt(h.site, h.block)'
  <2>1. \A a \in u..(u + 4) : mem'[a] = mem[a]
    BY SiteKept
  <2>2. JumpAt(u, h.block)
    BY <1>2 DEF JumpsAreIn
  <2>3. JumpAt(u, h.block)'
    BY <1>3, <2>1, <2>2, JumpStays
  <2> QED
    BY <1>2, <2>3
<1>7. JumpAt(h.block + h.size, h.returnTo)'
  <2> DEFINE back == h.block + h.size
  <2>1. back \in Nat /\ \A a \in back..(back + 4) : a \in h.block..(h.block + h.size + 4)
    BY <1>3
  <2>2. JumpAt(back, h.returnTo)
    BY <1>2 DEF JumpsAreIn
  <2> HIDE DEF back
  <2>3. JumpAt(back, h.returnTo)'
    BY <1>3, <1>4, <2>1, <2>2, JumpStays
  <2> QED
    BY <2>3 DEF back
<1> QED
  BY <1>5, <1>6, <1>7 DEF JumpsAreIn

\* core.insertCode puts the original into a table that is passed for the first time.
LEMMA CodeInTable ==
  ASSUME InjectionTypeOK, NEW s \in Site, NEW t \in CodeTable, NEW o \in Originals, NEW r \in ReturnTo(s),
         InsertCode(s, t, o, r), NEW c, c = call', c.cleanTable, Fresh(c)
  PROVE  tables'[c.table] = HookCode(c)
<1>1. /\ c.site = s /\ c.table = t /\ c.original = o
      /\ c.cleanTable = (tables[t] = Source[t])
      /\ c.cleanSite = \A n \in 1..PatchSize[s] : mem[s + n - 1] = Original(s + n - 1)
  BY DEF InsertCode
<1>2. tables[t] = Source[t]
  BY <1>1
<1>3. tables'[t] = WithOriginal(Source[t], s, o)
  BY <1>2 DEF InsertCode, InjectionTypeOK
<1>4. CASE o = "none"
  BY <1>1, <1>3, <1>4 DEF WithOriginal, HookCode
<1>5. CASE o # "none"
  <2>1. \A n \in 1..PatchSize[s] : mem[s + n - 1] = Original(s + n - 1)
    BY <1>1, <1>5 DEF Fresh
  <2>2. Cells(s) = [n \in 1..PatchSize[s] |-> Original(s + n - 1)]
    BY <2>1 DEF Cells
  <2>3. [kind |-> "bytes", value |-> Cells(s)] = OriginalBytes(s)
    BY <2>2 DEF OriginalBytes
  <2> QED
    BY <1>1, <1>3, <2>3 DEF WithOriginal, HookCode
<1> QED
  BY <1>4, <1>5

\* What is compiled for the block is written to it.
LEMMA CodeInBlock ==
  ASSUME InjectionTypeOK, Underway, PlaceCode, NEW c, c = call'
  PROVE  CodeIsIn(c)'
<1> SUFFICES ASSUME c.cleanTable, Fresh(c) PROVE Holds(c, HookCode(c))'
  BY DEF CodeIsIn, Fresh
<1> DEFINE code == HookCode(c)
           size == CodeSize(code)
<1>1. call \in Call /\ call.pc = "nopped"
  BY CallOf DEF PlaceCode
<1>2. /\ c.site = call.site /\ c.table = call.table /\ c.original = call.original
      /\ c.cleanTable = call.cleanTable /\ c.cleanSite = call.cleanSite
      /\ c.block = top /\ c.size = CodeSize(tables[call.table])
  BY <1>1 DEF PlaceCode, Call
<1>3. tables[call.table] = code
  <2>1. call.cleanTable /\ Fresh(call) /\ HookCode(call) = code
    BY <1>2 DEF Fresh, HookCode
  <2> QED
    BY <1>1, <2>1 DEF Underway
<1>4. code \in Seq(Element) /\ ~Uncompilable(code)
  BY <1>1, <1>3 DEF InjectionTypeOK, Call, PlaceCode
<1>5. /\ top \in Nat /\ Heap[1] <= top /\ top + size + 5 <= Heap[2] /\ mem \in [Addresses -> Cell]
      /\ mem' = Written(mem, top, Compile(code, top))
  BY <1>3 DEF PlaceCode, InjectionTypeOK
<1> HIDE DEF code
<1>6. size \in Nat /\ Compile(code, top) \in Seq(Cell) /\ Len(Compile(code, top)) = size
  BY <1>4, <1>5, CompileShape
<1>7. c.block = top /\ c.size = size
  BY <1>2, <1>3
<1> HIDE DEF size
<1>8. ASSUME NEW n \in 1..size PROVE mem'[top + n - 1] = Compile(code, top)[n]
  <2>1. top + n - 1 \in Nat /\ Heap[1] <= top + n - 1 /\ top + n - 1 <= Heap[2]
    <3> DEFINE first == Heap[1]
               final == Heap[2]
    <3>1. first \in Nat /\ final \in Nat /\ first <= top /\ top + size + 5 <= final
      BY <1>5, AddressesAreNat
    <3> HIDE DEF first, final
    <3>2. top + n - 1 \in Nat /\ first <= top + n - 1 /\ top + n - 1 <= final
      BY <1>5, <1>6, <3>1
    <3> QED
      BY <3>2 DEF first, final
  <2>2. top + n - 1 \in Addresses
    BY <2>1, AddressesAreNat
  <2> QED
    BY <1>5, <1>6, <2>2, Inside
<1>9. Holds(c, code)'
  <2>1. \A n \in 1..c.size : mem'[c.block + n - 1] = Compile(code, c.block)[n]
    BY <1>7, <1>8
  <2> QED
    BY <1>4, <1>7, <2>1 DEF Holds, size
<1> QED
  BY <1>9 DEF code

\* A jump over more than a byte's distance has five bytes.
LEMMA JumpWritten ==
  ASSUME NEW memory \in [Addresses -> Cell], NEW from \in Nat, NEW to \in Nat,
         to - from - 5 \notin 0..255, \A a \in from..(from + 4) : a \in Addresses
  PROVE  /\ Written(memory, from, JumpTo(from, to))[from] = Byte(JMP)
         /\ \A n \in 1..4 : Written(memory, from, JumpTo(from, to))[from + n] = <<"int", to - from - 5, n>>
<1> DEFINE v == to - from - 5
           jump == <<Byte(JMP)>> \o Int4(v)
<1>1. JumpTo(from, to) = jump
  BY DEF JumpTo, Number
<1>2. v \in Int /\ JMP \in Int
  BY DEF JMP
<1> HIDE DEF v
<1>3. /\ jump \in Seq(Cell) /\ Len(jump) = 5 /\ jump[1] = Byte(JMP)
      /\ \A n \in 1..4 : jump[n + 1] = <<"int", v, n>>
  BY <1>2, InstructionShape
<1> HIDE DEF jump
<1>4. ASSUME NEW k \in 1..5 PROVE Written(memory, from, jump)[from + k - 1] = jump[k]
  <2>1. k \in 1..Len(jump) /\ from + k - 1 \in from..(from + 4)
    BY <1>3
  <2>2. from + k - 1 \in Addresses
    BY <2>1
  <2> QED
    BY <1>3, <2>1, <2>2, Inside
<1>5. Written(memory, from, jump)[from] = Byte(JMP)
  <2>1. 1 \in 1..5 /\ from + 1 - 1 = from
    OBVIOUS
  <2> QED
    BY <1>3, <1>4, <2>1
<1>6. ASSUME NEW n \in 1..4 PROVE Written(memory, from, jump)[from + n] = <<"int", v, n>>
  <2> DEFINE k == n + 1
  <2>1. k \in 1..5 /\ from + k - 1 = from + n
    OBVIOUS
  <2>2. jump[k] = <<"int", v, n>>
    BY <1>3
  <2> HIDE DEF k
  <2> QED
    BY <1>4, <2>1, <2>2
<1> QED
  BY <1>1, <1>5, <1>6 DEF v

LEMMA JumpIsAt ==
  ASSUME NEW from \in Nat, NEW to \in Nat, \A a \in from..(from + 4) : a \in Addresses,
         mem'[from] = Byte(JMP), \A n \in 1..4 : mem'[from + n] = <<"int", to - from - 5, n>>
  PROVE  JumpAt(from, to)'
<1>1. ASSUME NEW n \in 1..4
      PROVE  from + 1 + n - 1 \in Addresses /\ mem'[from + 1 + n - 1] = <<"int", to - from - 5, n>>
  <2>1. from + n \in from..(from + 4) /\ from + 1 + n - 1 = from + n
    OBVIOUS
  <2> QED
    BY <2>1
<1> QED
  BY <1>1 DEF JumpAt, IntAt

\* Sites are in patches, and return addresses are in the game, below the heap.
LEMMA SitesShape ==
  ASSUME Contracts, NEW s \in Site, NEW r \in ReturnTo(s)
  PROVE  /\ s \in Nat /\ s + 260 < Heap[1] /\ \A a \in s..(s + 4) : a \in Addresses
         /\ r \in Nat /\ r < Heap[1] /\ r # s
<1>1. /\ s \in Nat /\ PatchSize[s] \in Nat /\ PatchSize[s] >= 5
      /\ \A a \in s..(s + PatchSize[s]) : a \in Game
      /\ s + 260 < Heap[1]
  BY SitesAreGame DEF Contracts, WidePatches, HeapIsFar
<1>2. \A a \in s..(s + 4) : a \in s..(s + PatchSize[s])
  BY <1>1
<1>3. r \in Game /\ r # s
  <2>1. s + PatchSize[s] \in s..(s + PatchSize[s]) /\ s + PatchSize[s] # s
    BY <1>1
  <2>2. Elsewhere \in Game /\ Elsewhere # s
    BY InjectionAssumption DEF Contracts
  <2> QED
    BY <1>1, <2>1, <2>2 DEF ReturnTo
<1> QED
  BY <1>1, <1>2, <1>3, AddressesAreNat

\* The two jumps of core.insertCode go where nothing of the code is.
LEMMA JumpsPlaced ==
  ASSUME Contracts, InjectionTypeOK, Layout, Underway, PlaceJumps, NEW c, c = call
  PROVE  c \in Call /\ CodeIsIn(c)' /\ JumpsAreIn(c)'
<1> DEFINE back == c.block + c.size
           once == Written(mem, c.site, JumpTo(c.site, c.block))
           first == Heap[1]
           final == Heap[2]
<1>1. c \in Call /\ c.pc = "placed" /\ c # Idle
  BY CallOf DEF PlaceJumps, Idle
<1>2. /\ c.site \in Site /\ c.block \in Nat /\ c.size \in Nat /\ c.returnTo \in Nat
      /\ c.returnTo \in ReturnTo(c.site) /\ CodeIsIn(c)
  BY <1>1 DEF Call, Underway
<1>3. /\ c.site \in Nat /\ c.site + 260 < first /\ \A a \in c.site..(c.site + 4) : a \in Addresses
      /\ c.returnTo < first /\ first \in Nat /\ final \in Nat
  BY <1>2, SitesShape, AddressesAreNat
<1>4. first <= c.block /\ back + 5 <= final
  <2>1. first <= c.block /\ back + 5 = top /\ top \in Nat /\ (top = first \/ top <= final)
    BY <1>1 DEF Layout, BlockEnd, InjectionTypeOK
  <2> QED
    BY <1>2, <1>3, <2>1
<1>5. /\ mem \in [Addresses -> Cell] /\ mem' = Written(once, back, JumpTo(back, c.returnTo))
  BY DEF PlaceJumps, InjectionTypeOK
<1>6. once \in [Addresses -> Cell]
      /\ \A a \in Addresses : a \in c.site..(c.site + 4) \/ once[a] = mem[a]
  BY <1>2, <1>3, <1>5, WrittenJump
<1>7. back \in Nat /\ \A a \in back..(back + 4) : a \in Addresses
  <2>1. back \in Nat
    BY <1>2
  <2>2. ASSUME NEW a \in back..(back + 4) PROVE a \in Nat /\ first <= a /\ a <= final
    BY <1>2, <1>3, <1>4
  <2> QED
    BY <2>1, <2>2, AddressesAreNat
<1> HIDE DEF once
<1>8. \A a \in Addresses : a \in back..(back + 4) \/ mem'[a] = once[a]
  <2> HIDE DEF back
  <2> QED
    BY <1>2, <1>5, <1>6, <1>7, WrittenJump
<1> HIDE DEF first, final
<1>9. JumpAt(c.site, c.block)'
  <2> DEFINE v == c.block - c.site - 5
  <2>1. v \notin 0..255
    BY <1>2, <1>3, <1>4
  <2>2. once[c.site] = Byte(JMP) /\ \A n \in 1..4 : once[c.site + n] = <<"int", v, n>>
    <3> DEFINE from == c.site
               to == c.block
    <3>1. from \in Nat /\ to \in Nat /\ to - from - 5 \notin 0..255 /\ \A a \in from..(from + 4) : a \in Addresses
      BY <1>2, <1>3, <2>1
    <3>2. once = Written(mem, from, JumpTo(from, to)) /\ v = to - from - 5
      BY DEF once
    <3> HIDE DEF from, to, v
    <3>3. once[from] = Byte(JMP) /\ \A n \in 1..4 : once[from + n] = <<"int", to - from - 5, n>>
      BY <1>5, <3>1, <3>2, JumpWritten
    <3> QED
      BY <3>2, <3>3 DEF from
  <2>3. ASSUME NEW a \in c.site..(c.site + 4) PROVE mem'[a] = once[a]
    <3>1. a \in Addresses
      BY <1>3
    <3>2. a \notin back..(back + 4)
      BY <1>2, <1>3, <1>4
    <3> QED
      BY <1>8, <3>1, <3>2
  <2>4. c.site \in c.site..(c.site + 4) /\ \A n \in 1..4 : c.site + n \in c.site..(c.site + 4)
    BY <1>3
  <2>5. mem'[c.site] = Byte(JMP) /\ \A n \in 1..4 : mem'[c.site + n] = <<"int", v, n>>
    BY <2>2, <2>3, <2>4
  <2> QED
    BY <1>2, <1>3, <2>5, JumpIsAt
<1>10. JumpAt(back, c.returnTo)'
  <2>1. c.returnTo - back - 5 \notin 0..255
    BY <1>2, <1>3, <1>4
  <2> HIDE DEF back
  <2>2. /\ mem'[back] = Byte(JMP)
        /\ \A n \in 1..4 : mem'[back + n] = <<"int", c.returnTo - back - 5, n>>
    <3> DEFINE to == c.returnTo
               then == Written(once, back, JumpTo(back, to))
    <3>1. to \in Nat /\ to - back - 5 \notin 0..255 /\ mem' = then
      BY <1>2, <1>5, <2>1
    <3> HIDE DEF to
    <3>2. then[back] = Byte(JMP) /\ \A n \in 1..4 : then[back + n] = <<"int", to - back - 5, n>>
      BY <1>6, <1>7, <3>1, JumpWritten
    <3> HIDE DEF then
    <3> QED
      BY <3>1, <3>2 DEF to
  <2> QED
    BY <1>2, <1>7, <2>2, JumpIsAt
<1>11. CodeIsIn(c)'
  <2>1. ASSUME NEW a \in c.block..(c.block + c.size - 1) PROVE mem'[a] = mem[a]
    <3>1. /\ a \in Nat /\ first <= a /\ a <= final
          /\ a \notin back..(back + 4) /\ a \notin c.site..(c.site + 4)
      BY <1>2, <1>3, <1>4
    <3>2. a \in Addresses
      BY <3>1, AddressesAreNat DEF first, final
    <3> QED
      BY <1>6, <1>8, <3>1, <3>2
  <2> QED
    BY <1>1, <1>2, <2>1, CodeStays
<1> QED
  BY <1>1, <1>9, <1>10, <1>11 DEF JumpsAreIn, back

\* A hook that is established after a step was so before it, or by it.
LEMMA HookOf ==
  ASSUME InjectionTypeOK, [Next]_vars, NEW u \in Site, hooks'[u] # Idle, ~Patches(u)'
  PROVE  \/ hooks'[u] = hooks[u] /\ ~Patches(u)
         \/ PlaceJumps /\ call \in Call /\ u = call.site /\ hooks'[u] = call
<1>1. ASSUME NEW s \in Site, NEW t \in CodeTable, NEW o \in Originals, NEW r \in ReturnTo(s),
             InsertCode(s, t, o, r)
      PROVE  hooks'[u] = hooks[u] /\ ~Patches(u)
  BY <1>1 DEF InsertCode, Patches
<1>2. CASE PlaceCode
  <2>1. call \in Call /\ call'.site = call.site /\ call'.pc # Idle.pc /\ hooks' = hooks
    BY <1>2, CallOf DEF PlaceCode, Call, Idle
  <2> QED
    BY <2>1 DEF Patches
<1>3. CASE CompileFails
  <2>1. call' = Idle /\ hooks' = [hooks EXCEPT ![call.site] = Idle]
    BY <1>3 DEF CompileFails
  <2>2. u # call.site /\ hooks'[u] = hooks[u]
    BY <2>1 DEF InjectionTypeOK
  <2> QED
    BY <2>2 DEF Patches
<1>4. CASE PlaceJumps
  <2>1. call \in Call /\ hooks' = [hooks EXCEPT ![call.site] = call]
    BY <1>4, CallOf DEF PlaceJumps
  <2>2. CASE u = call.site
    BY <1>4, <2>1, <2>2 DEF InjectionTypeOK
  <2>3. CASE u # call.site
    BY <2>1, <2>3 DEF InjectionTypeOK, Patches
  <2> QED
    BY <2>2, <2>3
<1>5. ASSUME NEW s \in Script, AllocateAssembly(s)
      PROVE  hooks'[u] = hooks[u] /\ ~Patches(u)
  BY <1>5 DEF AllocateAssembly, Patches
<1>6. CASE UNCHANGED vars
  BY <1>6 DEF vars, Patches
<1> QED
  BY <1>1, <1>2, <1>3, <1>4, <1>5, <1>6 DEF Next

LEMMA UnderwayStep ==
  ASSUME Contracts, InjectionTypeOK, Layout, Injected, [Next]_vars
  PROVE  Underway'
<1>1. CASE call' = Idle
  BY <1>1 DEF Underway, Idle
<1>2. ASSUME NEW s \in Site, NEW t \in CodeTable, NEW o \in Originals, NEW r \in ReturnTo(s),
             InsertCode(s, t, o, r)
      PROVE  Underway'
  <2>1. call'.site = s /\ call'.returnTo = r /\ call'.pc = "nopped"
    BY <1>2 DEF InsertCode
  <2>2. (call.cleanTable /\ Fresh(call) => tables[call.table] = HookCode(call))'
    <3>1. ASSUME NEW c, c = call', c.cleanTable, Fresh(c) PROVE tables'[c.table] = HookCode(c)
      BY <1>2, <3>1, CodeInTable
    <3> QED
      BY <3>1 DEF Fresh, HookCode
  <2> QED
    BY <2>1, <2>2 DEF Underway
<1>3. CASE PlaceCode
  <2>1. call \in Call /\ call # Idle
    BY <1>3, CallOf DEF PlaceCode, Idle
  <2>2. call'.site = call.site /\ call'.returnTo = call.returnTo /\ call'.pc = "placed"
    BY <1>3, <2>1 DEF PlaceCode, Call
  <2>3. CodeIsIn(call)'
    <3>1. ASSUME NEW c, c = call' PROVE CodeIsIn(c)'
      BY <1>3, <3>1, CodeInBlock DEF Injected
    <3> QED
      BY <3>1 DEF CodeIsIn, Fresh, HookCode, Holds
  <2>4. call'.returnTo \in ReturnTo(call'.site)
    BY <2>1, <2>2 DEF Injected, Underway
  <2> QED
    BY <2>2, <2>3, <2>4 DEF Underway
<1>4. CASE CompileFails \/ PlaceJumps
  BY <1>1, <1>4 DEF CompileFails, PlaceJumps
<1>5. ASSUME NEW s \in Script, AllocateAssembly(s)
      PROVE  Underway'
  BY <1>1, <1>5 DEF AllocateAssembly
<1>6. CASE UNCHANGED vars
  BY <1>6 DEF vars, Injected, Underway, CodeIsIn, Fresh, Holds, HookCode
<1> QED
  BY <1>2, <1>3, <1>4, <1>5, <1>6 DEF Next

LEMMA InjectedInit == Init => Injected
BY DEF Init, Injected, Underway, AtTheirSites, Established, Idle

LEMMA InjectedStep ==
  ASSUME Contracts, InjectionTypeOK, Layout, Injected, [Next]_vars
  PROVE  Injected'
<1>1. ASSUME NEW u \in Site, NEW h, h = hooks'[u], h # Idle, ~Patches(u)'
      PROVE  CodeIsIn(h)' /\ JumpsAreIn(h)'
  <2>1. CASE hooks'[u] = hooks[u] /\ ~Patches(u)
    <3>1. h = hooks[u] /\ h \in Call
      BY <1>1, <2>1 DEF InjectionTypeOK
    <3> QED
      BY <1>1, <2>1, <3>1, HookStays
  <2>2. CASE PlaceJumps /\ hooks'[u] = call
    <3>1. h = call /\ Underway
      BY <1>1, <2>2 DEF Injected
    <3> QED
      BY <2>2, <3>1, JumpsPlaced
  <2> QED
    BY <1>1, <2>1, <2>2, HookOf
<1>2. ASSUME NEW h \in Established' PROVE CodeIsIn(h)' /\ JumpsAreIn(h)'
  <2>1. PICK u \in Site : h = hooks'[u] /\ h # Idle /\ ~Patches(u)'
    BY <1>2 DEF Established, Patches
  <2> QED
    BY <1>1, <2>1
<1>3. AtTheirSites'
  <2> SUFFICES ASSUME NEW u \in Site, hooks'[u] # Idle
               PROVE  hooks'[u].site = u /\ hooks'[u].returnTo \in ReturnTo(u)
    BY DEF AtTheirSites
  <2>1. CASE hooks'[u] = hooks[u]
    BY <2>1 DEF Injected, AtTheirSites
  <2>2. CASE PlaceJumps /\ u = call.site /\ hooks'[u] = call
    <3>1. call # Idle
      BY <2>2 DEF PlaceJumps, Idle
    <3> QED
      BY <2>2, <3>1 DEF Injected, Underway
  <2>3. \/ hooks' = hooks
        \/ PlaceJumps /\ hooks' = [hooks EXCEPT ![call.site] = call]
        \/ hooks' = [hooks EXCEPT ![call.site] = Idle]
    BY DEF Next, vars, InsertCode, PlaceCode, CompileFails, PlaceJumps, AllocateAssembly
  <2>4. hooks'[u] = hooks[u] \/ (PlaceJumps /\ u = call.site /\ hooks'[u] = call)
    BY <2>3 DEF InjectionTypeOK
  <2> QED
    BY <2>1, <2>2, <2>4
<1> QED
  BY <1>2, <1>3, UnderwayStep DEF Injected

\* So the game runs what the callers' tables say.
LEMMA InjectedHooksRun == Contracts /\ InjectionTypeOK /\ Layout /\ Injected => HooksRun
<1> SUFFICES ASSUME Contracts, InjectionTypeOK, Layout, Injected,
                    NEW h \in Established, h.cleanTable, Fresh(h)
             PROVE  Run(h) = [at |-> h.returnTo, events |-> Promised(h)]
  BY DEF HooksRun
<1>1. PICK u \in Site : h = hooks[u] /\ h # Idle
  BY DEF Established
<1>2. /\ h \in Call /\ h.site = u /\ h.returnTo \in ReturnTo(u)
      /\ Holds(h, HookCode(h)) /\ JumpsAreIn(h)
      /\ Heap[1] <= h.block /\ BlockEnd(h) <= top
  BY <1>1 DEF Injected, AtTheirSites, CodeIsIn, InjectionTypeOK, Layout, HooksAreBelow
<1> DEFINE first == Heap[1]
           final == Heap[2]
<1>3. /\ first \in Nat /\ final \in Nat /\ first <= h.block /\ h.block + h.size + 5 <= top
      /\ top \in Nat /\ (top = first \/ top <= final)
      /\ h.block \in Nat /\ h.size \in Nat
      /\ h.returnTo \in Nat /\ h.returnTo < first /\ h.returnTo # u
  BY <1>2, SitesShape, AddressesAreNat DEF BlockEnd, InjectionTypeOK, Call
<1>4. Readable(h)
  <2>1. \A a \in h.block..(h.block + h.size + 4) : a \in Nat /\ first <= a /\ a <= final
    <3> HIDE DEF first, final
    <3> QED
      BY <1>3
  <2>2. \A a \in h.block..(h.block + h.size + 4) : a \in Addresses
    BY <2>1, AddressesAreNat
  <2>3. mem \in [Addresses -> Cell] /\ u \in Addresses
    BY InjectionAssumption DEF InjectionTypeOK, Addresses
  <2> QED
    BY <1>2, <2>2, <2>3 DEF Readable
<1>5. h.returnTo \notin h.block..(h.block + h.size + 4)
  <2> HIDE DEF first
  <2> QED
    BY <1>3
<1>6. WellSpelt(HookCode(h)) /\ Meaning(HookCode(h)) = Promised(h)
  BY <1>2, HookCodeMeans
<1> QED
  BY <1>2, <1>3, <1>4, <1>5, <1>6, HookExecutes DEF JumpsAreIn

\* Where a hook was established, the game does what the caller's table says, with
\* the overwritten instructions before or after it, and goes on at the return
\* address, for every game, table and order of calls: if the callers keep to the
\* contracts that no code checks (core.insertCode, core.compile, core.writeCode).
THEOREM HooksDoWhatTheySay == Contracts /\ Spec => []HooksRun
<1> SUFFICES ASSUME Contracts PROVE Spec => []HooksRun
  OBVIOUS
<1>1. Init => Injected
  BY InjectedInit
<1>2. InjectionTypeOK /\ Layout /\ Injected /\ [Next]_vars => Injected'
  BY InjectedStep
<1>3. InjectionTypeOK /\ Layout /\ Injected => HooksRun
  BY InjectedHooksRun
<1> QED
  BY <1>1, <1>2, <1>3, BlocksLieApart, PTL DEF Spec
================================================================================
