----------------------------- MODULE CodeInjection -----------------------------
(***************************************************************************)
(* core.insertCode and the compiler of code tables under it (core.lua):    *)
(* a jump is put over some instructions of the game, to new code that does *)
(* what the caller's table says and jumps back.                            *)
(*                                                                         *)
(* core.allocateAssembly and AssemblyLambda take a script instead, that    *)
(* fasm.dll assembles (fasm.cpp): once for the address 0, to know its      *)
(* size, and again for the address it gets, where its size may be another: *)
(* fasm takes the shortest encoding of every number and distance.          *)
(*                                                                         *)
(* A cell of memory is one byte: a byte of the game that nobody overwrote, *)
(* a byte with a value, the n-th byte of a 4-byte integer or of a script.  *)
(* Integers are not wrapped at 32 bits: relative distances in the code     *)
(* are, on both sides of every addition.                                   *)
(***************************************************************************)
EXTENDS Integers, Sequences, SequencesExt

CONSTANTS
  Site,            \* the addresses code is inserted at
  PatchSize,       \* site -> the bytes to overwrite there
  Game,            \* the addresses of the game's code
  Heap,            \* the first and the last address that can be allocated
  CodeTable,       \* the code tables of the callers
  Label,           \* the labels in them
  Source,          \* table -> the elements its caller wrote
  Script,          \* the scripts that are assembled
  Assembly,        \* script -> its size when assembled for 0 and for its block;
                   \* 0 if that is an error
  Elsewhere,       \* an address of the game to return to instead of the next one
  MaxCalls         \* bound on the calls of insertCode and allocateAssembly

ASSUME InjectionAssumption ==
  /\ Game \subseteq Nat /\ Site \subseteq Game
  /\ Heap \in Nat \X Nat /\ \A a \in Game : a < Heap[1]
  /\ PatchSize \in [Site -> Nat \ {0}]
  /\ \A s \in Site : s..(s + PatchSize[s]) \subseteq Game
  /\ Elsewhere \in Game /\ MaxCalls \in Nat
  /\ Assembly \in [Script -> [atZero : Nat, atBlock : Nat]]

VARIABLES
  mem,             \* address -> cell
  tables,          \* table -> its elements now: the callers keep their tables
  top,             \* the first address that is not allocated
  call,            \* the insertCode that runs, or Idle
  hooks,           \* site -> the last insertCode there that returned, or Idle
  fasm,            \* fasmState: "unloaded", "ready" or "failed"
  assembled,       \* what allocateAssembly returned, with the bytes it wrote there
  calls            \* how many have begun

vars == <<mem, tables, top, call, hooks, fasm, assembled, calls>>

-----------------------------------------------------------------------------
Byte(b) == <<"byte", b, 0>>
Original(a) == <<"original", a, 0>>
Int4(v) == [n \in 1..4 |-> <<"int", v, n>>]

Cell == ({"byte", "original", "int"} \X Int \X Nat) \cup ({"assembled"} \X Script \X Nat)

NOP == 144
CALL == 232
JMP == 233

\* utils.itob for what is not a byte.
Number(v) == IF v \in 0..255 THEN <<Byte(v)>> ELSE Int4(v)

\* The bytes of an assembled script.
Bytes(s, size) == [n \in 1..size |-> <<"assembled", s, n>>]

\* Elements: a number, a table of bytes, a label, a function that refers to a
\* label (relTo), a Lambda that calls an address (callTo), an AssemblyLambda, and
\* a Lambda that does not return as many bytes as it said.
Element == [kind : {"number", "callTo", "short"}, value : Int]
             \cup [kind : {"bytes"}, value : Seq(Cell)]
             \cup [kind : {"label", "relTo"}, value : Label]
             \cup [kind : {"assembly"}, value : Script]

ASSUME SourceAssumption == Source \in [CodeTable -> Seq(Element)]

SizeOf(e) == CASE e.kind = "number" -> Len(Number(e.value))
               [] e.kind = "bytes" -> Len(e.value)
               [] e.kind = "label" -> 0
               [] e.kind = "relTo" -> 4
               [] e.kind = "assembly" -> Assembly[e.value].atZero
               [] OTHER -> 5

\* Where each element of a code ends.
Ends(code) ==
  LET ends[i \in 0..Len(code)] == IF i = 0 THEN 0 ELSE ends[i - 1] + SizeOf(code[i]) IN ends

CodeSize(code) == Ends(code)[Len(code)]

Offset(code, i) == Ends(code)[i - 1]

Places(code, label) ==
  {i \in 1..Len(code) : code[i].kind = "label" /\ code[i].value = label}

\* A label that is there twice is where it was last.
LabelOffset(code, label) ==
  Offset(code, CHOOSE i \in Places(code, label) : \A j \in Places(code, label) : j <= i)

\* Where compile raises an error.
Uncompilable(code) ==
  \E i \in 1..Len(code) :
    LET e == code[i] IN
    \/ e.kind = "short"
    \/ e.kind = "assembly" /\ Assembly[e.value].atBlock # Assembly[e.value].atZero
    \/ e.kind = "relTo" /\ Places(code, e.value) = {}
    \/ e.kind = "label" /\ LabelOffset(code, e.value) # Offset(code, i)

\* Mutant: distances are counted from where the instruction begins.
EmitFromStart(code, i, base) ==
  LET e  == code[i]
      at == base + Offset(code, i)
  IN  CASE e.kind = "number" -> Number(e.value)
        [] e.kind = "bytes" -> e.value
        [] e.kind = "label" -> <<>>
        [] e.kind = "relTo" -> Int4(base + LabelOffset(code, e.value) - at - 4)
        [] e.kind = "assembly" -> Bytes(e.value, Assembly[e.value].atBlock)
        [] e.kind = "callTo" -> <<Byte(CALL)>> \o Int4(e.value - at)

\* The bytes of an element of a code that starts at base.
Emit(code, i, base) ==
  LET e  == code[i]
      at == base + Offset(code, i)
  IN  CASE e.kind = "number" -> Number(e.value)
        [] e.kind = "bytes" -> e.value
        [] e.kind = "label" -> <<>>
        [] e.kind = "relTo" -> Int4(base + LabelOffset(code, e.value) - at - 4)
        [] e.kind = "assembly" -> Bytes(e.value, Assembly[e.value].atBlock)
        [] e.kind = "callTo" -> <<Byte(CALL)>> \o Int4(e.value - at - 5)

\* core.compile, of code that can be compiled.
Compile(code, base) ==
  LET upTo[i \in 0..Len(code)] == IF i = 0 THEN <<>> ELSE upTo[i - 1] \o Emit(code, i, base)
  IN  upTo[Len(code)]

\* writeCode: the cells go to memory.
Written(memory, address, cells) ==
  [a \in DOMAIN memory |->
     IF a \in address..(address + Len(cells) - 1) THEN cells[a - address + 1] ELSE memory[a]]

JumpTo(from, to) == <<Byte(JMP)>> \o Number(to - from - 5)

-----------------------------------------------------------------------------
Idle == [pc |-> "idle"]

Originals == {"none", "before", "after"}

Init ==
  /\ mem = [a \in Game \cup Heap[1]..Heap[2] |-> Original(a)]
  /\ tables = Source
  /\ top = Heap[1]
  /\ call = Idle
  /\ hooks = [s \in Site |-> Idle]
  /\ fasm = "unloaded"
  /\ assembled = {}
  /\ calls = 0

Cells(s) == [n \in 1..PatchSize[s] |-> mem[s + n - 1]]

\* What is overwritten goes before or after the caller's code, in the caller's table.
WithOriginal(code, s, original) ==
  LET bytes == [kind |-> "bytes", value |-> Cells(s)] IN
  CASE original = "before" -> <<bytes>> \o code
    [] original = "after" -> Append(code, bytes)
    [] OTHER -> code

\* luaAssemble loads fasm.dll from the newest code when it is first used; if that
\* fails, it is not tried again.
UseFasm == fasm' \in IF fasm = "unloaded" THEN {"ready", "failed"} ELSE {fasm}

\* An AssemblyLambda is assembled for 0 when its caller makes it.
LambdasMade(code) ==
  IF \E i \in 1..Len(code) : code[i].kind = "assembly" THEN UseFasm /\ fasm' = "ready" ELSE UNCHANGED fasm

\* Mutant: one NOP too many.
NopOneMore(s, t, original, returnTo) ==
  /\ call = Idle /\ calls < MaxCalls
  /\ calls' = calls + 1
  /\ tables' = [tables EXCEPT ![t] = WithOriginal(tables[t], s, original)]
  /\ mem' = Written(mem, s, [n \in 1..(PatchSize[s] + 1) |-> Byte(NOP)])
  /\ call' = [pc |-> "nopped", site |-> s, table |-> t, original |-> original,
              returnTo |-> returnTo, cleanTable |-> FALSE, cleanSite |-> FALSE,
              block |-> 0, size |-> 0]
  /\ LambdasMade(tables[t])
  /\ UNCHANGED <<top, hooks, assembled>>

\* The instructions are read, put into the table, and replaced by NOPs.
InsertCode(s, t, original, returnTo) ==
  /\ call = Idle /\ calls < MaxCalls
  /\ calls' = calls + 1
  /\ tables' = [tables EXCEPT ![t] = WithOriginal(tables[t], s, original)]
  /\ mem' = Written(mem, s, [n \in 1..PatchSize[s] |-> Byte(NOP)])
  /\ call' = [pc |-> "nopped", site |-> s, table |-> t, original |-> original,
              returnTo |-> returnTo,
              cleanTable |-> tables[t] = Source[t],
              cleanSite |-> \A n \in 1..PatchSize[s] : mem[s + n - 1] = Original(s + n - 1),
              block |-> 0, size |-> 0]
  /\ LambdasMade(tables[t])
  /\ UNCHANGED <<top, hooks, assembled>>

\* Mutant: no room is left for the jump back.
PlaceTightly ==
  /\ call.pc = "nopped"
  /\ LET code == tables[call.table] IN
       /\ ~Uncompilable(code)
       /\ top' = top + CodeSize(code)
       /\ top' <= Heap[2]
       /\ mem' = Written(mem, top, Compile(code, top))
       /\ call' = [call EXCEPT !.pc = "placed", !.block = top, !.size = CodeSize(code)]
  /\ UNCHANGED <<tables, hooks, fasm, assembled, calls>>

\* The code is compiled for the block it gets, and written there.
PlaceCode ==
  /\ call.pc = "nopped"
  /\ LET code == tables[call.table] IN
       /\ ~Uncompilable(code)
       /\ top' = top + CodeSize(code) + 5
       /\ top' <= Heap[2]
       /\ mem' = Written(mem, top, Compile(code, top))
       /\ call' = [call EXCEPT !.pc = "placed", !.block = top, !.size = CodeSize(code)]
  /\ UNCHANGED <<tables, hooks, fasm, assembled, calls>>

\* Compiling raises an error, when the block is allocated already.
CompileFails ==
  /\ call.pc = "nopped"
  /\ Uncompilable(tables[call.table])
  /\ top' = top + CodeSize(tables[call.table]) + 5
  /\ top' <= Heap[2]
  /\ call' = Idle
  /\ hooks' = [hooks EXCEPT ![call.site] = Idle]
  /\ UNCHANGED <<mem, tables, fasm, assembled, calls>>

\* The two jumps, to the code and back.
PlaceJumps ==
  /\ call.pc = "placed"
  /\ LET back == call.block + call.size IN
       mem' = Written(Written(mem, call.site, JumpTo(call.site, call.block)),
                      back, JumpTo(back, call.returnTo))
  /\ hooks' = [hooks EXCEPT ![call.site] = call]
  /\ call' = Idle
  /\ UNCHANGED <<tables, top, fasm, assembled, calls>>

\* luaAssemble, of a script that is assembled to so many bytes: it raises an error
\* without fasm.dll, or for a script with an error.
Assembles(size) == fasm' = "ready" /\ size > 0

\* core.allocateAssembly: what the second pass returns is written to the block
\* that the first one gave its size.
AllocateAssembly(s) ==
  /\ call = Idle /\ calls < MaxCalls
  /\ calls' = calls + 1
  /\ UseFasm
  /\ top' = IF Assembles(Assembly[s].atZero) THEN top + Assembly[s].atZero ELSE top
  /\ top' <= Heap[2]
  /\ IF Assembles(Assembly[s].atZero) /\ Assembles(Assembly[s].atBlock)
     THEN LET bytes == Bytes(s, Assembly[s].atBlock) IN
          /\ mem' = Written(mem, top, bytes)
          /\ assembled' = assembled \cup {[block |-> top, bytes |-> bytes]}
     ELSE UNCHANGED <<mem, assembled>>
  /\ UNCHANGED <<tables, call, hooks>>

\* The return address that insertCode is given, or takes by default.
ReturnTo(s) == {s + PatchSize[s], Elsewhere}

Next ==
  \/ \E s \in Site, t \in CodeTable, o \in Originals :
       \E r \in ReturnTo(s) : InsertCode(s, t, o, r)
  \/ PlaceCode \/ CompileFails \/ PlaceJumps
  \/ \E s \in Script : AllocateAssembly(s)

Spec == Init /\ [][Next]_vars

-----------------------------------------------------------------------------
\* What the game does when it comes to an address: the events until it is
\* neither at a site nor in its block.  An event is a byte that is run, an
\* instruction of the game, a call, or the address it goes on at.
Integer(a) == mem[a][2]

IsInt(a) ==
  \A n \in 1..4 : a + n - 1 \in DOMAIN mem /\ mem[a + n - 1] = <<"int", Integer(a), n>>

RunStep(h, st) ==
  LET a == st.at IN
  IF a # h.site /\ a \notin h.block..(h.block + h.size + 4) THEN st
  ELSE IF mem[a] = Byte(JMP) /\ IsInt(a + 1)
       THEN [st EXCEPT !.at = a + 5 + Integer(a + 1)]
  ELSE IF mem[a] = Byte(CALL) /\ IsInt(a + 1)
       THEN [at |-> a + 5, events |-> Append(st.events, <<"call", a + 5 + Integer(a + 1), 0>>)]
  ELSE [at |-> a + 1, events |-> Append(st.events, mem[a])]

Steps(h) ==
  LET st[n \in 0..(h.size + 2)] ==
        IF n = 0 THEN [at |-> h.site, events |-> <<>>] ELSE RunStep(h, st[n - 1])
  IN  st

Run(h) == Steps(h)[h.size + 2]

\* What the elements of a table say that the code does, up to each of them, and
\* the label behind which it goes on if that is still to come.
IsJump(code, i) ==
  /\ i < Len(code) /\ code[i].kind = "number" /\ code[i].value = JMP
  /\ code[i + 1].kind = "relTo"

Says(e) == CASE e.kind = "number" -> Number(e.value)
             [] e.kind = "bytes" -> e.value
             [] e.kind = "callTo" -> <<<<"call", e.value, 0>>>>
             [] e.kind = "assembly" -> Bytes(e.value, Assembly[e.value].atZero)
             [] OTHER -> <<>>

SaysNext(code, i, before) ==
  IF before.jump # {}
  THEN IF code[i].kind = "label" /\ code[i].value \in before.jump
       THEN [events |-> before.events, jump |-> {}] ELSE before
  ELSE IF IsJump(code, i)
  THEN [events |-> before.events, jump |-> {code[i + 1].value}]
  ELSE [events |-> before.events \o Says(code[i]), jump |-> {}]

Meanings(code) ==
  LET upTo[i \in 0..Len(code)] ==
        IF i = 0 THEN [events |-> <<>>, jump |-> {}] ELSE SaysNext(code, i, upTo[i - 1])
  IN  upTo

Meaning(code) == Meanings(code)[Len(code)].events

Promised(h) ==
  LET originals == [n \in 1..PatchSize[h.site] |-> Original(h.site + n - 1)]
      body      == Meaning(Source[h.table])
  IN  CASE h.original = "before" -> originals \o body
        [] h.original = "after" -> body \o originals
        [] OTHER -> body

\* A second hook that keeps what it overwrites would move the jump of the first.
Fresh(h) == h.cleanSite \/ h.original = "none"

Established ==
  {hooks[s] : s \in {u \in Site : hooks[u] # Idle /\ (call = Idle \/ call.site # u)}}

\* What callers keep to, and no code checks: a jump has five bytes, patches do not
\* overlap, and the code does not return to where a jump is.
WidePatches == \A s \in Site : PatchSize[s] >= 5

PatchesApart ==
  \A s, u \in Site : s # u => s + PatchSize[s] <= u \/ u + PatchSize[u] <= s

\* A distance of one byte would be written as one (core.compile).
HeapIsFar == \A s \in Site : s + 260 < Heap[1]

\* Integers and bytes spell neither a jump nor a call but where the table means one,
\* and jumps go forward.
Plain(cells) == \A n \in DOMAIN cells : cells[n] # Byte(JMP) /\ cells[n] # Byte(CALL)

WellSpelt(code) ==
  \A i \in 1..Len(code) :
    LET e == code[i] IN
    /\ e.kind = "number" => e.value # CALL /\ (e.value = JMP => IsJump(code, i))
    /\ e.kind = "bytes" => Plain(e.value)
    /\ e.kind = "relTo" => i > 1 /\ IsJump(code, i - 1)
                           /\ \E k \in Places(code, e.value) : k > i

Contracts ==
  /\ WidePatches /\ PatchesApart /\ HeapIsFar /\ Elsewhere \notin Site
  /\ \A t \in CodeTable : WellSpelt(Source[t])

\* Where a hook was established, the game does what the caller's table says,
\* with the overwritten instructions before or after it if they were asked for,
\* and goes on at the return address, whatever was hooked before and after it.
HooksRun ==
  \A h \in Established :
    h.cleanTable /\ Fresh(h) => Run(h) = [at |-> h.returnTo, events |-> Promised(h)]

\* The same of every hook, also of one whose table was passed before.
HooksRunAgain ==
  \A h \in Established :
    Fresh(h) => Run(h) = [at |-> h.returnTo, events |-> Promised(h)]

\* Of the game's code only the patch sizes that callers gave are overwritten.
OnlyPatchesOverwritten ==
  \A a \in Game :
    mem[a] = Original(a) \/ \E s \in Site : a \in s..(s + PatchSize[s] - 1)

\* The block of a hook is its own, and that of an assembled script: nothing is
\* written there again, neither for others nor by calls that fail.
BlocksAreKept ==
  [][/\ \A h \in Established :
          \A a \in h.block..(h.block + h.size + 4) : mem'[a] = mem[a]
     /\ \A x \in assembled :
          \A a \in x.block..(x.block + Len(x.bytes) - 1) : mem'[a] = mem[a]]_vars

\* "Assembles the string script into assembly and writes it to a new memory
\* location" (core.lua:658): all of it is there for as long as the game runs.
AssemblyIsThere ==
  \A x \in assembled : \A n \in DOMAIN x.bytes : mem[x.block + n - 1] = x.bytes[n]
=============================================================================
