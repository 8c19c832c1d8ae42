---------------------------- MODULE MCCodeInjection ----------------------------
EXTENDS CodeInjection

Sites == {10, 17}

Sizes == [s \in Sites |-> IF s = 10 THEN 6 ELSE 5]

GameCode == 8..24

HeapRange == <<1000, 1100>>

ElseAddress == 8

\* Tables that call, that jump to a label over an integer, and that fail.
Sources ==
  [calls |-> <<[kind |-> "number", value |-> 81], [kind |-> "callTo", value |-> 9]>>,
   jumps |-> <<[kind |-> "number", value |-> JMP], [kind |-> "relTo", value |-> "end"],
               [kind |-> "number", value |-> 70000], [kind |-> "label", value |-> "end"],
               [kind |-> "number", value |-> 82]>>,
   assembles |-> <<[kind |-> "assembly", value |-> "same"], [kind |-> "number", value |-> 84]>>,
   fails |-> <<[kind |-> "number", value |-> 83], [kind |-> "short", value |-> 0]>>]

Tables == DOMAIN Sources

Labels == {"end"}

\* Scripts of the same size at both addresses, that get shorter, and that can only
\* be assembled for the address 0.
Scripts == {"same", "shorter", "late"}

ScriptSizes ==
  [s \in Scripts |-> CASE s = "same" -> [atZero |-> 3, atBlock |-> 3]
                       [] s = "shorter" -> [atZero |-> 4, atBlock |-> 2]
                       [] OTHER -> [atZero |-> 2, atBlock |-> 0]]

\* A script that pushes one of its labels: with a byte if it is at 0.
PushesLabel == {"same", "longer"}

PushSizes ==
  [s \in PushesLabel |-> IF s = "same" THEN [atZero |-> 3, atBlock |-> 3] ELSE [atZero |-> 2, atBlock |-> 5]]

ASSUME ContractsHold == Contracts
=============================================================================
