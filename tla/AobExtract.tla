------------------------------- MODULE AobExtract -------------------------------
(***************************************************************************)
(* utils.AOBExtract (utils.lua): searching for an array of bytes with      *)
(* capture groups, and reading what the groups stand over.                 *)
(*                                                                         *)
(* A target is a sequence of tokens: "byte" (two digits), "?" (any byte),  *)
(* "(", "I(" and "@(" that open a group, ")", and "bad" for whatever else  *)
(* the parser refuses.  What is read from memory is known by its place.    *)
(***************************************************************************)
EXTENDS Naturals, Sequences, FiniteSets

CONSTANTS
  Target,          \* the targets that are asked for
  Address,         \* where they can be found
  NoAddress

Byte == {"byte", "?"}
Opening == {"(", "I(", "@("}
Token == Byte \cup Opening \cup {")", "bad"}

ASSUME ExtractAssumption ==
  /\ Target \subseteq Seq(Token)
  /\ Address \subseteq Nat /\ NoAddress \notin Address

VARIABLES
  target,
  i,               \* the token that is parsed next
  aob,             \* the bytes so far
  groups,          \* the groups so far: how they open, first and last byte
  currentgroup,    \* the open group, or 0
  state,           \* "parsing", "scanning", "reading", "logging", "returned", "raised"
  address,         \* where the scan found the target
  results

extractVars == <<target, i, aob, groups, currentgroup, state, address, results>>

-----------------------------------------------------------------------------
ExtractInit ==
  /\ target \in Target
  /\ i = 1 /\ aob = <<>> /\ groups = <<>> /\ currentgroup = 0
  /\ state = "parsing"
  /\ address = NoAddress /\ results = <<>>

Raises == state' = "raised" /\ UNCHANGED <<target, i, aob, groups, currentgroup, address, results>>

(* The parser, token by token.                                               *)

More(t) == state = "parsing" /\ i <= Len(target) /\ t = target[i] /\ i' = i + 1

\* The first byte of a group sets its start; nil, here 0, until then.
ParseByte(t) ==
  /\ More(t) /\ t \in Byte
  /\ aob' = Append(aob, t)
  /\ groups' = IF currentgroup # 0 /\ groups[currentgroup].start = 0
               THEN [groups EXCEPT ![currentgroup].start = Len(aob')]
               ELSE groups
  /\ UNCHANGED <<target, currentgroup, state, address, results>>

\* Mutant: the group starts at the byte before it.
OpenAtLast(t) ==
  /\ More(t) /\ t \in Opening /\ currentgroup = 0
  /\ groups' = Append(groups, [opens |-> t, start |-> Len(aob), stop |-> 0])
  /\ currentgroup' = Len(groups')
  /\ UNCHANGED <<target, aob, state, address, results>>

OpenGroup(t) ==
  /\ More(t) /\ t \in Opening /\ currentgroup = 0
  /\ groups' = Append(groups, [opens |-> t, start |-> 0, stop |-> 0])
  /\ currentgroup' = Len(groups')
  /\ UNCHANGED <<target, aob, state, address, results>>

Size(g) == 1 + g.stop - g.start

\* An integer has four bytes, a jump or call five.
SizeOf(opens) == CASE opens = "I(" -> {4} [] opens = "@(" -> {5} [] opens = "(" -> Nat

Closed == [groups[currentgroup] EXCEPT !.stop = Len(aob)]

CanClose == currentgroup # 0 /\ Closed.start # 0 /\ Size(Closed) \in SizeOf(Closed.opens)

CloseGroup(t) ==
  /\ More(t) /\ t = ")" /\ CanClose
  /\ groups' = [groups EXCEPT ![currentgroup] = Closed]
  /\ currentgroup' = 0
  /\ UNCHANGED <<target, aob, state, address, results>>

\* Groups in groups, parentheses without a partner, groups without a byte or of
\* the wrong size, and what is no token.
SyntaxError ==
  /\ state = "parsing"
  /\ IF i > Len(target) THEN currentgroup # 0
     ELSE \/ target[i] = "bad"
          \/ target[i] \in Opening /\ currentgroup # 0
          \/ target[i] = ")" /\ ~CanClose
  /\ Raises

Parsed ==
  /\ state = "parsing" /\ i > Len(target) /\ currentgroup = 0
  /\ state' = "scanning"
  /\ UNCHANGED <<target, i, aob, groups, currentgroup, address, results>>

-----------------------------------------------------------------------------
(* core.AOBScan on the bytes of the target.                                  *)

\* A text of less than two characters is refused by scanForAOB.
TooShort == aob \in {<<>>, <<"?">>}

ScanTarget ==
  /\ state = "scanning"
  /\ \/ Raises
     \/ /\ ~TooShort
        /\ address' \in Address /\ state' = "reading"
        /\ UNCHANGED <<target, i, aob, groups, currentgroup, results>>

(* The next group is read.  A result is a number or a table, with the first   *)
(* byte that was read and how many, and what was added to the number.         *)
Result(g) ==
  LET at == address + g.start - 1 IN
  CASE g.opens = "I(" -> [is |-> "number", from |-> at, bytes |-> 4, plus |-> 0]
    [] g.opens = "("  -> [is |-> "table", from |-> at, bytes |-> Size(g), plus |-> 0]
    [] g.opens = "@(" -> [is |-> "number", from |-> at + 1, bytes |-> 4, plus |-> at + 5]

Extract ==
  /\ state = "reading" /\ Len(results) < Len(groups)
  /\ results' = Append(results, Result(groups[Len(results) + 1]))
  /\ UNCHANGED <<target, i, aob, groups, currentgroup, state, address>>

Extracted ==
  /\ state = "reading" /\ Len(results) = Len(groups)
  /\ state' = "logging"
  /\ UNCHANGED <<target, i, aob, groups, currentgroup, address, results>>

\* The first result is formatted as a hexadecimal number, or the text "nil|0" is.
Loggable == results # <<>> /\ results[1].is = "number"

Log ==
  /\ state = "logging"
  /\ IF Loggable
     THEN state' = "returned" /\ UNCHANGED <<target, i, aob, groups, currentgroup, address, results>>
     ELSE Raises

ExtractNext ==
  \/ \E t \in Token : ParseByte(t) \/ OpenGroup(t) \/ CloseGroup(t)
  \/ SyntaxError \/ Parsed \/ ScanTarget \/ Extract \/ Extracted \/ Log

ExtractSpec == ExtractInit /\ [][ExtractNext]_extractVars

-----------------------------------------------------------------------------
(* What a target means, read off the text as a whole.                         *)

Opens(s) == {k \in DOMAIN s : s[k] \in Opening}

\* The parenthesis that closes the one at k, if the group is closed.
Closes(s, k) == {m \in DOMAIN s : m > k /\ s[m] = ")" /\ \A n \in k + 1 .. m - 1 : s[n] # ")"}

\* The places in memory under the tokens from k to m, for a target found at a.
PlacesUnder(s, a, k, m) ==
  LET before(n) == Cardinality({o \in 1 .. n - 1 : s[o] \in Byte})
  IN  {a + before(n) : n \in {o \in k .. m : s[o] \in Byte}}

Reads(r) == {r.from + n : n \in 0 .. r.bytes - 1}

\* The n-th result is what stands in memory under the n-th pair of parentheses, as
\* whole bytes or a number of these bytes, and for a jump the number behind its
\* first byte together with the address behind its last: nothing is shifted by
\* other groups, wildcards or parentheses.  When the reading is over, every group has
\* its result.
CapturesTheirBytes ==
  /\ state \in {"logging", "returned"} => Len(results) = Cardinality(Opens(target))
  /\ \A n \in DOMAIN results :
       \E k \in Opens(target) : \E m \in Closes(target, k) :
         LET under == PlacesUnder(target, address, k, m)
             r     == results[n]
         IN  /\ Cardinality({o \in Opens(target) : o <= k}) = n
             /\ r.is = "table" <=> target[k] = "("
             /\ IF target[k] = "@("
                THEN Reads(r) = {x \in under : \E y \in under : y < x} /\ r.plus - 1 \in under
                                /\ \A x \in under : x < r.plus
                ELSE Reads(r) = under /\ r.plus = 0

\* "If the target is found, capture groups are evaluated and also returned"
\* (utils.lua): no error comes after the scan.
FoundIsReturned == address # NoAddress => state # "raised"
=============================================================================
