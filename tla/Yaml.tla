---------------------------------- MODULE Yaml ----------------------------------
(***************************************************************************)
(* YAML and Lua: lua/yaml/LuaYamlParser.cpp (yaml.parse, yaml.eval) and      *)
(* lua/yaml/LuaYamlDumper.cpp (yaml.dump).  What is between the text and    *)
(* the nodes is done by yaml-cpp, which is not part of the repository.      *)
(*                                                                         *)
(* A node is a scalar, a sequence, a map or null; whether a scalar was      *)
(* quoted does not matter to the parser.  A Lua value is a record with the  *)
(* name of its type; the keys of a table are Lua values as well.  Tables    *)
(* to dump are those that come out of the parser, some entries removed:     *)
(* lua_next goes through their whole numbers in ascending order.            *)
(***************************************************************************)
LOCAL INSTANCE Naturals
LOCAL INSTANCE Sequences
LOCAL INSTANCE FiniteSets
LOCAL INSTANCE TLC

Scalar(text) == [scalar |-> text]
Sequence(s)  == [seq |-> s]
Map(f)       == [map |-> f]
Null         == [null |-> "~"]

Has(x, field) == field \in DOMAIN x

Nil      == [nil |-> "nil"]
Whole(n)   == [int |-> n]
Bool(b)  == [bool |-> b]
Float(t) == [float |-> t]     \* by the text a double is written as
Str(s)   == [str |-> s]
Table(f) == [table |-> f]
Error    == [error |-> "error"]

IsTable(v) == Has(v, "table")

\* t[k] for a key that is a string; a string has no such fields.
Get(v, k) == IF IsTable(v) /\ Str(k) \in DOMAIN v.table THEN v.table[Str(k)] ELSE Nil

Indexable(v) == IsTable(v) \/ Has(v, "str")

-----------------------------------------------------------------------------
(* The parser.  Some texts of each type stand for all of them.               *)

Bools   == "yes" :> TRUE @@ "true" :> TRUE @@ "no" :> FALSE @@ "false" :> FALSE
Ints    == "1" :> 1 @@ "7" :> 7
Doubles == "7.0" :> "7" @@ "2.5" :> "2.5" @@ "4294967303" :> "4294967303"

\* A key of a map that is itself a sequence or a map.
NoScalar == "? []"

\* parseScalarNode: the first type whose conversion succeeds; int has 32 bits.
Decode(text) ==
  IF text \in DOMAIN Bools THEN Bool(Bools[text])
  ELSE IF text \in DOMAIN Ints THEN Whole(Ints[text])
  ELSE IF text \in DOMAIN Doubles THEN Float(Doubles[text])
  ELSE Str(text)

\* Where the parser stops: at a key that is no scalar, and at a null in a sequence.
RECURSIVE Parses(_)
Parses(n) ==
  /\ Has(n, "map") => NoScalar \notin DOMAIN n.map /\ \A k \in DOMAIN n.map : Parses(n.map[k])
  /\ Has(n, "seq") => \A j \in DOMAIN n.seq : ~Has(n.seq[j], "null") /\ Parses(n.seq[j])

\* parseTableNode: setting a field to nil leaves it out.
RECURSIVE ParseValue(_)
Kept(f) == {k \in DOMAIN f : ~Has(f[k], "null")}

ParseMap(f) == Table([k \in {Str(s) : s \in Kept(f)} |-> ParseValue(f[k.str])])

\* Lua counts from one.
ParseSequence(s) == Table([k \in {Whole(j) : j \in Kept(s)} |-> ParseValue(s[k.int])])

ParseValue(n) ==
  CASE Has(n, "scalar") -> Decode(n.scalar)
    [] Has(n, "map")    -> ParseMap(n.map)
    [] Has(n, "seq")    -> ParseSequence(n.seq)
    [] Has(n, "null")   -> Nil

\* yaml.parse: null on its own is a table without fields.
Parse(n) == IF ~Parses(n) THEN Error ELSE IF Has(n, "null") THEN Table(<<>>) ELSE ParseValue(n)

-----------------------------------------------------------------------------
(* The dumper.                                                               *)

\* Mutant: what lua_toboolean returns is an int.
BooleansAsInts(v) ==
  CASE Has(v, "bool") -> Scalar(IF v.bool THEN "1" ELSE "0")
    [] Has(v, "int")   -> Scalar(ToString(v.int))
    [] Has(v, "float") -> Scalar(v.float)
    [] Has(v, "str")   -> Scalar(v.str)

DumpScalar(v) ==
  CASE Has(v, "int")   -> Scalar(ToString(v.int))
    [] Has(v, "bool")  -> Scalar(IF v.bool THEN "true" ELSE "false")
    [] Has(v, "float") -> Scalar(v.float)
    [] Has(v, "str")   -> Scalar(v.str)

\* The keys of a table have to be strings, or the whole numbers from 1 on.
RECURSIVE Dumpable(_)
Dumpable(v) ==
  IsTable(v) =>
    /\ \/ \A k \in DOMAIN v.table : Has(k, "str")
       \/ DOMAIN v.table = {Whole(j) : j \in 1..Cardinality(DOMAIN v.table)}
    /\ \A k \in DOMAIN v.table : Dumpable(v.table[k])

\* A table without fields leaves the node as it was made, which is null.
RECURSIVE DumpValue(_)
DumpTable(f) ==
  IF f = <<>> THEN Null
  ELSE IF \A k \in DOMAIN f : Has(k, "str") THEN Map([s \in {k.str : k \in DOMAIN f} |-> DumpValue(f[Str(s)])])
  ELSE Sequence([j \in 1..Cardinality(DOMAIN f) |-> DumpValue(f[Whole(j)])])

DumpValue(v) == IF IsTable(v) THEN DumpTable(v.table) ELSE DumpScalar(v)

\* yaml.dump
Dump(v) == IF Dumpable(v) THEN DumpValue(v) ELSE Error

-----------------------------------------------------------------------------
\* What dumping and parsing keeps: no table in it is empty, and no double is
\* written like an int.
RECURSIVE Keeps(_)
Keeps(v) ==
  IF IsTable(v) THEN DOMAIN v.table # {} /\ \A k \in DOMAIN v.table : Keeps(v.table[k])
  ELSE Has(v, "float") => v.float \notin DOMAIN Ints

Faithful(t) == \A k \in DOMAIN t.table : Keeps(t.table[k])
=============================================================================
