----------------------------- MODULE MCEnvironment -----------------------------
(* What Lua code gets at: a script the files of its own extension and other     *)
(* extensions, and the console the Lua state itself.                           *)
EXTENDS Require, Proxies, Console

Spellings == {"a", "b", "b/", "c"}

Files == {"a", "b"}

\* "b" and "b/" are one file; "c" is a library.
FilesOf == [s \in Spellings |-> CASE s = "a" -> "a" [] s \in {"b", "b/"} -> "b" [] OTHER -> None]

\* b requires at most one.
Requires ==
  /\ Init
  /\ Len(script["b"].needs) <= 1
  /\ script["a"].returns = "object" \/ script["a"].needs = <<>>

RequiresNothing ==
  /\ script = [f \in File |-> [needs |-> <<>>, returns |-> "nil"]]
  /\ LOADED = [s \in Spelling |-> Nil]
  /\ stack = <<>> /\ runs = 0 /\ done = {} /\ got = {} /\ calls = MaxCalls

\* A handle with enable and another field, a table with a field and perhaps a key
\* that is a table or a function, and a table with one field.
UsesOther ==
  /\ contents \in
       {[o \in Obj |-> [k \in Key |-> IF k = "get" THEN f[o]
                                     ELSE IF o = Handle THEN Fn("enables") ELSE Plain]]
          : f \in [Obj -> Value]}
  /\ elements \in
       {[o \in Obj |-> IF o = "table" THEN e ELSE {}]
          : e \in {{}, {Tab("inner")}, {Tab("handle")}, {Fn("gets")}}}
  /\ returned \in {[f \in Fun |-> IF f = "gets" THEN v ELSE Plain] : v \in Value}
  /\ stores \in SUBSET {"gets"}
  /\ ignored \in SUBSET {"get"}
  /\ public = {"get"}
  /\ held \in {{ExtProxy}, {PubProxy}}
  /\ written = {}

UsesNone ==
  /\ contents = [o \in Obj |-> [k \in Key |-> Plain]]
  /\ elements = [o \in Obj |-> {}]
  /\ returned = [f \in Fun |-> Plain]
  /\ stores = {} /\ ignored = {} /\ public = {} /\ held = {} /\ written = {}

\* Snippets that return two values or one that cannot be printed, statements, and
\* what is no Lua or raises an error.
Snippets ==
  {[loads |-> "expression", results |-> <<"x", "y">>, raises |-> "nothing"],
   [loads |-> "expression", results |-> <<"unprintable">>, raises |-> "nothing"],
   [loads |-> "statement", results |-> <<>>, raises |-> "nothing"],
   [loads |-> "statement", results |-> <<>>, raises |-> "text"],
   [loads |-> "expression", results |-> <<>>, raises |-> "other"],
   [loads |-> "neither", results |-> <<>>, raises |-> "nothing"]}

Left == <<"left">>

VARIABLE part    \* the part that runs: they share no state

MCInit ==
  /\ ConsoleInit
  /\ \/ part = "require" /\ Requires /\ UsesNone
     \/ part = "proxies" /\ RequiresNothing /\ UsesOther
     \/ part = "console" /\ RequiresNothing /\ UsesNone

MCNext ==
  /\ UNCHANGED part
  /\ \/ part = "require" /\ Next /\ UNCHANGED <<proxyVars, consoleVars>>
     \/ part = "proxies" /\ ProxyNext /\ UNCHANGED <<vars, consoleVars>>
     \/ part = "console" /\ ConsoleNext /\ UNCHANGED <<vars, proxyVars>>

MCSpec == MCInit /\ [][MCNext]_<<vars, proxyVars, consoleVars, part>>
=============================================================================
