--------------------------------- MODULE Console -------------------------------
(***************************************************************************)
(* The console thread (console.cpp): it reads lines, and runs what is no   *)
(* command on the one Lua state of the process.  The hooks of the game's   *)
(* thread use that state too, and nothing orders the two: both push and    *)
(* pop on the same stack.                                                  *)
(*                                                                         *)
(* Of a snippet matters whether Lua can load it as an expression, as a     *)
(* statement or not at all, and what it returns or raises.                 *)
(***************************************************************************)
EXTENDS Naturals, Sequences

CONSTANTS
  LuaValue,        \* what can lie on the Lua stack
  Snippet,         \* what can be typed
  Resting,         \* what main.lua has left on the stack
  MaxStack         \* bound on what the two threads leave there when they meet

ASSUME ConsoleAssumption ==
  /\ MaxStack \in Nat
  /\ {"nil", "chunk", "error", "hook"} \subseteq LuaValue
  /\ Resting \in Seq(LuaValue)
  /\ \A s \in Snippet :
    /\ s.results \in Seq(LuaValue)
    /\ s.loads \in {"expression", "statement", "neither"}
    /\ s.raises \in {"nothing", "text", "other"}

VARIABLES
  lua,             \* the Lua stack
  console,         \* "prompt", "load", "run", "print", "ended" or "crashed"
  snippet,         \* the one that was typed last
  before,          \* the size of the stack when it was
  shown,           \* what was printed for it
  inHook,          \* the game's thread is in a hook's Lua function
  met              \* the two threads used the state at the same time

consoleVars == <<lua, console, snippet, before, shown, inHook, met>>

-----------------------------------------------------------------------------
NoSnippet == [loads |-> "statement", results |-> <<>>, raises |-> "nothing"]

ConsoleInit ==
  /\ lua = Resting
  /\ console = "prompt"
  /\ snippet = NoSnippet /\ before = 0 /\ shown = <<>>
  /\ inHook = FALSE /\ met = FALSE

\* lua_settop; a stack that is shorter is filled up with nil.
SetTop(stack, n) == [i \in 1..n |-> IF i <= Len(stack) THEN stack[i] ELSE "nil"]

\* A line is read that is neither empty nor a command.
TypeSnippet(s) ==
  /\ console = "prompt" /\ console' = "load" /\ Len(lua) <= MaxStack
  /\ snippet' = s /\ before' = Len(lua) /\ shown' = <<>>
  /\ met' = (met \/ inHook)
  /\ UNCHANGED <<lua, inHook>>

\* The command exit ends the thread.
TypeExit ==
  /\ console = "prompt" /\ console' = "ended"
  /\ UNCHANGED <<lua, snippet, before, shown, inHook, met>>

\* What the snippet gave is printed, and the stack is as before.
Answers(lines) ==
  /\ shown' = lines /\ lua' = SetTop(lua, before) /\ console' = "prompt"

\* luaL_loadstring, of "return " and the code, and if that fails of the code alone.
Load ==
  /\ console = "load"
  /\ IF snippet.loads = "neither" THEN Answers(<<"message">>)
     ELSE lua' = Append(lua, "chunk") /\ console' = "run" /\ UNCHANGED shown
  /\ UNCHANGED <<snippet, before, inHook, met>>

\* lua_pcall puts the results, or the error, where the function was.  An error
\* that is no text is the NULL that a std::string is made of.
Run ==
  /\ console = "run"
  /\ lua # <<>>
  /\ LET rest == SubSeq(lua, 1, Len(lua) - 1) IN
     CASE snippet.raises = "nothing" ->
            lua' = rest \o snippet.results /\ console' = "print" /\ UNCHANGED shown
       [] snippet.raises = "text" -> Answers(<<"message">>)
       [] OTHER -> lua' = Append(rest, "error") /\ console' = "crashed" /\ UNCHANGED shown
  /\ UNCHANGED <<snippet, before, inHook, met>>

\* Mutant: the values are counted from the wrong end.
PrintLast ==
  /\ console = "print"
  /\ Answers(SubSeq(lua, Len(lua) - before + 1, Len(lua)))
  /\ UNCHANGED <<snippet, before, inHook, met>>

\* Everything above what was there is printed; luaL_tolstring is called outside
\* of lua_pcall: a __tostring that raises an error ends the process.
PrintResults ==
  /\ console = "print"
  /\ LET values == SubSeq(lua, before + 1, Len(lua)) IN
       IF \E i \in DOMAIN values : values[i] = "unprintable"
       THEN console' = "crashed" /\ UNCHANGED <<lua, shown>>
       ELSE Answers(values)
  /\ UNCHANGED <<snippet, before, inHook, met>>

\* A hook calls its Lua function on the game's thread, which then returns.
HookEnters ==
  /\ ~inHook /\ console # "crashed" /\ inHook' = TRUE /\ Len(lua) <= MaxStack
  /\ lua' = Append(lua, "hook")
  /\ met' = (met \/ console \notin {"prompt", "ended"})
  /\ UNCHANGED <<console, snippet, before, shown>>

HookLeaves ==
  /\ inHook /\ console # "crashed" /\ inHook' = FALSE
  /\ lua' = SubSeq(lua, 1, Len(lua) - 1)
  /\ UNCHANGED <<console, snippet, before, shown, met>>

ConsoleNext ==
  \/ \E s \in Snippet : TypeSnippet(s)
  \/ TypeExit \/ Load \/ Run \/ PrintResults \/ HookEnters \/ HookLeaves

ConsoleSpec == ConsoleInit /\ [][ConsoleNext]_consoleVars

-----------------------------------------------------------------------------
Answer(s) ==
  IF s.loads = "neither" \/ s.raises # "nothing" THEN <<"message">> ELSE s.results

\* As long as no hook ran its Lua while a snippet did: what is shown for a snippet
\* is all that it returned, in order, or its error, and nothing of what lay on the
\* stack before; and it leaves the stack as it was, for the hooks and the next one.
SnippetsAnswer ==
  ~met /\ console \in {"prompt", "ended"} =>
    /\ shown = Answer(snippet)
    /\ lua = IF inHook THEN Append(Resting, "hook") ELSE Resting
=============================================================================
