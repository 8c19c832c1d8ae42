--------------------------------- MODULE Require ---------------------------------
(***************************************************************************)
(* require: of the scripts of an extension (extensions/environment.lua)    *)
(* and of UCP's own code (Preload.cpp).  Both read and run a file, keep    *)
(* what it returned under the text it was asked for with, and pass its     *)
(* errors on; a script may require others, and may catch their errors.     *)
(*                                                                         *)
(* What a script returns is an object of that run, false or nil.           *)
(***************************************************************************)
EXTENDS Naturals, Sequences, SequencesExt

CONSTANTS
  File,
  Spelling,        \* what is asked for: "a.b" and "a/b" are one file
  FileOf,          \* spelling -> file, or None if there is none or it is illegal
  Binary,          \* the spellings that end in ".dll", of extensions that may have such
  Restricted,      \* TRUE: the require of extensions, FALSE: that of UCP's code
  MaxNeeds,        \* bound on what one script requires
  MaxDepth,        \* the calls that can be nested in C (LUAI_MAXCCALLS)
  MaxCalls,        \* bound on the calls from outside
  None

ASSUME RequireAssumption ==
  /\ None \notin File /\ FileOf \in [Spelling -> File \cup {None}]
  /\ Binary \subseteq {s \in Spelling : Restricted /\ FileOf[s] = None}
  /\ Restricted \in BOOLEAN /\ MaxDepth \in Nat \ {0}
  /\ MaxNeeds \in Nat /\ MaxCalls \in Nat

VARIABLES
  script,          \* file -> what it requires, one after the other, and what it returns
  LOADED,          \* spelling -> what is kept, or Nil
  stack,           \* the scripts that run, the innermost last
  runs,            \* how many runs were begun
  done,            \* the runs that came to their end
  got,             \* what calls returned: spelling and value
  calls

vars == <<script, LOADED, stack, runs, done, got, calls>>

-----------------------------------------------------------------------------
Nil == [is |-> "nil", run |-> 0]
False == [is |-> "false", run |-> 0]
Object(r) == [is |-> "object", run |-> r]
Library == [is |-> "library", run |-> 0]

Running == Len(stack)

Scripts == [needs : SeqOf(Spelling, MaxNeeds), returns : {"object", "false", "nil"}]

Init ==
  /\ script \in [File -> Scripts]
  /\ LOADED = [s \in Spelling |-> Nil]
  /\ stack = <<>> /\ runs = 0 /\ done = {} /\ got = {} /\ calls = 0

\* The spelling that the innermost script requires next.
Due(s) ==
  /\ stack # <<>>
  /\ LET top == Last(stack) IN
       /\ top.next <= Len(script[FileOf[top.as]].needs)
       /\ s = script[FileOf[top.as]].needs[top.next]

\* A call of require(s), by the innermost script or from outside.
Asked(s) ==
  \/ Due(s) /\ UNCHANGED calls
  \/ stack = <<>> /\ calls < MaxCalls /\ calls' = calls + 1

\* frames, where the innermost script went on.
GoneOn(frames) ==
  IF frames = <<>> THEN frames ELSE [frames EXCEPT ![Len(frames)].next = @ + 1]

\* ~= nil for extensions, true in a condition for UCP's code.
Kept(s) == LOADED[s].is \in IF Restricted THEN {"object", "false"} ELSE {"object"}

\* What is kept is returned.
Cached(s) ==
  /\ Kept(s) /\ Asked(s)
  /\ stack' = GoneOn(stack)
  /\ got' = got \cup {<<s, LOADED[s]>>}
  /\ UNCHANGED <<script, LOADED, runs, done>>

\* The library is opened and asked for its Lua module, each time anew: what it
\* returns is not kept here, but it is under its name in package.loaded.
RequireBinary(s) ==
  /\ s \in Binary /\ Asked(s)
  /\ stack' = GoneOn(stack)
  /\ got' = got \cup {<<s, Library>>}
  /\ UNCHANGED <<script, LOADED, runs, done>>

\* The file is read, and its code is called.
Enter(s) ==
  /\ ~Kept(s) /\ FileOf[s] # None /\ Running < MaxDepth /\ Asked(s)
  /\ stack' = Append(stack, [as |-> s, next |-> 1, run |-> runs + 1])
  /\ runs' = runs + 1
  /\ UNCHANGED <<script, LOADED, done, got>>

\* An error thrown by one of the n innermost scripts ends those, and is caught
\* by the next one, or by none.
Thrown(n) == stack' = GoneOn(SubSeq(stack, 1, Running - n))

\* No such file or library, an illegal name, or calls that are nested too deep.
Refuse(s) ==
  /\ FileOf[s] = None \/ Running = MaxDepth
  /\ ~Kept(s) /\ Asked(s)
  /\ \E n \in 0..Running : Thrown(n)
  /\ UNCHANGED <<script, LOADED, runs, done, got>>

\* The innermost script raises an error, or its code does not load.
Raise ==
  /\ stack # <<>>
  /\ \E n \in 1..Running : Thrown(n)
  /\ UNCHANGED <<script, LOADED, runs, done, got, calls>>

\* Mutant: what a script returned is not kept.
ReturnUnkept ==
  /\ stack # <<>>
  /\ LET top   == Last(stack)
         value == CASE script[FileOf[top.as]].returns = "object" -> Object(top.run)
                    [] script[FileOf[top.as]].returns = "false" -> False
                    [] OTHER -> Nil
     IN  /\ top.next > Len(script[FileOf[top.as]].needs)
         /\ stack' = GoneOn(Front(stack))
         /\ done' = done \cup {top.run}
         /\ got' = got \cup {<<top.as, value>>}
  /\ UNCHANGED <<script, LOADED, runs, calls>>

\* The innermost script comes to its end.
Return ==
  /\ stack # <<>>
  /\ LET top   == Last(stack)
         value == CASE script[FileOf[top.as]].returns = "object" -> Object(top.run)
                    [] script[FileOf[top.as]].returns = "false" -> False
                    [] OTHER -> Nil
     IN  /\ top.next > Len(script[FileOf[top.as]].needs)
         /\ stack' = GoneOn(Front(stack))
         /\ LOADED' = [LOADED EXCEPT ![top.as] = value]
         /\ done' = done \cup {top.run}
         /\ got' = got \cup {<<top.as, value>>}
  /\ UNCHANGED <<script, runs, calls>>

Next ==
  \/ \E s \in Spelling : Cached(s) \/ RequireBinary(s) \/ Enter(s) \/ Refuse(s)
  \/ Raise \/ Return

Spec == Init /\ [][Next]_vars

-----------------------------------------------------------------------------
Values == {Nil, False} \cup {Object(r) : r \in 1..runs}

Needs(s, t) == FileOf[s] # None /\ t \in Range(script[FileOf[s]].needs)

\* Does s require t, itself or by way of other scripts?  Then t is in every set
\* that has what s requires, and what its own members require.
Reaches(s, t) ==
  \A S \in SUBSET Spelling :
    (\A u, v \in Spelling : Needs(u, v) /\ u \in S \cup {s} => v \in S) => t \in S

InCycle(s) == Reaches(s, s)

\* Everybody who requires a file by one spelling gets the same object, whatever
\* failed and was required again in between, unless the script requires itself
\* by way of others: then a script inside it has another object than the rest.
\* Nobody, in a cycle or not, gets an object whose script is still running or has
\* failed.
OneFinishedObject ==
  /\ \A x, y \in got : (x[1] = y[1] /\ ~InCycle(x[1])) => x[2] = y[2]
  /\ \A x \in got \cup {<<s, LOADED[s]>> : s \in Spelling} : x[2].is = "object" => x[2].run \in done
=============================================================================
