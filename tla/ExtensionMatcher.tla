--------------------------- MODULE ExtensionMatcher ----------------------------
(***************************************************************************)
(* Which of the installed extensions answers an entry of the load order:   *)
(* config/matcher.lua over version/init.lua, and its use by main.lua, which *)
(* looks among the modules and, only if none matches, among the plugins.    *)
(*                                                                         *)
(* The parts of a version are the TEXT between its dots; a part that is    *)
(* not there is the number 0.  Lua compares text with text and numbers     *)
(* with numbers, and raises an error for one of each.                       *)
(***************************************************************************)
EXTENDS Integers, Sequences

CONSTANTS
  Extension,       \* what can be installed
  Name,            \* the names of extensions
  Version,         \* versions: one to three parts, each a sequence of digits
  Operator,        \* the operators of the requirements
  None             \* no extension

ASSUME MatcherAssumption ==
  /\ \A v \in Version :
       /\ Len(v) \in 1..3
       /\ \A i \in 1..Len(v) : v[i] \in Seq(0..9) /\ v[i] # <<>>
  /\ Operator \subseteq {"==", ">", ">=", "<", "<="}
  /\ None \notin Extension

VARIABLES
  installed,       \* extension -> its kind, name and version
  req,             \* the requirement
  kind,            \* the folder that is looked through
  rest,            \* the extensions of it that pairs() has not come to
  m,               \* the match so far
  status           \* "searching", "found", "none" or "raised"

matchVars == <<installed, req, kind, rest, m, status>>

-----------------------------------------------------------------------------
Kinds == {"module", "plugin"}

Missing == <<>>

\* SemanticVersion:fromString
Part(v, i) == IF i <= Len(v) THEN v[i] ELSE Missing

\* Lua's < on text: the first character in which they differ decides.
TextLess(p, q) ==
  \E i \in 1..Len(q) :
    /\ \A j \in 1..(i - 1) : j <= Len(p) /\ p[j] = q[j]
    /\ i > Len(p) \/ p[i] < q[i]

\* compareSemanticVersions: the first part in which they differ decides.
Compare(v, w) ==
  LET differs == {i \in 1..3 : Part(v, i) # Part(w, i)}
      first   == CHOOSE i \in differs : \A j \in differs : i <= j
  IN  IF differs = {} THEN "equal"
      ELSE IF Missing \in {Part(v, first), Part(w, first)} THEN "error"
      ELSE IF TextLess(Part(v, first), Part(w, first)) THEN "less" ELSE "greater"

Ver(e) == installed[e].version

Of(k) == {e \in Extension : installed[e].kind = k}

Satisfying(op) == CASE op = "==" -> {"equal"}
                    [] op = ">" -> {"greater"}
                    [] op = ">=" -> {"greater", "equal"}
                    [] OTHER -> {}

MatchInit ==
  /\ installed \in [Extension -> [kind : Kinds, name : Name, version : Version]]
  /\ req \in [name : Name, op : Operator, version : Version]
  /\ kind = "module"
  /\ rest = Of("module")
  /\ m = None
  /\ status = "searching"

\* Mutant: the last one that satisfies the requirement is taken.
TakesLast(e) == TRUE

\* Is e, which satisfies the requirement, taken instead of the match so far?
Replaces(e) ==
  \/ m = None
  \/ req.op = "=="
  \/ Compare(Ver(e), Ver(m)) = "greater"

\* A version that cannot be compared ends the search with an error.
CannotCompare(e) ==
  /\ installed[e].name = req.name
  /\ \/ req.op \in {"==", ">", ">="} /\ Compare(Ver(e), req.version) = "error"
     \/ /\ Compare(Ver(e), req.version) \in Satisfying(req.op)
        /\ req.op # "==" /\ m # None
        /\ Compare(Ver(e), Ver(m)) = "error"

\* One extension of the folder, in any order.
Consider(e) ==
  /\ status = "searching" /\ e \in rest
  /\ ~CannotCompare(e)
  /\ rest' = rest \ {e}
  /\ m' = IF /\ installed[e].name = req.name
             /\ Compare(Ver(e), req.version) \in Satisfying(req.op)
             /\ Replaces(e)
          THEN e ELSE m
  /\ UNCHANGED <<installed, req, kind, status>>

Raise(e) ==
  /\ status = "searching" /\ e \in rest
  /\ CannotCompare(e)
  /\ status' = "raised"
  /\ UNCHANGED <<installed, req, kind, rest, m>>

Found ==
  /\ status = "searching" /\ rest = {} /\ m # None
  /\ status' = "found"
  /\ UNCHANGED <<installed, req, kind, rest, m>>

\* No module matches.
LookAmongPlugins ==
  /\ status = "searching" /\ rest = {} /\ m = None
  /\ kind = "module"
  /\ kind' = "plugin"
  /\ rest' = Of("plugin")
  /\ UNCHANGED <<installed, req, m, status>>

\* Mutant: the search ends when no module matches.
NoPlugins ==
  /\ status = "searching" /\ rest = {} /\ m = None
  /\ status' = "none"
  /\ UNCHANGED <<installed, req, kind, rest, m>>

NotFound ==
  /\ status = "searching" /\ rest = {} /\ m = None
  /\ kind = "plugin"
  /\ status' = "none"
  /\ UNCHANGED <<installed, req, kind, rest, m>>

MatchNext ==
  \/ \E e \in Extension : Consider(e) \/ Raise(e)
  \/ Found \/ LookAmongPlugins \/ NotFound

MatchSpec == MatchInit /\ [][MatchNext]_matchVars

-----------------------------------------------------------------------------
\* What versions MEAN: numbers, with 0 for a part that is not there.
Values(p) ==
  LET value[i \in 0..Len(p)] == IF i = 0 THEN 0 ELSE 10 * value[i - 1] + p[i]
  IN  value

NumberOf(p) == Values(p)[Len(p)]

Order(v, w) ==
  LET differs == {i \in 1..3 : NumberOf(Part(v, i)) # NumberOf(Part(w, i))}
      first   == CHOOSE i \in differs : \A j \in differs : i <= j
  IN  IF differs = {} THEN "equal"
      ELSE IF NumberOf(Part(v, first)) < NumberOf(Part(w, first)) THEN "less" ELSE "greater"

Answers(e) ==
  installed[e].name = req.name /\ Order(Ver(e), req.version) \in Satisfying(req.op)

\* Text has the order of the numbers as long as the parts at one place have as many
\* digits: 1.10.1 is older than 1.2.1 for the code.
SameDigits ==
  LET versions == {req.version} \cup {Ver(e) : e \in {f \in Extension : installed[f].name = req.name}}
  IN  \A v, w \in versions : \A i \in 1..3 :
        {Part(v, i), Part(w, i)} \cap {Missing} # {} \/ Len(Part(v, i)) = Len(Part(w, i))

\* The extension that is loaded is one that the requirement asks for, and no
\* newer one of its folder would have done: whatever order pairs() went through
\* the folder in, a candidate must not be overwritten by an older one.
FindsTheNewest ==
  status = "found" /\ SameDigits =>
    /\ Answers(m)
    /\ \A e \in Of(kind) : Answers(e) => Order(Ver(e), Ver(m)) # "greater"

\* A plugin answers, or the entry is skipped, only where no module could answer;
\* the entry is skipped only where no plugin could either.  The search fails only
\* over a version with fewer or more parts than the one that is required: those
\* with as many can be compared, whatever their digits are.
MissesNothing ==
  /\ SameDigits =>
       /\ status = "found" /\ kind = "plugin" => \A e \in Of("module") : ~Answers(e)
       /\ status = "none" => \A e \in Extension : ~Answers(e)
  /\ status = "raised" =>
       \E e \in Extension : installed[e].name = req.name /\ Len(Ver(e)) # Len(req.version)
=============================================================================
