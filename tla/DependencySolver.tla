--------------------------- MODULE DependencySolver ---------------------------
(***************************************************************************)
(* The layered dependency solver of the Lua side (DependencySolver:solve   *)
(* in extensions/dependencies.lua) together with the flattening that       *)
(* config/order.lua, its only user, makes of its answer.  A start of the   *)
(* game does not come here: main.lua takes the order from the user's       *)
(* config, and neither it nor what it requires calls the solver.           *)
(*                                                                         *)
(* The table handed to the solver maps the name of every installed         *)
(* extension to the names in its definition.yml.  Nothing upstream checks  *)
(* that those names are installed, nor that the graph is acyclic, so       *)
(* every partial graph over Ext is an input.                               *)
(***************************************************************************)
EXTENDS Naturals, Sequences

CONSTANT Ext                   \* the names an extension can have or depend on

VARIABLES
  modules,                     \* the argument: a table name -> names
  d,                           \* what is left of it
  r                            \* the layers found so far

solverVars == <<modules, d, r>>

Graphs == UNION {[S -> SUBSET Ext] : S \in SUBSET Ext}

-----------------------------------------------------------------------------
(* Set:subtract and Set:update of extensions/utils.lua are \ and \cup.       *)

Mentioned(g) == UNION {g[k] : k \in DOMAIN g}

Dependants(g) == {k \in DOMAIN g : g[k] # {}}

\* Mutant: whatever is mentioned is placed, installed or not.
EagerLayer(g) == Mentioned(g) \cup (DOMAIN g \ Dependants(g))

\* Mutant: names that are not installed are not placed.
InstalledLayer(g) == DOMAIN g \ Dependants(g)

\* Mutant: a turn that frees nothing places all that is left.
CycleBreakingLayer(g) ==
  LET t == (Mentioned(g) \ DOMAIN g) \cup (DOMAIN g \ Dependants(g)) IN
  IF t = {} THEN DOMAIN g ELSE t

\* t = (t1:subtract(t2)):update(t3): what is only a dependency, and the
\* extensions that wait for nothing.
Layer(g) == (Mentioned(g) \ DOMAIN g) \cup (DOMAIN g \ Dependants(g))

\* Mutant: an extension whose last dependency was placed is dropped.
DropFreed(g, t) == [k \in {m \in DOMAIN g : g[m] \ t # {}} |-> g[k] \ t]

\* d2: the extensions that still waited, without what was just placed.
Without(g, t) == [k \in Dependants(g) |-> g[k] \ t]

\* Everything placed in the layers of q.
Placed(q) == UNION {q[i] : i \in DOMAIN q}

-----------------------------------------------------------------------------
SolverInit ==
  /\ modules \in Graphs
  /\ d = modules
  /\ r = << >>

\* One turn of the while loop.  A turn that finds an empty layer appends an
\* empty table, which config/order.lua drops when it flattens the layers; r
\* leaves it out, so that a loop that goes on for ever is a finite graph.
Round ==
  /\ DOMAIN d # {}
  /\ LET t == Layer(d) IN
       /\ r' = IF t = {} THEN r ELSE Append(r, t)
       /\ d' = Without(d, t)
  /\ UNCHANGED modules

\* The loop is left and the layers are returned.
Done == DOMAIN d = {}

Returned == Done /\ UNCHANGED solverVars

SolverNext == Round \/ Returned

SolverSpec == SolverInit /\ [][SolverNext]_solverVars /\ WF_solverVars(Round)

-----------------------------------------------------------------------------
SolverTypeOK ==
  /\ modules \in Graphs
  /\ d \in Graphs
  /\ r \in Seq(SUBSET Ext)

\* config/order.lua flattens the layers from first to last into a load order: in it
\* whatever is placed finds all it depends on in EARLIER layers, also what was
\* placed long before by way of a name that is not installed.
OrderRespectsDependencies ==
  \A i \in DOMAIN r : \A k \in r[i] \cap DOMAIN modules :
    modules[k] \subseteq UNION {r[j] : j \in 1..(i - 1)}

\* No extension is in the flattened list twice.
PlacedOnce ==
  \A i, j \in DOMAIN r : i # j => r[i] \cap r[j] = {}

\* When the solver returns, the order holds every installed extension and every
\* name one of them mentions, and nothing else.
CompleteWhenDone ==
  Done => Placed(r) = DOMAIN modules \cup Mentioned(modules)

\* What is left is exactly the part of the input the layers do not answer.
Remainder ==
  /\ DOMAIN d = DOMAIN modules \ Placed(r)
  /\ \A k \in DOMAIN d : d[k] = modules[k] \ Placed(r)

-----------------------------------------------------------------------------
\* A set of extensions each of which depends on one of the set: the part of the
\* graph that is on a cycle or behind one.
Knot(S) == S # {} /\ \A k \in S : modules[k] \cap S # {}

Acyclic == ~ \E S \in SUBSET DOMAIN modules : Knot(S)

\* solve() returns for every acyclic table, also when names are missing.
AcyclicReturns == Acyclic ~> Done

\* On a cyclic table the while loop never ends: what remains is a knot that no
\* later turn can loosen, and the code has no test for it.
CyclicNeverReturns == ~Acyclic => []~Done
=============================================================================
