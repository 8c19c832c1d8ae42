----------------------------- MODULE MCConfigLoading ----------------------------
(* From names to what is loaded: every installation and requirement with an     *)
(* ordinary config, and many configs with one installation; the solver on every *)
(* graph over a few names; and the code that the loaded extensions insert.      *)
EXTENDS ConfigLoading, DependencySolver, MCCodeInjection, TLC

One == <<1>>
Two == <<2>>
Ten == <<1, 0>>

\* Two and three parts, and a part with two digits.
Versions ==
  {<<One, One, One>>, <<One, Two, One>>, <<Two, One, One>>, <<One, Ten, One>>, <<One, Two>>}

Maps(keys, nodes) == {Map(f) : f \in [keys -> nodes]}

Lacking(n, k) == Map([j \in DOMAIN n.map \ {k} |-> n.map[j]])

Having(n, k, v) == Map([j \in DOMAIN n.map \cup {k} |-> IF j = k THEN v ELSE n.map[j]])

Nothing == Map(<<>>)

Requirement == Sequence(<<Scalar(Text)>>)

FullOf(order, m1, p1) ==
  Map("load-order" :> order @@ "modules" :> m1 @@ "plugins" :> p1)

Document(full) ==
  Map("active" :> Scalar("true") @@ "config-full" :> full @@ "config-sparse" :> FullOf(Sequence(<<>>), Nothing, Nothing))

Ordinary == Document(FullOf(Requirement, Nothing, Nothing))

\* Options: scalars of each type, tables without entries, contents of any kind.
Leaves ==
  {Scalar(t) : t \in {"yes", "7", "7.0", "2.5", "4294967303", "word"}}
  \cup {Null, Nothing, Sequence(<<>>), Map(NoScalar :> Null)}

Contents ==
  {Map("contents" :> c) : c \in {Null, Scalar("word"), Sequence(<<Scalar("7")>>)}
     \cup UNION {Maps(keys, {Scalar("7"), Null, Map("contents" :> Map("value" :> Scalar("7")))})
                  : keys \in SUBSET {"value", "required-value", "suggested-value"}}}

Nodes == Leaves \cup Contents

Trees ==
  Nodes \cup Maps({"x", "y"}, Nodes) \cup {Map("x" :> Map("y" :> n)) : n \in Nodes}
  \cup {Map("x" :> Sequence(s)) : s \in UNION {[1..n -> Leaves \cup {Map("contents" :> Map("value" :> Scalar("7"))), Map("contents" :> Nothing)}] : n \in 1..3}}

OfOptions == {Document(FullOf(Requirement, Map("a" :> Map("config" :> t)), Nothing)) : t \in Trees}

\* Each place of the document with something else.
Odd == {Null, Nothing, Scalar("word"), Scalar("7"), Sequence(<<Scalar("7")>>), Sequence(<<Null>>),
        Map("a" :> Scalar("7")), Map("a" :> Scalar("word")), Map("a" :> Nothing), Map("b" :> Nothing)}

OfForms ==
  Odd \cup {NoFile}
  \cup {Having(Ordinary, k, n) : k \in {"active", "config-full", "config-sparse", "meta", "specification-version"}, n \in Odd \cup {Scalar("no")}}
  \cup {Lacking(Ordinary, k) : k \in {"active", "config-full", "config-sparse"}}
  \cup {Having(Having(Ordinary, "specification-version", Scalar("2.0.0")), k, n) :
           k \in {"meta", "config-full"}, n \in {Null, Scalar("7"), Map("version" :> Scalar("1.0.0"))}}
  \cup {Document(FullOf(o, p, q)) : o \in Odd \cup {Requirement}, p \in Odd, q \in Odd}
  \cup {Having(Ordinary, "config-sparse", Lacking(FullOf(Requirement, Nothing, Nothing), k)) : k \in Checked}
  \cup {Document(FullOf(Requirement, Map("a" :> Map("config" :> Map("x" :> Scalar("7")))),
                         Map("a" :> Map("config" :> n)))) : n \in Nodes}

Usual == [e \in Extension |-> [kind |-> "module", name |-> "a", version |-> <<One, One, One>>]]

\* One installation for each bag of extensions.
Described == [kind : Kinds, name : Name, version : Version]

Rank ==
  [e \in Described |->
     100 * Len(e.version) + 10 * e.version[2][1] + Len(e.version[2]) + 1000 * e.version[1][1]
     + (IF e.kind = "module" THEN 0 ELSE 10000) + (IF e.name = "a" THEN 0 ELSE 20000)]

ConfigStarts ==
  \/ /\ installed \in {f \in [Extension -> Described] : \A e, g \in Extension : e < g => Rank[f[e]] <= Rank[f[g]]}
     /\ ConfigInit({Ordinary})
  \/ /\ installed = Usual
     /\ req \in {[name |-> n, op |-> "==", version |-> <<One, One, One>>] : n \in Name}
     /\ ConfigInit(OfOptions \cup OfForms)

-----------------------------------------------------------------------------
VARIABLE part    \* the part that runs: they share no state

\* A part that does not run is where it starts, with one input or with nothing.
ConfigRests ==
  /\ installed = Usual
  /\ req = [name |-> "a", op |-> "==", version |-> <<One, One, One>>]
  /\ ConfigInit({NoFile})

SolverRests == modules = <<>> /\ SolverInit

InjectionRests ==
  /\ mem = [a \in Game |-> Original(a)] /\ tables = <<>> /\ top = 0 /\ calls = 0
  /\ call = Idle /\ hooks = [s \in Site |-> Idle] /\ fasm = "unloaded" /\ assembled = {}

MCInit ==
  \/ part = "config" /\ ConfigStarts /\ SolverRests /\ InjectionRests
  \/ part = "solver" /\ ConfigRests /\ SolverInit /\ InjectionRests
  \/ part = "injection" /\ ConfigRests /\ SolverRests /\ Init

MCNext ==
  /\ UNCHANGED part
  /\ \/ part = "config" /\ ConfigNext /\ UNCHANGED <<solverVars, vars>>
     \/ part = "solver" /\ SolverNext /\ UNCHANGED <<matchVars, configVars, vars>>
     \/ part = "injection" /\ Next /\ UNCHANGED <<matchVars, configVars, solverVars>>

MCSpec ==
  /\ MCInit /\ [][MCNext]_<<matchVars, configVars, solverVars, vars, part>>
  /\ WF_solverVars(part = "solver" /\ Round)
=============================================================================
