------------------------------- MODULE MCStartup -------------------------------
(* Two names; a load order of up to three requirements. *)
EXTENDS Startup

Ext(k, n, v) == [kind |-> k, name |-> n, ver |-> v]
Reqs == {[name |-> n, ver |-> v] : n \in Names, v \in {1, 2}}

File(sig, listed) == [sig |-> sig, listed |-> listed]

Config(possible) ==
  [installed : SUBSET possible,
   active    : BOOLEAN,
   order     : UNION {[1..n -> Reqs] : n \in 0..3},
   sections  : SUBSET (Kinds \X Names),
   files     : {[e \in possible |-> File("absent", TRUE)]}]

\* A name is a module or a plugin, with sections for extensions by the kind they are
\* installed as; or one name is both.
OneKind ==
  {c \in Config({Ext("module", "a", 1), Ext("module", "a", 2), Ext("plugin", "b", 1)}) :
     /\ c.sections \subseteq {<<"module", "a">>, <<"plugin", "b">>}
     /\ ~c.active => c.sections = {} /\ c.order = << >>}

Namesakes ==
  {c \in Config({Ext("module", "a", 1), Ext("plugin", "a", 1), Ext("plugin", "a", 2)}) :
     /\ \A n \in DOMAIN c.order : c.order[n].name = "a"
     /\ \A s \in c.sections : s[2] = "a"
     /\ c.active}

\* One module, with any file, and a plugin: what is verified.
Two == {Ext("module", "a", 1), Ext("plugin", "b", 1)}

ToVerify ==
  [installed : {Two},
   active    : {TRUE},
   order     : {<<[name |-> "a", ver |-> 1], [name |-> "b", ver |-> 1]>>},
   sections  : {{}},
   files     : {[e \in Two |-> f] : f \in Files}]

AllInputs == OneKind \cup Namesakes \cup ToVerify

\* host.args are the options of the command line without "--ucp-".
Switches == {"security", "no-security", "console", "no-console"}

Stores == {[sig |-> s, listed |-> FALSE, readable |-> r] : s \in Sigs, r \in BOOLEAN}
Codes  == {[sig |-> s, listed |-> l, zip |-> z] : s \in {"absent", "genuine"}, l \in BOOLEAN, z \in BOOLEAN}

SoundStore == [sig |-> "genuine", listed |-> FALSE, readable |-> TRUE]
SoundCode  == [sig |-> "absent", listed |-> TRUE, zip |-> TRUE]

\* Every way to start a sound installation; a few ways to start any installation.
AllHosts ==
  [compiled : BOOLEAN, debug : BOOLEAN, args : SUBSET Switches \cup {{"unparsable"}},
   store : {SoundStore}, code : {SoundCode}]
  \cup
  [compiled : BOOLEAN, debug : {FALSE}, args : SUBSET {"security", "no-security"},
   store : Stores, code : Codes]

Plain(h) == ~h.compiled /\ h.args = {} /\ h.store = SoundStore /\ h.code = SoundCode

Sound(h) == h.store = SoundStore /\ h.code = SoundCode /\ h.args \subseteq {"security"}

\* Every input on a developer's build, what is verified on every host, and any
\* file of a module where the store and the code are sound.
MCInit ==
  /\ host \in AllHosts
  /\ input \in CASE Plain(host) -> AllInputs
                 [] Sound(host) /\ ~Plain(host) -> ToVerify
                 [] OTHER -> {c \in ToVerify : \A e \in Two : c.files[e] = File("absent", TRUE)}
  /\ Init

MCSpec == MCInit /\ [][Next]_vars /\ Fairness
=============================================================================
