------------------------------- MODULE MCLuaData -------------------------------
(* What Lua code looks up and keeps: the cache of addresses, for two patterns   *)
(* on two addresses, captures of patterns, and the user data of two extensions. *)
EXTENDS AobCache, AobExtract, UserData

Times(n, t) == [k \in 1..n |-> t]

Group(opens, n) == <<opens>> \o Times(n, "byte") \o <<")">>

\* Groups of all sizes that matter, with wildcards, nested, open and empty ones.
Pieces ==
  {<<"byte">>, <<"?">>, <<"bad">>, <<")">>, <<"(">>}
    \cup {Group("(", n) : n \in 0..2}
    \cup {Group("I(", n) : n \in {0, 3, 4, 5}}
    \cup {Group("@(", n) : n \in {4, 5, 6}}
    \cup {<<"I(", "?", "?", "byte", "byte", ")">>, <<"@(", "byte", "?", "?", "?", "?", ")">>,
          <<"(", "byte", "I(", "?", ")", ")">>}

Targets == {<<>>} \cup Pieces \cup {p \o q : p \in Pieces, q \in Pieces}
             \cup {p \o <<"byte">> \o q \o r : p \in Pieces, q \in Pieces,
                                               r \in {Group("(", 2), Group("I(", 4), Group("@(", 5)}}

Addresses == {16}

VARIABLE part    \* the part that runs: they share no state

CacheRests ==
  /\ exe = [x \in Addr |-> {}] /\ mem = exe /\ aobs = Empty /\ file = NoFile
  /\ stage = "done" /\ answer = None /\ patches = 0 /\ restarts = 0

ExtractRests ==
  /\ target = <<>> /\ i = 1 /\ aob = <<>> /\ groups = <<>> /\ currentgroup = 0
  /\ state = "parsing" /\ address = NoAddress /\ results = <<>>

MCInit ==
  /\ Init
  /\ part = "user data" \/ meta = [e \in Extension |-> Nothing]
  /\ \/ part = "cache" /\ CacheInit /\ ExtractRests
     \/ part = "user data" /\ CacheRests /\ ExtractRests
     \/ part = "captures" /\ CacheRests /\ ExtractInit

MCNext ==
  /\ UNCHANGED part
  /\ \/ part = "cache" /\ CacheNext /\ UNCHANGED <<vars, extractVars>>
     \/ part = "user data" /\ Next /\ UNCHANGED <<cacheVars, extractVars>>
     \/ part = "captures" /\ ExtractNext /\ UNCHANGED <<vars, cacheVars>>

\* The fairness of UserData, where it is what runs.
MCSpec ==
  /\ MCInit /\ [][MCNext]_<<vars, cacheVars, extractVars, part>>
  /\ part = "user data" => Fairness
=============================================================================
