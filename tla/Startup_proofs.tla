----------------------------- MODULE Startup_proofs -----------------------------
(***************************************************************************)
(* Proofs about Startup, for any names, configs, disks, builds and command *)
(* lines: what runs in secure mode was verified and nothing stays acquired *)
(* of the crypto API, the console waits for the script, extensions are     *)
(* found in the order of the config, see the proxies of those before them, *)
(* get their own options, and go through the stages of ExtensionLifecycle. *)
(***************************************************************************)
EXTENDS Startup, NumberInduction, SequenceTheorems

-----------------------------------------------------------------------------
(* One verification.                                                         *)

Verdicts == {"none", "accepted", "refused", "failed", "raised"}

Checks ==
  [doing : {"nothing", "signature", "hash"}, call : Nat \ {0}, held : SUBSET Resources,
   verdict : Verdicts]

Sane(c) ==
  /\ c \in Checks
  /\ c.doing = "nothing" => c.held = {} /\ c.verdict # "failed"
  /\ c.doing # "nothing" => c.held \subseteq Freed[c.doing] /\ c.verdict \in {"none", "failed"}

\* What a verification that has come that far says of the file.
Proven(c, f) ==
  /\ c.doing = "signature" /\ c.verdict = "none" /\ c.call > 11 => f.sig = "genuine"
  /\ c.verdict = "accepted" => Vouched(f)

\* That of the store is of its signature.
BySignature(c, f) == c.doing # "hash" /\ (c.verdict = "accepted" => f.sig = "genuine")

Fresh(c) == c.doing = "nothing" /\ c.verdict = "none" /\ c.held = {}

LEMMA UncheckedIs ==
  Sane(Unchecked) /\ Fresh(Unchecked)
BY DEF Unchecked, Sane, Fresh, Checks, Verdicts

LEMMA BegunIs ==
  ASSUME NEW what \in {"signature", "hash"}
  PROVE  /\ Sane(Begun(what)) /\ Begun(what).doing = what /\ Begun(what).verdict = "none"
         /\ Begun(what).call = 1
BY DEF Begun, Unchecked, Sane, Checks, Verdicts

LEMMA RuledIs ==
  ASSUME NEW v \in {"accepted", "refused", "raised"}
  PROVE  Sane(Ruled(v)) /\ Ruled(v).doing = "nothing" /\ Ruled(v).verdict = v
BY DEF Ruled, Unchecked, Sane, Checks, Verdicts

LEMMA VerifyFileIs ==
  ASSUME NEW f
  PROVE  /\ Sane(VerifyFile(f)) /\ Proven(VerifyFile(f), f) /\ BySignature(VerifyFile(f), f)
<1>1. /\ Sane(Ruled("refused")) /\ Ruled("refused").doing = "nothing"
      /\ Ruled("refused").verdict = "refused"
  BY RuledIs
<1>2. /\ Sane(Begun("signature")) /\ Begun("signature").doing = "signature"
      /\ Begun("signature").verdict = "none" /\ Begun("signature").call = 1
  BY BegunIs
<1>3. VerifyFile(f) = Ruled("refused") \/ VerifyFile(f) = Begun("signature")
  BY DEF VerifyFile
<1> QED
  BY <1>1, <1>2, <1>3 DEF Proven, BySignature

\* The place of a call in the sequences of calls.
LEMMA CallsAre ==
  /\ DOMAIN Calls = {"signature", "hash"}
  /\ Len(Calls["signature"]) = 11 /\ Len(Calls["hash"]) = 4
  /\ Calls["signature"][11] = "verify"
  /\ \A k \in 1 .. 4 : Calls["hash"][k] \in {"context", "hash", "data", "value"}
BY DEF Calls

LEMMA FreedIs ==
  Freed["signature"] = Resources /\ Freed["hash"] = {"hash", "context"}
BY DEF Freed, Resources

LEMMA ForgottenIs ==
  ASSUME Sane(check), check.doing = "nothing"
  PROVE  Sane(Forgotten) /\ Fresh(Forgotten)
BY DEF Forgotten, Unchecked, Sane, Fresh, Checks, Verdicts

LEMMA CallIs ==
  ASSUME Sane(check), NEW f, Proven(check, f), CallApi(f)
  PROVE  /\ Sane(check') /\ Proven(check', f)
         /\ check'.doing = check.doing /\ check'.verdict # "accepted"
<1>1. /\ check.doing \in {"signature", "hash"} /\ check.call \in Nat \ {0}
      /\ check.call <= Len(Calls[check.doing]) /\ check.held \subseteq Freed[check.doing]
      /\ check.verdict \in {"none", "failed"} /\ check \in Checks
  BY CallsAre DEF CallApi, InCalls, Sane, Checks
<1>2. CASE /\ Current = "verify" => f.sig = "genuine"
           /\ check' = [check EXCEPT !.call = @ + 1, !.held = @ \cup ({Current} \cap Resources)]
  <2>1. {Current} \cap Resources \subseteq Freed[check.doing]
    <3>1. CASE check.doing = "signature"
      BY <3>1, FreedIs
    <3>2. CASE check.doing = "hash"
      <4>1. check.call \in 1 .. 4
        BY <1>1, <3>2, CallsAre
      <4> QED
        BY <3>2, <4>1, CallsAre, FreedIs DEF Current, Resources
    <3> QED
      BY <1>1, <3>1, <3>2
  <2> DEFINE h == {Current} \cap Resources
  <2>2. h \subseteq Resources
    OBVIOUS
  <2>3. check' = [check EXCEPT !.call = check.call + 1, !.held = check.held \cup h]
    BY <1>2
  <2>4. check.call + 1 \in Nat \ {0}
    BY <1>1
  <2> HIDE DEF h
  <2>5. /\ check' \in Checks /\ check'.doing = check.doing /\ check'.call = check.call + 1
        /\ check'.held = check.held \cup h /\ check'.verdict = check.verdict
    BY <1>1, <2>2, <2>3, <2>4 DEF Checks
  <2>6. Sane(check')
    BY <1>1, <2>1, <2>5 DEF Sane, h
  <2>7. ASSUME check.doing = "signature", check.call + 1 > 11
        PROVE  f.sig = "genuine"
    <3>1. check.call = 11
      BY <1>1, <2>7, CallsAre
    <3> QED
      BY <1>2, <2>7, <3>1, CallsAre DEF Current
  <2>8. check'.verdict # "accepted"
    BY <1>1, <2>5
  <2> QED
    BY <2>5, <2>6, <2>7, <2>8 DEF Proven
<1>3. CASE check' = [check EXCEPT !.call = Len(Calls[check.doing]) + 1, !.verdict = "failed"]
  <2>1. Len(Calls[check.doing]) + 1 \in Nat \ {0}
    BY <1>1, CallsAre
  <2>2. /\ check' \in Checks /\ check'.doing = check.doing /\ check'.held = check.held
        /\ check'.verdict = "failed"
    BY <1>1, <1>3, <2>1 DEF Checks, Verdicts
  <2> QED
    BY <1>1, <2>2 DEF Sane, Proven
<1> QED
  BY <1>2, <1>3 DEF CallApi

\* The held resources go, whatever was decided.
LEMMA HeldIs ==
  ASSUME NEW c, Sane(c), c.held = {}, NEW h, h = {}
  PROVE  LET d == [c EXCEPT !.held = h]
         IN  /\ Sane(d) /\ d.doing = c.doing /\ d.call = c.call /\ d.verdict = c.verdict
BY DEF Sane, Checks

LEMMA ExitIs ==
  ASSUME Sane(check), NEW f, Proven(check, f), MainExit(f)
  PROVE  /\ Sane(check') /\ Proven(check', f)
         /\ check.doing \in {"signature", "hash"}
         /\ check.doing = "signature" => BySignature(check', f)
<1> DEFINE r == IF check.doing = "hash" THEN HashVerdict(f) ELSE SignatureVerdict
           h == check.held \ Freed[check.doing]
<1>1. /\ check.doing \in {"signature", "hash"} /\ ~(check.call <= Len(Calls[check.doing]))
      /\ check' = [r EXCEPT !.held = h]
  BY CallsAre DEF MainExit, InCalls
<1>2. h = {}
  BY <1>1 DEF Sane
<1>3. /\ Sane(Ruled("refused")) /\ Ruled("refused").doing = "nothing"
      /\ Ruled("refused").verdict = "refused"
      /\ Sane(Ruled("raised")) /\ Ruled("raised").doing = "nothing"
      /\ Ruled("raised").verdict = "raised"
      /\ Sane(Ruled("accepted")) /\ Ruled("accepted").doing = "nothing"
      /\ Ruled("accepted").verdict = "accepted"
  BY RuledIs
<1>4. /\ Sane(r) /\ Proven(r, f) /\ r.held = {}
      /\ check.doing = "signature" => BySignature(r, f)
  <2>1. CASE check.doing = "hash"
    <3>1. \/ r = Ruled("raised") \/ (f.listed /\ r = Ruled("accepted"))
          \/ r = VerifyFile(f)
      BY <2>1 DEF HashVerdict
    <3>2. Ruled("raised").held = {} /\ Ruled("accepted").held = {} /\ VerifyFile(f).held = {}
      BY DEF Ruled, VerifyFile, Begun, Unchecked
    <3> QED
      BY <1>3, <2>1, <3>1, <3>2, VerifyFileIs DEF Proven, Vouched
  <2>2. CASE check.doing = "signature"
    <3>1. \/ check.verdict = "failed" /\ r = Ruled("refused")
          \/ check.verdict # "failed" /\ r = Ruled("accepted")
      BY <2>2 DEF SignatureVerdict
    <3>2. Ruled("refused").held = {} /\ Ruled("accepted").held = {}
      BY DEF Ruled, Unchecked
    <3>3. check.verdict # "failed" => f.sig = "genuine"
      <4>1. check.call \in Nat \ {0} /\ check.verdict \in {"none", "failed"}
        BY <2>2 DEF Sane, Checks
      <4>2. check.call > 11
        BY <1>1, <2>2, <4>1, CallsAre
      <4> QED
        BY <2>2, <4>1, <4>2 DEF Proven
    <3> QED
      BY <1>3, <3>1, <3>2, <3>3 DEF Proven, Vouched, BySignature
  <2> QED
    BY <1>1, <2>1, <2>2
<1> HIDE DEF r, h
<1>5. Sane(check') /\ check'.doing = r.doing /\ check'.call = r.call /\ check'.verdict = r.verdict
  BY <1>1, <1>2, <1>4, HeldIs
<1> QED
  BY <1>1, <1>4, <1>5 DEF Proven, BySignature

-----------------------------------------------------------------------------
(* The loops of the script.                                                   *)

BeforeLoad == Before \cup {"fixes", "config", "match", "join", "write"}

Places == pc \in Before \cup Working \cup Ended /\ input \in Inputs /\ host \in Hosts

TheSequences ==
  /\ found \in Seq(input.installed)
  /\ sees \in Seq(SUBSET (Kinds \X Names))
  /\ enabled \in Seq(input.sections \cup {NoSection})

JoinedOK == \A k \in DOMAIN joined : joined[k] \in input.sections

Distinct ==
  /\ DOMAIN aliases = {Id(found[n]) : n \in DOMAIN found}
  /\ \A n, m \in DOMAIN found : n # m => Id(found[n]) # Id(found[m])

\* How far the loops are.
Counters ==
  /\ Len(enabled) <= Len(sees) /\ Len(sees) <= Len(found)
  /\ enabled # << >> => Len(sees) = Len(found)
  /\ pc \in BeforeLoad => sees = << >> /\ enabled = << >>
  /\ pc = "load" => i = Len(sees) + 1 /\ enabled = << >>
  /\ pc \in {"enable", "finish", "done"} => Len(sees) = Len(found)
  /\ pc = "enable" => i = Len(enabled) + 1

Published == proxies = {Id(found[m]) : m \in 1 .. Len(sees)}

LoopInv ==
  Places /\ TheSequences /\ JoinedOK /\ Distinct /\ Counters /\ Published /\ SeesTheEarlier

\* A step that is in no loop: nothing is found, loaded or enabled.
Still ==
  /\ UNCHANGED <<host, input, matching, joined, sees, proxies, enabled>>
  /\ \/ pc' = pc /\ i' = i
     \/ pc \in BeforeLoad /\ pc' \in BeforeLoad
     \/ pc' \in Ended \ {"done"}

LEMMA PlacesAre ==
  /\ BeforeLoad \subseteq Before \cup Working \cup Ended
  /\ \A p \in BeforeLoad : p \notin {"load", "enable", "finish", "done"}
  /\ \A p \in Ended \ {"done"} : p \notin BeforeLoad \cup {"load", "enable", "finish", "done"}
BY DEF BeforeLoad, Before, Working, Ended, Failed

LEMMA StillKeeps ==
  ASSUME LoopInv, Still
  PROVE  LoopInv'
<1>1. /\ UNCHANGED <<host, input, found, loaders, aliases, joined, sees, proxies, enabled>>
  BY DEF Still, matching
<1>2. Places'
  BY <1>1, PlacesAre DEF Still, LoopInv, Places
<1>3. TheSequences' /\ JoinedOK' /\ Distinct' /\ Published' /\ SeesTheEarlier'
  BY <1>1 DEF LoopInv, TheSequences, JoinedOK, Distinct, Published, SeesTheEarlier
<1>4. Counters'
  BY <1>1, PlacesAre DEF Still, LoopInv, Counters
<1> QED
  BY <1>2, <1>3, <1>4 DEF LoopInv

\* A sequence with one more.
LEMMA Longer ==
  ASSUME NEW S, NEW s \in Seq(S), NEW e \in S
  PROVE  /\ Append(s, e) \in Seq(S) /\ Len(Append(s, e)) = Len(s) + 1
         /\ Len(s) \in Nat /\ DOMAIN s = 1 .. Len(s)
         /\ DOMAIN Append(s, e) = 1 .. (Len(s) + 1)
         /\ Append(s, e)[Len(s) + 1] = e
         /\ \A k \in 1 .. Len(s) : Append(s, e)[k] = s[k]
<1>1. Append(s, e) \in Seq(S) /\ Len(Append(s, e)) = Len(s) + 1
      /\ Append(s, e)[Len(s) + 1] = e /\ \A k \in 1 .. Len(s) : Append(s, e)[k] = s[k]
  BY AppendProperties
<1>2. /\ Len(s) \in Nat /\ DOMAIN s = 1 .. Len(s)
      /\ DOMAIN Append(s, e) = 1 .. Len(Append(s, e))
  BY <1>1, LenProperties
<1> QED
  BY <1>1, <1>2

LEMMA LengthsAre ==
  ASSUME TheSequences
  PROVE  /\ Len(found) \in Nat /\ DOMAIN found = 1 .. Len(found)
         /\ Len(sees) \in Nat /\ DOMAIN sees = 1 .. Len(sees)
         /\ Len(enabled) \in Nat /\ DOMAIN enabled = 1 .. Len(enabled)
<1>1. Len(found) \in Nat /\ DOMAIN found = 1 .. Len(found)
  BY LenProperties DEF TheSequences
<1>2. Len(sees) \in Nat /\ DOMAIN sees = 1 .. Len(sees)
  BY LenProperties DEF TheSequences
<1>3. Len(enabled) \in Nat /\ DOMAIN enabled = 1 .. Len(enabled)
  BY LenProperties DEF TheSequences
<1> QED
  BY <1>1, <1>2, <1>3

LEMMA IdIs ==
  ASSUME Places, NEW e \in input.installed
  PROVE  Id(e) \in Kinds \X Names
BY StartupAssumption DEF Places, Id

LEMMA MatchesIs ==
  ASSUME NEW r, NEW e \in Matches(r)
  PROVE  e \in input.installed
BY DEF Matches

LEMMA MatchKeeps ==
  ASSUME LoopInv, Match
  PROVE  LoopInv'
<1>1. PICK e \in Matches(Req) :
        /\ Id(e) \notin DOMAIN aliases /\ aliases' = With(aliases, Id(e), e.ver)
        /\ found' = Append(found, e)
  BY DEF Match
<1>2. /\ pc = "match" /\ pc' = pc
      /\ UNCHANGED <<host, input, joined, sees, proxies, enabled>>
  BY DEF Match, world, running
<1>3. e \in input.installed
  BY <1>1, MatchesIs
<1>4. /\ found' \in Seq(input.installed) /\ Len(found') = Len(found) + 1
      /\ DOMAIN found' = 1 .. (Len(found) + 1) /\ found'[Len(found) + 1] = e
      /\ \A k \in 1 .. Len(found) : found'[k] = found[k]
      /\ Len(found) \in Nat /\ DOMAIN found = 1 .. Len(found)
  BY <1>1, <1>3, Longer DEF LoopInv, TheSequences
<1>5. sees = << >> /\ enabled = << >> /\ Len(sees) = 0 /\ Len(enabled) = 0
  BY <1>2, EmptySeq DEF LoopInv, Counters, BeforeLoad
<1>6. TheSequences' /\ JoinedOK' /\ Places'
  BY <1>2, <1>4 DEF LoopInv, TheSequences, JoinedOK, Places
<1>7. Distinct'
  <2>1. DOMAIN aliases' = DOMAIN aliases \cup {Id(e)}
    BY <1>1 DEF With
  <2>2. \A n \in DOMAIN found : Id(found'[n]) = Id(found[n]) /\ Id(found[n]) # Id(e)
    BY <1>1, <1>4 DEF LoopInv, Distinct
  <2>3. Id(found'[Len(found) + 1]) = Id(e) /\ DOMAIN found' = DOMAIN found \cup {Len(found) + 1}
    BY <1>4
  <2>4. DOMAIN aliases' = {Id(found'[n]) : n \in DOMAIN found'}
    BY <2>1, <2>2, <2>3 DEF LoopInv, Distinct
  <2>5. \A n, m \in DOMAIN found' : n # m => Id(found'[n]) # Id(found'[m])
    BY <2>2, <2>3 DEF LoopInv, Distinct
  <2> QED
    BY <2>4, <2>5 DEF Distinct
<1>8. Counters'
  BY <1>2, <1>4, <1>5 DEF Counters, BeforeLoad, Before
<1>9. Published' /\ SeesTheEarlier'
  <2>1. 1 .. Len(sees) = {} /\ DOMAIN sees = {}
    BY <1>5
  <2> QED
    BY <1>2, <1>4, <2>1 DEF LoopInv, Published, SeesTheEarlier
<1> QED
  BY <1>6, <1>7, <1>8, <1>9 DEF LoopInv

LEMMA ProxiesAre ==
  ASSUME LoopInv
  PROVE  proxies \subseteq Kinds \X Names
<1>1. Len(found) \in Nat /\ DOMAIN found = 1 .. Len(found) /\ Len(sees) \in Nat
  BY LengthsAre DEF LoopInv
<1>2. \A n \in DOMAIN found : Id(found[n]) \in Kinds \X Names
  BY <1>1, IdIs, ElementOfSeq DEF LoopInv, TheSequences
<1> QED
  BY <1>1, <1>2 DEF LoopInv, Published, Counters

LEMMA LoadKeeps ==
  ASSUME LoopInv, Load
  PROVE  LoopInv'
<1>1. /\ pc = "load" /\ pc' = pc /\ i <= Len(found) /\ i' = i + 1
      /\ sees' = Append(sees, proxies) /\ proxies' = proxies \cup {Id(found[i])}
      /\ UNCHANGED <<host, input, found, aliases, joined, enabled>>
  BY DEF Load, world, matching
<1>2. /\ i = Len(sees) + 1 /\ enabled = << >> /\ Len(enabled) = 0
      /\ Len(found) \in Nat /\ DOMAIN found = 1 .. Len(found) /\ Len(sees) \in Nat
  BY <1>1, LengthsAre, EmptySeq DEF LoopInv, Counters
<1>3. i \in DOMAIN found
  BY <1>1, <1>2
<1>4. proxies \subseteq Kinds \X Names
  BY ProxiesAre
<1>5. /\ sees' \in Seq(SUBSET (Kinds \X Names)) /\ Len(sees') = Len(sees) + 1
      /\ DOMAIN sees' = 1 .. (Len(sees) + 1) /\ sees'[Len(sees) + 1] = proxies
      /\ \A k \in 1 .. Len(sees) : sees'[k] = sees[k]
      /\ DOMAIN sees = 1 .. Len(sees)
  BY <1>1, <1>4, Longer DEF LoopInv, TheSequences
<1>6. TheSequences' /\ JoinedOK' /\ Places' /\ Distinct'
  BY <1>1, <1>5 DEF LoopInv, TheSequences, JoinedOK, Places, Distinct
<1>7. Counters'
  BY <1>1, <1>2, <1>5 DEF Counters, BeforeLoad, Before
<1>8. Published'
  BY <1>1, <1>2, <1>5 DEF LoopInv, Published
<1>9. SeesTheEarlier'
  <2>1. ASSUME NEW n \in DOMAIN sees'
        PROVE  sees'[n] = {Id(found[m]) : m \in 1 .. (n - 1)}
    <3>1. CASE n = Len(sees) + 1
      BY <1>2, <1>5, <3>1 DEF LoopInv, Published
    <3>2. CASE n # Len(sees) + 1
      BY <1>2, <1>5, <3>2 DEF LoopInv, SeesTheEarlier
    <3> QED
      BY <3>1, <3>2
  <2> QED
    BY <1>1, <2>1 DEF SeesTheEarlier
<1> QED
  BY <1>6, <1>7, <1>8, <1>9 DEF LoopInv

LEMMA EnableKeeps ==
  ASSUME LoopInv, Enable
  PROVE  LoopInv'
<1>1. /\ pc = "enable" /\ pc' = pc /\ i <= Len(found) /\ i' = i + 1
      /\ enabled' = Append(enabled, Options(found[i]))
      /\ UNCHANGED <<host, input, found, aliases, joined, sees, proxies>>
  BY DEF Enable, world, matching
<1>2. /\ i = Len(enabled) + 1 /\ Len(sees) = Len(found)
      /\ Len(found) \in Nat /\ Len(enabled) \in Nat
  BY <1>1, LengthsAre DEF LoopInv, Counters
<1>3. Options(found[i]) \in input.sections \cup {NoSection}
  BY DEF Options, LoopInv, JoinedOK
<1>4. enabled' \in Seq(input.sections \cup {NoSection}) /\ Len(enabled') = Len(enabled) + 1
  BY <1>1, <1>3, Longer DEF LoopInv, TheSequences
<1>5. TheSequences' /\ JoinedOK' /\ Places' /\ Distinct' /\ Published' /\ SeesTheEarlier'
  BY <1>1, <1>4 DEF LoopInv, TheSequences, JoinedOK, Places, Distinct, Published, SeesTheEarlier
<1>6. Counters'
  BY <1>1, <1>2, <1>4 DEF Counters, BeforeLoad, Before
<1> QED
  BY <1>5, <1>6 DEF LoopInv

LEMMA JoinKeeps ==
  ASSUME LoopInv, JoinConfig
  PROVE  LoopInv'
<1> DEFINE Keys == {SectionKey(s) : s \in input.sections}
           Pick(k, s) == /\ SectionKey(s) = k
                         /\ \A t \in input.sections : SectionKey(t) = k => t = s \/ s[1] = "plugin"
<1>1. /\ pc = "join" /\ pc' = "write"
      /\ joined' = [k \in Keys |-> CHOOSE s \in input.sections : Pick(k, s)]
      /\ UNCHANGED <<host, input, found, aliases, sees, proxies, enabled>>
  BY DEF JoinConfig, Goto, world, matching, running
<1>2. ASSUME NEW k \in Keys
      PROVE  \E s \in input.sections : Pick(k, s)
  <2>1. PICK s \in input.sections : SectionKey(s) = k
    OBVIOUS
  <2>2. \A t \in input.sections : t \in Kinds \X Names
    BY StartupAssumption DEF LoopInv, Places
  <2>3. CASE \E t \in input.sections : SectionKey(t) = k /\ t[1] = "plugin"
    BY <2>3
  <2>4. CASE ~\E t \in input.sections : SectionKey(t) = k /\ t[1] = "plugin"
    <3>1. ASSUME NEW t \in input.sections, SectionKey(t) = k
          PROVE  t = s
      <4>1. t[1] = "module" /\ s[1] = "module"
        BY <2>1, <2>2, <2>4, <3>1 DEF Kinds
      <4>2. t[2] = s[2]
        BY <2>1, <3>1 DEF SectionKey
      <4> QED
        BY <2>2, <4>1, <4>2
    <3> QED
      BY <2>1, <3>1
  <2> QED
    BY <2>3, <2>4
<1>3. \A k \in Keys : (CHOOSE s \in input.sections : Pick(k, s)) \in input.sections
  <2> HIDE DEF Pick, Keys
  <2> QED
    BY <1>2
<1>4. JoinedOK'
  BY <1>1, <1>3 DEF JoinedOK
<1>5. TheSequences' /\ Places' /\ Distinct' /\ Published' /\ SeesTheEarlier'
  BY <1>1, PlacesAre DEF LoopInv, TheSequences, Places, Distinct, Published, SeesTheEarlier, BeforeLoad
<1>6. Counters'
  BY <1>1, PlacesAre DEF LoopInv, Counters, BeforeLoad
<1> QED
  BY <1>4, <1>5, <1>6 DEF LoopInv

\* From one loop to the next.
LEMMA LoopEnds ==
  ASSUME LoopInv, WriteConfig \/ LoadDone \/ EnableDone \/ Finish
  PROVE  LoopInv'
<1>1. UNCHANGED <<host, input, found, aliases, joined, sees, proxies, enabled>>
  BY DEF WriteConfig, LoadDone, EnableDone, Finish, world, matching, running
<1>2. TheSequences' /\ JoinedOK' /\ Distinct' /\ Published' /\ SeesTheEarlier'
  BY <1>1 DEF LoopInv, TheSequences, JoinedOK, Distinct, Published, SeesTheEarlier
<1>3. Places'
  BY <1>1 DEF LoopInv, Places, WriteConfig, LoadDone, EnableDone, Finish, Goto, Working, Ended
<1>4. /\ Len(found) \in Nat /\ Len(sees) \in Nat /\ Len(enabled) \in Nat
      /\ (sees = << >> => Len(sees) = 0) /\ (enabled = << >> => Len(enabled) = 0)
  BY LengthsAre, EmptySeq DEF LoopInv
<1>5. ASSUME WriteConfig PROVE Counters'
  BY <1>1, <1>4, <1>5 DEF LoopInv, Counters, WriteConfig, Goto, BeforeLoad, Before
<1>6. ASSUME LoadDone PROVE Counters'
  BY <1>1, <1>4, <1>6 DEF LoopInv, Counters, LoadDone, Goto, BeforeLoad, Before
<1>7. ASSUME EnableDone PROVE Counters'
  BY <1>1, <1>4, <1>7 DEF LoopInv, Counters, EnableDone, Goto, BeforeLoad, Before
<1>8. ASSUME Finish PROVE Counters'
  BY <1>1, <1>4, <1>8 DEF LoopInv, Counters, Finish, Goto, BeforeLoad, Before
<1> QED
  BY <1>2, <1>3, <1>5, <1>6, <1>7, <1>8 DEF LoopInv

\* The other steps.
LEMMA DllIsStill ==
  ASSUME LoopInv, Dll
  PROVE  Still
<1>1. CASE Detour
  BY <1>1 DEF Detour, Still, world, script, running, matching, BeforeLoad, Before
<1>2. CASE MakeCore
  BY <1>2 DEF MakeCore, Still, world, script, running, BeforeLoad, Before, Ended
<1>3. CASE ProcessArguments
  BY <1>3 DEF ProcessArguments, Still, world, script, running, BeforeLoad, Before, Ended
<1>4. CASE OpenStore
  BY <1>4 DEF OpenStore, Still, world, script, running, BeforeLoad, Before, Ended
<1>5. CASE InitializeLua
  BY <1>5 DEF InitializeLua, Still, world, script, running, BeforeLoad, Before, Ended
<1>6. CASE VerifyCode
  BY <1>6 DEF VerifyCode, Still, world, script, running, BeforeLoad, Before, Ended, Failed
<1>7. CASE RunMain
  BY <1>7 DEF RunMain, Still, world, script, running, BeforeLoad, Before, Ended, Failed
<1>8. CASE Verify
  BY <1>8 DEF Verify, Still, world, script, running, control
<1>9. CASE FinishInitialize
  BY <1>9 DEF FinishInitialize, Still, world, script, running, control
<1>10. CASE StartGame
  BY <1>10 DEF StartGame, Still, world, script, running, control
<1> QED
  BY <1>1, <1>2, <1>3, <1>4, <1>5, <1>6, <1>7, <1>8, <1>9, <1>10 DEF Dll

LEMMA RaiseIsStill ==
  ASSUME Raise
  PROVE  Still
BY DEF Raise, Still, world, running, Ended, Failed

LEMMA OthersAreStill ==
  ASSUME LoopInv,
         \/ ApplyFixes \/ ReadConfig \/ MatchTwice \/ MatchNone \/ MatchDone \/ JoinFails
         \/ VerifyModule \/ LoadRefused \/ ScriptRaises \/ Die \/ UNCHANGED vars
  PROVE  Still
<1>1. CASE ApplyFixes
  BY <1>1 DEF ApplyFixes, Goto, Still, world, running, BeforeLoad
<1>2. CASE ReadConfig
  BY <1>2 DEF ReadConfig, Goto, Still, world, running, BeforeLoad, Ended
<1>3. CASE MatchTwice \/ JoinFails \/ ScriptRaises
  BY <1>3, RaiseIsStill DEF MatchTwice, JoinFails, ScriptRaises
<1>4. CASE MatchNone
  BY <1>4 DEF MatchNone, Still, world, running, BeforeLoad
<1>5. CASE MatchDone
  BY <1>5 DEF MatchDone, Goto, Still, world, running, BeforeLoad
<1>6. CASE VerifyModule
  BY <1>6 DEF VerifyModule, Still, world, script, running, control
<1>7. CASE LoadRefused
  BY <1>7 DEF LoadRefused, Still, world, script, running, Ended, Failed
<1>8. CASE Die
  BY <1>8 DEF Die, Still, world, running, Ended
<1>9. CASE UNCHANGED vars
  BY <1>9 DEF vars, Still, world, running, control
<1> QED
  BY <1>1, <1>2, <1>3, <1>4, <1>5, <1>6, <1>7, <1>8, <1>9

LEMMA LoopStep ==
  ASSUME LoopInv, [Next]_vars
  PROVE  LoopInv'
<1>1. CASE Dll
  BY <1>1, DllIsStill, StillKeeps
<1>2. CASE \/ ApplyFixes \/ ReadConfig \/ MatchTwice \/ MatchNone \/ MatchDone \/ JoinFails
           \/ VerifyModule \/ LoadRefused \/ ScriptRaises \/ Die \/ UNCHANGED vars
  BY <1>2, OthersAreStill, StillKeeps
<1>3. CASE Match \/ JoinConfig \/ Load \/ Enable
  BY <1>3, MatchKeeps, JoinKeeps, LoadKeeps, EnableKeeps
<1>4. CASE WriteConfig \/ LoadDone \/ EnableDone \/ Finish
  BY <1>4, LoopEnds
<1> QED
  BY <1>1, <1>2, <1>3, <1>4 DEF Next, Main

LEMMA LoopInit ==
  ASSUME Init
  PROVE  LoopInv
<1>1. /\ host \in Hosts /\ input \in Inputs /\ pc = "loading" /\ found = << >>
      /\ aliases = << >> /\ joined = << >> /\ sees = << >> /\ proxies = {} /\ enabled = << >>
  BY DEF Init
<1>2. /\ Len(found) = 0 /\ Len(sees) = 0 /\ Len(enabled) = 0 /\ DOMAIN << >> = {}
      /\ 1 .. Len(sees) = {}
  BY <1>1
<1>3. TheSequences
  BY <1>1, EmptySeq DEF TheSequences
<1>4. Places /\ JoinedOK /\ Distinct
  BY <1>1, <1>2 DEF Places, Before, JoinedOK, Distinct
<1>5. Counters
  BY <1>1, <1>2 DEF Counters
<1>6. Published /\ SeesTheEarlier
  BY <1>1, <1>2 DEF Published, SeesTheEarlier
<1> QED
  BY <1>3, <1>4, <1>5, <1>6 DEF LoopInv

\* The loops of main.lua keep step: nothing is loaded before all is found, nothing
\* is enabled before all is loaded, and proxies are those of what was loaded.
THEOREM LoopsKeepStep == Spec => []LoopInv
<1> QED
  BY LoopInit, LoopStep, PTL DEF Spec

\* The script of an extension sees the proxies of those before it, and no other.
THEOREM SeesThoseBefore == Spec => []SeesTheEarlier
<1>1. LoopInv => SeesTheEarlier
  BY DEF LoopInv
<1> QED
  BY <1>1, LoopsKeepStep, PTL

-----------------------------------------------------------------------------
(* The load order.  A requirement that anything matches has the place that    *)
(* its match gets.                                                            *)

Wanted == {p \in DOMAIN input.order : Matches(input.order[p]) # {}}

Early == Before \cup {"fixes", "config"}

Matched == {"join", "write", "load", "enable", "finish", "done"}

\* What was found so far is of the requirements up to i.
OrderInv ==
  /\ \A n \in DOMAIN found : \E p \in Wanted :
       CountBelow(Wanted, p + 1) = n /\ found[n] \in Matches(input.order[p])
  /\ pc \in Early => found = << >>
  /\ pc = "match" => i \in 1..(Len(input.order) + 1) /\ Len(found) = CountBelow(Wanted, i)
  /\ pc \in Matched => Len(found) = Cardinality(Wanted)

LEMMA WantedAre ==
  ASSUME Places
  PROVE  /\ Len(input.order) \in Nat /\ DOMAIN input.order = 1..Len(input.order)
         /\ Wanted \subseteq Nat \ {0}
         /\ LowerPart(Wanted, Len(input.order) + 1) = Wanted
         /\ \A p \in Wanted : LowerPart(Wanted, p + 1) = {q \in Wanted : q <= p}
<1>1. Len(input.order) \in Nat /\ DOMAIN input.order = 1..Len(input.order)
  BY StartupAssumption DEF Places
<1>2. \A p \in Wanted : p \in Nat /\ p > 0 /\ p < Len(input.order) + 1
  BY <1>1 DEF Wanted
<1>3. Wanted \subseteq Nat \ {0}
  BY <1>2
<1>4. LowerPart(Wanted, Len(input.order) + 1) = Wanted
  BY <1>2 DEF LowerPart
<1>5. ASSUME NEW p \in Wanted PROVE LowerPart(Wanted, p + 1) = {q \in Wanted : q <= p}
  <2>1. \A q \in Wanted : q < p + 1 <=> q <= p
    BY <1>2
  <2> QED
    BY <2>1 DEF LowerPart
<1> QED
  BY <1>1, <1>3, <1>4, <1>5

LEMMA MatchOrders ==
  ASSUME LoopInv, OrderInv, Match
  PROVE  OrderInv'
<1>1. PICK e \in Matches(Req) : found' = Append(found, e)
  BY DEF Match
<1>2. pc = "match" /\ pc' = pc /\ i' = i + 1 /\ i <= Len(input.order) /\ input' = input
  BY DEF Match, world
<1>3. /\ i \in 1..(Len(input.order) + 1) /\ Len(found) = CountBelow(Wanted, i) /\ Places
      /\ TheSequences
  BY <1>2 DEF OrderInv, LoopInv
<1>4. i \in 1..Len(input.order) /\ i \in Nat /\ i' \in 1..(Len(input.order) + 1)
  BY <1>2, <1>3, WantedAre
<1>5. i \in Wanted
  BY <1>3, <1>4, WantedAre DEF Wanted, Req
<1>6. CountBelow(Wanted, i + 1) = Len(found) + 1
  BY <1>3, <1>4, <1>5, WantedAre, CountNext
<1>7. e \in input.installed
  BY <1>1, MatchesIs
<1>8. /\ Len(found') = Len(found) + 1 /\ DOMAIN found' = 1 .. (Len(found) + 1)
      /\ found'[Len(found) + 1] = e /\ \A k \in 1 .. Len(found) : found'[k] = found[k]
      /\ Len(found) \in Nat /\ DOMAIN found = 1 .. Len(found)
  BY <1>1, <1>3, <1>7, Longer DEF TheSequences
<1>9. Wanted' = Wanted /\ \A r : Matches(r)' = Matches(r)
  BY <1>2 DEF Wanted, Matches
<1>10. ASSUME NEW n \in DOMAIN found'
       PROVE  \E p \in Wanted : CountBelow(Wanted, p + 1) = n /\ found'[n] \in Matches(input.order[p])
  <2>1. CASE n = Len(found) + 1
    BY <1>1, <1>5, <1>6, <1>8, <2>1 DEF Req
  <2>2. CASE n # Len(found) + 1
    <3>1. n \in DOMAIN found /\ found'[n] = found[n]
      BY <1>8, <2>2
    <3> QED
      BY <3>1 DEF OrderInv
  <2> QED
    BY <2>1, <2>2
<1>11. "match" \notin Early /\ "match" \notin Matched
  BY DEF Early, Before, Matched
<1>12. \A n \in DOMAIN found' : \E p \in Wanted' :
         CountBelow(Wanted', p + 1) = n /\ found'[n] \in Matches(input.order[p])'
  BY <1>2, <1>9, <1>10
<1>13. Len(found') = CountBelow(Wanted', i')
  BY <1>2, <1>6, <1>8, <1>9
<1> QED
  BY <1>2, <1>4, <1>11, <1>12, <1>13 DEF OrderInv

\* A step that finds nothing: the loop goes on, or the start does.
GoesOn ==
  /\ UNCHANGED <<input, found>>
  /\ \/ pc' = pc /\ i' = i
     \/ pc \in Early /\ pc' \in Early
     \/ pc' \in Ended \ {"done"}
     \/ pc = "config" /\ pc' = "match" /\ i' = 1
     \/ pc = "match" /\ pc' = "match" /\ i <= Len(input.order) /\ Matches(Req) = {} /\ i' = i + 1
     \/ pc = "match" /\ pc' = "join" /\ i > Len(input.order)
     \/ pc \in Matched /\ pc' \in Matched

LEMMA OrderStays ==
  ASSUME LoopInv, OrderInv, GoesOn
  PROVE  OrderInv'
<1>1. input' = input /\ found' = found /\ Places
  BY DEF GoesOn, LoopInv
<1>2. Wanted' = Wanted /\ \A r : Matches(r)' = Matches(r)
  BY <1>1 DEF Wanted, Matches
<1>3. \A n \in DOMAIN found' : \E p \in Wanted' :
        CountBelow(Wanted', p + 1) = n /\ found'[n] \in Matches(input.order[p])'
  BY <1>1, <1>2 DEF OrderInv
<1>4. /\ "match" \notin Early \cup Matched /\ "join" \notin Early /\ "join" \in Matched
      /\ Early \cap Matched = {} /\ "config" \in Early
      /\ \A p \in Ended \ {"done"} : p \notin Early \cup Matched \cup {"match"}
  BY DEF Early, Before, Matched, Ended, Failed
<1>5. CASE pc' = pc /\ i' = i
  BY <1>1, <1>2, <1>3, <1>5 DEF OrderInv
<1>6. CASE (pc \in Early /\ pc' \in Early) \/ pc' \in Ended \ {"done"} \/ (pc \in Matched /\ pc' \in Matched)
  BY <1>1, <1>2, <1>3, <1>4, <1>6 DEF OrderInv
<1>7. CASE pc = "config" /\ pc' = "match" /\ i' = 1
  <2>1. found = << >> /\ Len(found) = 0
    BY <1>4, <1>7 DEF OrderInv
  <2>2. CountBelow(Wanted, 1) = 0 /\ 1 \in 1..(Len(input.order) + 1)
    BY <1>1, WantedAre, CountOne
  <2> QED
    BY <1>1, <1>2, <1>3, <1>4, <1>7, <2>1, <2>2 DEF OrderInv
<1>8. CASE pc = "match" /\ pc' = "match" /\ i <= Len(input.order) /\ Matches(Req) = {} /\ i' = i + 1
  <2>1. i \in 1..(Len(input.order) + 1) /\ Len(found) = CountBelow(Wanted, i)
    BY <1>8 DEF OrderInv
  <2>2. i \in Nat /\ i' \in 1..(Len(input.order) + 1)
    BY <1>1, <1>8, <2>1, WantedAre
  <2>3. i \notin Wanted
    BY <1>8 DEF Wanted, Req
  <2>4. CountBelow(Wanted, i + 1) = CountBelow(Wanted, i)
    BY <1>1, <2>2, <2>3, WantedAre, CountNext
  <2> QED
    BY <1>1, <1>2, <1>3, <1>4, <1>8, <2>1, <2>2, <2>4 DEF OrderInv
<1>9. CASE pc = "match" /\ pc' = "join" /\ i > Len(input.order)
  <2>1. i = Len(input.order) + 1 /\ Len(found) = CountBelow(Wanted, i)
    BY <1>1, <1>9, WantedAre DEF OrderInv
  <2>2. CountBelow(Wanted, Len(input.order) + 1) = Cardinality(Wanted)
    BY <1>1, WantedAre DEF CountBelow
  <2> QED
    BY <1>1, <1>2, <1>3, <1>4, <1>9, <2>1, <2>2 DEF OrderInv
<1> QED
  BY <1>5, <1>6, <1>7, <1>8, <1>9 DEF GoesOn

LEMMA DllGoesOn ==
  ASSUME Dll
  PROVE  GoesOn
<1>1. CASE Detour \/ MakeCore
  BY <1>1 DEF Detour, MakeCore, GoesOn, world, script, matching, Early, Before, Ended
<1>2. CASE ProcessArguments \/ InitializeLua
  BY <1>2 DEF ProcessArguments, InitializeLua, GoesOn, world, script, matching, Early, Before, Ended
<1>3. CASE OpenStore
  BY <1>3 DEF OpenStore, GoesOn, world, script, matching, Early, Before, Ended
<1>4. CASE VerifyCode
  BY <1>4 DEF VerifyCode, GoesOn, world, script, matching, Ended, Failed
<1>5. CASE RunMain
  BY <1>5 DEF RunMain, GoesOn, world, script, matching, Early, Before, Ended, Failed
<1>6. CASE Verify \/ FinishInitialize \/ StartGame
  BY <1>6 DEF Verify, FinishInitialize, StartGame, GoesOn, world, script, matching, control
<1> QED
  BY <1>1, <1>2, <1>3, <1>4, <1>5, <1>6 DEF Dll

LEMMA OthersGoOn ==
  ASSUME Main \/ Die \/ UNCHANGED vars, ~Match
  PROVE  GoesOn
<1>1. CASE ApplyFixes \/ ReadConfig
  BY <1>1 DEF ApplyFixes, ReadConfig, Goto, GoesOn, world, matching, Early, Ended
<1>2. CASE MatchNone \/ MatchDone
  BY <1>2 DEF MatchNone, MatchDone, Goto, GoesOn, world, matching
<1>3. CASE MatchTwice \/ JoinFails \/ ScriptRaises
  BY <1>3 DEF MatchTwice, JoinFails, ScriptRaises, Raise, GoesOn, world, matching, Ended, Failed
<1>4. CASE JoinConfig \/ WriteConfig
  BY <1>4 DEF JoinConfig, WriteConfig, Goto, GoesOn, world, matching, Matched
<1>5. CASE VerifyModule \/ LoadRefused \/ Load
  BY <1>5 DEF VerifyModule, LoadRefused, Load, GoesOn, world, script, matching, control, Matched, Ended, Failed
<1>6. CASE LoadDone \/ Enable \/ EnableDone \/ Finish
  BY <1>6 DEF LoadDone, Enable, EnableDone, Finish, Goto, GoesOn, world, matching, Matched
<1>7. CASE Die
  BY <1>7 DEF Die, GoesOn, world, matching, Ended
<1>8. CASE UNCHANGED vars
  BY <1>8 DEF vars, GoesOn, world, matching, control
<1> QED
  BY <1>1, <1>2, <1>3, <1>4, <1>5, <1>6, <1>7, <1>8 DEF Main

\* Extensions are found in the order of the user's config, each once, and what is left
\* out of it is what is not installed, for every config and every disk (main.lua).
THEOREM LoadOrderIsFollowed == Spec => []FollowsLoadOrder
<1>1. ASSUME Init PROVE OrderInv
  <2>1. pc = "loading" /\ found = << >> /\ DOMAIN found = {}
    BY <1>1 DEF Init
  <2> QED
    BY <2>1 DEF OrderInv, Matched
<1>2. ASSUME LoopInv, OrderInv, [Next]_vars PROVE OrderInv'
  BY <1>2, MatchOrders, DllGoesOn, OthersGoOn, OrderStays DEF Next
<1>3. ASSUME LoopInv, OrderInv PROVE FollowsLoadOrder
  <2>1. Places
    BY <1>3 DEF LoopInv
  <2>2. ASSUME NEW n \in DOMAIN found
        PROVE  \E p \in Wanted : Cardinality({q \in Wanted : q <= p}) = n /\ found[n] \in Matches(input.order[p])
    <3>1. PICK p \in Wanted : CountBelow(Wanted, p + 1) = n /\ found[n] \in Matches(input.order[p])
      BY <1>3 DEF OrderInv
    <3>2. Cardinality({q \in Wanted : q <= p}) = n
      BY <2>1, <3>1, WantedAre DEF CountBelow
    <3> QED
      BY <3>1, <3>2
  <2>3. \A n, m \in DOMAIN found : n # m => Id(found[n]) # Id(found[m])
    BY <1>3 DEF LoopInv, Distinct
  <2>4. pc \in {"load", "enable", "finish", "done"} => Len(found) = Cardinality(Wanted)
    BY <1>3 DEF OrderInv, Matched
  <2> QED
    BY <2>2, <2>3, <2>4 DEF FollowsLoadOrder, Wanted
<1> QED
  BY <1>1, <1>2, <1>3, LoopsKeepStep, PTL DEF Spec

-----------------------------------------------------------------------------
(* Where a verification is, what the options say, and what was verified.      *)

\* A verification runs in secure mode where the store, the code or a module is read.
Checking ==
  /\ Sane(check)
  /\ check.doing # "nothing" =>
       /\ mode.secure /\ pc \in {"store", "code", "load"}
       /\ pc = "load" => i \in DOMAIN found /\ found[i].kind = "module"
  /\ check.verdict # "none" =>
       /\ pc \in {"store", "code", "load", "error", "died"}
       /\ pc = "load" => i \in DOMAIN found
  /\ pc = "store" => Proven(check, host.store) /\ BySignature(check, host.store)
  /\ pc = "code" => Proven(check, host.code)
  /\ pc = "load" /\ i \in DOMAIN found => Proven(check, input.files[found[i]])

BeforeOptions == {"loading", "entry", "options"}
OptionsRead   == (Before \cup Working \cup Ended) \ (BeforeOptions \cup {"thrown", "died"})

OneSecurityOption == Given("no-security") # Given("security")

Secured == IF OneSecurityOption THEN Given("security") ELSE host.compiled

ModeOK ==
  /\ pc \in BeforeOptions =>
       mode = [secure |-> host.compiled, hasConsole |-> FALSE, interactive |-> ~Release]
  /\ pc \in OptionsRead =>
       /\ mode.secure = Secured
       /\ mode.hasConsole => ~Given("no-console") /\ (Release => Given("console"))
       /\ mode.interactive => (Release => Given("no-security") /\ ~Given("security"))

ConsoleOK ==
  /\ isInitialized => pc \in Ended \ {"died", "thrown"}
  /\ console => isInitialized /\ mode.hasConsole /\ mode.interactive

StoreRead == OptionsRead \ {"store"}
CodeRun   == Working \cup {"done", "inactive", "error"}

Verified ==
  mode.secure =>
    /\ pc \in StoreRead => host.store.sig = "genuine"
    /\ pc \in CodeRun => Vouched(host.code)
    /\ \A n \in DOMAIN sees : found[n].kind = "module" => Vouched(input.files[found[n]])

SecureInv == Checking /\ ModeOK /\ ConsoleOK /\ Verified

LEMMA StagesAre ==
  /\ CodeRun \subseteq StoreRead /\ StoreRead \subseteq OptionsRead
  /\ Working \subseteq CodeRun /\ Working \cap Ended = {} /\ Before \cap Ended = {}
  /\ Working \cap BeforeOptions = {} /\ Ended \cap BeforeOptions = {}
  /\ Ended \ {"thrown", "died"} \subseteq StoreRead
  /\ OptionsRead \cap BeforeOptions = {}
  /\ \A p \in Working : p \notin {"store", "code", "error", "died", "thrown", "missing"}
BY DEF CodeRun, StoreRead, OptionsRead, BeforeOptions, Before, Working, Ended, Failed

LEMMA FreshIsProven ==
  ASSUME NEW c, Fresh(c), NEW f
  PROVE  Proven(c, f) /\ BySignature(c, f)
BY DEF Fresh, Proven, BySignature

\* A step of the script outside of verifications.
LEMMA SecureKept ==
  ASSUME LoopInv, SecureInv, UNCHANGED <<host, input, mode, isInitialized, console, check, found, sees>>,
         pc \in Working, pc' \in Working \cup {"done", "inactive", "error", "died"},
         check.doing = "nothing", pc = "load" => check.verdict = "none" \/ pc' = "error"
  PROVE  SecureInv'
<1>1. Sane(check) /\ ~isInitialized /\ ~console
  <2>1. Sane(check)
    BY DEF SecureInv, Checking
  <2>2. ~isInitialized
    BY StagesAre DEF SecureInv, ConsoleOK
  <2> QED
    BY <2>1, <2>2 DEF SecureInv, ConsoleOK
<1>2. pc = "load" \/ check.verdict = "none"
  BY StagesAre DEF SecureInv, Checking
<1>3. check.verdict # "none" => pc' = "error"
  BY <1>2
<1>4. check.verdict = "none" => Fresh(check)
  BY <1>1 DEF Fresh, Sane
<1>5. Checking'
  <2>1. pc' \notin {"store", "code"}
    BY StagesAre
  <2>2. pc' = "load" => Fresh(check)
    BY <1>3, <1>4
  <2> QED
    BY <1>1, <1>3, <2>1, <2>2, FreshIsProven DEF Checking
<1>6. ModeOK'
  <2>1. pc \in OptionsRead /\ pc' \notin BeforeOptions
    BY StagesAre DEF BeforeOptions
  <2> QED
    BY <2>1 DEF SecureInv, ModeOK, Secured, OneSecurityOption, Given, Release
<1>7. ConsoleOK'
  BY <1>1 DEF ConsoleOK
<1>8. Verified'
  <2>1. pc \in CodeRun /\ pc \in StoreRead
    BY StagesAre
  <2> QED
    BY <2>1 DEF SecureInv, Verified, Vouched
<1> QED
  BY <1>5, <1>6, <1>7, <1>8 DEF SecureInv

LEMMA MatchIsSecure ==
  ASSUME LoopInv, SecureInv, Match
  PROVE  SecureInv'
<1>1. /\ pc = "match" /\ pc' = pc
      /\ UNCHANGED <<host, input, mode, isInitialized, console, check, sees>>
  BY DEF Match, world, dll, core, running
<1>2. sees = << >> /\ DOMAIN sees = {}
  BY <1>1, LengthsAre, EmptySeq DEF LoopInv, Counters, BeforeLoad
<1>3. Checking'
  BY <1>1 DEF SecureInv, Checking
<1>4. ModeOK' /\ ConsoleOK'
  BY <1>1 DEF SecureInv, ModeOK, ConsoleOK, Secured, OneSecurityOption, Given, Release
<1>5. Verified'
  BY <1>1, <1>2 DEF SecureInv, Verified, Vouched
<1> QED
  BY <1>3, <1>4, <1>5 DEF SecureInv

LEMMA VerifyModuleIsSecure ==
  ASSUME LoopInv, SecureInv, VerifyModule
  PROVE  SecureInv'
<1>1. /\ pc = "load" /\ i <= Len(found) /\ mode.secure /\ found[i].kind = "module"
      /\ check' = Begun("hash")
      /\ UNCHANGED <<host, input, mode, isInitialized, console, game, pc, i, found, sees>>
  BY DEF VerifyModule, world, core, control, script, matching, running
<1>2. i \in DOMAIN found
  BY <1>1, LengthsAre DEF LoopInv, Counters
<1>3. /\ Sane(check') /\ check'.doing = "hash" /\ check'.verdict = "none"
  BY <1>1, BegunIs
<1>4. Checking'
  BY <1>1, <1>2, <1>3 DEF Checking, Proven
<1>5. ModeOK' /\ ConsoleOK' /\ Verified'
  BY <1>1 DEF SecureInv, ModeOK, ConsoleOK, Verified, Secured, OneSecurityOption, Given, Release, Vouched
<1> QED
  BY <1>4, <1>5 DEF SecureInv

LEMMA LoadRefusedIsSecure ==
  ASSUME LoopInv, SecureInv, LoadRefused
  PROVE  SecureInv'
<1>1. /\ pc = "load" /\ check.verdict \in {"refused", "raised"} /\ pc' = "error"
      /\ check' = Forgotten
      /\ UNCHANGED <<host, input, mode, isInitialized, console, game, found, sees>>
  BY DEF LoadRefused, world, core, script, matching, running
<1>2. Sane(check') /\ Fresh(check')
  BY <1>1, ForgottenIs DEF SecureInv, Checking, Sane
<1>3. Checking'
  BY <1>1, <1>2 DEF Checking, Fresh
<1>4. pc \in OptionsRead /\ pc \in StoreRead /\ pc \in CodeRun /\ pc' \notin BeforeOptions
  BY <1>1, StagesAre DEF Working, BeforeOptions
<1>5. ModeOK' /\ Verified'
  BY <1>1, <1>4 DEF SecureInv, ModeOK, Verified, Secured, OneSecurityOption, Given, Release, Vouched
<1>6. ConsoleOK'
  BY <1>1 DEF SecureInv, ConsoleOK, Ended, Failed
<1> QED
  BY <1>3, <1>5, <1>6 DEF SecureInv

LEMMA LoadIsSecure ==
  ASSUME LoopInv, SecureInv, Load
  PROVE  SecureInv'
<1>1. /\ pc = "load" /\ pc' = pc /\ i <= Len(found) /\ May(found[i]) /\ check' = Forgotten
      /\ sees' = Append(sees, proxies)
      /\ UNCHANGED <<host, input, mode, isInitialized, console, game, found>>
  BY DEF Load, world, core, matching
<1>2. /\ i = Len(sees) + 1 /\ i \in DOMAIN found /\ DOMAIN sees = 1 .. Len(sees)
      /\ Len(sees) \in Nat
  BY <1>1, LengthsAre DEF LoopInv, Counters
<1>3. found[i].kind = "module" \/ found[i].kind = "plugin"
  <2>1. found[i] \in input.installed
    BY <1>2, LengthsAre, ElementOfSeq DEF LoopInv, TheSequences
  <2> QED
    BY <2>1, StartupAssumption DEF LoopInv, Places, Kinds
<1>4. check.doing = "nothing"
  BY <1>1, <1>3 DEF SecureInv, Checking, Sane, May
<1>5. Sane(check') /\ Fresh(check')
  BY <1>1, <1>4, ForgottenIs DEF SecureInv, Checking
<1>6. Checking'
  BY <1>1, <1>5, FreshIsProven DEF Checking, Fresh
<1>7. ModeOK' /\ ConsoleOK'
  BY <1>1 DEF SecureInv, ModeOK, ConsoleOK, Secured, OneSecurityOption, Given, Release
<1>8. proxies \in SUBSET (Kinds \X Names)
  BY ProxiesAre
<1>9. DOMAIN sees' = DOMAIN sees \cup {i}
  <2>1. DOMAIN sees' = 1 .. (Len(sees) + 1)
    BY <1>1, <1>8, Longer DEF LoopInv, TheSequences
  <2> QED
    BY <1>2, <2>1
<1>10. mode.secure /\ found[i].kind = "module" => Vouched(input.files[found[i]])
  BY <1>1, <1>2 DEF SecureInv, Checking, Proven, May
<1>11. Verified'
  BY <1>1, <1>9, <1>10 DEF SecureInv, Verified, Vouched
<1> QED
  BY <1>6, <1>7, <1>11 DEF SecureInv

\* A call of the crypto API, or the end of them.
LEMMA VerifyIsSecure ==
  ASSUME LoopInv, SecureInv, Verify
  PROVE  SecureInv'
<1>1. /\ Verifying(Subject)
      /\ UNCHANGED <<host, input, mode, isInitialized, console, game, pc, i, found, sees>>
  BY DEF Verify, world, core, control, script, matching, running
<1>2. check.doing \in {"signature", "hash"} /\ check.doing # "nothing" /\ Sane(check)
  BY <1>1, CallsAre DEF Verifying, CallApi, MainExit, InCalls, SecureInv, Checking
<1>3. /\ mode.secure /\ pc \in {"store", "code", "load"}
      /\ pc = "load" => i \in DOMAIN found /\ found[i].kind = "module"
  BY <1>2 DEF SecureInv, Checking
<1>4. /\ pc = "store" => Subject = host.store /\ BySignature(check, host.store)
      /\ pc = "code" => Subject = host.code
      /\ pc = "load" => Subject = input.files[found[i]]
      /\ Proven(check, Subject)
  BY <1>3 DEF SecureInv, Checking, Subject
<1>5. /\ Sane(check') /\ Proven(check', Subject)
      /\ pc = "store" => BySignature(check', Subject)
  <2>1. CASE CallApi(Subject)
    BY <1>2, <1>4, <2>1, CallIs DEF BySignature
  <2>2. CASE MainExit(Subject)
    BY <1>2, <1>4, <2>2, ExitIs DEF BySignature
  <2> QED
    BY <1>1, <2>1, <2>2 DEF Verifying
<1>6. Checking'
  <2>1. Proven(check', Subject) /\ UNCHANGED Subject
    BY <1>1, <1>5 DEF Subject
  <2> QED
    BY <1>1, <1>3, <1>4, <1>5 DEF Checking
<1>7. ModeOK' /\ ConsoleOK' /\ Verified'
  BY <1>1 DEF SecureInv, ModeOK, ConsoleOK, Verified, Secured, OneSecurityOption, Given, Release, Vouched
<1> QED
  BY <1>6, <1>7 DEF SecureInv

LEMMA ScriptIsSecure ==
  ASSUME LoopInv, SecureInv,
         \/ ApplyFixes \/ ReadConfig \/ MatchTwice \/ MatchNone \/ MatchDone
         \/ JoinConfig \/ JoinFails \/ WriteConfig \/ LoadDone \/ Enable \/ EnableDone \/ Finish
         \/ ScriptRaises \/ (Die /\ pc = "match")
  PROVE  SecureInv'
<1>1. UNCHANGED <<host, input, mode, isInitialized, console, check, found, sees>>
  BY DEF ApplyFixes, ReadConfig, MatchTwice, MatchNone, MatchDone, JoinConfig, JoinFails,
         WriteConfig, LoadDone, Enable, EnableDone, Finish, ScriptRaises, Raise, Die,
         world, dll, core, matching, running
<1>2. pc \in Working /\ pc' \in Working \cup {"done", "inactive", "error", "died"}
  BY DEF ApplyFixes, ReadConfig, MatchTwice, MatchNone, MatchDone, JoinConfig, JoinFails,
         WriteConfig, LoadDone, Enable, EnableDone, Finish, ScriptRaises, Raise, Die, Goto, Working
<1>3. pc = "load" => LoadDone \/ ScriptRaises
  BY DEF ApplyFixes, ReadConfig, MatchTwice, MatchNone, MatchDone, JoinConfig, JoinFails,
         WriteConfig, Enable, EnableDone, Finish, Die
<1>4. check.doing = "nothing"
  <2>1. CASE pc = "load"
    <3>1. CASE LoadDone
      <4>1. i \notin DOMAIN found
        BY <3>1, LengthsAre DEF LoadDone, LoopInv, Counters
      <4> QED
        BY <2>1, <4>1 DEF SecureInv, Checking
    <3>2. CASE ScriptRaises
      BY <3>2 DEF ScriptRaises
    <3> QED
      BY <1>3, <2>1, <3>1, <3>2
  <2>2. CASE pc # "load"
    BY <1>2, <2>2, StagesAre DEF SecureInv, Checking
  <2> QED
    BY <2>1, <2>2
<1>5. pc = "load" => check.verdict = "none" \/ pc' = "error"
  <2>1. ASSUME pc = "load", LoadDone
        PROVE  check.verdict = "none"
    <3>1. i \notin DOMAIN found
      BY <2>1, LengthsAre DEF LoadDone, LoopInv, Counters
    <3> QED
      BY <2>1, <3>1 DEF SecureInv, Checking
  <2>2. ScriptRaises => pc' = "error"
    BY DEF ScriptRaises, Raise
  <2> QED
    BY <1>3, <2>1, <2>2
<1> QED
  BY <1>1, <1>2, <1>4, <1>5, SecureKept

\* Before the options are read, and where they are.
LEMMA EntryIsSecure ==
  ASSUME LoopInv, SecureInv, Detour \/ MakeCore
  PROVE  SecureInv'
<1>1. /\ UNCHANGED <<host, input, mode, isInitialized, console, check, found, sees>>
      /\ pc \in {"loading", "entry"} /\ pc' \in {"entry", "options", "died"}
  BY DEF Detour, MakeCore, world, dll, core, script, matching, running
<1>2. check.doing = "nothing" /\ check.verdict = "none" /\ ~isInitialized /\ ~console
  BY <1>1 DEF SecureInv, Checking, ConsoleOK, Ended, Failed
<1>3. Checking'
  BY <1>1, <1>2 DEF SecureInv, Checking
<1>4. pc \in BeforeOptions /\ pc' \notin OptionsRead /\ pc' \notin CodeRun
  BY <1>1 DEF BeforeOptions, OptionsRead, CodeRun, Working
<1>5. ModeOK'
  BY <1>1, <1>4 DEF SecureInv, ModeOK, Release
<1>6. ConsoleOK'
  BY <1>1, <1>2 DEF ConsoleOK
<1>7. Verified'
  BY <1>1, <1>4 DEF SecureInv, Verified, StoreRead, Vouched
<1> QED
  BY <1>3, <1>5, <1>6, <1>7 DEF SecureInv

LEMMA OptionsAreSecure ==
  ASSUME LoopInv, SecureInv, ProcessArguments
  PROVE  SecureInv'
<1>1. /\ pc = "options" /\ ((mode' = ParsedOptions /\ pc' = "store") \/ (mode' = mode /\ pc' = "thrown"))
      /\ UNCHANGED <<host, input, isInitialized, console, check, found, sees>>
  BY DEF ProcessArguments, world, script, matching, running
<1>2. /\ check.doing = "nothing" /\ check.verdict = "none" /\ Sane(check)
      /\ ~isInitialized /\ ~console
  BY <1>1 DEF SecureInv, Checking, ConsoleOK, Ended, Failed
<1>3. Fresh(check)
  BY <1>2 DEF Sane, Fresh
<1>4. Checking'
  BY <1>1, <1>2, <1>3, FreshIsProven DEF Checking
<1>5. /\ mode = [secure |-> host.compiled, hasConsole |-> FALSE, interactive |-> ~Release]
      /\ host.compiled \in BOOLEAN /\ host.debug \in BOOLEAN
  BY <1>1, StartupAssumption DEF SecureInv, ModeOK, BeforeOptions, LoopInv, Places
<1>6. pc' \notin BeforeOptions /\ pc' \notin StoreRead /\ pc' \notin CodeRun
  BY <1>1 DEF BeforeOptions, StoreRead, OptionsRead, CodeRun, Working
<1>7. ModeOK'
  <2>1. CASE pc' = "thrown"
    BY <1>6, <2>1 DEF ModeOK, OptionsRead
  <2>2. CASE mode' = ParsedOptions
    <3>1. /\ mode'.secure = Secured
          /\ mode'.hasConsole => ~Given("no-console") /\ (Release => Given("console"))
          /\ mode'.interactive => (Release => Given("no-security") /\ ~Given("security"))
      BY <1>5, <2>2 DEF ParsedOptions, Secured, OneSecurityOption, Given
    <3> QED
      BY <1>1, <1>6, <3>1 DEF ModeOK, Secured, OneSecurityOption, Given, Release
  <2> QED
    BY <1>1, <2>1, <2>2
<1>8. ConsoleOK'
  BY <1>1, <1>2 DEF ConsoleOK
<1>9. Verified'
  <2>1. sees = << >> /\ DOMAIN sees = {}
    BY <1>1, LengthsAre, EmptySeq DEF LoopInv, Counters, BeforeLoad, Before
  <2> QED
    BY <1>1, <1>6, <2>1 DEF Verified
<1> QED
  BY <1>4, <1>7, <1>8, <1>9 DEF SecureInv

\* The store is read, and the code is fetched.
LEMMA StoreIsSecure ==
  ASSUME LoopInv, SecureInv, OpenStore
  PROVE  SecureInv'
<1>1. pc = "store" /\ UNCHANGED <<host, input, mode, isInitialized, console, found, sees>>
  BY DEF OpenStore, world, core, script, matching, running
<1>2. Sane(check) /\ BySignature(check, host.store) /\ ~isInitialized /\ ~console
  BY <1>1 DEF SecureInv, Checking, ConsoleOK, Ended, Failed
<1>3. sees = << >> /\ DOMAIN sees = {}
  BY <1>1, LengthsAre, EmptySeq DEF LoopInv, Counters, BeforeLoad, Before
<1>4. CASE mode.secure /\ Idle /\ check' = VerifyFile(host.store) /\ pc' = pc
  <2>1. /\ Sane(check') /\ Proven(check', host.store) /\ BySignature(check', host.store)
    BY <1>4, VerifyFileIs
  <2>2. Checking'
    BY <1>1, <1>4, <2>1 DEF Checking
  <2>3. ModeOK' /\ ConsoleOK' /\ Verified'
    BY <1>1, <1>4 DEF SecureInv, ModeOK, ConsoleOK, Verified, Secured, OneSecurityOption, Given,
       Release, Vouched
  <2> QED
    BY <2>2, <2>3 DEF SecureInv
<1>5. CASE /\ ~(mode.secure /\ Idle) /\ (~mode.secure \/ Judged) /\ check' = Forgotten
           /\ pc' = IF ~mode.secure \/ (check.verdict = "accepted" /\ host.store.readable)
                    THEN "lua" ELSE "thrown"
  <2>1. check.doing = "nothing"
    BY <1>5 DEF Judged, SecureInv, Checking
  <2>2. Sane(check') /\ Fresh(check')
    BY <1>2, <1>5, <2>1, ForgottenIs
  <2>3. Checking'
    BY <1>5, <2>2 DEF Checking, Fresh
  <2>4. pc \in OptionsRead /\ pc' \notin BeforeOptions /\ pc' \notin CodeRun
    BY <1>1, <1>5 DEF OptionsRead, BeforeOptions, Before, CodeRun, Working
  <2>5. ModeOK'
    BY <1>1, <2>4 DEF SecureInv, ModeOK, Secured, OneSecurityOption, Given, Release
  <2>6. pc' \in StoreRead /\ mode.secure => host.store.sig = "genuine"
    <3>1. pc' = "thrown" => pc' \notin StoreRead
      BY DEF StoreRead, OptionsRead
    <3> QED
      BY <1>2, <1>5, <3>1 DEF BySignature
  <2>7. ConsoleOK' /\ Verified'
    BY <1>1, <1>2, <1>3, <2>4, <2>6 DEF ConsoleOK, Verified
  <2> QED
    BY <2>3, <2>5, <2>7 DEF SecureInv
<1> QED
  BY <1>4, <1>5 DEF OpenStore

LEMMA LuaIsSecure ==
  ASSUME LoopInv, SecureInv, InitializeLua
  PROVE  SecureInv'
<1>1. /\ UNCHANGED <<host, input, mode, isInitialized, console, check, found, sees>>
      /\ pc = "lua" /\ pc' \in {"code", "thrown"}
  BY DEF InitializeLua, world, dll, core, script, matching, running
<1>2. /\ check.doing = "nothing" /\ check.verdict = "none" /\ Sane(check)
      /\ ~isInitialized /\ ~console
  BY <1>1 DEF SecureInv, Checking, ConsoleOK, Ended, Failed
<1>3. Fresh(check)
  BY <1>2 DEF Sane, Fresh
<1>4. Checking'
  BY <1>1, <1>2, <1>3, FreshIsProven DEF Checking
<1>5. pc \in StoreRead /\ pc \in OptionsRead /\ pc' \notin CodeRun /\ pc' \notin BeforeOptions
  BY <1>1 DEF StoreRead, OptionsRead, BeforeOptions, Before, CodeRun, Working
<1>6. ModeOK' /\ ConsoleOK' /\ Verified'
  BY <1>1, <1>2, <1>5 DEF SecureInv, ModeOK, ConsoleOK, Verified, Secured, OneSecurityOption,
     Given, Release, Vouched
<1> QED
  BY <1>4, <1>6 DEF SecureInv

LEMMA VerifyCodeIsSecure ==
  ASSUME LoopInv, SecureInv, VerifyCode
  PROVE  SecureInv'
<1>1. /\ pc = "code" /\ mode.secure /\ Idle
      /\ (check' = Begun("hash") /\ pc' = pc) \/ (pc' = "missing" /\ check' = check)
      /\ UNCHANGED <<host, input, mode, isInitialized, console, found, sees>>
  BY DEF VerifyCode, world, core, script, matching, running
<1>2. ~isInitialized /\ ~console /\ Sane(check)
  BY <1>1 DEF SecureInv, Checking, ConsoleOK, Ended, Failed
<1>3. /\ Sane(Begun("hash")) /\ Begun("hash").doing = "hash" /\ Begun("hash").verdict = "none"
  BY BegunIs
<1>4. Checking'
  BY <1>1, <1>2, <1>3 DEF Checking, Proven, Idle
<1>5. /\ pc \in StoreRead /\ pc \in OptionsRead /\ pc' \notin CodeRun
      /\ pc' \notin BeforeOptions
  BY <1>1 DEF StoreRead, OptionsRead, BeforeOptions, Before, CodeRun, Working
<1>6. ModeOK' /\ ConsoleOK' /\ Verified'
  BY <1>1, <1>2, <1>5 DEF SecureInv, ModeOK, ConsoleOK, Verified, Secured, OneSecurityOption,
     Given, Release, Vouched
<1> QED
  BY <1>4, <1>6 DEF SecureInv

LEMMA RunMainIsSecure ==
  ASSUME LoopInv, SecureInv, RunMain
  PROVE  SecureInv'
<1>1. /\ pc = "code" /\ (mode.secure => Judged) /\ check' = Forgotten
      /\ pc' \in IF mode.secure /\ check.verdict # "accepted" THEN {"missing"} ELSE {"fixes", "missing"}
      /\ UNCHANGED <<host, input, mode, isInitialized, console, found, sees>>
  BY DEF RunMain, world, core, script, matching, running
<1>2. ~isInitialized /\ ~console /\ Sane(check) /\ Proven(check, host.code)
  BY <1>1 DEF SecureInv, Checking, ConsoleOK, Ended, Failed
<1>3. check.doing = "nothing"
  BY <1>1 DEF Judged, SecureInv, Checking
<1>4. Sane(check') /\ Fresh(check')
  BY <1>1, <1>2, <1>3, ForgottenIs
<1>5. Checking'
  BY <1>1, <1>4 DEF Checking, Fresh
<1>6. pc \in StoreRead /\ pc \in OptionsRead /\ pc' \notin BeforeOptions
  BY <1>1 DEF StoreRead, OptionsRead, BeforeOptions, Before
<1>7. ModeOK' /\ ConsoleOK'
  BY <1>1, <1>2, <1>6 DEF SecureInv, ModeOK, ConsoleOK, Secured, OneSecurityOption, Given, Release
<1>8. mode.secure /\ pc' \in CodeRun => Vouched(host.code)
  <2>1. "missing" \notin CodeRun
    BY DEF CodeRun, Working
  <2> QED
    BY <1>1, <1>2, <2>1 DEF Proven
<1>9. Verified'
  BY <1>1, <1>6, <1>8 DEF SecureInv, Verified, Vouched
<1> QED
  BY <1>5, <1>7, <1>9 DEF SecureInv

\* After the script.
LEMMA EndIsSecure ==
  ASSUME LoopInv, SecureInv, FinishInitialize \/ StartGame \/ UNCHANGED vars
  PROVE  SecureInv'
<1>1. UNCHANGED <<host, input, mode, check, pc, i, found, sees>>
  BY DEF FinishInitialize, StartGame, vars, world, dll, core, control, script, matching, running
<1>2. Checking' /\ ModeOK' /\ Verified'
  BY <1>1 DEF SecureInv, Checking, ModeOK, Verified, Secured, OneSecurityOption, Given, Release, Vouched
<1>3. ConsoleOK'
  <2>1. CASE FinishInitialize
    BY <1>1, <2>1 DEF FinishInitialize, StartConsoleThread, ConsoleOK
  <2>2. CASE StartGame \/ UNCHANGED vars
    BY <1>1, <2>2 DEF StartGame, vars, dll, core, SecureInv, ConsoleOK
  <2> QED
    BY <2>1, <2>2
<1> QED
  BY <1>2, <1>3 DEF SecureInv

LEMMA DeathIsSecure ==
  ASSUME LoopInv, SecureInv, Die, pc # "match"
  PROVE  SecureInv'
<1>1. /\ pc \in Failed /\ ~isInitialized /\ pc' = "died"
      /\ UNCHANGED <<host, input, mode, isInitialized, console, check, found, sees>>
  BY DEF Die, world, dll, core, matching, running
<1>2. pc \in {"error", "missing"} /\ check.doing = "nothing"
  BY <1>1 DEF Failed, SecureInv, Checking
<1>3. Checking'
  BY <1>1, <1>2 DEF SecureInv, Checking
<1>4. pc' \notin BeforeOptions /\ pc' \notin OptionsRead /\ pc' \notin CodeRun
  BY <1>1 DEF BeforeOptions, OptionsRead, CodeRun, Working
<1>5. ModeOK' /\ ConsoleOK' /\ Verified'
  BY <1>1, <1>4 DEF SecureInv, ModeOK, ConsoleOK, Verified, StoreRead, Vouched
<1> QED
  BY <1>3, <1>5 DEF SecureInv

LEMMA SecureStep ==
  ASSUME LoopInv, SecureInv, [Next]_vars
  PROVE  SecureInv'
<1>1. CASE Dll
  BY <1>1, EntryIsSecure, OptionsAreSecure, StoreIsSecure, LuaIsSecure, VerifyCodeIsSecure,
     RunMainIsSecure, VerifyIsSecure, EndIsSecure DEF Dll
<1>2. CASE Main
  BY <1>2, MatchIsSecure, VerifyModuleIsSecure, LoadRefusedIsSecure, LoadIsSecure, ScriptIsSecure
     DEF Main
<1>3. CASE Die
  BY <1>3, ScriptIsSecure, DeathIsSecure
<1> QED
  BY <1>1, <1>2, <1>3, EndIsSecure DEF Next

LEMMA SecureInit ==
  ASSUME Init
  PROVE  SecureInv
<1>1. /\ pc = "loading" /\ check = Unchecked /\ ~isInitialized /\ ~console /\ sees = << >>
      /\ mode = [secure |-> host.compiled, hasConsole |-> FALSE, interactive |-> ~Release]
  BY DEF Init
<1>2. Checking
  BY <1>1, UncheckedIs DEF Checking, Fresh
<1>3. ModeOK /\ ConsoleOK
  BY <1>1 DEF ModeOK, ConsoleOK, OptionsRead, BeforeOptions
<1>4. Verified
  BY <1>1 DEF Verified, StoreRead, OptionsRead, BeforeOptions, CodeRun, Working
<1> QED
  BY <1>2, <1>3, <1>4 DEF SecureInv

LEMMA AlwaysSecure == Spec => []SecureInv
<1> QED
  BY SecureInit, SecureStep, LoopsKeepStep, PTL DEF Spec

\* In secure mode the script and every module that was loaded are vouched for, by a
\* store that is signed or by a signature of their own, however the calls of the
\* crypto API went; and a released build only leaves that mode when it is told to.
THEOREM OnlyVerified == Spec => []OnlyVerifiedCodeRuns
<1>1. SecureInv => OnlyVerifiedCodeRuns
  <2> SUFFICES ASSUME SecureInv PROVE OnlyVerifiedCodeRuns
    OBVIOUS
  <2>1. /\ Working \cup {"done", "inactive", "error"} = CodeRun
        /\ \A p \in CodeRun : p \in OptionsRead /\ p \in StoreRead
    BY StagesAre DEF CodeRun
  <2> QED
    BY <2>1 DEF OnlyVerifiedCodeRuns, SecureInv, ModeOK, Verified, Secured, OneSecurityOption
<1> QED
  BY <1>1, AlwaysSecure, PTL

\* Whatever call of the crypto API fails, nothing stays acquired.
THEOREM NothingStaysHeld == Spec => []NothingHeld
<1>1. SecureInv => NothingHeld
  BY DEF SecureInv, Checking, Sane, NothingHeld
<1> QED
  BY <1>1, AlwaysSecure, PTL

\* The console's thread exists only after the script, and only where it is allowed.
THEOREM ConsoleWaits == Spec => []ConsoleOnlyWhereAllowed
<1>1. SecureInv => ConsoleOnlyWhereAllowed
  <2> SUFFICES ASSUME SecureInv, console
      PROVE  /\ pc \in Ended /\ isInitialized
             /\ ~Given("no-console")
             /\ Release => Given("console") /\ Given("no-security") /\ ~mode.secure
    BY DEF ConsoleOnlyWhereAllowed
  <2>1. isInitialized /\ mode.hasConsole /\ mode.interactive /\ pc \in Ended \ {"died", "thrown"}
    BY DEF SecureInv, ConsoleOK
  <2>2. pc \in OptionsRead
    BY <2>1, StagesAre
  <2>3. /\ mode.secure = Secured
        /\ ~Given("no-console") /\ (Release => Given("console"))
        /\ Release => Given("no-security") /\ ~Given("security")
    BY <2>1, <2>2 DEF SecureInv, ModeOK
  <2>4. Release => ~mode.secure
    BY <2>3 DEF Secured, OneSecurityOption, Given
  <2> QED
    BY <2>1, <2>3, <2>4
<1> QED
  BY <1>1, AlwaysSecure, PTL

-----------------------------------------------------------------------------
(* The options of an extension are those of the section of its name.          *)

\* The loader of a name is that of the extension of the name that was matched last.
LastOf(x, m) ==
  m \in DOMAIN found /\ found[m].name = x /\ \A l \in DOMAIN found : l > m => found[l].name # x

Loaders ==
  /\ \A x \in DOMAIN loaders : \E m \in DOMAIN found : LastOf(x, m) /\ loaders[x] = found[m]
  /\ \A n \in DOMAIN found : found[n].name \in DOMAIN loaders

Joined == {"write", "load", "enable", "finish", "done"}

SectionsJoined ==
  pc \in Joined =>
    /\ \A s \in input.sections : s[2] \in DOMAIN loaders /\ joined[SectionKey(s)] = SectionOf(s[2])
    /\ DOMAIN joined = {SectionKey(s) : s \in input.sections}

SectionInv == Loaders /\ SectionsJoined /\ OwnSection

LEMMA SectionsAre ==
  ASSUME input \in Inputs, NEW s \in input.sections
  PROVE  s \in {<<"module", s[2]>>, <<"plugin", s[2]>>}
<1>1. s \in Kinds \X Names
  BY StartupAssumption
<1> QED
  BY <1>1 DEF Kinds

\* There is a section of the name if one is found.
LEMMA SectionOfIs ==
  ASSUME input \in Inputs, NEW x
  PROVE  /\ \A s \in input.sections : s[2] = x => SectionOf(x) \in input.sections
         /\ SectionOf(x) \in input.sections => SectionOf(x)[2] = x
         /\ SectionOf(x) \in input.sections \cup {NoSection}
         /\ SectionOf(x) \notin input.sections => SectionOf(x) = NoSection
         /\ (\A s \in input.sections : s[2] # x) => SectionOf(x) = NoSection
<1>1. \A s \in input.sections : s[2] = x => s \in {<<"module", x>>, <<"plugin", x>>}
  BY SectionsAre
<1>2. NoSection \notin input.sections
  BY StartupAssumption DEF NoSection, Kinds
<1> HIDE DEF NoSection
<1> QED
  BY <1>1, <1>2 DEF SectionOf

LEMMA MatchSections ==
  ASSUME LoopInv, SectionInv, Match
  PROVE  SectionInv'
<1>1. PICK e \in Matches(Req) : loaders' = With(loaders, e.name, e) /\ found' = Append(found, e)
  BY DEF Match
<1>2. pc = "match" /\ pc' = pc /\ UNCHANGED <<input, joined, enabled>>
  BY DEF Match, world, running
<1>3. e \in input.installed
  BY <1>1, MatchesIs
<1>4. /\ DOMAIN found = 1 .. Len(found) /\ DOMAIN found' = 1 .. (Len(found) + 1)
      /\ found'[Len(found) + 1] = e /\ \A k \in 1 .. Len(found) : found'[k] = found[k]
      /\ Len(found) \in Nat
  BY <1>1, <1>3, Longer DEF LoopInv, TheSequences
<1>5. /\ DOMAIN loaders' = DOMAIN loaders \cup {e.name} /\ loaders'[e.name] = e
      /\ \A x \in DOMAIN loaders : x # e.name => loaders'[x] = loaders[x]
  BY <1>1 DEF With
<1> PICK len \in Nat : len = Len(found) + 1
  BY <1>4
<1>6. Loaders'
  <2>1. ASSUME NEW x \in DOMAIN loaders'
        PROVE  \E m \in DOMAIN found' : LastOf(x, m)' /\ loaders'[x] = found'[m]
    <3>1. CASE x = e.name
      <4>1. len \in DOMAIN found' /\ found'[len].name = x /\ \A l \in DOMAIN found' : ~(l > len)
        BY <1>4, <3>1
      <4>2. loaders'[x] = found'[len]
        BY <1>4, <1>5, <3>1
      <4>3. LastOf(x, len)'
        BY <4>1 DEF LastOf
      <4> QED
        BY <4>1, <4>2, <4>3
    <3>2. CASE x # e.name
      <4>1. x \in DOMAIN loaders /\ loaders'[x] = loaders[x]
        BY <1>5, <3>2
      <4>2. PICK m \in DOMAIN found : LastOf(x, m) /\ loaders[x] = found[m]
        BY <4>1 DEF SectionInv, Loaders
      <4>3. m \in DOMAIN found' /\ found'[m] = found[m]
        BY <1>4, <4>2
      <4>4. ASSUME NEW l \in DOMAIN found', l > m
            PROVE  found'[l].name # x
        <5>1. CASE l = len
          BY <1>4, <3>2, <5>1
        <5>2. CASE l # len
          <6>1. l \in DOMAIN found /\ found'[l] = found[l]
            BY <1>4, <5>2
          <6> QED
            BY <4>2, <4>4, <6>1 DEF LastOf
        <5> QED
          BY <5>1, <5>2
      <4>5. LastOf(x, m)'
        BY <4>2, <4>3, <4>4 DEF LastOf
      <4> QED
        BY <4>1, <4>2, <4>3, <4>5
    <3> QED
      BY <3>1, <3>2
  <2>2. ASSUME NEW n \in DOMAIN found'
        PROVE  found'[n].name \in DOMAIN loaders'
    <3>1. CASE n = len
      BY <1>4, <1>5, <3>1
    <3>2. CASE n # len
      <4>1. n \in DOMAIN found /\ found'[n] = found[n]
        BY <1>4, <3>2
      <4> QED
        BY <1>5, <4>1 DEF SectionInv, Loaders
    <3> QED
      BY <3>1, <3>2
  <2> QED
    BY <2>1, <2>2 DEF Loaders
<1>7. SectionsJoined'
  BY <1>2 DEF SectionsJoined, Joined
<1>8. OwnSection'
  <2>1. DOMAIN enabled = {}
    BY <1>2, LengthsAre, EmptySeq DEF LoopInv, Counters, BeforeLoad
  <2> QED
    BY <1>2, <2>1 DEF OwnSection
<1> QED
  BY <1>6, <1>7, <1>8 DEF SectionInv

LEMMA JoinSections ==
  ASSUME LoopInv, SectionInv, JoinConfig
  PROVE  SectionInv'
<1> DEFINE Keys == {SectionKey(s) : s \in input.sections}
           Pick(k, s) == /\ SectionKey(s) = k
                         /\ \A t \in input.sections : SectionKey(t) = k => t = s \/ s[1] = "plugin"
<1>1. /\ pc = "join" /\ \A s \in input.sections : s[2] \in DOMAIN loaders
      /\ joined' = [k \in Keys |-> CHOOSE s \in input.sections : Pick(k, s)]
      /\ UNCHANGED <<input, found, loaders, enabled>>
  BY DEF JoinConfig, world, matching, running
<1>2. input \in Inputs
  BY DEF LoopInv, Places
<1>3. ASSUME NEW s \in input.sections
      PROVE  joined'[SectionKey(s)] = SectionOf(s[2])
  <2> DEFINE x == s[2]
             c == SectionOf(x)
             k == SectionKey(s)
  <2>1. c \in input.sections /\ c[2] = x
    BY <1>2, SectionOfIs
  <2>2. \A t \in input.sections : SectionKey(t) = k => t[2] = x
    BY DEF SectionKey
  <2>3. \A t \in input.sections : t[2] = x => t \in {<<"module", x>>, <<"plugin", x>>}
    BY <1>2, SectionsAre
  <2>4. SectionKey(c) = k
    BY <2>1 DEF SectionKey
  <2>5. c = <<"plugin", x>> \/ (c = <<"module", x>> /\ <<"plugin", x>> \notin input.sections)
    BY <2>1, <2>3 DEF SectionOf
  <2>6. Pick(k, c)
    <3> HIDE DEF c, k, x
    <3> QED
      BY <2>2, <2>3, <2>4, <2>5
  <2>7. ASSUME NEW t \in input.sections, Pick(k, t)
        PROVE  t = c
    <3>1. t \in {<<"module", x>>, <<"plugin", x>>} /\ (c = t \/ t[1] = "plugin")
      BY <2>1, <2>2, <2>3, <2>4, <2>7
    <3> HIDE DEF c, k, x
    <3> QED
      BY <2>5, <3>1
  <2>8. k \in Keys
    OBVIOUS
  <2> HIDE DEF Pick, Keys, c, k
  <2>9. (CHOOSE t \in input.sections : Pick(k, t)) = c
    BY <2>1, <2>6, <2>7
  <2>10. joined'[k] = c
    BY <1>1, <2>8, <2>9
  <2> QED
    BY <2>10 DEF k, c
<1>4. SectionsJoined'
  <2>1. DOMAIN joined' = Keys
    <3> HIDE DEF Keys, Pick
    <3> QED
      BY <1>1
  <2>2. /\ input' = input /\ loaders' = loaders
        /\ \A s : SectionKey(s)' = SectionKey(s) /\ \A x : SectionOf(x)' = SectionOf(x)
    BY <1>1 DEF SectionKey, SectionOf
  <2> HIDE DEF Pick
  <2> QED
    BY <1>1, <1>3, <2>1, <2>2 DEF SectionsJoined
<1>5. Loaders' /\ OwnSection'
  BY <1>1 DEF SectionInv, Loaders, LastOf, OwnSection, Latest, SectionOf
<1> QED
  BY <1>4, <1>5 DEF SectionInv

LEMMA EnableSections ==
  ASSUME LoopInv, SectionInv, Enable
  PROVE  SectionInv'
<1>1. /\ pc = "enable" /\ pc' = pc /\ i <= Len(found)
      /\ enabled' = Append(enabled, Options(found[i]))
      /\ UNCHANGED <<input, found, loaders, joined>>
  BY DEF Enable, world, matching
<1>2. /\ i = Len(enabled) + 1 /\ DOMAIN found = 1 .. Len(found) /\ Len(enabled) \in Nat
      /\ Len(found) \in Nat
  BY <1>1, LengthsAre DEF LoopInv, Counters
<1>3. i \in DOMAIN found /\ input \in Inputs
  BY <1>1, <1>2 DEF LoopInv, Places
<1> DEFINE e == found[i]
           o == Options(e)
<1>4. /\ \A s \in input.sections : s[2] \in DOMAIN loaders /\ joined[SectionKey(s)] = SectionOf(s[2])
      /\ DOMAIN joined = {SectionKey(s) : s \in input.sections}
  BY <1>1 DEF SectionInv, SectionsJoined, Joined
<1>5. PICK last \in DOMAIN found : LastOf(e.name, last) /\ loaders[e.name] = found[last]
  BY <1>3 DEF SectionInv, Loaders
<1>6. o = IF e.ver = found[last].ver THEN SectionOf(e.name) ELSE NoSection
  <2> HIDE DEF e
  <2>1. CASE <<e.name, e.ver>> \in DOMAIN joined
    <3>1. PICK s \in input.sections : SectionKey(s) = <<e.name, e.ver>>
      BY <1>4, <2>1
    <3>2. s[2] = e.name /\ loaders[e.name].ver = e.ver
      BY <3>1 DEF SectionKey
    <3> QED
      BY <1>4, <1>5, <2>1, <3>1, <3>2 DEF Options
  <2>2. CASE <<e.name, e.ver>> \notin DOMAIN joined
    <3>1. o = NoSection
      BY <2>2 DEF Options
    <3>2. ASSUME e.ver = found[last].ver
          PROVE  SectionOf(e.name) = NoSection
      <4>1. \A s \in input.sections : s[2] = e.name => SectionKey(s) = <<e.name, e.ver>>
        BY <1>5, <3>2 DEF SectionKey
      <4>2. \A s \in input.sections : s[2] # e.name
        BY <1>4, <2>2, <4>1
      <4> QED
        BY <1>3, <4>2, SectionOfIs
    <3> QED
      BY <3>1, <3>2
  <2> QED
    BY <2>1, <2>2
<1>7. o \in input.sections \cup {NoSection}
  BY <1>3, <1>6, SectionOfIs
<1> HIDE DEF o
<1>8. /\ DOMAIN enabled = 1 .. Len(enabled) /\ DOMAIN enabled' = 1 .. (Len(enabled) + 1)
      /\ enabled'[Len(enabled) + 1] = o
      /\ \A k \in 1 .. Len(enabled) : enabled'[k] = enabled[k]
  <2>1. enabled' = Append(enabled, o)
    BY <1>1 DEF o
  <2> QED
    BY <1>7, <2>1, Longer DEF LoopInv, TheSequences
<1>9. ASSUME NEW n \in DOMAIN enabled', NEW m \in DOMAIN found, Latest(n, m)
      PROVE  enabled'[n] = IF found[n].ver = found[m].ver THEN SectionOf(found[n].name) ELSE NoSection
  <2>1. CASE n = i
    <3>1. m = last
      <4>1. found[m].name = e.name /\ found[last].name = e.name
        BY <1>5, <1>9, <2>1 DEF Latest, LastOf
      <4>2. ~(m > last) /\ ~(last > m)
        BY <1>5, <1>9, <2>1, <4>1 DEF Latest, LastOf
      <4> QED
        BY <1>2, <4>2
    <3> QED
      BY <1>2, <1>6, <1>8, <2>1, <3>1
  <2>2. CASE n # i
    <3>1. n \in DOMAIN enabled /\ enabled'[n] = enabled[n]
      BY <1>2, <1>8, <2>2
    <3> QED
      BY <1>9, <3>1 DEF SectionInv, OwnSection
  <2> QED
    BY <2>1, <2>2
<1>10. OwnSection'
  <2>1. /\ found' = found /\ \A n, m : Latest(n, m)' <=> Latest(n, m)
        /\ \A x : SectionOf(x)' = SectionOf(x)
    BY <1>1 DEF Latest, SectionOf
  <2> QED
    BY <1>9, <2>1 DEF OwnSection
<1>11. Loaders' /\ SectionsJoined'
  <2>1. Loaders'
    BY <1>1 DEF SectionInv, Loaders, LastOf
  <2>2. SectionsJoined'
    BY <1>1 DEF SectionInv, SectionsJoined, SectionKey, SectionOf
  <2> QED
    BY <2>1, <2>2
<1> QED
  BY <1>10, <1>11 DEF SectionInv

\* Nothing else touches what is found, joined or enabled, or leaves the join well.
LEMMA DllStays ==
  ASSUME Dll, pc' \in Joined
  PROVE  pc' = pc
<1>1. CASE Detour \/ MakeCore \/ ProcessArguments \/ InitializeLua
  BY <1>1 DEF Detour, MakeCore, ProcessArguments, InitializeLua, Joined
<1>2. CASE OpenStore
  BY <1>2 DEF OpenStore, Joined
<1>3. CASE VerifyCode \/ RunMain
  BY <1>3 DEF VerifyCode, RunMain, Joined
<1>4. CASE Verify \/ FinishInitialize \/ StartGame
  BY <1>4 DEF Verify, FinishInitialize, StartGame, control
<1> QED
  BY <1>1, <1>2, <1>3, <1>4 DEF Dll

LEMMA RestOfSteps ==
  ASSUME LoopInv, [Next]_vars, ~Match, ~JoinConfig, ~Enable
  PROVE  /\ UNCHANGED <<input, found, loaders, joined, enabled>>
         /\ pc' \in Joined => pc \in Joined
<1>1. CASE Dll
  BY <1>1, DllIsStill, DllStays DEF Still, matching
<1>2. CASE ApplyFixes \/ ReadConfig \/ MatchNone \/ MatchDone
  BY <1>2 DEF ApplyFixes, ReadConfig, MatchNone, MatchDone, Goto, Joined, world, matching, running
<1>3. CASE MatchTwice \/ JoinFails \/ ScriptRaises
  BY <1>3 DEF MatchTwice, JoinFails, ScriptRaises, Raise, Joined, world, matching, running
<1>4. CASE VerifyModule \/ LoadRefused \/ Load
  BY <1>4 DEF VerifyModule, LoadRefused, Load, Joined, world, control, script, matching, running
<1>5. CASE WriteConfig \/ LoadDone \/ EnableDone \/ Finish
  BY <1>5 DEF WriteConfig, LoadDone, EnableDone, Finish, Goto, Joined, world, matching, running
<1>6. CASE Die
  BY <1>6 DEF Die, Joined, world, matching, running
<1>7. CASE UNCHANGED vars
  BY <1>7 DEF vars, control, world, matching, running
<1> QED
  BY <1>1, <1>2, <1>3, <1>4, <1>5, <1>6, <1>7 DEF Next, Main

LEMMA SectionStep ==
  ASSUME LoopInv, SectionInv, [Next]_vars
  PROVE  SectionInv'
<1>1. CASE Match \/ JoinConfig \/ Enable
  BY <1>1, MatchSections, JoinSections, EnableSections
<1>2. CASE ~Match /\ ~JoinConfig /\ ~Enable
  <2>1. /\ UNCHANGED <<input, found, loaders, joined, enabled>>
        /\ pc' \in Joined => pc \in Joined
    BY <1>2, RestOfSteps
  <2>2. Loaders' /\ OwnSection'
    BY <2>1 DEF SectionInv, Loaders, LastOf, OwnSection, Latest, SectionOf
  <2>3. SectionsJoined'
    BY <2>1 DEF SectionInv, SectionsJoined, SectionKey, SectionOf
  <2> QED
    BY <2>2, <2>3 DEF SectionInv
<1> QED
  BY <1>1, <1>2

LEMMA SectionInit ==
  ASSUME Init
  PROVE  SectionInv
<1>1. pc = "loading" /\ found = << >> /\ loaders = << >> /\ enabled = << >>
  BY DEF Init
<1>2. DOMAIN << >> = {}
  OBVIOUS
<1> QED
  BY <1>1, <1>2 DEF SectionInv, Loaders, SectionsJoined, Joined, OwnSection

\* Each extension gets the options of the section of its name, also where a module and
\* a plugin share one, or none where there is none.
THEOREM OwnOptions == Spec => []OwnSection
<1>1. LoopInv /\ SectionInv /\ [Next]_vars => SectionInv'
  BY SectionStep
<1>2. SectionInv => OwnSection
  BY DEF SectionInv
<1> QED
  BY SectionInit, <1>1, <1>2, LoopsKeepStep, PTL DEF Spec

-----------------------------------------------------------------------------
(* The start takes each extension through the stages of its lifecycle.         *)

FoundIds   == {Id(found[n]) : n \in DOMAIN found}
SeenIds    == {Id(found[n]) : n \in DOMAIN sees}
EnabledIds == {Id(found[n]) : n \in DOMAIN enabled}

LifeMap == [e \in Kinds \X Names |-> Life(e)]

LEMMA LifeIs ==
  ASSUME NEW e
  PROVE  Life(e) = IF e \in EnabledIds THEN "enabled"
                   ELSE IF e \in SeenIds THEN "loaded"
                   ELSE IF e \in FoundIds THEN "matched" ELSE "absent"
BY DEF Life, EnabledIds, SeenIds, FoundIds

LEMMA LifeIsNext ==
  ASSUME NEW e
  PROVE  Life(e)' = IF e \in EnabledIds' THEN "enabled"
                    ELSE IF e \in SeenIds' THEN "loaded"
                    ELSE IF e \in FoundIds' THEN "matched" ELSE "absent"
BY DEF Life, EnabledIds, SeenIds, FoundIds

\* What an advance of one extension is, in the terms of this module.
LEMMA Advances ==
  ASSUME NEW x \in Kinds \X Names, NEW from, NEW to, ~Over, Over' = Over,
         LifeMap[x] = from, LifeMap' = [LifeMap EXCEPT ![x] = to]
  PROVE  Lifecycle!Advance(x, from, to)
BY DEF Lifecycle!Advance, LifeMap

LEMMA LifeMapIs ==
  /\ DOMAIN LifeMap = Kinds \X Names /\ DOMAIN LifeMap' = Kinds \X Names
  /\ \A e \in Kinds \X Names :
       /\ LifeMap[e] = IF e \in EnabledIds THEN "enabled"
                       ELSE IF e \in SeenIds THEN "loaded"
                       ELSE IF e \in FoundIds THEN "matched" ELSE "absent"
       /\ LifeMap'[e] = IF e \in EnabledIds' THEN "enabled"
                        ELSE IF e \in SeenIds' THEN "loaded"
                        ELSE IF e \in FoundIds' THEN "matched" ELSE "absent"
<1>1. ASSUME NEW e \in Kinds \X Names
      PROVE  LifeMap[e] = Life(e) /\ LifeMap'[e] = Life(e)'
  BY DEF LifeMap
<1>2. DOMAIN LifeMap = Kinds \X Names /\ DOMAIN LifeMap' = Kinds \X Names
  BY DEF LifeMap
<1> QED
  BY <1>1, <1>2, LifeIs, LifeIsNext

LEMMA StageIs ==
  ASSUME NEW stage
  PROVE  Lifecycle!In(stage) = {e \in Kinds \X Names : LifeMap[e] = stage}
BY DEF Lifecycle!In, LifeMap

\* When nothing is found, loaded or enabled, nobody advances.
LEMMA LifeStays ==
  ASSUME UNCHANGED <<found, sees, enabled>>
  PROVE  LifeMap' = LifeMap
<1>1. FoundIds' = FoundIds /\ SeenIds' = SeenIds /\ EnabledIds' = EnabledIds
  BY DEF FoundIds, SeenIds, EnabledIds
<1>2. \A e \in Kinds \X Names : LifeMap'[e] = LifeMap[e]
  BY <1>1, LifeMapIs
<1>3. LifeMap = [e \in Kinds \X Names |-> LifeMap[e]] /\ LifeMap' = [e \in Kinds \X Names |-> LifeMap'[e]]
  BY DEF LifeMap
<1> QED
  BY <1>2, <1>3

LEMMA StepWithoutLife ==
  ASSUME UNCHANGED <<found, sees, enabled>>, Over => Over'
  PROVE  [Lifecycle!Next]_<<LifeMap, Over>>
<1>1. LifeMap' = LifeMap
  BY LifeStays
<1>2. CASE Over' = Over
  BY <1>1, <1>2
<1>3. CASE Over' # Over
  <2>1. ~Over /\ Over' = TRUE
    BY <1>3 DEF Over
  <2>2. Lifecycle!End
    BY <1>1, <2>1 DEF Lifecycle!End, LifeMap
  <2> QED
    BY <2>2 DEF Lifecycle!Next
<1> QED
  BY <1>2, <1>3

LEMMA MatchAdvances ==
  ASSUME LoopInv, LoopInv', Match
  PROVE  Lifecycle!Next
<1>1. PICK e \in Matches(Req) : Id(e) \notin DOMAIN aliases /\ found' = Append(found, e)
  BY DEF Match
<1>2. pc = "match" /\ pc' = pc /\ UNCHANGED <<sees, enabled>>
  BY DEF Match, running
<1>3. e \in input.installed
  BY <1>1, MatchesIs
<1> DEFINE x == Id(e)
<1>4. x \in Kinds \X Names
  BY <1>3, IdIs DEF LoopInv
<1>5. /\ DOMAIN found = 1 .. Len(found) /\ DOMAIN found' = 1 .. (Len(found) + 1)
      /\ found'[Len(found) + 1] = e /\ \A k \in 1 .. Len(found) : found'[k] = found[k]
      /\ Len(found) \in Nat
  BY <1>1, <1>3, Longer DEF LoopInv, TheSequences
<1>6. DOMAIN sees = {} /\ DOMAIN enabled = {}
  BY <1>2, LengthsAre, EmptySeq DEF LoopInv, Counters, BeforeLoad
<1>7. SeenIds = {} /\ EnabledIds = {} /\ SeenIds' = {} /\ EnabledIds' = {}
  BY <1>2, <1>6 DEF SeenIds, EnabledIds
<1>8. FoundIds' = FoundIds \cup {x} /\ x \notin FoundIds
  BY <1>1, <1>5 DEF FoundIds, LoopInv, Distinct
<1> HIDE DEF x
<1>9. LifeMap[x] = "absent" /\ LifeMap' = [LifeMap EXCEPT ![x] = "matched"]
  <2>1. LifeMap[x] = "absent"
    BY <1>4, <1>7, <1>8, LifeMapIs
  <2>2. \A y \in Kinds \X Names : LifeMap'[y] = IF y = x THEN "matched" ELSE LifeMap[y]
    BY <1>7, <1>8, LifeMapIs
  <2>3. LifeMap' = [y \in Kinds \X Names |-> LifeMap'[y]]
    BY DEF LifeMap
  <2>4. [LifeMap EXCEPT ![x] = "matched"] =
          [y \in Kinds \X Names |-> IF y = x THEN "matched" ELSE LifeMap[y]]
    BY LifeMapIs
  <2> QED
    BY <2>1, <2>2, <2>3, <2>4
<1>10. ~Over /\ Over' = Over
  BY <1>2 DEF Over, Ended, Failed
<1>11. Lifecycle!Advance(x, "absent", "matched")
  BY <1>4, <1>9, <1>10, Advances
<1>12. Lifecycle!In("loaded") = {} /\ Lifecycle!In("enabled") = {}
  BY <1>7, StageIs, LifeMapIs
<1> QED
  BY <1>4, <1>11, <1>12 DEF Lifecycle!Next, Lifecycle!Match

\* The map of stages when one extension gets a new one.
LEMMA LifeChanges ==
  ASSUME NEW x \in Kinds \X Names, NEW to,
         \A y \in Kinds \X Names : LifeMap'[y] = IF y = x THEN to ELSE LifeMap[y]
  PROVE  LifeMap' = [LifeMap EXCEPT ![x] = to]
<1>1. LifeMap' = [y \in Kinds \X Names |-> LifeMap'[y]]
  BY DEF LifeMap
<1>2. [LifeMap EXCEPT ![x] = to] = [y \in Kinds \X Names |-> IF y = x THEN to ELSE LifeMap[y]]
  BY LifeMapIs
<1> QED
  BY <1>1, <1>2

LEMMA LoadAdvances ==
  ASSUME LoopInv, Load
  PROVE  Lifecycle!Next
<1>1. /\ pc = "load" /\ pc' = pc /\ i <= Len(found) /\ sees' = Append(sees, proxies)
      /\ UNCHANGED <<found, enabled>>
  BY DEF Load, matching
<1>2. /\ i = Len(sees) + 1 /\ enabled = << >> /\ DOMAIN found = 1 .. Len(found)
      /\ Len(found) \in Nat /\ DOMAIN enabled = 1 .. Len(enabled)
  BY <1>1, LengthsAre DEF LoopInv, Counters
<1>3. /\ DOMAIN sees = 1 .. Len(sees) /\ DOMAIN sees' = 1 .. (Len(sees) + 1) /\ Len(sees) \in Nat
  BY <1>1, ProxiesAre, Longer DEF LoopInv, TheSequences
<1> DEFINE x == Id(found[i])
<1>4. i \in DOMAIN found /\ i \notin DOMAIN sees /\ DOMAIN sees \subseteq DOMAIN found
      /\ DOMAIN sees' = DOMAIN sees \cup {i}
  BY <1>1, <1>2, <1>3
<1>5. x \in Kinds \X Names
  <2>1. found[i] \in input.installed
    BY <1>2, <1>4, ElementOfSeq DEF LoopInv, TheSequences
  <2> QED
    BY <2>1, IdIs DEF LoopInv
<1>6. EnabledIds = {} /\ EnabledIds' = {}
  BY <1>1, <1>2 DEF EnabledIds
<1>7. FoundIds' = FoundIds /\ x \in FoundIds /\ SeenIds' = SeenIds \cup {x} /\ x \notin SeenIds
  BY <1>1, <1>4 DEF FoundIds, SeenIds, LoopInv, Distinct
<1> HIDE DEF x
<1>8. LifeMap[x] = "matched"
  BY <1>5, <1>6, <1>7, LifeMapIs
<1>9. \A y \in Kinds \X Names : LifeMap'[y] = IF y = x THEN "loaded" ELSE LifeMap[y]
  BY <1>6, <1>7, LifeMapIs
<1>10. ~Over /\ Over' = Over
  BY <1>1 DEF Over, Ended, Failed
<1>11. Lifecycle!Advance(x, "matched", "loaded")
  BY <1>5, <1>8, <1>9, <1>10, LifeChanges, Advances
<1>12. Lifecycle!In("enabled") = {}
  BY <1>6, StageIs, LifeMapIs
<1> QED
  BY <1>5, <1>11, <1>12 DEF Lifecycle!Next, Lifecycle!Load

LEMMA EnableAdvances ==
  ASSUME LoopInv, Enable
  PROVE  Lifecycle!Next
<1>1. /\ pc = "enable" /\ pc' = pc /\ i <= Len(found)
      /\ enabled' = Append(enabled, Options(found[i]))
      /\ UNCHANGED <<found, sees>>
  BY DEF Enable, matching
<1>2. /\ i = Len(enabled) + 1 /\ Len(sees) = Len(found) /\ DOMAIN found = 1 .. Len(found)
      /\ Len(found) \in Nat /\ DOMAIN sees = 1 .. Len(sees)
  BY <1>1, LengthsAre DEF LoopInv, Counters
<1>3. Options(found[i]) \in input.sections \cup {NoSection}
  BY DEF Options, LoopInv, JoinedOK
<1>4. /\ DOMAIN enabled = 1 .. Len(enabled) /\ DOMAIN enabled' = 1 .. (Len(enabled) + 1)
      /\ Len(enabled) \in Nat
  BY <1>1, <1>3, Longer DEF LoopInv, TheSequences
<1> DEFINE x == Id(found[i])
<1>5. i \in DOMAIN found /\ i \notin DOMAIN enabled /\ DOMAIN enabled \subseteq DOMAIN found
      /\ DOMAIN enabled' = DOMAIN enabled \cup {i}
  BY <1>1, <1>2, <1>4
<1>6. x \in Kinds \X Names
  <2>1. found[i] \in input.installed
    BY <1>2, <1>5, ElementOfSeq DEF LoopInv, TheSequences
  <2> QED
    BY <2>1, IdIs DEF LoopInv
<1>7. SeenIds = FoundIds /\ SeenIds' = SeenIds /\ FoundIds' = FoundIds /\ x \in SeenIds
  BY <1>1, <1>2, <1>5 DEF SeenIds, FoundIds
<1>8. EnabledIds' = EnabledIds \cup {x} /\ x \notin EnabledIds
  BY <1>1, <1>5 DEF EnabledIds, LoopInv, Distinct
<1> HIDE DEF x
<1>9. LifeMap[x] = "loaded"
  BY <1>6, <1>7, <1>8, LifeMapIs
<1>10. \A y \in Kinds \X Names : LifeMap'[y] = IF y = x THEN "enabled" ELSE LifeMap[y]
  BY <1>7, <1>8, LifeMapIs
<1>11. ~Over /\ Over' = Over
  BY <1>1 DEF Over, Ended, Failed
<1>12. Lifecycle!Advance(x, "loaded", "enabled")
  BY <1>6, <1>9, <1>10, <1>11, LifeChanges, Advances
<1>13. Lifecycle!In("matched") = {}
  BY <1>7, StageIs, LifeMapIs
<1> QED
  BY <1>6, <1>12, <1>13 DEF Lifecycle!Next, Lifecycle!Enable

\* The end of the start is final.
LEMMA EndStays ==
  ASSUME LoopInv, [Next]_vars, Over
  PROVE  Over'
<1>1. pc \notin Working /\ pc \notin Before
  BY StagesAre DEF Over
<1>2. ~Main
  BY <1>1 DEF Main, ApplyFixes, ReadConfig, Match, MatchTwice, MatchNone, MatchDone, JoinConfig,
     JoinFails, WriteConfig, VerifyModule, LoadRefused, Load, LoadDone, Enable, EnableDone, Finish,
     ScriptRaises, Working
<1>3. CASE Dll
  <2>1. Still
    BY <1>3, DllIsStill
  <2> QED
    BY <1>1, <2>1 DEF Still, Over, BeforeLoad, Working
<1>4. CASE Die
  BY <1>4 DEF Die, Over, Ended
<1>5. CASE UNCHANGED vars
  BY <1>5 DEF vars, control, Over
<1> QED
  BY <1>2, <1>3, <1>4, <1>5 DEF Next

LEMMA LifeStep ==
  ASSUME LoopInv, LoopInv', [Next]_vars
  PROVE  [Lifecycle!Next]_<<LifeMap, Over>>
<1>1. CASE Match
  BY <1>1, MatchAdvances
<1>2. CASE Load
  BY <1>2, LoadAdvances
<1>3. CASE Enable
  BY <1>3, EnableAdvances
<1>4. CASE ~Match /\ ~Load /\ ~Enable
  <2>1. UNCHANGED <<found, sees, enabled>>
    <3>1. CASE Dll \/ Die \/ UNCHANGED vars
      BY <3>1, DllIsStill, OthersAreStill DEF Still, matching
    <3>2. CASE Main
      BY <1>4, <3>2 DEF Main, ApplyFixes, ReadConfig, MatchTwice, MatchNone, MatchDone, JoinConfig,
         JoinFails, WriteConfig, VerifyModule, LoadRefused, LoadDone, EnableDone, Finish,
         ScriptRaises, Raise, script, matching, running
    <3> QED
      BY <3>1, <3>2 DEF Next
  <2> QED
    BY <2>1, EndStays, StepWithoutLife
<1> QED
  BY <1>1, <1>2, <1>3, <1>4

LEMMA LifeInit ==
  ASSUME Init
  PROVE  Lifecycle!Init
<1>1. pc = "loading" /\ found = << >> /\ sees = << >> /\ enabled = << >> /\ DOMAIN << >> = {}
  BY DEF Init
<1>2. FoundIds = {} /\ SeenIds = {} /\ EnabledIds = {}
  BY <1>1 DEF FoundIds, SeenIds, EnabledIds
<1>3. \A e \in Kinds \X Names : Life(e) = "absent"
  BY <1>2, LifeIs
<1>4. ~Over
  BY <1>1 DEF Over, Ended, Failed
<1> QED
  BY <1>3, <1>4 DEF Lifecycle!Init

\* The start is an implementation of the lifecycle: each extension is matched,
\* loaded and enabled in this order, nobody is loaded before all are matched or
\* enabled before all are loaded, and nothing moves after the end.
THEOREM StartIsALifecycle == Spec => ImplementsLifecycle
<1>1. LoopInv /\ LoopInv' /\ [Next]_vars => [Lifecycle!Next]_<<LifeMap, Over>>
  BY LifeStep
<1>2. [Lifecycle!Next]_<<LifeMap, Over>> => [Lifecycle!Next]_<<[e \in Kinds \X Names |-> Life(e)], Over>>
  BY DEF LifeMap
<1>3. Init => Lifecycle!Init
  BY LifeInit
<1> QED
  BY <1>1, <1>2, <1>3, LoopsKeepStep, PTL DEF Spec, ImplementsLifecycle, Lifecycle!Spec
=============================================================================
