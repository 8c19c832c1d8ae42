------------------------------ MODULE LuaData_proofs -----------------------------
(***************************************************************************)
(* Proofs about what Lua code looks up and keeps: the cache of addresses   *)
(* (AobCache), captures (AobExtract) and user data (UserData).             *)
(***************************************************************************)
EXTENDS AobCache, AobExtract, UserData, NumberInduction, SequenceTheorems

-----------------------------------------------------------------------------
(* The cache, for any patterns, addresses, patches, files and starts.  An    *)
(* entry only counts when a scan that starts at it ends there, so what       *)
(* matters is what a scan promises.                                          *)

\* What is no table came from a file that is still there while anything is searched.
ScalarIsOnDisk ==
  aobs = Scalar => stage # "fixes" /\ (stage \in {"run", "done"} => file = ScalarFile)

CacheInv == TypeOK /\ ScalarIsOnDisk /\ AnswerMatches

LEMMA ScalarNoCache == Scalar \notin Caches
BY CacheAssumption DEF Caches, Addr

\* A scan finds a match in its range, or there is none.
LEMMA ScanFinds ==
  ASSUME NEW p \in Aob, NEW lo \in Nat, NEW hi \in Nat
  PROVE  LET a == ScanForAOB(p, lo, hi) IN
           IF a = None THEN \A x \in lo..hi : p \notin mem[x]
           ELSE a \in lo..hi /\ p \in mem[a]
<1> DEFINE hits == {x \in lo..hi : p \in mem[x]}
           least == CHOOSE x \in hits : \A y \in hits : x <= y
<1>1. CASE hits = {}
  <2>1. ScanForAOB(p, lo, hi) = None
    BY <1>1 DEF ScanForAOB
  <2>2. \A x \in lo..hi : p \notin mem[x]
    BY <1>1
  <2> QED
    BY <2>1, <2>2
<1>2. CASE hits # {}
  <2>1. hits \subseteq Nat
    OBVIOUS
  <2>2. \E x \in hits : \A y \in hits : x <= y
    <3> HIDE DEF hits
    <3> QED
      BY <1>2, <2>1, LeastNumber
  <2>3. least \in hits
    <3> HIDE DEF hits
    <3> QED
      BY <2>2
  <2>4. ScanForAOB(p, lo, hi) = least
    BY <1>2 DEF ScanForAOB
  <2>5. least # None
    BY <2>1, <2>3, CacheAssumption
  <2>6. least \in lo..hi /\ p \in mem[least]
    BY <2>3
  <2> HIDE DEF least
  <2> QED
    BY <2>4, <2>5, <2>6
<1> QED
  BY <1>1, <1>2

LEMMA AddrNat == Addr \subseteq Nat /\ 1 \in Nat /\ MaxAddr \in Nat /\ None \notin Addr
BY CacheAssumption DEF Addr

\* What the cache says is a match, and it raises an error only if there is none.
LEMMA RetrievedMatches ==
  ASSUME TypeOK, aobs # Scalar, NEW p \in Aob
  PROVE  LET r == Retrieved(p) IN
           IF r = None THEN \A x \in Addr : p \notin mem[x]
           ELSE r \in Addr /\ p \in mem[r]
<1>1. CASE Confirmed(p)
  <2>1. p \in DOMAIN aobs /\ ScanForAOB(p, aobs[p], MaxAddr) = aobs[p] /\ Retrieved(p) = aobs[p]
    BY <1>1 DEF Confirmed, Retrieved
  <2>2. aobs[p] \in Addr
    BY <2>1 DEF TypeOK, Caches
  <2>3. aobs[p] \in Nat /\ aobs[p] # None
    BY <2>2, AddrNat
  <2>4. p \in mem[aobs[p]]
    BY <2>1, <2>3, AddrNat, ScanFinds
  <2> QED
    BY <2>1, <2>2, <2>3, <2>4
<1>2. CASE ~Confirmed(p)
  BY <1>2, AddrNat, ScanFinds DEF Retrieved, Addr
<1> QED
  BY <1>1, <1>2

LEMMA AOBScanMatches ==
  ASSUME TypeOK, aobs # Scalar, NEW p \in Aob, NEW lo \in Bounds, NEW hi \in Bounds
  PROVE  LET a == AOBScan(p, lo, hi) IN
           IF a = None THEN \A x \in Addr : InRange(x, lo, hi) => p \notin mem[x]
           ELSE a \in Addr /\ p \in mem[a] /\ InRange(a, lo, hi)
<1> DEFINE from == IF lo = None THEN 1 ELSE lo
           to   == IF hi = None THEN MaxAddr ELSE hi
<1>1. CASE Retrieved(p) = None
  BY <1>1, RetrievedMatches DEF AOBScan
<1>2. CASE Retrieved(p) # None /\ InRange(Retrieved(p), lo, hi)
  BY <1>2, RetrievedMatches DEF AOBScan
<1>3. CASE Retrieved(p) # None /\ ~InRange(Retrieved(p), lo, hi)
  <2>1. AOBScan(p, lo, hi) = ScanForAOB(p, from, to)
    BY <1>3 DEF AOBScan
  <2>2. from \in Addr /\ to \in Addr /\ from \in Nat /\ to \in Nat
    BY CacheAssumption DEF Bounds, Addr
  <2>3. \A x \in Addr : x \in from..to <=> InRange(x, lo, hi)
    BY CacheAssumption DEF InRange, Bounds, Addr
  <2>4. from..to \subseteq Addr
    BY <2>2, CacheAssumption DEF Addr
  <2> HIDE DEF from, to
  <2>5. IF ScanForAOB(p, from, to) = None THEN \A x \in from..to : p \notin mem[x]
        ELSE ScanForAOB(p, from, to) \in from..to /\ p \in mem[ScanForAOB(p, from, to)]
    BY <2>2, ScanFinds
  <2> QED
    BY <2>1, <2>3, <2>4, <2>5
<1> QED
  BY <1>1, <1>2, <1>3

\* The cache stays a table of addresses.
LEMMA AfterRetrieveIsCache ==
  ASSUME TypeOK, aobs # Scalar, NEW p \in Aob
  PROVE  AfterRetrieve(p) \in Caches
<1> DEFINE base == IF p \in DOMAIN aobs /\ ~Confirmed(p) THEN Empty ELSE aobs
           r    == Retrieved(p)
<1>1. base \in Caches
  <2>1. aobs \in Caches
    BY DEF TypeOK
  <2>2. Empty \in Caches
    BY DEF Caches, Empty
  <2> QED
    BY <2>1, <2>2
<1>2. PICK D \in SUBSET Aob : base \in [D -> Addr]
  BY <1>1 DEF Caches
<1>3. CASE r = None
  BY <1>1, <1>3 DEF AfterRetrieve
<1>4. CASE r # None
  <2>1. r \in Addr
    BY <1>4, RetrievedMatches
  <2>2. AfterRetrieve(p) = [q \in DOMAIN base \cup {p} |-> IF q = p THEN r ELSE base[q]]
    BY <1>4 DEF AfterRetrieve
  <2> HIDE DEF base, r
  <2>3. [q \in DOMAIN base \cup {p} |-> IF q = p THEN r ELSE base[q]] \in [D \cup {p} -> Addr]
    BY <1>2, <2>1
  <2>4. D \cup {p} \in SUBSET Aob
    OBVIOUS
  <2> QED
    BY <2>2, <2>3, <2>4 DEF Caches
<1> QED
  BY <1>3, <1>4

LEMMA EmptyIsCache == Empty \in Caches
<1>1. Empty \in [{} -> Addr]
  BY DEF Empty
<1> QED
  BY <1>1 DEF Caches

LEMMA CachedIsFile ==
  ASSUME NEW c \in Caches
  PROVE  Cached(c) \in Files
BY DEF Files

LEMMA CutShortIsFile ==
  ASSUME NEW f
  PROVE  CutShort(f) \subseteq Files
BY DEF CutShort, Files

-----------------------------------------------------------------------------
LEMMA CacheInitial == CacheInit => CacheInv
<1> SUFFICES ASSUME CacheInit PROVE CacheInv
  OBVIOUS
<1>1. aobs = Empty /\ aobs # Scalar
  BY EmptyIsCache, ScalarNoCache DEF CacheInit
<1>2. TypeOK
  BY EmptyIsCache, CacheAssumption DEF CacheInit, TypeOK, Stages
<1>3. AnswerMatches /\ ScalarIsOnDisk
  BY <1>1 DEF CacheInit, AnswerMatches, ScalarIsOnDisk
<1> QED
  BY <1>2, <1>3 DEF CacheInv

\* Without a table, every search raises an error.
LEMMA ScalarRaises ==
  ASSUME aobs = Scalar, NEW p, NEW lo, NEW hi
  PROVE  AOBScan(p, lo, hi) = None /\ AfterRetrieve(p) = Scalar
BY DEF AOBScan, Retrieved, AfterRetrieve

LEMMA ScanKeeps ==
  ASSUME CacheInv, NEW p \in Aob, NEW lo \in Bounds, NEW hi \in Bounds, Scan(p, lo, hi)
  PROVE  CacheInv'
<1> DEFINE a == AOBScan(p, lo, hi)
<1>1. /\ answer' = [aob |-> p, lo |-> lo, hi |-> hi, addr |-> a] /\ mem' = mem /\ file' = file
      /\ stage \in {"fixes", "run", "done"} /\ (stage' = stage \/ stage' = "failed")
      /\ aobs' = AfterRetrieve(p) /\ UNCHANGED <<exe, patches, restarts>>
  BY DEF Scan
<1>2. aobs # Scalar => IF a = None THEN \A x \in Addr : InRange(x, lo, hi) => p \notin mem[x]
                       ELSE a \in Addr /\ p \in mem[a] /\ InRange(a, lo, hi)
  BY AOBScanMatches DEF CacheInv
<1>3. aobs = Scalar => a = None /\ aobs' = Scalar /\ file = ScalarFile /\ stage # "fixes"
  BY <1>1, ScalarRaises DEF CacheInv, ScalarIsOnDisk
<1>4. aobs # Scalar => aobs' \in Caches
  BY <1>1, AfterRetrieveIsCache DEF CacheInv
<1> HIDE DEF a
<1>5. AnswerMatches'
  <2>1. CASE aobs = Scalar
    BY <1>1, <1>3, <2>1 DEF AnswerMatches
  <2>2. CASE aobs # Scalar
    BY <1>1, <1>2, <2>2 DEF AnswerMatches, InRange
  <2> QED
    BY <2>1, <2>2
<1>6. answer' \in [aob : Aob, lo : Bounds, hi : Bounds, addr : Bounds]
  BY <1>1, <1>2, <1>3 DEF Bounds
<1>7. TypeOK'
  BY <1>1, <1>3, <1>4, <1>6 DEF CacheInv, TypeOK, Stages
<1>8. ScalarIsOnDisk'
  BY <1>1, <1>3, <1>4, ScalarNoCache DEF ScalarIsOnDisk
<1> QED
  BY <1>5, <1>7, <1>8 DEF CacheInv

LEMMA CacheStep == CacheInv /\ [CacheNext]_cacheVars => CacheInv'
<1> SUFFICES ASSUME CacheInv, [CacheNext]_cacheVars PROVE CacheInv'
  OBVIOUS
<1> USE DEF CacheInv
<1>1. ASSUME NEW p \in Aob, NEW lo \in Bounds, NEW hi \in Bounds, Scan(p, lo, hi)
      PROVE  CacheInv'
  BY <1>1, ScanKeeps
<1>2. ASSUME NEW x \in Addr, Patch(x)
      PROVE  CacheInv'
  <2>1. PICK s \in SUBSET Aob : mem' = [mem EXCEPT ![x] = s]
    BY <1>2 DEF Patch
  <2>2. mem' \in Memories
    BY <2>1 DEF TypeOK, Memories
  <2>3. TypeOK'
    BY <1>2, <2>2, CacheAssumption DEF Patch, TypeOK
  <2> QED
    BY <1>2, <2>3 DEF Patch, AnswerMatches, ScalarIsOnDisk
<1>3. ASSUME LoadFromFile
      PROVE  CacheInv'
  <2>1. file.kind = "cache" => file.map \in Caches
    BY DEF TypeOK, Files, NoFile, TornFile, ScalarFile, Cached
  <2>2. file.kind = "scalar" => file = ScalarFile
    BY DEF TypeOK, Files, NoFile, TornFile, ScalarFile, Cached
  <2>3. aobs # Scalar
    BY <1>3 DEF LoadFromFile, ScalarIsOnDisk
  <2>4. TypeOK' /\ AnswerMatches'
    BY <1>3, <2>1 DEF LoadFromFile, TypeOK, AnswerMatches, Stages
  <2>5. ScalarIsOnDisk'
    BY <1>3, <2>1, <2>2, <2>3, ScalarNoCache DEF LoadFromFile, ScalarIsOnDisk
  <2> QED
    BY <2>4, <2>5
<1>4. ASSUME DumpOpens
      PROVE  CacheInv'
  <2>1. TypeOK' /\ AnswerMatches'
    BY <1>4, EmptyIsCache, CachedIsFile DEF DumpOpens, TypeOK, AnswerMatches, Stages
  <2> QED
    BY <1>4, <2>1 DEF DumpOpens, ScalarIsOnDisk
<1>5. ASSUME DumpWrites
      PROVE  CacheInv'
  <2>1. aobs # Scalar => Cached(aobs) \in Files
    BY CachedIsFile DEF TypeOK
  <2>2. TypeOK' /\ AnswerMatches'
    BY <1>5, <2>1 DEF DumpWrites, TypeOK, AnswerMatches, Stages
  <2> QED
    BY <1>5, <2>2 DEF DumpWrites, ScalarIsOnDisk
<1>6. ASSUME RestartGame
      PROVE  CacheInv'
  <2>1. file' \in Files
    BY <1>6, CutShortIsFile DEF RestartGame, TypeOK
  <2>2. aobs' # Scalar
    BY <1>6, EmptyIsCache, ScalarNoCache DEF RestartGame
  <2>3. TypeOK' /\ AnswerMatches'
    BY <1>6, <2>1, EmptyIsCache, CacheAssumption DEF RestartGame, TypeOK, AnswerMatches, Stages
  <2> QED
    BY <2>2, <2>3 DEF ScalarIsOnDisk
<1>7. CASE UNCHANGED cacheVars
  BY <1>7 DEF cacheVars, TypeOK, AnswerMatches, ScalarIsOnDisk
<1> QED
  BY <1>1, <1>2, <1>3, <1>4, <1>5, <1>6, <1>7 DEF CacheNext

\* The cache, its file and the answers are what they should be, over all starts.
THEOREM CacheTypeCorrect == CacheSpec => []TypeOK
<1>1. CacheInv => TypeOK
  BY DEF CacheInv
<1> QED
  BY <1>1, CacheInitial, CacheStep, PTL DEF CacheSpec

\* An address that core.AOBScan returns matches now and is in range, and an error
\* means that there is no match, whatever the cache, the file and the patches were,
\* or that the file on disk is one line without a table (core.lua, data/cache.lua).
THEOREM AnswersMatch == CacheSpec => []AnswerMatches
<1>1. CacheInv => AnswerMatches
  BY DEF CacheInv
<1> QED
  BY <1>1, CacheInitial, CacheStep, PTL DEF CacheSpec

-----------------------------------------------------------------------------
(* Captures, for any targets and addresses.  What the groups say depends on  *)
(* how many bytes and parentheses there are before a place of the target.    *)

Bytes(s) == {k \in DOMAIN s : s[k] \in Byte}

\* A group that is closed, as the target has it: its parenthesis at k, which is the
\* n-th, and the one at m.
ClosedAs(g, s, n, k, m) ==
  /\ k \in Opens(s) /\ m \in Closes(s, k)
  /\ CountBelow(Opens(s), k + 1) = n
  /\ g.opens = s[k]
  /\ g.start = CountBelow(Bytes(s), k) + 1 /\ g.stop = CountBelow(Bytes(s), m)
  /\ g.start <= g.stop /\ Size(g) \in SizeOf(g.opens)

IsClosed(g, s, n) == \E k, m \in Nat : ClosedAs(g, s, n, k, m)

\* The group that is open when the tokens up to j were read: it starts when it has a byte.
OpenAs(g, s, n, k, j) ==
  /\ k \in Opens(s) /\ k < j /\ \A x \in k + 1 .. j - 1 : s[x] # ")"
  /\ CountBelow(Opens(s), k + 1) = n
  /\ g.opens = s[k] /\ g.stop = 0
  /\ g.start = IF CountBelow(Bytes(s), j) = CountBelow(Bytes(s), k) THEN 0 ELSE CountBelow(Bytes(s), k) + 1

IsOpen(g, s, n, j) == \E k \in Nat : OpenAs(g, s, n, k, j)

Groups == [opens : Opening, start : Nat, stop : Nat]

Results == [is : {"number", "table"}, from : Nat, bytes : Nat, plus : Nat]

\* What was parsed up to i is counted, and every group but the open one is closed.
ParseInv ==
  /\ target \in Seq(Token) /\ i \in 1..(Len(target) + 1)
  /\ aob \in Seq(Byte) /\ Len(aob) = CountBelow(Bytes(target), i)
  /\ groups \in Seq(Groups) /\ Len(groups) = CountBelow(Opens(target), i)
  /\ currentgroup \in {0, Len(groups)}
  /\ currentgroup # 0 => IsOpen(groups[currentgroup], target, currentgroup, i)
  /\ \A n \in 1..Len(groups) : n # currentgroup => IsClosed(groups[n], target, n)

\* Nothing is read before the target was parsed and found, and then one group after
\* the other.
ResultInv ==
  /\ state \in {"scanning", "reading", "logging", "returned"} =>
       i = Len(target) + 1 /\ currentgroup = 0
  /\ state \in {"parsing", "scanning"} => results = <<>>
  /\ state \in {"reading", "logging", "returned"} => address \in Address
  /\ state \in {"logging", "returned"} => Len(results) = Len(groups)
  /\ results \in Seq(Results)
  /\ \A n \in 1..Len(results) :
       /\ n \in 1..Len(groups) /\ n # currentgroup
       /\ address \in Address
       /\ results[n] = Result(groups[n])

CaptureInv == ParseInv /\ ResultInv

-----------------------------------------------------------------------------
LEMMA PlacesOf ==
  ASSUME NEW s \in Seq(Token)
  PROVE  /\ Bytes(s) \subseteq Nat \ {0} /\ Opens(s) \subseteq Nat \ {0}
         /\ \A k \in 1..Len(s) : (k \in Bytes(s) <=> s[k] \in Byte) /\ (k \in Opens(s) <=> s[k] \in Opening)
         /\ \A k \in Opens(s) : k \in 1..Len(s)
<1>1. DOMAIN s = 1..Len(s) /\ Len(s) \in Nat
  BY LenProperties
<1>2. \A k \in 1..Len(s) : k \in Nat \ {0}
  BY <1>1
<1> QED
  BY <1>1, <1>2 DEF Bytes, Opens

\* A token is a byte, a parenthesis that opens or one that closes, or is refused.
LEMMA TokensDiffer ==
  ASSUME NEW t
  PROVE  /\ t \in Byte => t \notin Opening /\ t # ")"
         /\ t \in Opening => t \notin Byte /\ t # ")"
         /\ t = ")" => t \notin Byte /\ t \notin Opening
BY DEF Byte, Opening

\* One token further, the counts go up by what it is.
LEMMA CountsStep ==
  ASSUME NEW s \in Seq(Token), NEW j \in 1..Len(s)
  PROVE  /\ CountBelow(Bytes(s), j + 1) = IF s[j] \in Byte THEN CountBelow(Bytes(s), j) + 1 ELSE CountBelow(Bytes(s), j)
         /\ CountBelow(Opens(s), j + 1) = IF s[j] \in Opening THEN CountBelow(Opens(s), j) + 1 ELSE CountBelow(Opens(s), j)
         /\ CountBelow(Bytes(s), j) \in Nat /\ CountBelow(Opens(s), j) \in Nat
<1>1. j \in Nat
  OBVIOUS
<1> QED
  BY <1>1, PlacesOf, CountNext, CountIsNat

LEMMA CaptureInit == ExtractInit => CaptureInv
<1> HAVE ExtractInit
<1>1. target \in Seq(Token) /\ i = 1 /\ aob = <<>> /\ groups = <<>> /\ currentgroup = 0
      /\ state = "parsing" /\ results = <<>>
  BY ExtractAssumption DEF ExtractInit
<1>2. CountBelow(Bytes(target), 1) = 0 /\ CountBelow(Opens(target), 1) = 0
  BY <1>1, PlacesOf, CountOne
<1>3. aob \in Seq(Byte) /\ groups \in Seq(Groups) /\ results \in Seq(Results)
      /\ Len(aob) = 0 /\ Len(groups) = 0 /\ Len(results) = 0
  BY <1>1, EmptySeq
<1>4. 1 \in 1..(Len(target) + 1)
  BY <1>1
<1>5. ParseInv
  BY <1>1, <1>2, <1>3, <1>4 DEF ParseInv
<1>6. ResultInv
  BY <1>1, <1>3 DEF ResultInv
<1> QED
  BY <1>5, <1>6 DEF CaptureInv

\* While the target is parsed, there are no results to keep.
LEMMA StillParsing ==
  ASSUME CaptureInv, state = "parsing", state' = state, results' = results
  PROVE  ResultInv'
<1>1. results' = <<>> /\ results' \in Seq(Results) /\ Len(results') = 0
  BY EmptySeq DEF CaptureInv, ResultInv
<1> QED
  BY <1>1 DEF ResultInv

LEMMA ParseByteOK == ASSUME CaptureInv, NEW t \in Token, ParseByte(t) PROVE CaptureInv'
<1>1. /\ state = "parsing" /\ i <= Len(target) /\ t = target[i] /\ i' = i + 1 /\ t \in Byte
      /\ aob' = Append(aob, t) /\ target' = target /\ currentgroup' = currentgroup
      /\ state' = state /\ address' = address /\ results' = results /\ ParseInv
  BY DEF ParseByte, More, CaptureInv
<1>2. ResultInv'
  BY <1>1, StillParsing
<1>3. target \in Seq(Token) /\ i \in 1..Len(target) /\ i' \in 1..(Len(target) + 1)
  BY <1>1 DEF ParseInv
<1>4. /\ CountBelow(Bytes(target), i') = CountBelow(Bytes(target), i) + 1
      /\ CountBelow(Opens(target), i') = CountBelow(Opens(target), i)
      /\ CountBelow(Bytes(target), i) \in Nat
  BY <1>1, <1>3, CountsStep, TokensDiffer
<1>5. aob' \in Seq(Byte) /\ Len(aob') = CountBelow(Bytes(target), i')
  BY <1>1, <1>4, AppendProperties DEF ParseInv
<1>6. CASE currentgroup # 0
  <2> DEFINE c == currentgroup
             g == groups[c]
             h == IF g.start = 0 THEN [g EXCEPT !.start = Len(aob')] ELSE g
  <2>1. /\ groups \in Seq(Groups) /\ c = Len(groups) /\ IsOpen(g, target, c, i)
        /\ c \in 1..Len(groups)
    BY <1>1, <1>6, LenProperties DEF ParseInv
  <2>2. g \in Groups
    BY <2>1, ElementOfSeq
  <2>3. h \in Groups /\ h.opens = g.opens /\ h.stop = g.stop
        /\ h.start = IF g.start = 0 THEN Len(aob') ELSE g.start
    BY <1>4, <1>5, <2>2 DEF Groups
  <2> HIDE DEF g
  <2>4. groups' = [groups EXCEPT ![c] = h]
    <3>1. groups \in [1..Len(groups) -> Groups]
      BY <2>1
    <3>2. CASE g.start = 0
      BY <1>6, <3>2 DEF ParseByte, g
    <3>3. CASE g.start # 0
      BY <1>6, <2>1, <3>1, <3>3 DEF ParseByte, g
    <3> QED
      BY <3>2, <3>3
  <2> HIDE DEF h
  <2>5. /\ groups' \in Seq(Groups) /\ Len(groups') = Len(groups)
        /\ \A n \in 1..Len(groups) : groups'[n] = IF n = c THEN h ELSE groups[n]
    BY <2>1, <2>3, <2>4, ExceptSeq
  <2>6. IsOpen(h, target, c, i')
    <3>1. PICK k \in Nat : OpenAs(g, target, c, k, i)
      BY <2>1 DEF IsOpen
    <3> DEFINE before == CountBelow(Bytes(target), k)
               now == CountBelow(Bytes(target), i)
    <3>2. before \in Nat /\ now \in Nat /\ before <= now
      <4>1. k < i /\ i \in Nat
        BY <1>3, <3>1 DEF OpenAs
      <4> QED
        BY <1>3, <4>1, PlacesOf, CountIsNat, CountGrows
    <3>3. g.start = (IF now = before THEN 0 ELSE before + 1) /\ Len(aob') = now + 1 /\ CountBelow(Bytes(target), i') = now + 1
      BY <1>4, <1>5, <3>1 DEF OpenAs
    <3> HIDE DEF before, now
    <3>4. h.start = before + 1 /\ CountBelow(Bytes(target), i') # before
      BY <2>3, <3>2, <3>3
    <3>5. k < i' /\ \A x \in k + 1 .. i' - 1 : target[x] # ")"
      <4>1. k < i /\ \A x \in k + 1 .. i - 1 : target[x] # ")"
        BY <3>1 DEF OpenAs
      <4>2. \A x \in k + 1 .. i' - 1 : x \in k + 1 .. i - 1 \/ x = i
        BY <1>1, <1>3
      <4>3. target[i] # ")" /\ k < i'
        BY <1>1, <1>3, <4>1, TokensDiffer
      <4> QED
        BY <4>1, <4>2, <4>3
    <3>6. OpenAs(h, target, c, k, i')
      BY <2>3, <3>1, <3>4, <3>5 DEF OpenAs, before
    <3> QED
      BY <3>6 DEF IsOpen
  <2>7. ParseInv'
    BY <1>1, <1>3, <1>4, <1>5, <2>1, <2>5, <2>6 DEF ParseInv
  <2> QED
    BY <1>2, <2>7 DEF CaptureInv
<1>7. CASE currentgroup = 0
  <2>1. groups' = groups
    BY <1>7 DEF ParseByte
  <2>2. ParseInv'
    BY <1>1, <1>3, <1>4, <1>5, <1>7, <2>1 DEF ParseInv
  <2> QED
    BY <1>2, <2>2 DEF CaptureInv
<1> QED
  BY <1>6, <1>7

LEMMA OpenGroupOK == ASSUME CaptureInv, NEW t \in Token, OpenGroup(t) PROVE CaptureInv'
<1> DEFINE g == [opens |-> t, start |-> 0, stop |-> 0]
           c == Len(groups) + 1
<1>1. /\ state = "parsing" /\ i <= Len(target) /\ t = target[i] /\ i' = i + 1 /\ t \in Opening
      /\ currentgroup = 0 /\ groups' = Append(groups, g) /\ currentgroup' = Len(groups')
      /\ target' = target /\ aob' = aob /\ state' = state /\ address' = address
      /\ results' = results /\ ParseInv
  BY DEF OpenGroup, More, CaptureInv
<1>2. ResultInv'
  BY <1>1, StillParsing
<1>3. target \in Seq(Token) /\ i \in 1..Len(target) /\ i' \in 1..(Len(target) + 1) /\ i \in Nat
  BY <1>1 DEF ParseInv
<1>4. /\ CountBelow(Bytes(target), i') = CountBelow(Bytes(target), i)
      /\ CountBelow(Opens(target), i') = CountBelow(Opens(target), i) + 1
      /\ CountBelow(Opens(target), i) \in Nat
  BY <1>1, <1>3, CountsStep, TokensDiffer
<1>5. /\ groups \in Seq(Groups) /\ Len(groups) = CountBelow(Opens(target), i)
      /\ \A n \in 1..Len(groups) : IsClosed(groups[n], target, n)
      /\ \A n \in 1..Len(groups) : n # 0
  BY <1>1 DEF ParseInv
<1>6. g \in Groups
  BY <1>1 DEF Groups
<1>7. /\ groups' \in Seq(Groups) /\ Len(groups') = c /\ groups'[c] = g
      /\ \A n \in 1..Len(groups) : groups'[n] = groups[n]
  <2> HIDE DEF g
  <2> QED
    BY <1>1, <1>5, <1>6, AppendProperties
<1>8. OpenAs(g, target, c, i, i')
  <2>1. i \in Opens(target)
    BY <1>1, <1>3, PlacesOf
  <2>2. i < i' /\ i + 1 .. i' - 1 = {}
    BY <1>1, <1>3
  <2>3. CountBelow(Opens(target), i + 1) = c
    BY <1>1, <1>4, <1>5
  <2> QED
    BY <1>1, <1>4, <2>1, <2>2, <2>3 DEF OpenAs
<1>9. IsOpen(g, target, c, i')
  BY <1>3, <1>8 DEF IsOpen
<1> HIDE DEF g, c
<1>10. \A n \in 1..c : n # c => n \in 1..Len(groups)
  BY <1>4, <1>5 DEF c
<1>11. c = CountBelow(Opens(target), i')
  BY <1>4, <1>5 DEF c
<1>12. ParseInv'
  BY <1>1, <1>3, <1>4, <1>5, <1>7, <1>9, <1>10, <1>11 DEF ParseInv
<1> QED
  BY <1>2, <1>12 DEF CaptureInv

LEMMA CloseGroupOK == ASSUME CaptureInv, NEW t \in Token, CloseGroup(t) PROVE CaptureInv'
<1> DEFINE c == currentgroup
           g == groups[c]
           h == Closed
<1>1. /\ state = "parsing" /\ i <= Len(target) /\ t = target[i] /\ i' = i + 1 /\ t = ")" /\ CanClose
      /\ groups' = [groups EXCEPT ![c] = h] /\ currentgroup' = 0
      /\ target' = target /\ aob' = aob /\ state' = state /\ address' = address
      /\ results' = results /\ ParseInv
  BY DEF CloseGroup, More, CaptureInv
<1>2. ResultInv'
  BY <1>1, StillParsing
<1>3. target \in Seq(Token) /\ i \in 1..Len(target) /\ i' \in 1..(Len(target) + 1) /\ i \in Nat
  BY <1>1 DEF ParseInv
<1>4. /\ CountBelow(Bytes(target), i') = CountBelow(Bytes(target), i)
      /\ CountBelow(Opens(target), i') = CountBelow(Opens(target), i)
      /\ CountBelow(Bytes(target), i) \in Nat
  BY <1>1, <1>3, CountsStep, TokensDiffer
<1>5. /\ groups \in Seq(Groups) /\ c = Len(groups) /\ c \in 1..Len(groups) /\ IsOpen(g, target, c, i)
  <2>1. c # 0
    BY <1>1 DEF CanClose
  <2> QED
    BY <1>1, <2>1, LenProperties DEF ParseInv
<1>6. g \in Groups
  BY <1>5, ElementOfSeq
<1>7. /\ h \in Groups /\ h.opens = g.opens /\ h.start = g.start /\ h.stop = CountBelow(Bytes(target), i)
      /\ h.start # 0 /\ Size(h) \in SizeOf(h.opens)
  <2>1. Len(aob) = CountBelow(Bytes(target), i)
    BY <1>1 DEF ParseInv
  <2> HIDE DEF g
  <2>2. h = [g EXCEPT !.stop = Len(aob)]
    BY DEF Closed, g
  <2>3. h \in Groups /\ h.opens = g.opens /\ h.start = g.start /\ h.stop = Len(aob)
    BY <1>4, <1>6, <2>1, <2>2 DEF Groups
  <2> HIDE DEF h
  <2>4. h.start # 0 /\ Size(h) \in SizeOf(h.opens)
    BY <1>1 DEF CanClose, h
  <2> QED
    BY <2>1, <2>3, <2>4
<1> HIDE DEF g, h
<1>8. IsClosed(h, target, c)
  <2>1. PICK k \in Nat : OpenAs(g, target, c, k, i)
    BY <1>5 DEF IsOpen
  <2> DEFINE before == CountBelow(Bytes(target), k)
             now == CountBelow(Bytes(target), i)
  <2>2. before \in Nat /\ now \in Nat /\ before <= now /\ k < i
    <3>1. k < i
      BY <2>1 DEF OpenAs
    <3> QED
      BY <1>3, <3>1, PlacesOf, CountIsNat, CountGrows
  <2>3. g.start = IF now = before THEN 0 ELSE before + 1
    BY <2>1 DEF OpenAs
  <2> HIDE DEF before, now
  <2>4. h.start = before + 1 /\ h.start <= now
    BY <1>7, <2>2, <2>3
  <2>5. i \in Closes(target, k)
    <3>1. i \in DOMAIN target /\ target[i] = ")"
      BY <1>1, <1>3
    <3>2. i > k /\ \A x \in k + 1 .. i - 1 : target[x] # ")"
      BY <1>3, <2>1, <2>2 DEF OpenAs
    <3> QED
      BY <3>1, <3>2 DEF Closes
  <2>6. ClosedAs(h, target, c, k, i)
    BY <1>7, <2>1, <2>4, <2>5 DEF ClosedAs, OpenAs, before, now
  <2> QED
    BY <1>3, <2>6 DEF IsClosed
<1>9. /\ groups' \in Seq(Groups) /\ Len(groups') = Len(groups)
      /\ \A n \in 1..Len(groups) : groups'[n] = IF n = c THEN h ELSE groups[n]
  BY <1>1, <1>5, <1>7, ExceptSeq
<1>10. \A n \in 1..Len(groups) : n # c => IsClosed(groups[n], target, n)
  BY <1>1 DEF ParseInv
<1>11. \A n \in 1..Len(groups') : IsClosed(groups'[n], target', n)
  BY <1>1, <1>8, <1>9, <1>10
<1>12. ParseInv'
  BY <1>1, <1>3, <1>4, <1>9, <1>11 DEF ParseInv
<1> QED
  BY <1>2, <1>12 DEF CaptureInv

\* Steps that leave the groups alone.
LEMMA GroupsStay ==
  ASSUME CaptureInv, UNCHANGED <<target, i, aob, groups, currentgroup>>
  PROVE  ParseInv'
BY DEF CaptureInv, ParseInv

\* What a closed group is read as.
LEMMA ResultIs ==
  ASSUME NEW g \in Groups, g.start >= 1, g.start <= g.stop, address \in Address
  PROVE  Result(g) \in Results
<1>1. address \in Nat
  BY ExtractAssumption
<1>2. g.opens \in {"I(", "(", "@("} /\ g.start \in Nat /\ g.stop \in Nat
  BY DEF Groups, Opening
<1> DEFINE at == address + g.start - 1
<1>3. at \in Nat /\ at + 1 \in Nat /\ at + 5 \in Nat
  BY <1>1, <1>2
<1>4. Size(g) \in Nat
  BY <1>2 DEF Size
<1> HIDE DEF at
<1>5. CASE g.opens = "I("
  <2>1. Result(g) = [is |-> "number", from |-> at, bytes |-> 4, plus |-> 0]
    BY <1>5 DEF Result, at
  <2> QED
    BY <1>3, <2>1 DEF Results
<1>6. CASE g.opens = "("
  <2>1. Result(g) = [is |-> "table", from |-> at, bytes |-> Size(g), plus |-> 0]
    BY <1>6 DEF Result, at
  <2> QED
    BY <1>3, <1>4, <2>1 DEF Results
<1>7. CASE g.opens = "@("
  <2>1. Result(g) = [is |-> "number", from |-> at + 1, bytes |-> 4, plus |-> at + 5]
    BY <1>7 DEF Result, at
  <2> QED
    BY <1>3, <2>1 DEF Results
<1> QED
  BY <1>2, <1>5, <1>6, <1>7

LEMMA ExtractOK == ASSUME CaptureInv, Extract PROVE CaptureInv'
<1> DEFINE n == Len(results) + 1
           r == Result(groups[n])
<1>1. /\ state = "reading" /\ Len(results) < Len(groups) /\ results' = Append(results, r)
      /\ UNCHANGED <<target, i, aob, groups, currentgroup, state, address>>
      /\ i = Len(target) + 1 /\ currentgroup = 0 /\ address \in Address /\ results \in Seq(Results)
      /\ ParseInv
  BY DEF Extract, CaptureInv, ResultInv
<1>2. groups \in Seq(Groups) /\ target \in Seq(Token) /\ Len(groups) \in Nat
  BY <1>1 DEF ParseInv
<1>3. Len(results) \in Nat
  BY <1>1
<1>4. n \in 1..Len(groups) /\ n # 0
  BY <1>1, <1>2, <1>3
<1>5. r \in Results
  <2>1. groups[n] \in Groups
    BY <1>2, <1>4, ElementOfSeq
  <2>2. PICK k, m \in Nat : ClosedAs(groups[n], target, n, k, m)
    BY <1>1, <1>4 DEF ParseInv, IsClosed
  <2>3. CountBelow(Bytes(target), k) \in Nat
    BY <1>2, PlacesOf, CountIsNat
  <2>4. groups[n].start >= 1 /\ groups[n].start <= groups[n].stop
    BY <2>2, <2>3 DEF ClosedAs
  <2> HIDE DEF n
  <2> QED
    BY <1>1, <2>1, <2>4, ResultIs
<1>6. /\ results' \in Seq(Results) /\ Len(results') = n /\ results'[n] = r
      /\ \A o \in 1..Len(results) : results'[o] = results[o]
  <2> HIDE DEF r
  <2> QED
    BY <1>1, <1>5, AppendProperties
<1>7. \A o \in 1..n : o # n => o \in 1..Len(results)
  BY <1>3
<1>8. \A o \in 1..Len(results) : o \in 1..Len(groups) /\ o # currentgroup /\ results[o] = Result(groups[o])
  BY DEF CaptureInv, ResultInv
<1>9. \A o \in 1..n : o \in 1..Len(groups) /\ o # currentgroup /\ results'[o] = Result(groups[o])
  <2> HIDE DEF n
  <2> QED
    BY <1>1, <1>4, <1>6, <1>7, <1>8
<1>10. \A o \in 1..n : Result(groups[o])' = Result(groups[o])
  BY <1>1 DEF Result, Size
<1>11. ResultInv'
  <2> HIDE DEF n
  <2> QED
    BY <1>1, <1>6, <1>9, <1>10 DEF ResultInv
<1>12. ParseInv'
  BY <1>1, GroupsStay
<1> QED
  BY <1>11, <1>12 DEF CaptureInv

\* Steps that read nothing keep what was read.
LEMMA ResultsStay ==
  ASSUME CaptureInv, UNCHANGED <<target, i, aob, groups, currentgroup, results>>,
         results = <<>> \/ address' = address
  PROVE  /\ results' \in Seq(Results)
         /\ \A n \in 1..Len(results') :
              n \in 1..Len(groups') /\ n # currentgroup' /\ address' \in Address /\ results'[n] = Result(groups[n])'
<1>1. /\ results \in Seq(Results)
      /\ \A n \in 1..Len(results) :
           n \in 1..Len(groups) /\ n # currentgroup /\ address \in Address /\ results[n] = Result(groups[n])
  BY DEF CaptureInv, ResultInv
<1>2. CASE results = <<>>
  BY <1>1, <1>2
<1>3. CASE address' = address
  <2>1. \A n \in 1..Len(results) : Result(groups[n])' = Result(groups[n])
    BY <1>3 DEF Result, Size
  <2> QED
    BY <1>1, <1>3, <2>1
<1> QED
  BY <1>2, <1>3

LEMMA SyntaxErrorOK == ASSUME CaptureInv, SyntaxError PROVE CaptureInv'
<1>1. state' = "raised" /\ UNCHANGED <<target, i, aob, groups, currentgroup, address, results>>
  BY DEF SyntaxError, Raises
<1>2. ResultInv'
  BY <1>1, ResultsStay DEF ResultInv
<1> QED
  BY <1>1, <1>2, GroupsStay DEF CaptureInv

LEMMA ParsedOK == ASSUME CaptureInv, Parsed PROVE CaptureInv'
<1>1. /\ state = "parsing" /\ i > Len(target) /\ currentgroup = 0 /\ state' = "scanning"
      /\ UNCHANGED <<target, i, aob, groups, currentgroup, address, results>>
  BY DEF Parsed
<1>2. results = <<>> /\ i = Len(target) + 1
  <2>1. target \in Seq(Token) /\ i \in 1..(Len(target) + 1)
    BY DEF CaptureInv, ParseInv
  <2> QED
    BY <1>1, <2>1 DEF CaptureInv, ResultInv
<1>3. ResultInv'
  BY <1>1, <1>2, ResultsStay DEF ResultInv
<1> QED
  BY <1>1, <1>3, GroupsStay DEF CaptureInv

LEMMA ScanTargetOK == ASSUME CaptureInv, ScanTarget PROVE CaptureInv'
<1>1. /\ state = "scanning" /\ UNCHANGED <<target, i, aob, groups, currentgroup, results>>
      /\ (state' = "raised" /\ address' = address) \/ (state' = "reading" /\ address' \in Address)
  BY DEF ScanTarget, Raises
<1>2. results = <<>> /\ i = Len(target) + 1 /\ currentgroup = 0
  BY <1>1 DEF CaptureInv, ResultInv
<1>3. ResultInv'
  BY <1>1, <1>2, ResultsStay DEF ResultInv
<1> QED
  BY <1>1, <1>3, GroupsStay DEF CaptureInv

LEMMA EndsOK == ASSUME CaptureInv, Extracted \/ Log PROVE CaptureInv'
<1>1. /\ UNCHANGED <<target, i, aob, groups, currentgroup, address, results>>
      /\ state \in {"reading", "logging"}
      /\ state' \in {"logging", "returned", "raised"}
      /\ state' \in {"logging", "returned"} => state = "logging" \/ Len(results) = Len(groups)
  BY DEF Extracted, Log, Raises
<1>2. /\ i = Len(target) + 1 /\ currentgroup = 0 /\ address \in Address
      /\ state = "logging" => Len(results) = Len(groups)
  BY <1>1 DEF CaptureInv, ResultInv
<1>3. ResultInv'
  BY <1>1, <1>2, ResultsStay DEF ResultInv
<1> QED
  BY <1>1, <1>3, GroupsStay DEF CaptureInv

LEMMA CaptureStep == CaptureInv /\ [ExtractNext]_extractVars => CaptureInv'
<1> SUFFICES ASSUME CaptureInv, [ExtractNext]_extractVars PROVE CaptureInv'
  OBVIOUS
<1>1. ASSUME NEW t \in Token, ParseByte(t) \/ OpenGroup(t) \/ CloseGroup(t) PROVE CaptureInv'
  BY <1>1, ParseByteOK, OpenGroupOK, CloseGroupOK
<1>2. CASE UNCHANGED extractVars
  BY <1>2 DEF extractVars, CaptureInv, ParseInv, ResultInv, Result, Size
<1> QED
  BY <1>1, <1>2, SyntaxErrorOK, ParsedOK, ScanTargetOK, ExtractOK, EndsOK DEF ExtractNext

-----------------------------------------------------------------------------
\* A target found at a has the bytes between two parentheses in a row.
LEMMA PlacesInARow ==
  ASSUME NEW s \in Seq(Token), NEW a \in Nat, NEW k \in Opens(s), NEW m \in Closes(s, k)
  PROVE  PlacesUnder(s, a, k, m) = (a + CountBelow(Bytes(s), k))..(a + CountBelow(Bytes(s), m) - 1)
<1> DEFINE C(n) == CountBelow(Bytes(s), n)
           mid == {x \in Bytes(s) : k <= x /\ x < m}
           before(n) == Cardinality({o \in 1 .. n - 1 : s[o] \in Byte})
<1>1. /\ k \in 1..Len(s) /\ m \in 1..Len(s) /\ k < m /\ k \in Nat /\ m \in Nat /\ Len(s) \in Nat
      /\ s[k] \in Opening /\ s[m] = ")" /\ DOMAIN s = 1..Len(s)
  <2>1. DOMAIN s = 1..Len(s) /\ Len(s) \in Nat
    BY LenProperties
  <2> QED
    BY <2>1, PlacesOf DEF Closes, Opens
<1>2. Bytes(s) \subseteq Nat \ {0}
  BY PlacesOf
<1>3. {C(o) : o \in mid} = C(k)..(C(m) - 1)
  <2> DEFINE S == Bytes(s)
  <2>1. S \subseteq Nat \ {0} /\ k \in Nat /\ m \in Nat /\ k <= m
    BY <1>1, <1>2
  <2>2. {CountBelow(S, o) : o \in {x \in S : k <= x /\ x < m}} = CountBelow(S, k)..(CountBelow(S, m) - 1)
    <3> HIDE DEF S
    <3> QED
      BY <2>1, CountSpreads
  <2> QED
    BY <2>2
<1>4. {o \in k .. m : s[o] \in Byte} = mid
  <2>1. s[m] \notin Byte
    BY <1>1, TokensDiffer
  <2>2. ASSUME NEW o PROVE o \in k .. m /\ s[o] \in Byte <=> o \in Bytes(s) /\ k <= o /\ o < m
    <3>1. ASSUME o \in k .. m, s[o] \in Byte PROVE o \in Bytes(s) /\ k <= o /\ o < m
      <4>1. o \in 1..Len(s) /\ k <= o /\ o <= m /\ o # m /\ o \in Nat
        BY <1>1, <2>1, <3>1
      <4> QED
        BY <1>1, <3>1, <4>1, PlacesOf
    <3>2. ASSUME o \in Bytes(s), k <= o, o < m PROVE o \in k .. m /\ s[o] \in Byte
      <4>1. o \in 1..Len(s) /\ s[o] \in Byte
        BY <1>1, <3>2 DEF Bytes
      <4> QED
        BY <1>1, <3>2, <4>1
    <3> QED
      BY <3>1, <3>2
  <2> QED
    BY <2>2
<1>5. ASSUME NEW o \in mid PROVE before(o) = C(o)
  <2>1. o \in 1..Len(s)
    BY <1>1 DEF Bytes
  <2>2. {x \in 1 .. o - 1 : s[x] \in Byte} = {x \in Bytes(s) : x < o}
    <3>1. ASSUME NEW x PROVE x \in 1 .. o - 1 <=> x \in 1..Len(s) /\ x < o
      BY <1>1, <2>1
    <3> QED
      BY <1>1, <3>1 DEF Bytes
  <2> QED
    BY <2>2 DEF CountBelow, LowerPart
<1>6. PlacesUnder(s, a, k, m) = {a + before(n) : n \in {o \in k .. m : s[o] \in Byte}}
  BY DEF PlacesUnder
<1>7. PlacesUnder(s, a, k, m) = {a + C(n) : n \in mid}
  <2> HIDE DEF before, C, mid
  <2> QED
    BY <1>4, <1>5, <1>6
<1>8. C(k) \in Nat /\ C(m) \in Nat /\ \A n \in mid : C(n) \in Nat
  BY <1>1, <1>2, CountIsNat
<1>9. {a + C(n) : n \in mid} = (a + C(k))..(a + C(m) - 1)
  <2> DEFINE lo == C(k)
             hi == C(m)
  <2>1. /\ \A n \in mid : C(n) \in lo..(hi - 1)
        /\ \A x \in lo..(hi - 1) : \E n \in mid : x = C(n)
        /\ lo \in Nat /\ hi \in Nat
    BY <1>3, <1>8
  <2> HIDE DEF lo, hi, C, mid
  <2>2. ASSUME NEW n \in mid PROVE a + C(n) \in (a + lo)..(a + hi - 1)
    BY <2>1
  <2>3. ASSUME NEW y \in (a + lo)..(a + hi - 1) PROVE \E n \in mid : y = a + C(n)
    <3>1. y - a \in lo..(hi - 1) /\ y = a + (y - a)
      BY <2>1
    <3>2. PICK n \in mid : y - a = C(n)
      BY <2>1, <3>1
    <3> QED
      BY <3>1, <3>2
  <2>4. {a + C(n) : n \in mid} = (a + lo)..(a + hi - 1)
    BY <2>2, <2>3
  <2> QED
    BY <2>4 DEF lo, hi
<1> QED
  BY <1>7, <1>9

\* What a closed group is read as stands under its parentheses.
LEMMA ReadsWhatIsUnder ==
  ASSUME NEW g, NEW n, NEW k \in Nat, NEW m \in Nat, target \in Seq(Token), address \in Address,
         ClosedAs(g, target, n, k, m)
  PROVE  LET under == PlacesUnder(target, address, k, m)
             r     == Result(g)
         IN  /\ r.is = "table" <=> target[k] = "("
             /\ IF target[k] = "@("
                THEN /\ Reads(r) = {x \in under : \E y \in under : y < x}
                     /\ r.plus - 1 \in under /\ \A x \in under : x < r.plus
                ELSE Reads(r) = under /\ r.plus = 0
<1> DEFINE lo == address + CountBelow(Bytes(target), k)
           hi == address + CountBelow(Bytes(target), m)
           under == PlacesUnder(target, address, k, m)
           r == Result(g)
           at == address + g.start - 1
<1>1. /\ k \in Opens(target) /\ m \in Closes(target, k) /\ g.opens = target[k]
      /\ g.start = CountBelow(Bytes(target), k) + 1 /\ g.stop = CountBelow(Bytes(target), m)
      /\ Size(g) \in SizeOf(g.opens)
  BY DEF ClosedAs
<1>2. CountBelow(Bytes(target), k) \in Nat /\ CountBelow(Bytes(target), m) \in Nat /\ address \in Nat
  BY PlacesOf, CountIsNat, ExtractAssumption
<1>3. lo \in Nat /\ hi \in Nat /\ at = lo /\ Size(g) = hi - lo
  BY <1>1, <1>2 DEF Size
<1>4. under = lo..(hi - 1)
  BY <1>1, <1>2, PlacesInARow
<1>5. g.opens \in {"I(", "(", "@("}
  BY <1>1, PlacesOf DEF Opening
<1> HIDE DEF lo, hi, under
<1>6. ASSUME NEW x, NEW b \in Nat, x.from \in Nat, x.bytes = b
      PROVE  Reads(x) = x.from..(x.from + b - 1)
  <2> DEFINE a == x.from
  <2>1. Reads(x) = {a + j : j \in 0..(b - 1)}
    BY <1>6 DEF Reads
  <2> HIDE DEF a
  <2>2. a \in Nat
    BY <1>6 DEF a
  <2>3. \A y \in a..(a + b - 1) : y - a \in 0..(b - 1) /\ y = a + (y - a)
    BY <2>2
  <2>4. \A j \in 0..(b - 1) : a + j \in a..(a + b - 1)
    BY <2>2
  <2>5. {a + j : j \in 0..(b - 1)} = a..(a + b - 1)
    BY <2>3, <2>4
  <2> QED
    BY <2>1, <2>5 DEF a
<1>7. CASE g.opens = "I("
  <2>1. r = [is |-> "number", from |-> lo, bytes |-> 4, plus |-> 0]
    BY <1>3, <1>7 DEF Result
  <2>2. hi = lo + 4
    BY <1>1, <1>3, <1>7 DEF SizeOf
  <2> HIDE DEF r
  <2>3. Reads(r) = lo..(lo + 4 - 1)
    BY <1>3, <1>6, <2>1
  <2>4. Reads(r) = under
    BY <1>3, <1>4, <2>2, <2>3
  <2> QED
    BY <1>1, <1>7, <2>1, <2>4 DEF r, under
<1>8. CASE g.opens = "("
  <2>1. r = [is |-> "table", from |-> lo, bytes |-> hi - lo, plus |-> 0]
    BY <1>3, <1>8 DEF Result
  <2>2. hi - lo \in Nat
    BY <1>1, <1>3, <1>8 DEF SizeOf
  <2> HIDE DEF r
  <2>3. Reads(r) = lo..(lo + (hi - lo) - 1)
    BY <1>3, <1>6, <2>1, <2>2
  <2> DEFINE last == lo + (hi - lo) - 1
  <2>4. last = hi - 1
    BY <1>3
  <2> HIDE DEF last
  <2>5. Reads(r) = under
    BY <1>4, <2>3, <2>4 DEF last
  <2> QED
    BY <1>1, <1>8, <2>1, <2>5 DEF r, under
<1>9. CASE g.opens = "@("
  <2>1. r = [is |-> "number", from |-> lo + 1, bytes |-> 4, plus |-> lo + 5]
    BY <1>3, <1>9 DEF Result
  <2>2. hi = lo + 5
    BY <1>1, <1>3, <1>9 DEF SizeOf
  <2> HIDE DEF r
  <2>3. Reads(r) = (lo + 1)..(lo + 1 + 4 - 1)
    BY <1>3, <1>6, <2>1
  <2>4. \A x : x \in under <=> x \in Nat /\ lo <= x /\ x < lo + 5
    BY <1>3, <1>4, <2>2
  <2>5. \A x : x \in Reads(r) <=> x \in Nat /\ lo < x /\ x < lo + 5
    BY <1>3, <2>3
  <2>6. lo \in under
    BY <1>3, <2>4
  <2>7. Reads(r) = {x \in under : \E y \in under : y < x}
    <3>1. ASSUME NEW x \in Reads(r) PROVE x \in under /\ \E y \in under : y < x
      BY <1>3, <2>4, <2>5, <2>6, <3>1
    <3>2. ASSUME NEW x \in under, NEW y \in under, y < x PROVE x \in Reads(r)
      BY <1>3, <2>4, <2>5, <3>2
    <3> QED
      BY <3>1, <3>2
  <2>8. r.plus - 1 \in under /\ \A x \in under : x < r.plus
    BY <1>3, <2>1, <2>4
  <2> QED
    BY <1>1, <1>9, <2>1, <2>7, <2>8 DEF r, under
<1> QED
  BY <1>5, <1>7, <1>8, <1>9

\* The n-th result is what stands under the n-th pair of parentheses, for every target
\* that the parser lets through and wherever it is found (utils.AOBExtract).
THEOREM CapturesAreTheirs == ExtractSpec => []CapturesTheirBytes
<1>1. CaptureInv => CapturesTheirBytes
  <2> SUFFICES ASSUME CaptureInv PROVE CapturesTheirBytes
    OBVIOUS
  <2>1. target \in Seq(Token) /\ results \in Seq(Results) /\ Len(target) \in Nat
    BY DEF CaptureInv, ParseInv, ResultInv
  <2>2. ASSUME state \in {"logging", "returned"} PROVE Len(results) = Cardinality(Opens(target))
    <3>1. i = Len(target) + 1 /\ Len(results) = CountBelow(Opens(target), i)
      BY <2>2 DEF CaptureInv, ParseInv, ResultInv
    <3>2. \A k \in Opens(target) : k < Len(target) + 1
      BY <2>1, PlacesOf
    <3>3. LowerPart(Opens(target), Len(target) + 1) = Opens(target)
      BY <3>2 DEF LowerPart
    <3> QED
      BY <3>1, <3>3 DEF CountBelow
  <2>3. ASSUME NEW n \in DOMAIN results
        PROVE  \E k \in Opens(target) : \E m \in Closes(target, k) :
                 LET under == PlacesUnder(target, address, k, m)
                     r     == results[n]
                 IN  /\ Cardinality({o \in Opens(target) : o <= k}) = n
                     /\ r.is = "table" <=> target[k] = "("
                     /\ IF target[k] = "@("
                        THEN Reads(r) = {x \in under : \E y \in under : y < x} /\ r.plus - 1 \in under
                                        /\ \A x \in under : x < r.plus
                        ELSE Reads(r) = under /\ r.plus = 0
    <3>1. n \in 1..Len(results)
      BY <2>1
    <3>2. n \in 1..Len(groups) /\ n # currentgroup /\ address \in Address /\ results[n] = Result(groups[n])
      BY <3>1 DEF CaptureInv, ResultInv
    <3>3. PICK k, m \in Nat : ClosedAs(groups[n], target, n, k, m)
      BY <3>2 DEF CaptureInv, ParseInv, IsClosed
    <3>4. k \in Opens(target) /\ m \in Closes(target, k) /\ CountBelow(Opens(target), k + 1) = n
      BY <3>3 DEF ClosedAs
    <3>5. Cardinality({o \in Opens(target) : o <= k}) = n
      <4>1. \A o \in Opens(target) : o <= k <=> o < k + 1
        <5>1. \A o \in Opens(target) : o \in Nat
          BY <2>1, PlacesOf
        <5> QED
          BY <5>1
      <4>2. {o \in Opens(target) : o <= k} = LowerPart(Opens(target), k + 1)
        BY <4>1 DEF LowerPart
      <4> QED
        BY <3>4, <4>2 DEF CountBelow
    <3>6. LET under == PlacesUnder(target, address, k, m)
              r     == Result(groups[n])
          IN  /\ r.is = "table" <=> target[k] = "("
              /\ IF target[k] = "@("
                 THEN /\ Reads(r) = {x \in under : \E y \in under : y < x}
                      /\ r.plus - 1 \in under /\ \A x \in under : x < r.plus
                 ELSE Reads(r) = under /\ r.plus = 0
      BY <2>1, <3>2, <3>3, ReadsWhatIsUnder
    <3> QED
      BY <3>2, <3>4, <3>5, <3>6
  <2> QED
    BY <2>2, <2>3 DEF CapturesTheirBytes
<1> QED
  BY <1>1, CaptureInit, CaptureStep, PTL DEF ExtractSpec

-----------------------------------------------------------------------------
(* User data, for any extensions, versions, interfaces and starts.  A write    *)
(* that was begun is of what was asked for last, and its file is empty until   *)
(* it ends: the crash that ends it leaves a torn file and no older version.    *)

Extensions == Extension \cup {Nothing}

DataTypeOK ==
  /\ meta \in [Extension -> Contents]
  /\ wanted \in [Extension -> Version \cup {Default, Nothing}]
  /\ interfaces \in [Handle -> [extension : Extensions, version : Contents]]
  /\ writing = Nothing \/ writing \in [extension : Extension, version : Version \cup {Default}]
  /\ files \subseteq Extension

\* An interface that was given out belongs to an extension.
InterfacesBelong ==
  \A h \in Handle : interfaces[h] # NoInterface => interfaces[h].extension \in Extension

WritesTheWanted ==
  writing # Nothing =>
    meta[writing.extension] = Torn /\ wanted[writing.extension] = writing.version

DataInv == DataTypeOK /\ InterfacesBelong /\ WritesTheWanted /\ NoOlderVersion

-----------------------------------------------------------------------------
LEMMA DataInit == Init => DataInv
<1> SUFFICES ASSUME Init PROVE DataInv
  OBVIOUS
<1>1. DataTypeOK
  BY DEF Init, DataTypeOK, Contents, NoInterface, Extensions
<1>2. InterfacesBelong /\ WritesTheWanted /\ NoOlderVersion
  BY DEF Init, InterfacesBelong, WritesTheWanted, NoOlderVersion
<1> QED
  BY <1>1, <1>2 DEF DataInv

\* A write that begins.
LEMMA BeginKeeps ==
  ASSUME DataInv, NEW e \in Extension, NEW v \in Version \cup {Default},
         BeginWrite(e, v), UNCHANGED <<interfaces, files>>
  PROVE  DataInv'
<1>1. /\ meta' = [meta EXCEPT ![e] = Torn] /\ wanted' = [wanted EXCEPT ![e] = v]
      /\ writing' = [extension |-> e, version |-> v]
      /\ UNCHANGED <<interfaces, files>>
  BY DEF BeginWrite
<1>2. /\ writing'.extension = e /\ writing'.version = v
      /\ writing' \in [extension : Extension, version : Version \cup {Default}]
  BY <1>1
<1>3. meta'[e] = Torn /\ wanted'[e] = v
  BY <1>1 DEF DataInv, DataTypeOK
<1>4. \A x \in Extension : x # e => meta'[x] = meta[x] /\ wanted'[x] = wanted[x]
  BY <1>1 DEF DataInv, DataTypeOK
<1>5. DataTypeOK'
  BY <1>1, <1>2 DEF DataInv, DataTypeOK, Contents
<1>6. InterfacesBelong'
  BY <1>1 DEF DataInv, InterfacesBelong
<1>7. WritesTheWanted'
  BY <1>2, <1>3 DEF WritesTheWanted
<1>8. NoOlderVersion'
  BY <1>3, <1>4 DEF DataInv, NoOlderVersion
<1> QED
  BY <1>5, <1>6, <1>7, <1>8 DEF DataInv

\* What the extension does to its file, while the program writes nothing.
LEMMA OwnKeeps ==
  ASSUME DataInv, NEW e \in Extension, NEW c \in Contents,
         meta' = [meta EXCEPT ![e] = c],
         wanted' = [wanted EXCEPT ![e] = Nothing] \/ (wanted' = wanted /\ c = meta[e]),
         writing = Nothing, files' \subseteq Extension, UNCHANGED <<interfaces, writing>>
  PROVE  DataInv'
<1>1. wanted' \in [Extension -> Version \cup {Default, Nothing}]
  BY DEF DataInv, DataTypeOK
<1>2. DataTypeOK'
  BY <1>1 DEF DataInv, DataTypeOK
<1>3. InterfacesBelong' /\ WritesTheWanted'
  BY DEF DataInv, InterfacesBelong, WritesTheWanted
<1>4. \A x \in Extension : x # e => meta'[x] = meta[x] /\ wanted'[x] = wanted[x]
  BY DEF DataInv, DataTypeOK
<1>5. wanted'[e] = Nothing \/ (wanted'[e] = wanted[e] /\ meta'[e] = meta[e])
  BY DEF DataInv, DataTypeOK
<1>6. NoOlderVersion'
  BY <1>4, <1>5 DEF DataInv, NoOlderVersion
<1> QED
  BY <1>2, <1>3, <1>6 DEF DataInv

LEMMA DataStep == DataInv /\ [Next]_vars => DataInv'
<1> SUFFICES ASSUME DataInv, [Next]_vars PROVE DataInv'
  OBVIOUS
<1>1. ASSUME UNCHANGED dataVars
      PROVE  DataInv'
  BY <1>1 DEF dataVars, DataInv, DataTypeOK, NoOlderVersion, InterfacesBelong, WritesTheWanted
<1>2. ASSUME NEW e \in Extension, CreateMeta(e)
      PROVE  DataInv'
  BY <1>2, BeginKeeps DEF CreateMeta
<1>3. ASSUME NEW e \in Extension, Interface(e)
      PROVE  DataInv'
  <2>1. PICK h \in Handle :
          interfaces' = [interfaces EXCEPT ![h] = [extension |-> e, version |-> meta[e]]]
    BY <1>3 DEF Interface
  <2>2. UNCHANGED <<meta, writing, files, wanted>>
    BY <1>3 DEF Interface
  <2>3. [extension |-> e, version |-> meta[e]] \in [extension : Extensions, version : Contents]
    BY DEF DataInv, DataTypeOK, Extensions
  <2>4. DataTypeOK'
    BY <2>1, <2>2, <2>3 DEF DataInv, DataTypeOK
  <2>5. InterfacesBelong'
    BY <2>1 DEF DataInv, InterfacesBelong, DataTypeOK
  <2> QED
    BY <2>2, <2>4, <2>5 DEF DataInv, NoOlderVersion, WritesTheWanted
<1>4. ASSUME NEW h \in Handle, NEW v \in Version, SetVersion(h, v)
      PROVE  DataInv'
  <2>1. interfaces[h].extension \in Extension
    BY <1>4 DEF SetVersion, DataInv, InterfacesBelong
  <2> QED
    BY <1>4, <2>1, BeginKeeps DEF SetVersion
<1>5. ASSUME WriteMeta
      PROVE  DataInv'
  <2> DEFINE e == writing.extension
             v == writing.version
  <2>1. writing \in [extension : Extension, version : Version \cup {Default}] /\ wanted[e] = v
    BY <1>5 DEF WriteMeta, DataInv, DataTypeOK, WritesTheWanted
  <2>2. PICK c \in {v, Torn} : meta' = [meta EXCEPT ![e] = c]
    BY <1>5 DEF WriteMeta
  <2>3. writing' = Nothing /\ UNCHANGED <<interfaces, files, wanted>>
    BY <1>5 DEF WriteMeta
  <2>4. e \in Extension /\ v \in Version \cup {Default}
    BY <2>1
  <2> HIDE DEF e, v
  <2>5. DataTypeOK'
    BY <2>2, <2>3, <2>4 DEF DataInv, DataTypeOK, Contents
  <2>6. NoOlderVersion'
    BY <2>1, <2>2, <2>3, <2>4 DEF DataInv, DataTypeOK, NoOlderVersion
  <2> QED
    BY <2>3, <2>5, <2>6 DEF DataInv, WritesTheWanted, InterfacesBelong
<1>6. ASSUME NEW h \in Handle, OpenMeta(h)
      PROVE  DataInv'
  <2> DEFINE e == interfaces[h].extension
  <2>1. e \in Extension /\ meta[e] \in Contents
    BY <1>6 DEF OpenMeta, DataInv, DataTypeOK, InterfacesBelong
  <2>2. PICK c \in {meta[e], Torn} \ {Nothing} : meta' = [meta EXCEPT ![e] = c]
    BY <1>6 DEF OpenMeta
  <2>3. /\ wanted' = IF meta'[e] = meta[e] THEN wanted ELSE [wanted EXCEPT ![e] = Nothing]
        /\ writing = Nothing /\ files' = files \cup {e} /\ UNCHANGED <<interfaces, writing>>
    BY <1>6 DEF OpenMeta
  <2> HIDE DEF e
  <2>4. meta'[e] = c /\ c \in Contents /\ files' \subseteq Extension
    BY <2>1, <2>2, <2>3 DEF DataInv, DataTypeOK, Contents
  <2> QED
    BY <2>1, <2>2, <2>3, <2>4, OwnKeeps
<1>7. ASSUME NEW e \in Extension, WriteOwn(e)
      PROVE  DataInv'
  <2>1. PICK c \in Version \cup {Torn} : meta' = [meta EXCEPT ![e] = c]
    BY <1>7 DEF WriteOwn
  <2>2. /\ wanted' = [wanted EXCEPT ![e] = Nothing] /\ writing = Nothing
        /\ files' \subseteq Extension /\ UNCHANGED <<interfaces, writing>>
    BY <1>7 DEF WriteOwn, DataInv, DataTypeOK
  <2>3. c \in Contents
    BY DEF Contents
  <2> QED
    BY <2>1, <2>2, <2>3, OwnKeeps
<1>8. ASSUME NEW e \in Extension, CloseOwn(e)
      PROVE  DataInv'
  BY <1>8 DEF CloseOwn, DataInv, DataTypeOK, NoOlderVersion, InterfacesBelong, WritesTheWanted
<1>9. ASSUME NEW h \in Handle, RemoveMeta(h)
      PROVE  DataInv'
  <2> DEFINE e == interfaces[h].extension
  <2>1. e \in Extension
    BY <1>9 DEF RemoveMeta, DataInv, InterfacesBelong
  <2>2. /\ meta' = [meta EXCEPT ![e] = Nothing] /\ wanted' = [wanted EXCEPT ![e] = Nothing]
        /\ writing = Nothing /\ files' \subseteq Extension /\ UNCHANGED <<interfaces, writing>>
    BY <1>9 DEF RemoveMeta, DataInv, DataTypeOK
  <2> HIDE DEF e
  <2>3. Nothing \in Contents
    BY DEF Contents
  <2> QED
    BY <2>1, <2>2, <2>3, OwnKeeps
<1>10. ASSUME Restart
      PROVE  DataInv'
  <2>1. /\ interfaces' = [h \in Handle |-> NoInterface] /\ files' = {}
        /\ writing' = Nothing /\ UNCHANGED <<meta, wanted>>
    BY <1>10 DEF Restart, FreshStart
  <2>2. DataTypeOK'
    BY <2>1 DEF DataInv, DataTypeOK, Contents, NoInterface, Extensions
  <2> QED
    BY <2>1, <2>2 DEF DataInv, NoOlderVersion, InterfacesBelong, WritesTheWanted
<1>11. ASSUME NEW c \in Callback, RegisterHookCallback(c)
      PROVE  UNCHANGED dataVars
  BY <1>11 DEF RegisterHookCallback
<1>12. OnAfterInit \/ Fire \/ AllFired => UNCHANGED dataVars
  BY DEF OnAfterInit, Fire, AllFired
<1>13. UNCHANGED vars => UNCHANGED dataVars
  BY DEF vars, dataVars
<1> QED
  BY <1>1, <1>2, <1>3, <1>4, <1>5, <1>6, <1>7, <1>8, <1>9, <1>10, <1>11, <1>12, <1>13 DEF Next

\* A meta.json that can be read has the version that was asked for last and never an
\* older one, over failed writes, crashes and starts (userdata.prepareExtensionInterface).
THEOREM VersionsNeverGoBack == Spec => []NoOlderVersion
<1>1. DataInv => NoOlderVersion
  BY DEF DataInv
<1> QED
  BY <1>1, DataInit, DataStep, PTL DEF Spec

-----------------------------------------------------------------------------
(* The callbacks: userdata's own is the first in the list, and what is        *)
(* registered later is behind it, so that whatever was fired, it was fired.   *)

HookInv ==
  /\ afterInit \in Seq(Callback \cup {Userdata}) /\ Len(afterInit) > 0
  /\ afterInit[1] = Userdata
  /\ fired \in Seq(Callback \cup {Userdata})
  /\ Len(fired) > 0 => INITIALIZED

LEMMA HookFresh ==
  ASSUME NEW l, l = <<Userdata>>
  PROVE  l \in Seq(Callback \cup {Userdata}) /\ Len(l) > 0 /\ l[1] = Userdata
OBVIOUS

LEMMA HookStart == Init => HookInv
BY HookFresh, EmptySeq DEF Init, HookInv

LEMMA HookStep == HookInv /\ [Next]_vars => HookInv'
<1> SUFFICES ASSUME HookInv, [Next]_vars PROVE HookInv'
  OBVIOUS
<1>1. ASSUME NEW c \in Callback, RegisterHookCallback(c) PROVE HookInv'
  <2>1. afterInit' = Append(afterInit, c) /\ UNCHANGED <<fired, INITIALIZED>>
    BY <1>1 DEF RegisterHookCallback
  <2>2. /\ afterInit' \in Seq(Callback \cup {Userdata}) /\ Len(afterInit') > 0
        /\ afterInit'[1] = afterInit[1]
    BY <2>1, AppendProperties, LenProperties DEF HookInv
  <2> QED
    BY <2>1, <2>2 DEF HookInv
<1>2. ASSUME Fire PROVE HookInv'
  <2> DEFINE c == afterInit[Len(fired) + 1]
  <2>1. /\ Len(fired) < Len(afterInit) /\ fired' = Append(fired, c)
        /\ INITIALIZED' = (INITIALIZED \/ c = Userdata) /\ afterInit' = afterInit
    BY <1>2 DEF Fire
  <2>2. Len(fired) \in Nat /\ Len(afterInit) \in Nat
    BY LenProperties DEF HookInv
  <2>3. c \in Callback \cup {Userdata}
    BY <2>1, <2>2, ElementOfSeq DEF HookInv
  <2>4. Len(fired) = 0 => c = Userdata
    BY <2>2 DEF HookInv
  <2> HIDE DEF c
  <2>5. fired' \in Seq(Callback \cup {Userdata})
    BY <2>1, <2>3, AppendProperties DEF HookInv
  <2>6. c = Userdata \/ INITIALIZED
    <3>1. Len(fired) = 0 \/ Len(fired) > 0
      BY <2>2
    <3> QED
      BY <2>4, <3>1 DEF HookInv
  <2>7. INITIALIZED'
    BY <2>1, <2>6, Zenon
  <2> QED
    BY <2>1, <2>5, <2>7 DEF HookInv
<1>3. ASSUME Restart PROVE HookInv'
  BY <1>3, HookFresh, EmptySeq DEF Restart, FreshStart, HookInv
<1>4. ASSUME UNCHANGED <<afterInit, fired, INITIALIZED>> PROVE HookInv'
  BY <1>4 DEF HookInv
<1>5. OnAfterInit \/ AllFired => UNCHANGED <<afterInit, fired, INITIALIZED>>
  BY DEF OnAfterInit, AllFired
<1>6. \A e \in Extension : CreateMeta(e) \/ Interface(e) \/ WriteOwn(e) \/ CloseOwn(e) => UNCHANGED hookVars
  BY DEF CreateMeta, Interface, WriteOwn, CloseOwn
<1>7. \A h \in Handle : OpenMeta(h) \/ RemoveMeta(h) \/ (\E v \in Version : SetVersion(h, v)) => UNCHANGED hookVars
  BY DEF OpenMeta, RemoveMeta, SetVersion
<1>8. WriteMeta => UNCHANGED hookVars
  BY DEF WriteMeta
<1>9. UNCHANGED hookVars \/ UNCHANGED vars => UNCHANGED <<afterInit, fired, INITIALIZED>>
  BY DEF hookVars, vars
<1> QED
  BY <1>1, <1>2, <1>3, <1>4, <1>5, <1>6, <1>7, <1>8, <1>9 DEF Next

\* A callback of an extension finds user data ready: the one that makes it so is fired
\* first (hooks.lua, data/userdata.lua).
THEOREM UserDataComesFirst == Spec => []CallbacksFindUserData
<1>1. HookInv => CallbacksFindUserData
  <2> SUFFICES ASSUME HookInv, NEW c \in Callback, c \in Range(fired) PROVE INITIALIZED
    BY DEF CallbacksFindUserData
  <2>1. DOMAIN fired # {}
    BY DEF Range
  <2>2. Len(fired) \in Nat /\ DOMAIN fired = 1..Len(fired)
    BY LenProperties DEF HookInv
  <2>3. Len(fired) > 0
    BY <2>1, <2>2
  <2> QED
    BY <2>3 DEF HookInv
<1> QED
  BY <1>1, HookStart, HookStep, PTL DEF Spec
=============================================================================
