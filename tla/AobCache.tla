------------------------------- MODULE AobCache -------------------------------
(***************************************************************************)
(* The cache of AOB ("array of bytes") addresses: data/cache.lua, its use  *)
(* by core.AOBScan (core.lua) and its file, over several starts of a game  *)
(* whose executable may be replaced between them.                          *)
(*                                                                         *)
(* mem says which patterns match at which address.  It starts as the       *)
(* executable and changes whenever code is patched, which is what the      *)
(* addresses are looked up for.                                            *)
(***************************************************************************)
EXTENDS Naturals, FiniteSets

CONSTANTS
  Aob,             \* the patterns that are searched for
  MaxAddr,         \* addresses are 1..MaxAddr
  None,            \* no address, no bound, no value
  Scalar,          \* a text or a number in place of the table of addresses
  MaxPatches,      \* bound on the patches of one start
  MaxRestarts      \* bound on the starts after the first

ASSUME CacheAssumption ==
  /\ MaxAddr \in Nat \ {0} /\ MaxPatches \in Nat /\ MaxRestarts \in Nat
  /\ None \notin Nat
  /\ \A D \in SUBSET Aob : Scalar \notin [D -> 1..MaxAddr]

VARIABLES
  exe,             \* address -> the patterns that match there in the executable
  mem,             \* address -> the patterns that match there now
  aobs,            \* the cache: pattern -> address, or Scalar
  file,            \* what is on disk: nothing, a cache, or what a crash made of it
  stage,           \* where the start is
  answer,          \* the AOBScan just made, or None
  patches, restarts

cacheVars == <<exe, mem, aobs, file, stage, answer, patches, restarts>>

-----------------------------------------------------------------------------
Addr == 1..MaxAddr

Memories == [Addr -> SUBSET Aob]

Caches == UNION {[D -> Addr] : D \in SUBSET Aob}

Empty == [p \in {} |-> 0]

NoFile == [kind |-> "absent", map |-> Empty]
TornFile == [kind |-> "torn", map |-> Empty]
ScalarFile == [kind |-> "scalar", map |-> Empty]
Cached(c) == [kind |-> "cache", map |-> c]
Files == {NoFile, TornFile, ScalarFile} \cup {Cached(c) : c \in Caches}

Stages == {"fixes", "run", "dumping", "done", "failed"}

CacheInit ==
  /\ exe \in Memories
  /\ mem = exe
  /\ aobs = Empty
  /\ file \in Files \ {TornFile, ScalarFile}
  /\ stage = "fixes"
  /\ answer = None
  /\ patches = 0 /\ restarts = 0

-----------------------------------------------------------------------------
\* core.scanForAOB: the first match from address lo to address hi, or nil.
ScanForAOB(p, lo, hi) ==
  LET hits == {x \in lo..hi : p \in mem[x]} IN
  IF hits = {} THEN None ELSE CHOOSE x \in hits : \A y \in hits : x <= y

\* Mutant: an entry counts because it is there.
UnconfirmedHit(p) == p \in DOMAIN aobs

\* An entry counts when a scan that starts at its address stops right there.
Confirmed(p) == p \in DOMAIN aobs /\ ScanForAOB(p, aobs[p], MaxAddr) = aobs[p]

\* cache.AOB.retrieve: the address, or None where it raises an error, which it
\* always does when it is to put an entry into what is no table.
Retrieved(p) ==
  IF aobs = Scalar THEN None
  ELSE IF Confirmed(p) THEN aobs[p] ELSE ScanForAOB(p, 1, MaxAddr)

\* One entry that does not hold any more condemns the whole cache.
AfterRetrieve(p) ==
  IF aobs = Scalar THEN Scalar ELSE
  LET base == IF p \in DOMAIN aobs /\ ~Confirmed(p) THEN Empty ELSE aobs
      r    == Retrieved(p)
  IN  IF r = None THEN base
      ELSE [q \in DOMAIN base \cup {p} |-> IF q = p THEN r ELSE base[q]]

InRange(x, lo, hi) == (lo # None => x >= lo) /\ (hi # None => x <= hi)

\* core.AOBScan(target, start, stop): what the cache says if it is in the range,
\* else a scan of the range that the cache does not learn.
AOBScan(p, lo, hi) ==
  LET r == Retrieved(p) IN
  IF r = None THEN None
  ELSE IF InRange(r, lo, hi) THEN r
  ELSE ScanForAOB(p, IF lo = None THEN 1 ELSE lo, IF hi = None THEN MaxAddr ELSE hi)

\* An error goes up to main.lua, or an extension catches it.
Scan(p, lo, hi) ==
  /\ stage \in {"fixes", "run", "done"}
  /\ lo = None => hi = None
  /\ aobs' = AfterRetrieve(p)
  /\ answer' = [aob |-> p, lo |-> lo, hi |-> hi, addr |-> AOBScan(p, lo, hi)]
  /\ \/ stage' = stage
     \/ answer'.addr = None /\ stage # "done" /\ stage' = "failed"
  /\ UNCHANGED <<exe, mem, file, patches, restarts>>

\* writeCode, insertCode, hooks and detours: other bytes at an address.
Patch(x) ==
  /\ stage \in {"fixes", "run", "done"}
  /\ patches < MaxPatches
  /\ \E s \in SUBSET Aob : mem' = [mem EXCEPT ![x] = s]
  /\ patches' = patches + 1
  /\ answer' = None
  /\ UNCHANGED <<exe, aobs, file, stage, restarts>>

\* loadFromFile replaces what was learned while the fixes were applied, unless
\* there is no file.  A file that is not YAML raises an error; one that is YAML
\* without a table is taken as it is.
LoadFromFile ==
  /\ stage = "fixes"
  /\ \/ file.kind = "absent" /\ aobs' = aobs /\ stage' = "run"
     \/ file.kind = "cache" /\ aobs' = file.map /\ stage' = "run"
     \/ file.kind = "scalar" /\ aobs' = Scalar /\ stage' = "run"
     \/ file.kind = "torn" /\ aobs' = aobs /\ stage' = "failed"
  /\ answer' = None
  /\ UNCHANGED <<exe, mem, file, patches, restarts>>

\* dumpToFile, at the end of main.lua: opening for writing empties the file, or
\* fails, which only costs the next start some time.
DumpOpens ==
  /\ stage = "run"
  /\ \/ file' = Cached(Empty) /\ stage' = "dumping"
     \/ file' = file /\ stage' = "done"
  /\ answer' = None
  /\ UNCHANGED <<exe, mem, aobs, patches, restarts>>

\* What is no table is not dumped: the error leaves the file empty.
DumpWrites ==
  /\ stage = "dumping"
  /\ \/ aobs # Scalar /\ file' = Cached(aobs) /\ stage' = "done"
     \/ aobs = Scalar /\ file' = file /\ stage' = "failed"
  /\ answer' = None
  /\ UNCHANGED <<exe, mem, aobs, patches, restarts>>

\* A write that was cut short leaves whole lines, the last one perhaps with its
\* number cut, or a last line without a colon, which as the only one is a scalar.
CutShort(f) ==
  (IF f = Empty THEN {} ELSE {TornFile, ScalarFile}) \cup
  {Cached(g) : g \in {g \in Caches :
      /\ DOMAIN g \subseteq DOMAIN f
      /\ Cardinality({p \in DOMAIN g : g[p] # f[p]}) <= 1}}

\* The game ends or crashes, at any time, and is started again, perhaps after an
\* update of its executable.  External but for what is on disk.
RestartGame ==
  /\ restarts < MaxRestarts
  /\ file' \in IF stage = "dumping" /\ aobs # Scalar THEN CutShort(aobs) ELSE {file}
  /\ exe' \in Memories
  /\ mem' = exe'
  /\ aobs' = Empty
  /\ stage' = "fixes"
  /\ answer' = None
  /\ patches' = 0
  /\ restarts' = restarts + 1

Bounds == Addr \cup {None}

CacheNext ==
  \/ \E p \in Aob, lo \in Bounds, hi \in Bounds : Scan(p, lo, hi)
  \/ \E x \in Addr : Patch(x)
  \/ LoadFromFile \/ DumpOpens \/ DumpWrites \/ RestartGame

CacheSpec == CacheInit /\ [][CacheNext]_cacheVars

-----------------------------------------------------------------------------
TypeOK ==
  /\ exe \in Memories /\ mem \in Memories
  /\ aobs \in Caches \cup {Scalar}
  /\ file \in Files
  /\ stage \in Stages
  /\ answer = None \/ answer \in [aob : Aob, lo : Bounds, hi : Bounds, addr : Bounds]
  /\ patches \in 0..MaxPatches /\ restarts \in 0..MaxRestarts

\* Callers patch what they are told: the address AOBScan returns matches the
\* pattern NOW and lies in the range asked for, however old the entry it came
\* from, whatever was patched since, and whatever the file held.  An error means
\* that the pattern is nowhere in the range, so no stale entry hides a match,
\* unless the cache file was cut inside its first line and is still there: then
\* every search raises, also for what is in memory.
AnswerMatches ==
  answer # None =>
    IF answer.addr # None
    THEN answer.aob \in mem[answer.addr] /\ InRange(answer.addr, answer.lo, answer.hi)
    ELSE \/ \A x \in Addr : InRange(x, answer.lo, answer.hi) => answer.aob \notin mem[x]
         \/ aobs = Scalar /\ file = ScalarFile
=============================================================================
