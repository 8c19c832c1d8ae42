----------------------- MODULE ExtensionHandles_proofs -----------------------
(***************************************************************************)
(* What the handle manager promises for every set of installable           *)
(* extensions and every number of changes of the disk.                     *)
(***************************************************************************)
EXTENDS ExtensionHandles, TLAPS

\* A registered alias names something installable.
AliasesInstallable ==
  \A p \in DOMAIN aliases :
    /\ p = <<p[1], p[2]>>
    /\ [folder |-> p[1], name |-> p[2], ver |-> aliases[p]] \in Installable

\* A handle is entered under the key of the place it reads, and only plugins
\* have an extension handle that is not a module handle too.
EnteredByKey ==
  /\ \A k \in DOMAIN moduleHandles : Key(heap[moduleHandles[k]].slot) = k
  /\ \A k \in DOMAIN extensionHandles : Key(heap[extensionHandles[k]].slot) = k
  /\ \A k \in DOMAIN extensionHandles :
       k \in DOMAIN moduleHandles \/ heap[extensionHandles[k]].slot.folder = "plugins"

\* No key has both a handle and a remembered error.
ErrorsApart == DOMAIN moduleHandles \cap moduleHandleErrors = {}

\* What a call in progress has found out still stands: the maps do not answer it,
\* and an archive that was verified is the one on disk if nothing changed since.
CallInHand ==
  call.at # "idle" =>
    /\ Misses(call.slot, call.as)
    /\ call.as = "extension" <=> call.slot.folder = "plugins"
    /\ call.code => codeHandle = Null
    /\ call.at = "found" \/ MustVerify
    /\ IF call.at = "verified"
       THEN /\ call.verified \in Vouched
            /\ call.since = changes => Content(call.slot).zip = call.verified
       ELSE call.verified = "none" /\ call.since = 0
    /\ call.since <= changes

IInv ==
  /\ HandlesTypeOK
  /\ AliasesInstallable
  /\ EnteredByKey
  /\ ErrorsApart
  /\ CallInHand
  /\ SecureModulesVerified
  /\ OpenModulesAreExtensions

\* What is said of the maps, whatever calls are made.
MapsInv == EnteredByKey /\ ErrorsApart /\ SecureModulesVerified /\ OpenModulesAreExtensions

-----------------------------------------------------------------------------
\* What a path is resolved to is a place to look up.
LEMMA ResolveRouted ==
  ASSUME AliasesInstallable, NEW s \in Installable
  PROVE  /\ Resolve(Bare(s)) \in Routed
         /\ Resolve(Bare(s)).folder \in {"modules", "plugins"}
<1> DEFINE p == <<s.folder, s.name>>
<1>1. /\ s = [folder |-> s.folder, name |-> s.name, ver |-> s.ver]
      /\ s.folder \in {"modules", "plugins"}
  BY InstallableAssumption
<1>2. Bare(s) = [folder |-> s.folder, name |-> s.name, ver |-> NoVer]
  BY <1>1 DEF Bare
<1>3. CASE p \in DOMAIN aliases
  <2>1. Resolve(Bare(s)) = [folder |-> s.folder, name |-> s.name, ver |-> aliases[p]]
    BY <1>2, <1>3 DEF Resolve
  <2>2. [folder |-> p[1], name |-> p[2], ver |-> aliases[p]] \in Installable
    BY <1>3 DEF AliasesInstallable
  <2>3. Resolve(Bare(s)) \in Installable
    BY <2>1, <2>2
  <2> QED BY <1>1, <2>1, <2>3 DEF Routed, Slots
<1>4. CASE p \notin DOMAIN aliases
  <2>1. Resolve(Bare(s)) = Bare(s)
    BY <1>2, <1>4 DEF Resolve
  <2> QED BY <1>1, <1>2, <2>1 DEF Routed, Slots
<1> QED BY <1>3, <1>4

\* A place that is looked up has some content.
LEMMA ContentType ==
  ASSUME HandlesTypeOK, NEW s
  PROVE  Content(s) \in DiskForms
BY DEF HandlesTypeOK, Content, DiskForms, Absent, Zips

\* A call in progress has the type of one.
LEMMA CallType ==
  ASSUME HandlesTypeOK, call.at # "idle"
  PROVE  call \in Calls /\ call # Idle
BY DEF HandlesTypeOK, Idle

-----------------------------------------------------------------------------
(* Opening a handle.                                                         *)

\* The new handle comes after those there are, which stay.
LEMMA ConstructFacts ==
  ASSUME IInv, call.at # "idle", NEW kind \in {"zip", "folder"}, Construct(kind)
  PROVE  /\ heap' \in Seq(Handles)
         /\ Len(heap) + 1 \in DOMAIN heap' /\ Len(heap) + 1 \notin DOMAIN heap
         /\ Len(heap) + 1 # Null
         /\ DOMAIN heap \subseteq DOMAIN heap'
         /\ \A h \in DOMAIN heap : heap'[h] = heap[h]
         /\ heap'[Len(heap) + 1].slot = call.slot
         /\ heap'[Len(heap) + 1].kind = kind
         /\ heap'[Len(heap) + 1].zip = Content(call.slot).zip
         /\ heap'[Len(heap) + 1].verified = call.verified
         /\ heap'[Len(heap) + 1].between = changes - call.since
<1> DEFINE h == [slot |-> call.slot, kind |-> kind, zip |-> Content(call.slot).zip,
                 verified |-> call.verified, between |-> changes - call.since]
<1>1. heap \in Seq(Handles) /\ call \in Calls /\ changes \in Nat /\ call.since <= changes
  BY CallType DEF IInv, HandlesTypeOK, CallInHand
<1>2. h \in Handles
  <2>1. Content(call.slot).zip \in Zips
    BY ContentType DEF IInv, DiskForms
  <2>2. call.slot \in Routed /\ call.verified \in Zips /\ call.since \in Nat
    BY <1>1 DEF Calls
  <2>3. changes - call.since \in Nat
    BY <1>1, <2>2
  <2> QED BY <2>1, <2>2, <2>3 DEF Handles
<1>3. heap' = Append(heap, h)
  BY DEF Construct
<1> HIDE DEF h
<1>4. /\ DOMAIN heap = 1..Len(heap) /\ Len(heap) \in Nat
      /\ DOMAIN Append(heap, h) = 1..(Len(heap) + 1)
      /\ Append(heap, h) \in Seq(Handles)
      /\ Append(heap, h)[Len(heap) + 1] = h
      /\ \A x \in 1..Len(heap) : Append(heap, h)[x] = heap[x]
  BY <1>1, <1>2
<1> QED BY <1>3, <1>4 DEF h, Null

\* What Enter makes of the maps, by what was asked for.
LEMMA EnterFacts ==
  ASSUME IInv, call.at # "idle", Enter, RestStays
  PROVE  LET k == Key(call.slot)
             h == Len(heap) + 1
         IN
         /\ call' = Idle /\ secureMode' = secureMode
         /\ moduleHandleErrors' = moduleHandleErrors
         /\ k \in Keys
         /\ IF call.as = "module"
            THEN /\ k \notin DOMAIN moduleHandles /\ k \notin moduleHandleErrors
                 /\ DOMAIN moduleHandles' = DOMAIN moduleHandles \cup {k}
                 /\ moduleHandles'[k] = h
                 /\ \A x \in DOMAIN moduleHandles : moduleHandles'[x] = moduleHandles[x]
            ELSE /\ k \notin DOMAIN extensionHandles
                 /\ moduleHandles' = moduleHandles
         /\ IF MustVerify
            THEN extensionHandles' = extensionHandles
            ELSE /\ DOMAIN extensionHandles' = DOMAIN extensionHandles \cup {k}
                 /\ extensionHandles'[k] = h
                 /\ \A x \in DOMAIN extensionHandles :
                      x # k => extensionHandles'[x] = extensionHandles[x]
         /\ codeHandle' = codeHandle \/ (codeHandle = Null /\ codeHandle' = h)
<1>1. call \in Calls
  BY CallType DEF IInv
<1>2. Key(call.slot) \in Keys
  BY <1>1 DEF Calls, Keys
<1>3. Misses(call.slot, call.as) /\ (call.code => codeHandle = Null)
  BY DEF IInv, CallInHand
<1>4. call' = Idle /\ secureMode' = secureMode /\ moduleHandleErrors' = moduleHandleErrors
  BY DEF Enter, RestStays
<1>5. codeHandle' = codeHandle \/ (codeHandle = Null /\ codeHandle' = Len(heap) + 1)
  BY <1>3 DEF Enter
<1>6. call.as = "module" =>
        /\ Key(call.slot) \notin DOMAIN moduleHandles /\ Key(call.slot) \notin moduleHandleErrors
        /\ moduleHandles' = Put(moduleHandles, Key(call.slot), Len(heap) + 1)
  BY <1>3 DEF Misses, Enter
<1>7. call.as # "module" =>
        Key(call.slot) \notin DOMAIN extensionHandles /\ moduleHandles' = moduleHandles
  BY <1>3 DEF Misses, Enter
<1>8. extensionHandles' = IF MustVerify THEN extensionHandles
                          ELSE Put(extensionHandles, Key(call.slot), Len(heap) + 1)
  BY DEF Enter
<1> QED BY <1>2, <1>4, <1>5, <1>6, <1>7, <1>8 DEF Put

\* A handle that is opened keeps the invariant, if in secure mode a module is a zip
\* that was verified.
LEMMA OpenKeeps ==
  ASSUME IInv, call.at # "idle", NEW kind \in {"zip", "folder"},
         Construct(kind), Enter, RestStays,
         MustVerify => kind = "zip" /\ call.at = "verified"
  PROVE  IInv'
<1> DEFINE k == Key(call.slot)
           h == Len(heap) + 1
<1>1. /\ heap' \in Seq(Handles) /\ h \in DOMAIN heap' /\ h \notin DOMAIN heap /\ h # Null
      /\ DOMAIN heap \subseteq DOMAIN heap'
      /\ \A x \in DOMAIN heap : heap'[x] = heap[x]
      /\ heap'[h].slot = call.slot /\ heap'[h].kind = kind
      /\ heap'[h].zip = Content(call.slot).zip /\ heap'[h].verified = call.verified
      /\ heap'[h].between = changes - call.since
  BY ConstructFacts
<1>2. /\ call' = Idle /\ secureMode' = secureMode
      /\ moduleHandleErrors' = moduleHandleErrors
      /\ k \in Keys
      /\ codeHandle' = codeHandle \/ (codeHandle = Null /\ codeHandle' = h)
  BY EnterFacts
<1>3. call.as = "module" =>
        /\ k \notin DOMAIN moduleHandles /\ k \notin moduleHandleErrors
        /\ DOMAIN moduleHandles' = DOMAIN moduleHandles \cup {k}
        /\ moduleHandles'[k] = h
        /\ \A x \in DOMAIN moduleHandles : moduleHandles'[x] = moduleHandles[x]
  BY EnterFacts
<1>4. call.as # "module" => k \notin DOMAIN extensionHandles /\ moduleHandles' = moduleHandles
  BY EnterFacts
<1>5. MustVerify => extensionHandles' = extensionHandles
  BY EnterFacts
<1>6. ~MustVerify =>
        /\ DOMAIN extensionHandles' = DOMAIN extensionHandles \cup {k}
        /\ extensionHandles'[k] = h
        /\ \A x \in DOMAIN extensionHandles :
             x # k => extensionHandles'[x] = extensionHandles[x]
  BY EnterFacts
<1>7. /\ \A x \in DOMAIN moduleHandles : x \in Keys /\ moduleHandles[x] \in DOMAIN heap
      /\ \A x \in DOMAIN extensionHandles : x \in Keys /\ extensionHandles[x] \in DOMAIN heap
      /\ codeHandle \in DOMAIN heap \cup {Null}
  BY DEF IInv, HandlesTypeOK, MapsInto
<1> HIDE DEF k, h
<1>8. HandlesTypeOK'
  <2>1. MapsInto(moduleHandles', Keys, DOMAIN heap')
    BY <1>1, <1>2, <1>3, <1>4, <1>7 DEF MapsInto
  <2>2. MapsInto(extensionHandles', Keys, DOMAIN heap')
    BY <1>1, <1>2, <1>5, <1>6, <1>7 DEF MapsInto
  <2>3. codeHandle' \in DOMAIN heap' \cup {Null} /\ call' \in Calls \cup {Idle}
    BY <1>1, <1>2, <1>7
  <2> QED BY <1>1, <1>2, <2>1, <2>2, <2>3 DEF IInv, HandlesTypeOK, RestStays
<1>9. AliasesInstallable'
  BY DEF IInv, AliasesInstallable, RestStays
<1>10. Key(call.slot) = k /\ (call.as = "extension" <=> call.slot.folder = "plugins")
       /\ (call.as = "module" \/ call.as = "extension")
  BY CallType DEF k, IInv, CallInHand, Calls
<1>11. EnteredByKey'
  <2>1. \A x \in DOMAIN moduleHandles' : Key(heap'[moduleHandles'[x]].slot) = x
    BY <1>1, <1>3, <1>4, <1>7, <1>10 DEF IInv, EnteredByKey
  <2>2. \A x \in DOMAIN extensionHandles' : Key(heap'[extensionHandles'[x]].slot) = x
    BY <1>1, <1>5, <1>6, <1>7, <1>10 DEF IInv, EnteredByKey
  <2>3. \A x \in DOMAIN extensionHandles' :
          x \in DOMAIN moduleHandles' \/ heap'[extensionHandles'[x]].slot.folder = "plugins"
    BY <1>1, <1>3, <1>4, <1>5, <1>6, <1>7, <1>10 DEF IInv, EnteredByKey
  <2> QED BY <2>1, <2>2, <2>3 DEF EnteredByKey
<1>12. ErrorsApart'
  BY <1>2, <1>3, <1>4, <1>10 DEF IInv, ErrorsApart
<1>13. CallInHand'
  BY <1>2 DEF CallInHand, Idle
<1>14. SecureModulesVerified'
  <2> SUFFICES ASSUME secureMode
               PROVE  \A x \in DOMAIN moduleHandles' :
                        LET g == heap'[moduleHandles'[x]] IN
                        /\ g.kind = "zip" /\ g.verified \in Vouched
                        /\ g.between = 0 => g.zip = g.verified
    BY <1>2, <1>12 DEF SecureModulesVerified, ErrorsApart
  <2>1. \A x \in DOMAIN moduleHandles :
          LET g == heap[moduleHandles[x]] IN
          /\ g.kind = "zip" /\ g.verified \in Vouched
          /\ g.between = 0 => g.zip = g.verified
    BY DEF IInv, SecureModulesVerified
  <2>2. CASE call.as = "module"
    <3>1. kind = "zip" /\ call.at = "verified"
      BY <2>2 DEF MustVerify
    <3>2. /\ call.verified \in Vouched
          /\ call.since = changes => Content(call.slot).zip = call.verified
      BY <3>1 DEF IInv, CallInHand
    <3>3. changes - call.since = 0 => call.since = changes
      BY CallType DEF IInv, HandlesTypeOK, Calls
    <3>4. /\ heap'[h].kind = "zip" /\ heap'[h].verified \in Vouched
          /\ heap'[h].between = 0 => heap'[h].zip = heap'[h].verified
      BY <1>1, <3>1, <3>2, <3>3
    <3> QED BY <1>1, <1>3, <1>7, <2>1, <2>2, <3>4
  <2>3. CASE call.as # "module"
    BY <1>1, <1>4, <1>7, <2>1, <2>3
  <2> QED BY <2>2, <2>3
<1>15. OpenModulesAreExtensions'
  BY <1>2, <1>3, <1>4, <1>6 DEF IInv, OpenModulesAreExtensions, MustVerify
<1> QED BY <1>8, <1>9, <1>11, <1>12, <1>13, <1>14, <1>15 DEF IInv

-----------------------------------------------------------------------------
(* The other steps.                                                          *)

\* Nothing is loaded, opened or remembered at first.
LEMMA InitIInv == HandlesInit => IInv
<1> SUFFICES ASSUME HandlesInit PROVE IInv
  OBVIOUS
<1>1. /\ DOMAIN aliases = {} /\ DOMAIN moduleHandles = {} /\ DOMAIN extensionHandles = {}
      /\ heap = << >> /\ moduleHandleErrors = {} /\ codeHandle = Null /\ call = Idle
  BY DEF HandlesInit
<1>2. HandlesTypeOK
  BY <1>1, InstallableAssumption DEF HandlesInit, HandlesTypeOK, MapsInto
<1> QED BY <1>1, <1>2 DEF IInv, AliasesInstallable, EnteredByKey, ErrorsApart, CallInHand, Idle,
     SecureModulesVerified, OpenModulesAreExtensions

\* A step that leaves the maps alone keeps what is said of them.
LEMMA MapsUntouched ==
  ASSUME IInv, UNCHANGED <<secureMode, maps>>
  PROVE  MapsInv'
BY DEF IInv, maps, MapsInv, EnteredByKey, ErrorsApart, SecureModulesVerified,
   OpenModulesAreExtensions

\* A look that begins a call, whichever path, alias or name it came from.
LEMMA LookKeeps ==
  ASSUME IInv, NEW s \in Routed, NEW as \in {"module", "extension"}, NEW code \in BOOLEAN,
         as = "extension" <=> s.folder = "plugins",
         code => codeHandle = Null, Look(s, as, code)
  PROVE  IInv'
<1>1. UNCHANGED <<secureMode, installed, strayCode, aliases, maps, changes>> /\ Misses(s, as)
  BY DEF Look
<1>2. call' = [at |-> "found", slot |-> s, as |-> as, code |-> code,
               zip |-> Content(s).zip # "none", folder |-> Content(s).folder,
               verified |-> "none", since |-> 0]
  BY DEF Look
<1>3. call' \in Calls
  BY <1>2, ContentType DEF IInv, Calls, DiskForms, Zips
<1>4. HandlesTypeOK'
  BY <1>1, <1>3 DEF IInv, HandlesTypeOK, maps
<1>5. AliasesInstallable'
  BY <1>1 DEF IInv, AliasesInstallable
<1>6. CallInHand'
  <2>1. /\ call'.slot = s /\ call'.as = as /\ call'.code = code /\ call'.at = "found"
        /\ call'.verified = "none" /\ call'.since = 0
    BY <1>2
  <2>2. Misses(call.slot, call.as)'
    BY <1>1, <2>1 DEF Misses, maps
  <2>3. changes' \in Nat
    <3>1. changes' \in 0..MaxChanges /\ MaxChanges \in Nat
      BY <1>4, InstallableAssumption DEF HandlesTypeOK
    <3> QED BY <3>1
  <2>4. (call.code => codeHandle = Null)'
    BY <1>1, <2>1 DEF maps
  <2>5. 0 <= changes'
    BY <2>3
  <2>6. (call.as = "extension" <=> call.slot.folder = "plugins")'
    BY <2>1
  <2> QED BY <2>1, <2>2, <2>4, <2>5, <2>6 DEF CallInHand, maps
<1> QED BY <1>1, <1>4, <1>5, <1>6, MapsUntouched DEF IInv, MapsInv

\* A call that ends without a handle.
LEMMA ThrowKeeps == ASSUME IInv, Throw, RestStays PROVE IInv'
<1>1. call' = Idle /\ UNCHANGED <<secureMode, installed, strayCode, aliases, maps, changes>>
  BY DEF Throw, RestStays
<1>2. HandlesTypeOK' /\ AliasesInstallable'
  BY <1>1 DEF IInv, HandlesTypeOK, AliasesInstallable, maps
<1>3. CallInHand'
  BY <1>1 DEF CallInHand, Idle
<1> QED BY <1>1, <1>2, <1>3, MapsUntouched DEF IInv, MapsInv

LEMMA RememberErrorKeeps ==
  ASSUME IInv, call.at # "idle", MustVerify, RememberError, RestStays
  PROVE  IInv'
<1>1. /\ UNCHANGED <<secureMode, installed, strayCode, aliases, changes>>
      /\ UNCHANGED <<moduleHandles, extensionHandles, codeHandle, heap>>
      /\ call' = Idle
      /\ moduleHandleErrors' = moduleHandleErrors \cup {Key(call.slot)}
  BY DEF RememberError, RestStays
<1>2. Key(call.slot) \in Keys
  BY CallType DEF IInv, Calls, Keys
<1>3. Key(call.slot) \notin DOMAIN moduleHandles
  BY DEF IInv, CallInHand, Misses, MustVerify
<1>4. HandlesTypeOK' /\ AliasesInstallable'
  BY <1>1, <1>2 DEF IInv, HandlesTypeOK, AliasesInstallable
<1>5. ErrorsApart'
  BY <1>1, <1>3 DEF IInv, ErrorsApart
<1>6. EnteredByKey' /\ OpenModulesAreExtensions' /\ CallInHand'
  BY <1>1 DEF IInv, EnteredByKey, OpenModulesAreExtensions, CallInHand, Idle
<1>7. SecureModulesVerified'
  BY <1>1, <1>5 DEF IInv, SecureModulesVerified, ErrorsApart
<1> QED BY <1>4, <1>5, <1>6, <1>7 DEF IInv

\* A call that goes on to its next part with what it has read.
NotListed == call.at = "found" /\ call' = [call EXCEPT !.at = "hashed"]

IsVouched ==
  \E v \in Vouched :
    /\ Content(call.slot).zip = v
    /\ call' = [call EXCEPT !.at = "verified", !.verified = v, !.since = changes]

LEMMA ReadingKeeps ==
  ASSUME IInv, call.at # "idle", MustVerify, UNCHANGED maps, RestStays, NotListed \/ IsVouched
  PROVE  IInv'
<1>1. UNCHANGED <<secureMode, installed, strayCode, aliases, maps, changes>>
  BY DEF RestStays
<1>2. call \in Calls /\ changes \in Nat
  <2>1. changes \in 0..MaxChanges /\ MaxChanges \in Nat
    BY InstallableAssumption DEF IInv, HandlesTypeOK
  <2>2. call \in Calls
    BY CallType DEF IInv
  <2>3. changes \in Nat
    BY <2>1
  <2> QED BY <2>2, <2>3
<1>3. call' \in Calls /\ call'.slot = call.slot /\ call'.as = call.as /\ call'.code = call.code
  BY <1>2 DEF Calls, Vouched, Zips, NotListed, IsVouched
<1>4. HandlesTypeOK'
  BY <1>1, <1>3 DEF IInv, HandlesTypeOK, maps
<1>5. AliasesInstallable'
  BY <1>1 DEF IInv, AliasesInstallable
<1>6. /\ Misses(call.slot, call.as)
      /\ call.as = "extension" <=> call.slot.folder = "plugins"
      /\ call.code => codeHandle = Null
  BY DEF IInv, CallInHand
<1>7. MustVerify'
  BY <1>1, <1>3 DEF MustVerify
<1>8. Misses(call.slot, call.as)'
  BY <1>1, <1>3, <1>6 DEF Misses, maps
<1>9. CallInHand'
  <2>1. CASE NotListed
    <3>1. call'.at = "hashed" /\ call'.verified = call.verified /\ call'.since = call.since
      BY <1>2, <2>1 DEF Calls, NotListed
    <3>2. call.verified = "none" /\ call.since = 0 /\ call.since <= changes
      BY <2>1 DEF IInv, CallInHand, NotListed
    <3> QED BY <1>1, <1>3, <1>6, <1>7, <1>8, <3>1, <3>2 DEF CallInHand, maps
  <2>2. CASE IsVouched
    <3>1. PICK v \in Vouched :
            /\ Content(call.slot).zip = v
            /\ call' = [call EXCEPT !.at = "verified", !.verified = v, !.since = changes]
      BY <2>2 DEF IsVouched
    <3>2. call'.at = "verified" /\ call'.verified = v /\ call'.since = changes
      BY <1>2, <3>1 DEF Calls
    <3>3. Content(call.slot)' = Content(call.slot)
      BY <1>1, <1>3 DEF Content
    <3>4. (Content(call.slot).zip)' = v
      BY <3>1, <3>3
    <3>5. (call.code => codeHandle = Null)' /\ call'.since <= changes'
      BY <1>1, <1>2, <1>3, <1>6, <3>2 DEF maps
    <3>6. (call.as = "extension" <=> call.slot.folder = "plugins")'
      BY <1>3, <1>6
    <3> QED BY <1>7, <1>8, <3>1, <3>2, <3>4, <3>5, <3>6 DEF CallInHand
  <2> QED BY <2>1, <2>2
<1> QED BY <1>1, <1>4, <1>5, <1>9, MapsUntouched DEF IInv, MapsInv

-----------------------------------------------------------------------------
LEMMA GetHandleKeeps == ASSUME IInv, GetHandle PROVE IInv'
<1>1. CASE NothingFound
  BY <1>1, ThrowKeeps, RememberErrorKeeps DEF NothingFound
<1>2. CASE HashFile
  <2>1. call.at = "found" /\ MustVerify /\ RestStays
    BY <1>2 DEF HashFile
  <2>2. CASE Throw
    BY <2>1, <2>2, ThrowKeeps
  <2>3. CASE UNCHANGED maps /\ call' = [call EXCEPT !.at = "hashed"]
    BY <2>1, <2>3, ReadingKeeps DEF NotListed
  <2>4. CASE /\ UNCHANGED maps /\ Content(call.slot).zip = "listed"
             /\ call' = [call EXCEPT !.at = "verified", !.verified = "listed",
                                     !.since = changes]
    BY <2>1, <2>4, ReadingKeeps DEF Vouched, IsVouched
  <2> QED BY <1>2, <2>2, <2>3, <2>4 DEF HashFile
<1>3. CASE VerifySignature
  <2>1. call.at = "hashed" /\ RestStays
    BY <1>3 DEF VerifySignature
  <2>2. MustVerify
    BY <2>1 DEF IInv, CallInHand
  <2>3. CASE RememberError
    BY <2>1, <2>2, <2>3, RememberErrorKeeps
  <2>4. CASE /\ UNCHANGED maps /\ Content(call.slot).zip = "signed"
             /\ call' = [call EXCEPT !.at = "verified", !.verified = "signed",
                                     !.since = changes]
    BY <2>1, <2>2, <2>4, ReadingKeeps DEF Vouched, IsVouched
  <2> QED BY <1>3, <2>3, <2>4 DEF VerifySignature
<1>4. CASE OpenZip
  <2>1. call.at # "idle" /\ (MustVerify => call.at = "verified") /\ RestStays
    BY <1>4 DEF OpenZip
  <2>2. CASE Throw
    BY <2>1, <2>2, ThrowKeeps
  <2>3. CASE Construct("zip") /\ Enter
    BY <2>1, <2>3, OpenKeeps
  <2> QED BY <1>4, <2>2, <2>3 DEF OpenZip
<1>5. CASE OpenFolder
  BY <1>5, OpenKeeps DEF OpenFolder
<1> QED BY <1>1, <1>2, <1>3, <1>4, <1>5 DEF GetHandle

LEMMA RouteKeeps ==
  ASSUME IInv, NEW s \in Routed, s.folder \in {"modules", "plugins"}, Route(s)
  PROVE  IInv'
BY LookKeeps DEF Route

LEMMA OpenPathKeeps == ASSUME IInv, NEW s \in Installable, OpenPath(s) PROVE IInv'
<1>1. s \in Routed /\ s.folder \in {"modules", "plugins"}
  BY InstallableAssumption DEF Routed, Slots
<1> QED BY <1>1, RouteKeeps DEF OpenPath

LEMMA OpenBarePathKeeps == ASSUME IInv, NEW s \in Installable, OpenBarePath(s) PROVE IInv'
<1>1. /\ Resolve(Bare(s)) \in Routed
      /\ Resolve(Bare(s)).folder \in {"modules", "plugins"}
  BY ResolveRouted DEF IInv
<1> QED BY <1>1, RouteKeeps DEF OpenBarePath

LEMMA RegisterAliasKeeps ==
  ASSUME IInv, NEW s \in Installable, NEW overwrite \in BOOLEAN, RegisterAlias(s, overwrite)
  PROVE  IInv'
<1> DEFINE p == <<s.folder, s.name>>
<1>1. UNCHANGED <<secureMode, installed, strayCode, maps, call, changes>> /\ call = Idle
  BY DEF RegisterAlias
<1>2. /\ DOMAIN aliases' = DOMAIN aliases \cup {p}
      /\ aliases'[p] = s.ver
      /\ \A q \in DOMAIN aliases : q # p => aliases'[q] = aliases[q]
  BY DEF RegisterAlias, Put
<1>3. s = [folder |-> s.folder, name |-> s.name, ver |-> s.ver]
  BY InstallableAssumption
<1>4. AliasesInstallable'
  BY <1>2, <1>3 DEF AliasesInstallable, IInv
<1>5. MapsInto(aliases', {<<t.folder, t.name>> : t \in Installable}, {t.ver : t \in Installable})
  BY <1>2 DEF MapsInto, IInv, HandlesTypeOK
<1>6. HandlesTypeOK'
  BY <1>1, <1>5 DEF IInv, HandlesTypeOK, maps
<1>7. CallInHand'
  BY <1>1 DEF CallInHand, Idle
<1> QED BY <1>1, <1>4, <1>6, <1>7, MapsUntouched DEF IInv, MapsInv

LEMMA GetLatestCodeHandleKeeps == ASSUME IInv, GetLatestCodeHandle PROVE IInv'
<1>1. PICK s \in CodeChoices : Look(s, "module", TRUE)
  BY DEF GetLatestCodeHandle
<1>2. s \in Routed /\ s.folder = "ucp"
  BY DEF CodeChoices, Routed, Slots, CodeSlot, StraySlot
<1> QED BY <1>1, <1>2, LookKeeps DEF GetLatestCodeHandle

\* Whatever was verified before the disk changed was verified at an earlier count.
LEMMA DiskChangeKeeps == ASSUME IInv, NEW s \in Slots, DiskChange(s) PROVE IInv'
<1>1. UNCHANGED <<secureMode, strayCode, aliases, maps, call>> /\ changes' = changes + 1
  BY DEF DiskChange
<1>2. installed' \in [Slots -> DiskForms] /\ changes' \in 0..MaxChanges /\ changes \in Nat
  BY InstallableAssumption DEF DiskChange, IInv, HandlesTypeOK
<1>3. HandlesTypeOK'
  BY <1>1, <1>2 DEF IInv, HandlesTypeOK, maps
<1>4. AliasesInstallable'
  BY <1>1 DEF IInv, AliasesInstallable
<1>5. CallInHand'
  <2>1. CASE call.at = "idle"
    BY <1>1, <2>1 DEF CallInHand
  <2>2. CASE call.at # "idle"
    <3>1. call.since \in Nat
      BY <2>2, CallType DEF IInv, Calls
    <3>2. call.since <= changes
      BY <2>2 DEF IInv, CallInHand
    <3>3. call.since <= changes' /\ call.since # changes'
      BY <1>1, <1>2, <3>1, <3>2
    <3>4. Misses(call.slot, call.as)' /\ (MustVerify <=> MustVerify')
      BY <1>1, <2>2 DEF IInv, CallInHand, Misses, MustVerify, maps
    <3> QED BY <1>1, <2>2, <3>3, <3>4 DEF IInv, CallInHand, maps
  <2> QED BY <2>1, <2>2
<1> QED BY <1>1, <1>3, <1>4, <1>5, MapsUntouched DEF IInv, MapsInv

LEMMA NextIInv == IInv /\ [HandlesNext]_handleVars => IInv'
<1> SUFFICES ASSUME IInv, [HandlesNext]_handleVars PROVE IInv'
  OBVIOUS
<1>1. CASE \E s \in Installable : OpenPath(s)
  BY <1>1, OpenPathKeeps
<1>2. CASE \E s \in Installable : OpenBarePath(s)
  BY <1>2, OpenBarePathKeeps
<1>3. CASE \E s \in Installable : \E overwrite \in BOOLEAN : RegisterAlias(s, overwrite)
  BY <1>3, RegisterAliasKeeps
<1>4. CASE GetLatestCodeHandle
  BY <1>4, GetLatestCodeHandleKeeps
<1>5. CASE GetHandle
  BY <1>5, GetHandleKeeps
<1>6. CASE \E s \in Slots : DiskChange(s)
  BY <1>6, DiskChangeKeeps
<1>7. CASE UNCHANGED handleVars
  <2>1. UNCHANGED <<secureMode, installed, strayCode, aliases, maps, call, changes>>
    BY <1>7 DEF handleVars
  <2>2. HandlesTypeOK' /\ AliasesInstallable'
    BY <2>1 DEF IInv, HandlesTypeOK, AliasesInstallable, maps
  <2>3. CallInHand'
    BY <2>1 DEF IInv, CallInHand, Misses, MustVerify, Content, maps
  <2> QED BY <2>1, <2>2, <2>3, MapsUntouched DEF IInv, MapsInv
<1> QED BY <1>1, <1>2, <1>3, <1>4, <1>5, <1>6, <1>7 DEF HandlesNext

-----------------------------------------------------------------------------
\* The inductive invariant holds in every behaviour.
THEOREM Inductive == HandlesSpec => []IInv
<1> QED BY InitIInv, NextIInv, PTL DEF HandlesSpec

\* The maps keep their types, whatever is opened and whatever changes on disk.
THEOREM TypeCorrect == HandlesSpec => []HandlesTypeOK
<1>1. IInv => HandlesTypeOK
  BY DEF IInv
<1> QED BY <1>1, Inductive, PTL

\* In secure mode every module handle is of an archive that the call that opened it
\* had verified, also where the disk changes between any two of its steps: what is
\* opened can be other than what was verified only if the disk changed between these
\* two.  No key has both a handle and a remembered error (getModuleHandle).
THEOREM SecureModeVerifies == HandlesSpec => []SecureModulesVerified
<1>1. IInv => SecureModulesVerified
  BY DEF IInv
<1> QED BY <1>1, Inductive, PTL

\* Without secure mode a module's handle serves the look-ups by extension too,
\* for every set of extensions, also when module and plugin share a key.
THEOREM OpenModeShares == HandlesSpec => []OpenModulesAreExtensions
<1>1. IInv => OpenModulesAreExtensions
  BY DEF IInv
<1> QED BY <1>1, Inductive, PTL

-----------------------------------------------------------------------------
(* What a step may do to the handles that callers keep.                      *)

Stay ==
  /\ \A k \in DOMAIN moduleHandles :
       k \in DOMAIN moduleHandles' /\ moduleHandles'[k] = moduleHandles[k]
  /\ \A k \in DOMAIN extensionHandles :
       /\ k \in DOMAIN extensionHandles'
       /\ \/ extensionHandles'[k] = extensionHandles[k]
          \/ /\ ~secureMode
             /\ heap[extensionHandles[k]].slot.folder = "plugins"
             /\ heap'[extensionHandles'[k]].slot.folder # "plugins"
             /\ extensionHandles'[k] = moduleHandles'[k]
  /\ codeHandle # Null => codeHandle' = codeHandle

\* What Enter replaces is the handle of a plugin, by that of a module.
LEMMA OpenStays ==
  ASSUME IInv, call.at # "idle", NEW kind \in {"zip", "folder"},
         Construct(kind), Enter, RestStays
  PROVE  Stay
<1> DEFINE k == Key(call.slot)
           h == Len(heap) + 1
<1>1. heap'[h].slot = call.slot
  BY ConstructFacts
<1>2. codeHandle' = codeHandle \/ codeHandle = Null
  BY EnterFacts
<1>3. call.as = "module" =>
        /\ k \notin DOMAIN moduleHandles
        /\ DOMAIN moduleHandles' = DOMAIN moduleHandles \cup {k}
        /\ moduleHandles'[k] = h
        /\ \A x \in DOMAIN moduleHandles : moduleHandles'[x] = moduleHandles[x]
  BY EnterFacts
<1>4. call.as # "module" => k \notin DOMAIN extensionHandles /\ moduleHandles' = moduleHandles
  BY EnterFacts
<1>5. MustVerify => extensionHandles' = extensionHandles
  BY EnterFacts
<1>6. ~MustVerify =>
        /\ DOMAIN extensionHandles' = DOMAIN extensionHandles \cup {k}
        /\ extensionHandles'[k] = h
        /\ \A x \in DOMAIN extensionHandles :
             x # k => extensionHandles'[x] = extensionHandles[x]
  BY EnterFacts
<1>7. call.as = "extension" <=> call.slot.folder = "plugins"
  BY DEF IInv, CallInHand
<1>8. \A x \in DOMAIN extensionHandles :
        x \in DOMAIN moduleHandles \/ heap[extensionHandles[x]].slot.folder = "plugins"
  BY DEF IInv, EnteredByKey
<1> HIDE DEF k, h
<1>9. \A x \in DOMAIN moduleHandles :
        x \in DOMAIN moduleHandles' /\ moduleHandles'[x] = moduleHandles[x]
  BY <1>3, <1>4
<1>10. ASSUME NEW x \in DOMAIN extensionHandles, extensionHandles'[x] # extensionHandles[x]
       PROVE  /\ ~secureMode
              /\ heap[extensionHandles[x]].slot.folder = "plugins"
              /\ heap'[extensionHandles'[x]].slot.folder # "plugins"
              /\ extensionHandles'[x] = moduleHandles'[x]
  <2>1. ~MustVerify /\ x = k /\ call.as = "module"
    BY <1>4, <1>5, <1>6, <1>10
  <2>2. ~secureMode
    BY <2>1 DEF MustVerify
  <2>3. extensionHandles'[x] = h /\ moduleHandles'[x] = h /\ x \notin DOMAIN moduleHandles
    BY <1>3, <1>6, <2>1
  <2> QED BY <1>1, <1>7, <1>8, <2>1, <2>2, <2>3
<1> QED BY <1>2, <1>5, <1>6, <1>9, <1>10 DEF Stay

\* For every set of extensions, also ones where a module and a plugin have the same
\* name and version, and whatever changes on disk: pointers that open libraries and
\* Lua userdata keep stay those of their module, and a plugin's handle gives way to
\* the module of its name and version only, and only where modules need not be
\* verified.
THEOREM HandlesAreKept == HandlesSpec => HandlesStay
<1>1. ASSUME IInv, [HandlesNext]_handleVars PROVE [Stay]_handleVars
  <2>1. CASE UNCHANGED maps
    BY <2>1 DEF maps, Stay
  <2>2. CASE RememberError
    BY <2>2 DEF RememberError, Stay
  <2>3. CASE GetHandle
    <3>1. CASE OpenZip
      BY <1>1, <2>1, <3>1, OpenStays DEF OpenZip, Throw
    <3>2. CASE OpenFolder
      BY <1>1, <3>2, OpenStays DEF OpenFolder
    <3>3. CASE NothingFound \/ HashFile \/ VerifySignature
      BY <2>1, <2>2, <3>3 DEF NothingFound, HashFile, VerifySignature, Throw
    <3> QED BY <2>3, <3>1, <3>2, <3>3 DEF GetHandle
  <2>4. CASE \E s \in Installable : OpenPath(s) \/ OpenBarePath(s)
    BY <2>1, <2>4 DEF OpenPath, OpenBarePath, Route, Look
  <2>5. CASE \E s \in Installable : \E overwrite \in BOOLEAN : RegisterAlias(s, overwrite)
    BY <2>1, <2>5 DEF RegisterAlias
  <2>6. CASE GetLatestCodeHandle
    BY <2>1, <2>6 DEF GetLatestCodeHandle, Look
  <2>7. CASE \E s \in Slots : DiskChange(s)
    BY <2>1, <2>7 DEF DiskChange
  <2> QED BY <1>1, <2>3, <2>4, <2>5, <2>6, <2>7 DEF HandlesNext
<1> QED BY <1>1, Inductive, PTL DEF HandlesSpec, HandlesStay, Stay

-----------------------------------------------------------------------------
\* A remembered error is final, whatever is opened afterwards and whatever is put
\* in place of the file that was rejected.
THEOREM RejectionsAreFinal == HandlesSpec => RejectionsStay
<1> DEFINE Kept == \A k \in moduleHandleErrors : k \in moduleHandleErrors'
<1>1. ASSUME [HandlesNext]_handleVars PROVE Kept
  <2>1. moduleHandleErrors' = moduleHandleErrors \/ RememberError
    BY <1>1 DEF HandlesNext, OpenPath, OpenBarePath, Route, Look, RegisterAlias,
       GetLatestCodeHandle, GetHandle, NothingFound, HashFile, VerifySignature, OpenZip,
       OpenFolder, Enter, Throw, DiskChange, maps, handleVars
  <2> QED BY <2>1 DEF RememberError
<1>2. ASSUME IInv', Kept
      PROVE  \A k \in moduleHandleErrors : k \in moduleHandleErrors' /\ k \notin DOMAIN moduleHandles'
  BY <1>2 DEF IInv, ErrorsApart
<1> QED BY <1>1, <1>2, Inductive, PTL DEF HandlesSpec, RejectionsStay
=============================================================================
