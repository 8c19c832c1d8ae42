----------------------------- MODULE Environment_proofs --------------------------
(***************************************************************************)
(* Proofs about what Lua code gets at, for any values, scripts, snippets    *)
(* and bounds.                                                             *)
(*   Proxies: OnlyLeaksAreWritten and LifecycleHidden follow from what holds of every *)
(*     single value that a script can come by (Safe), as what an extension  *)
(*     consists of does not change.                                        *)
(*   Require: OneFinishedObject, from what the scripts on the stack have    *)
(*     to do with each other.                                              *)
(*   Console: SnippetsAnswer, from what lies on the Lua stack at each of    *)
(*     the console's places.                                               *)
(***************************************************************************)
EXTENDS Proxies, Require, Console, SequenceTheorems, TLAPS

-----------------------------------------------------------------------------
(* Proxies.                                                                  *)

\* Nothing leads a script to the handle itself, or to a function whose only name
\* is a filtered one.
Guarded(r) ==
  ~LeadsBack =>
    /\ r.as \in {"raw", "table"} => r.of \in Obj /\ r.of # Handle
    /\ r.as \in {"function", "bound", "bound raw"} =>
         (\E k \in Key \ Filtered : contents[Handle][k] = Fn(r.of)) \/ Elsewhere(r.of)

\* A bare table is one that leaks, and so is what an unwrapped function returns.
Wrapped(r) ==
  /\ r.as = "raw" => Leaked(r.of)
  /\ r.as \in {"function", "bound raw"} => Unwrapped(r.of)

Safe(r) == r \in Ref /\ Guarded(r) /\ Wrapped(r)

ProxyTypeOK ==
  /\ contents \in [Obj -> [Key -> Value]]
  /\ elements \in [Obj -> SUBSET Reference]
  /\ returned \in [Fun -> Value]
  /\ ignored \in SUBSET Key

ProxyInv == ProxyTypeOK /\ (\A r \in held : Safe(r)) /\ OnlyLeaksAreWritten

-----------------------------------------------------------------------------
\* The parts of a value that a script has.
LEMMA RefForms ==
  /\ \A o : Raw(o).as = "raw" /\ Raw(o).of = o
  /\ \A o : Proxy(o).as = "table" /\ Proxy(o).of = o
  /\ \A f : Loose(f).as = "function" /\ Loose(f).of = f
  /\ \A f : Bound(f).as = "bound" /\ Bound(f).of = f
  /\ \A f : BoundRaw(f).as = "bound raw" /\ BoundRaw(f).of = f
  /\ ExtProxy.as = "extension" /\ PubProxy.as = "public"
  /\ \A o : Tab(o).is = "table" /\ Tab(o).of = o
  /\ \A f : Fn(f).is = "function" /\ Fn(f).of = f
  /\ Plain.is = "plain"
BY DEF Raw, Proxy, Loose, Bound, BoundRaw, ExtProxy, PubProxy, Tab, Fn, Plain

\* A table is not something else.
LEMMA TableForm ==
  ASSUME NEW o, NEW v, v = Tab(o)
  PROVE  v.is = "table"
BY DEF Tab

\* What a script has is of a table or of a function.
LEMMA RefKinds ==
  ASSUME NEW r \in Ref
  PROVE  /\ r.as \in {"raw", "table", "extension", "public", "function", "bound", "bound raw"}
         /\ r.as \in {"raw", "table"} => r.of \in Obj
         /\ r.as \in {"function", "bound", "bound raw"} => r.of \in Fun
<1>1. ASSUME NEW o \in Obj, r = Raw(o) \/ r = Proxy(o)
      PROVE  r.of \in Obj /\ r.as \in {"raw", "table"}
  <2>1. CASE r = Raw(o)
    BY <2>1 DEF Raw
  <2>2. CASE r = Proxy(o)
    BY <2>2 DEF Proxy
  <2> QED
    BY <1>1, <2>1, <2>2
<1>2. ASSUME r = ExtProxy \/ r = PubProxy
      PROVE  r.as \in {"extension", "public"}
  BY <1>2, RefForms
<1>3. ASSUME NEW f \in Fun, r = Loose(f) \/ r = Bound(f) \/ r = BoundRaw(f)
      PROVE  r.of \in Fun /\ r.as \in {"function", "bound", "bound raw"}
  <2>1. CASE r = Loose(f)
    BY <2>1 DEF Loose
  <2>2. CASE r = Bound(f)
    BY <2>2 DEF Bound
  <2>3. CASE r = BoundRaw(f)
    BY <2>3 DEF BoundRaw
  <2> QED
    BY <1>3, <2>1, <2>2, <2>3
<1>4. \/ \E o \in Obj : r = Raw(o) \/ r = Proxy(o)
      \/ r = ExtProxy \/ r = PubProxy
      \/ \E f \in Fun : r = Loose(f) \/ r = Bound(f) \/ r = BoundRaw(f)
  BY DEF Ref
<1> QED
  BY <1>1, <1>2, <1>3, <1>4

\* A value is a table, a function or plain.
LEMMA ValueForms ==
  ASSUME NEW v \in Value
  PROVE  \/ \E o \in Obj : v = Tab(o)
         \/ \E f \in Fun : v = Fn(f)
         \/ v = Plain
BY DEF Value, Reference

\* A table that leaks, and what is inside one that does.
LEMMA LeaksAreLeaked ==
  ASSUME NEW o \in Leaks
  PROVE  Leaked(o)
BY DEF Leaked

LEMMA InsideIsLeaked ==
  ASSUME NEW p \in Obj, Leaked(p), NEW o \in Inside(p)
  PROVE  Leaked(o)
<1> SUFFICES ASSUME NEW C \in SUBSET Obj, Leaks \subseteq C, \A c \in C : Inside(c) \subseteq C
             PROVE  o \in C
  BY DEF Leaked
<1> QED
  BY DEF Leaked

\* What is read from a table that is not the handle is safe if it is wrapped.
LEMMA SafeProxied ==
  ASSUME NEW v \in Value,
         \A o \in Obj : v = Tab(o) => LeadsBack \/ o # Handle,
         \A f \in Fun : v = Fn(f) => LeadsBack \/ Elsewhere(f)
  PROVE  \A r \in TableProxy(v) : Safe(r)
<1> SUFFICES ASSUME NEW r \in TableProxy(v) PROVE Safe(r)
  OBVIOUS
<1>1. CASE \E o \in Obj : r = Proxy(o) /\ v = Tab(o)
  <2>1. PICK o \in Obj : r = Proxy(o) /\ v = Tab(o)
    BY <1>1
  <2>2. r \in Ref /\ r.as = "table" /\ r.of = o
    BY <2>1, RefForms DEF Ref
  <2>3. Guarded(r)
    BY <2>1, <2>2 DEF Guarded
  <2>4. Wrapped(r)
    BY <2>2 DEF Wrapped
  <2> QED
    BY <2>2, <2>3, <2>4 DEF Safe
<1>2. CASE \E f \in Fun : r = Loose(f) /\ v = Fn(f)
  <2>1. PICK f \in Fun : r = Loose(f) /\ v = Fn(f)
    BY <1>2
  <2>2. r \in Ref /\ r.as = "function" /\ r.of = f
    BY <2>1, RefForms DEF Ref
  <2>3. LeadsBack \/ Elsewhere(f)
    BY <2>1
  <2>4. Guarded(r)
    BY <2>2, <2>3 DEF Guarded
  <2>5. Wrapped(r)
    BY <2>2, <2>3 DEF Wrapped, Unwrapped
  <2> QED
    BY <2>2, <2>4, <2>5 DEF Safe
<1> QED
  BY <1>1, <1>2 DEF TableProxy

\* It is safe as it is, where it is a table that leaks.
LEMMA SafeBare ==
  ASSUME NEW v \in Value,
         \A o \in Obj : v = Tab(o) => (LeadsBack \/ o # Handle) /\ Leaked(o),
         \A f \in Fun : v = Fn(f) => LeadsBack \/ Elsewhere(f)
  PROVE  \A r \in Bare(v) : Safe(r)
<1> SUFFICES ASSUME NEW r \in Bare(v) PROVE Safe(r)
  OBVIOUS
<1>1. CASE \E o \in Obj : r = Raw(o) /\ v = Tab(o)
  <2>1. PICK o \in Obj : r = Raw(o) /\ v = Tab(o)
    BY <1>1
  <2>2. r \in Ref /\ r.as = "raw" /\ r.of = o
    BY <2>1, RefForms DEF Ref
  <2>3. (LeadsBack \/ o # Handle) /\ Leaked(o)
    BY <2>1
  <2>4. Guarded(r)
    BY <2>2, <2>3 DEF Guarded
  <2>5. Wrapped(r)
    BY <2>2, <2>3 DEF Wrapped
  <2> QED
    BY <2>2, <2>4, <2>5 DEF Safe
<1>2. CASE \E f \in Fun : r = Loose(f) /\ v = Fn(f)
  <2>1. PICK f \in Fun : r = Loose(f) /\ v = Fn(f)
    BY <1>2
  <2>2. r \in TableProxy(v)
    BY <2>1 DEF TableProxy
  <2>3. \A o \in Obj : v = Tab(o) => LeadsBack \/ o # Handle
    OBVIOUS
  <2> QED
    BY <2>2, <2>3, SafeProxied
<1> QED
  BY <1>1, <1>2 DEF Bare

\* Where a script has a table, what is in it is elsewhere than in the handle.
LEMMA InTable ==
  ASSUME NEW r \in Ref, Safe(r), r.as \in {"raw", "table"}
  PROVE  /\ r.of \in Obj
         /\ \A f \in Fun : Has(r.of, f) => LeadsBack \/ Elsewhere(f)
         /\ \A o \in Inside(r.of) : LeadsBack \/ o # Handle
         /\ r.as = "raw" => \A o \in Inside(r.of) : Leaked(o)
<1>1. r.of \in Obj
  BY RefKinds
<1>2. \A f \in Fun : Has(r.of, f) => LeadsBack \/ Elsewhere(f)
  BY <1>1 DEF Safe, Guarded, Elsewhere
<1>3. \A o \in Inside(r.of) : LeadsBack \/ o # Handle
  BY <1>1 DEF LeadsBack
<1>4. r.as = "raw" => \A o \in Inside(r.of) : Leaked(o)
  BY <1>1, InsideIsLeaked DEF Safe, Wrapped
<1> QED
  BY <1>1, <1>2, <1>3, <1>4

\* The fields of a table below the handle.
LEMMA SafeField ==
  ASSUME ProxyTypeOK, NEW r \in Ref, Safe(r), r.as \in {"raw", "table"}, NEW k \in Key
  PROVE  /\ contents[r.of][k] \in Value
         /\ r.as = "raw" => \A x \in Bare(contents[r.of][k]) : Safe(x)
         /\ \A x \in TableProxy(contents[r.of][k]) : Safe(x)
<1> DEFINE v == contents[r.of][k]
<1>1. r.of \in Obj
  BY RefKinds
<1>2. v \in Value
  BY <1>1 DEF ProxyTypeOK
<1>3. \A f \in Fun : v = Fn(f) => Has(r.of, f)
  BY DEF Has
<1>4. \A o \in Obj : v = Tab(o) => o \in Inside(r.of)
  BY DEF Inside
<1> HIDE DEF v
<1>5. \A x \in TableProxy(v) : Safe(x)
  BY <1>2, <1>3, <1>4, InTable, SafeProxied
<1>6. r.as = "raw" => \A x \in Bare(v) : Safe(x)
  BY <1>2, <1>3, <1>4, InTable, SafeBare
<1> QED
  BY <1>2, <1>5, <1>6 DEF v

\* The keys of a table leak.
LEMMA SafeElements ==
  ASSUME ProxyTypeOK, NEW r \in Ref, Safe(r), r.as \in {"raw", "table"}
  PROVE  \A x \in Elements(r.of) : Safe(x)
<1> SUFFICES ASSUME NEW v \in elements[r.of] PROVE \A x \in Bare(v) : Safe(x)
  BY DEF Elements
<1>1. r.of \in Obj
  BY RefKinds
<1>2. v \in Value
  BY <1>1 DEF ProxyTypeOK, Value
<1>3. \A f \in Fun : v = Fn(f) => Has(r.of, f)
  BY DEF Has
<1>4. \A o \in Obj : v = Tab(o) => o \in Inside(r.of) /\ Leaked(o)
  <2> SUFFICES ASSUME NEW o \in Obj, v = Tab(o) PROVE o \in Inside(r.of) /\ Leaked(o)
    OBVIOUS
  <2>1. o \in Leaks
    BY <1>1 DEF Leaks
  <2> QED
    BY <2>1, LeaksAreLeaked DEF Inside
<1> QED
  BY <1>2, <1>3, <1>4, InTable, SafeBare

\* The fields of the handle.
LEMMA SafeHandleField ==
  ASSUME ProxyTypeOK, NEW k \in Key, NEW raw \in BOOLEAN, raw => k \in ignored
  PROVE  \A x \in HandleField(k, raw) : Safe(x)
<1> SUFFICES ASSUME k \notin Filtered PROVE \A x \in HandleField(k, raw) : Safe(x)
  BY DEF HandleField
<1> DEFINE v == contents[Handle][k]
<1>1. v \in Value
  BY ProxiesAssumption DEF ProxyTypeOK
<1>2. CASE \E f \in Fun : v = Fn(f)
  <2>1. PICK f \in Fun : v = Fn(f)
    BY <1>2
  <2>f. v.is = "function" /\ v.of = f
    BY <2>1 DEF Fn
  <2>2. HandleField(k, raw) = IF raw THEN {BoundRaw(f)} ELSE {Bound(f)}
    BY <2>f DEF HandleField
  <2>3. Bound(f) \in Ref /\ BoundRaw(f) \in Ref
    BY DEF Ref
  <2>4. Guarded(Bound(f)) /\ Guarded(BoundRaw(f))
    <3>1. \E n \in Key \ Filtered : contents[Handle][n] = Fn(f)
      BY <2>1
    <3>2. Guarded(Bound(f))
      BY <3>1, RefForms DEF Guarded
    <3>3. Guarded(BoundRaw(f))
      BY <3>1, RefForms DEF Guarded
    <3> QED
      BY <3>2, <3>3
  <2>5. Wrapped(Bound(f))
    BY RefForms DEF Wrapped
  <2>6. ASSUME raw PROVE Wrapped(BoundRaw(f))
    <3>1. BoundRaw(f).as = "bound raw" /\ BoundRaw(f).of = f
      BY RefForms
    <3>2. contents[Handle][k] = Fn(f) /\ k \in ignored
      BY <2>1, <2>6
    <3>3. Unwrapped(f)
      BY <3>2 DEF Unwrapped
    <3> QED
      BY <3>1, <3>3 DEF Wrapped
  <2> QED
    BY <2>2, <2>3, <2>4, <2>5, <2>6 DEF Safe
<1>3. CASE ~ \E f \in Fun : v = Fn(f)
  <2>0. \A o \in Obj : Tab(o).is # "function"
    BY RefForms
  <2>1. v.is # "function"
    BY <1>1, <1>3, <2>0, ValueForms, RefForms
  <2>2. HandleField(k, raw) = TableProxy(v)
    BY <2>1 DEF HandleField
  <2>3. \A o \in Obj : v = Tab(o) => LeadsBack \/ o # Handle
    BY ProxiesAssumption DEF LeadsBack, Inside
  <2> HIDE DEF v
  <2> QED
    BY <1>1, <1>3, <2>2, <2>3, SafeProxied
<1> QED
  BY <1>2, <1>3

\* What a function returns.
LEMMA SafeResult ==
  ASSUME ProxyTypeOK, NEW r \in Ref, Safe(r), r.as \in {"function", "bound", "bound raw"}
  PROVE  /\ \A x \in TableProxy(returned[r.of]) : Safe(x)
         /\ r.as # "bound" => \A x \in Bare(returned[r.of]) : Safe(x)
<1>1. r.of \in Fun
  BY RefKinds
<1>2. returned[r.of] \in Value
  BY <1>1 DEF ProxyTypeOK
<1>3. \A f \in Fun : returned[r.of] = Fn(f) => Elsewhere(f)
  BY <1>1 DEF Elsewhere
<1>4. \A o \in Obj : returned[r.of] = Tab(o) => LeadsBack \/ o # Handle
  BY <1>1 DEF LeadsBack
<1>5. \A x \in TableProxy(returned[r.of]) : Safe(x)
  BY <1>2, <1>3, <1>4, SafeProxied
<1>6. ASSUME r.as # "bound"
      PROVE  \A x \in Bare(returned[r.of]) : Safe(x)
  <2>1. Unwrapped(r.of)
    BY <1>6 DEF Safe, Wrapped
  <2>2. \A o \in Obj : returned[r.of] = Tab(o) => o \in Leaks
    BY <1>1, <2>1 DEF Leaks
  <2>3. \A o \in Obj : returned[r.of] = Tab(o) => Leaked(o)
    BY <2>2, LeaksAreLeaked
  <2> QED
    BY <1>2, <1>3, <1>4, <2>3, SafeBare
<1> QED
  BY <1>5, <1>6

-----------------------------------------------------------------------------
\* As an extension does not change, what leaks and what was safe to have stays so.
LEMMA LeaksStay ==
  ASSUME UNCHANGED extension
  PROVE  /\ LeadsBack' = LeadsBack
         /\ \A f : Elsewhere(f)' = Elsewhere(f) /\ Unwrapped(f)' = Unwrapped(f)
         /\ \A o : Leaked(o)' = Leaked(o)
<1>1. /\ contents' = contents /\ elements' = elements /\ returned' = returned /\ ignored' = ignored
  BY DEF extension
<1>2. \A o : Inside(o)' = Inside(o)
  BY <1>1 DEF Inside, Tab
<1>3. LeadsBack' = LeadsBack
  BY <1>1, <1>2 DEF LeadsBack, Tab
<1>4. \A f : Elsewhere(f)' = Elsewhere(f)
  BY <1>1 DEF Elsewhere, Has, Fn
<1>5. \A f : Unwrapped(f)' = Unwrapped(f)
  BY <1>1, <1>3, <1>4 DEF Unwrapped, Fn
<1>6. Leaks' = Leaks
  BY <1>1, <1>5 DEF Leaks, Tab
<1>7. \A o : Leaked(o)' = Leaked(o)
  BY <1>2, <1>6 DEF Leaked
<1> QED
  BY <1>3, <1>4, <1>5, <1>7

LEMMA SafeStays ==
  ASSUME UNCHANGED extension, NEW r, Safe(r)
  PROVE  Safe(r)'
<1>1. \A o : Leaked(o)' = Leaked(o)
  BY LeaksStay
<1> QED
  BY <1>1, LeaksStay DEF Safe, Guarded, Wrapped, Elsewhere, Has, extension, Fn

\* A script that gets only safe values has only safe values.
LEMMA Gaining ==
  ASSUME \A r \in held : Safe(r), NEW refs, \A x \in refs : Safe(x), Gains(refs)
  PROVE  \A r \in held' : Safe(r)'
<1> SUFFICES ASSUME NEW r \in held' PROVE Safe(r)'
  OBVIOUS
<1>1. Safe(r)
  BY DEF Gains
<1> QED
  BY <1>1, SafeStays DEF Gains

\* What is read from a proxy.
LEMMA SafeRead ==
  ASSUME ProxyInv, NEW r \in held, NEW k \in Key
  PROVE  \A x \in Field(r, k) : Safe(x)
<1>1. r \in Ref /\ Safe(r)
  BY DEF ProxyInv, Safe
<1>2. ProxyTypeOK
  BY DEF ProxyInv
<1>3. CASE r.as = "raw"
  <2>1. Field(r, k) = Bare(contents[r.of][k])
    BY <1>3 DEF Field
  <2> QED
    BY <1>1, <1>2, <1>3, <2>1, SafeField
<1>4. CASE r.as = "table"
  <2>1. Field(r, k) = TableProxy(contents[r.of][k])
    BY <1>4 DEF Field
  <2> QED
    BY <1>1, <1>2, <1>4, <2>1, SafeField
<1>5. CASE r.as = "extension"
  <2>1. CASE k \in ignored
    <3>1. Field(r, k) = HandleField(k, TRUE)
      BY <1>5, <2>1 DEF Field
    <3> QED
      BY <1>2, <2>1, <3>1, SafeHandleField
  <2>2. CASE k \notin ignored
    <3>1. Field(r, k) = HandleField(k, k \in ignored)
      BY <1>5 DEF Field
    <3>2. HandleField(k, k \in ignored) = HandleField(k, FALSE)
      BY <2>2 DEF HandleField
    <3> QED
      BY <1>2, <3>1, <3>2, SafeHandleField
  <2> QED
    BY <2>1, <2>2
<1>6. CASE r.as = "public"
  <2>1. Field(r, k) = HandleField(k, FALSE) \/ Field(r, k) = {}
    BY <1>6 DEF Field
  <2> QED
    BY <1>2, <2>1, SafeHandleField
<1>7. CASE r.as \notin {"raw", "table", "extension", "public"}
  BY <1>7 DEF Field
<1> QED
  BY <1>3, <1>4, <1>5, <1>6, <1>7

\* What pairs() gives.
LEMMA SafeIterate ==
  ASSUME ProxyInv, NEW r \in held, r.as \in {"raw", "table"}
  PROVE  \A x \in Elements(r.of) \cup
                    UNION {IF r.as = "raw" THEN Bare(contents[r.of][k]) ELSE TableProxy(contents[r.of][k]) : k \in Key} : Safe(x)
<1>1. r \in Ref /\ Safe(r) /\ ProxyTypeOK
  BY DEF ProxyInv, Safe
<1>2. \A x \in Elements(r.of) : Safe(x)
  BY <1>1, SafeElements
<1>3. ASSUME NEW k \in Key,
             NEW x \in IF r.as = "raw" THEN Bare(contents[r.of][k]) ELSE TableProxy(contents[r.of][k])
      PROVE  Safe(x)
  <2>1. CASE r.as = "raw"
    BY <1>1, <1>3, <2>1, SafeField
  <2>2. CASE r.as # "raw"
    BY <1>1, <1>3, <2>2, SafeField
  <2> QED
    BY <2>1, <2>2
<1> QED
  BY <1>2, <1>3

\* If nothing leads back to the handle, it is below no table.
LEMMA BelowIsElsewhere ==
  ASSUME ~LeadsBack, NEW o \in Obj
  PROVE  Below(o) \subseteq Obj \ {Handle}
<1>1. Obj \ {Handle} \in SUBSET Obj
  OBVIOUS
<1>2. \A c \in Obj : Inside(c) \subseteq Obj \ {Handle}
  BY DEF Inside, LeadsBack
<1> QED
  BY <1>1, <1>2 DEF Below

\* The functions in a copy are safe.
LEMMA SafeCopy ==
  ASSUME ProxyInv, NEW r \in held, r.as \in {"raw", "table"},
         NEW f \in Fun, NEW o \in Below(r.of) \cup {r.of}, Has(o, f)
  PROVE  Safe(Loose(f))
<1>1. r \in Ref /\ Safe(r)
  BY DEF ProxyInv, Safe
<1>2. Loose(f) \in Ref /\ Loose(f).as = "function" /\ Loose(f).of = f
  BY RefForms DEF Ref
<1>3. CASE LeadsBack
  BY <1>2, <1>3 DEF Safe, Guarded, Wrapped, Unwrapped
<1>4. CASE ~LeadsBack
  <2>1. r.of \in Obj \ {Handle}
    BY <1>1, <1>4, RefKinds DEF Safe, Guarded
  <2>2. o \in Obj \ {Handle}
    BY <1>4, <2>1, BelowIsElsewhere
  <2>3. Elsewhere(f)
    BY <2>2 DEF Elsewhere
  <2>4. Guarded(Loose(f))
    BY <1>2, <2>3 DEF Guarded
  <2>5. Wrapped(Loose(f))
    BY <1>2, <2>3 DEF Wrapped, Unwrapped
  <2> QED
    BY <1>2, <2>4, <2>5 DEF Safe
<1> QED
  BY <1>3, <1>4

-----------------------------------------------------------------------------
\* Every step of a script keeps the invariant.
LEMMA ProxyInvStep ==
  ASSUME ProxyInv, [ProxyNext]_proxyVars
  PROVE  ProxyInv'
<1>t. ProxyTypeOK /\ (\A x \in held : Safe(x)) /\ OnlyLeaksAreWritten
  BY DEF ProxyInv
<1>v. ASSUME UNCHANGED extension PROVE ProxyTypeOK'
  BY <1>t, <1>v DEF ProxyTypeOK, extension
<1>w. ASSUME UNCHANGED extension, NEW w,
             written' = written \/ (written' = written \cup {w} /\ (w.by = "itself" \/ Leaked(w.table)))
      PROVE  OnlyLeaksAreWritten'
  BY <1>t, <1>w, LeaksStay DEF OnlyLeaksAreWritten
<1>u. ASSUME UNCHANGED extension, written' = written PROVE ProxyTypeOK' /\ OnlyLeaksAreWritten'
  BY <1>u, <1>v, <1>w
<1>1. ASSUME NEW r \in held, NEW k \in Key, GetField(r, k)
      PROVE  ProxyInv'
  <2>1. Gains(Field(r, k)) /\ written' = written
    BY <1>1 DEF GetField
  <2>2. \A x \in held' : Safe(x)'
    BY <1>t, <2>1, SafeRead, Gaining
  <2> QED
    BY <1>u, <2>1, <2>2 DEF ProxyInv, Gains
<1>2. ASSUME NEW r \in held, Iterate(r)
      PROVE  ProxyInv'
  <2> DEFINE refs == Elements(r.of) \cup
                       UNION {IF r.as = "raw" THEN Bare(contents[r.of][k]) ELSE TableProxy(contents[r.of][k]) : k \in Key}
  <2>1. Gains(refs) /\ written' = written /\ r.as \in {"raw", "table"}
    BY <1>2 DEF Iterate
  <2>2. \A x \in refs : Safe(x)
    BY <2>1, SafeIterate
  <2> HIDE DEF refs
  <2>3. \A x \in held' : Safe(x)'
    BY <1>t, <2>1, <2>2, Gaining
  <2> QED
    BY <1>u, <2>1, <2>3 DEF ProxyInv, Gains
<1>3. ASSUME NEW r \in held, CallBound(r)
      PROVE  ProxyInv'
  <2> DEFINE refs == IF r.as = "bound" THEN TableProxy(returned[r.of]) ELSE Bare(returned[r.of])
  <2>1. Gains(refs) /\ r.as \in {"bound", "bound raw"}
    BY <1>3 DEF CallBound
  <2>2. r \in Ref /\ Safe(r)
    BY <1>t DEF Safe
  <2>3. \A x \in refs : Safe(x)
    BY <1>t, <2>1, <2>2, SafeResult
  <2> HIDE DEF refs
  <2>4. \A x \in held' : Safe(x)'
    BY <1>t, <2>1, <2>3, Gaining
  <2> DEFINE w == [table |-> Handle, by |-> "itself"]
  <2>5. (written' = written \/ written' = written \cup {w}) /\ w.by = "itself"
    BY <1>3 DEF CallBound
  <2> HIDE DEF w
  <2>6. UNCHANGED extension
    BY <2>1 DEF Gains
  <2>7. OnlyLeaksAreWritten'
    BY <1>w, <2>5, <2>6
  <2> QED
    BY <1>v, <2>4, <2>6, <2>7 DEF ProxyInv
<1>4. ASSUME NEW r \in held, NEW self \in held, CallLoose(r, self)
      PROVE  ProxyInv'
  <2>1. Gains(Bare(returned[r.of])) /\ r.as = "function"
    BY <1>4 DEF CallLoose
  <2>2. r \in Ref /\ Safe(r)
    BY <1>t DEF Safe
  <2>3. \A x \in Bare(returned[r.of]) : Safe(x)
    BY <1>t, <2>1, <2>2, SafeResult
  <2>4. \A x \in held' : Safe(x)'
    BY <1>t, <2>1, <2>3, Gaining
  <2> DEFINE w == [table |-> self.of, by |-> "others"]
  <2>5. /\ written' = written \/ (written' = written \cup {w} /\ self.as = "raw")
        /\ w.table = self.of
    BY <1>4 DEF CallLoose
  <2> HIDE DEF w
  <2>6. self.as = "raw" => Leaked(self.of)
    BY <1>t DEF Safe, Wrapped
  <2>7. UNCHANGED extension
    BY <2>1 DEF Gains
  <2>8. OnlyLeaksAreWritten'
    BY <1>w, <2>5, <2>6, <2>7
  <2> QED
    BY <1>v, <2>4, <2>7, <2>8 DEF ProxyInv
<1>5. ASSUME NEW r \in held, SetField(r)
      PROVE  ProxyInv'
  <2>1. UNCHANGED extension /\ held' = held /\ r.as = "raw"
    BY <1>5 DEF SetField
  <2>2. \A x \in held' : Safe(x)'
    BY <1>t, <2>1, SafeStays
  <2> DEFINE w == [table |-> r.of, by |-> "others"]
  <2>3. written' = written \cup {w} /\ w.table = r.of
    BY <1>5 DEF SetField
  <2> HIDE DEF w
  <2>4. Leaked(r.of)
    BY <1>t, <2>1 DEF Safe, Wrapped
  <2>5. OnlyLeaksAreWritten'
    BY <1>w, <2>1, <2>3, <2>4
  <2> QED
    BY <1>v, <2>1, <2>2, <2>5 DEF ProxyInv
<1>6. ASSUME NEW r \in held, Deproxy(r)
      PROVE  ProxyInv'
  <2> DEFINE refs == {Loose(f) : f \in {f \in Fun : \E o \in Below(r.of) \cup {r.of} : Has(o, f)}}
  <2>1. Gains(refs) /\ written' = written /\ r.as \in {"raw", "table"}
    BY <1>6 DEF Deproxy
  <2>2. \A x \in refs : Safe(x)
    BY <2>1, SafeCopy
  <2> HIDE DEF refs
  <2>3. \A x \in held' : Safe(x)'
    BY <1>t, <2>1, <2>2, Gaining
  <2> QED
    BY <1>u, <2>1, <2>3 DEF ProxyInv, Gains
<1>7. CASE UNCHANGED proxyVars
  <2>1. UNCHANGED extension /\ held' = held /\ written' = written
    BY <1>7 DEF proxyVars
  <2>2. \A x \in held' : Safe(x)'
    BY <1>t, <2>1, SafeStays
  <2> QED
    BY <1>u, <2>1, <2>2 DEF ProxyInv
<1> QED
  BY <1>1, <1>2, <1>3, <1>4, <1>5, <1>6, <1>7 DEF ProxyNext

\* The proxy that a script begins with is safe.
LEMMA ProxyInvInit == ProxyInit => ProxyInv
<1> SUFFICES ASSUME ProxyInit PROVE ProxyInv
  OBVIOUS
<1>1. ProxyTypeOK /\ OnlyLeaksAreWritten
  BY DEF ProxyInit, ProxyTypeOK, OnlyLeaksAreWritten
<1>2. ASSUME NEW r \in held PROVE Safe(r)
  <2>1. r = ExtProxy \/ r = PubProxy
    BY DEF ProxyInit
  <2>2. r \in Ref
    BY <2>1 DEF Ref
  <2>3. r.as \in {"extension", "public"}
    BY <2>1, RefForms
  <2> QED
    BY <2>2, <2>3 DEF Safe, Guarded, Wrapped
<1> QED
  BY <1>1, <1>2 DEF ProxyInv

\* The inductive invariant.
THEOREM ProxyInductive == ProxySpec => []ProxyInv
BY ProxyInvInit, ProxyInvStep, PTL DEF ProxySpec

\* No script changes a table of another extension but by the methods of its handle, the
\* tables that the proxies hand out as they are, and what is inside these (TableProxy,
\* ExtensionProxy).
THEOREM LeaksBoundWrites == ProxySpec => []OnlyLeaksAreWritten
<1>1. ProxyInv => OnlyLeaksAreWritten
  BY DEF ProxyInv
<1> QED
  BY ProxyInductive, <1>1, PTL

\* No script gets at the functions that enable and disable an extension.
THEOREM LifecycleIsHidden == ProxySpec => []LifecycleHidden
<1>1. ProxyInv => LifecycleHidden
  BY DEF ProxyInv, Safe, Guarded, LifecycleHidden
<1> QED
  BY ProxyInductive, <1>1, PTL
-----------------------------------------------------------------------------
(* Console.                                                                  *)

Lines == Seq(LuaValue)

\* What lies on the stack when no snippet is at work.
AtRest == IF inHook THEN Append(Resting, "hook") ELSE Resting

\* The snippet at work found the stack of main.lua, and no hook is in its way.
AtWork ==
  /\ ~inHook /\ before = Len(Resting) /\ snippet \in Snippet
  /\ console # "load" => snippet.loads # "neither"

\* What lies on the stack, by the place the console is at.
StackByPlace ==
  ~met =>
    /\ console \in {"prompt", "ended"} => lua = AtRest /\ shown = Answer(snippet)
    /\ console = "load" => AtWork /\ lua = Resting
    /\ console = "run" => AtWork /\ lua = Append(Resting, "chunk")
    /\ console = "print" =>
         AtWork /\ snippet.raises = "nothing" /\ lua = Resting \o snippet.results

ConsoleInv ==
  /\ inHook \in BOOLEAN /\ met \in BOOLEAN
  /\ console \in {"prompt", "load", "run", "print", "ended", "crashed"}
  /\ StackByPlace

\* What was pushed last is popped again.
LEMMA PopPushed ==
  ASSUME NEW s \in Lines, NEW x \in LuaValue
  PROVE  /\ Append(s, x) # <<>> /\ Len(Append(s, x)) = Len(s) + 1
         /\ SubSeq(Append(s, x), 1, Len(Append(s, x)) - 1) = s
<1>1. s \in Seq(LuaValue)
  BY DEF Lines
<1>2. /\ Append(s, x) # <<>> /\ Len(Append(s, x)) = Len(s) + 1 /\ Len(s) \in Nat
      /\ \A i \in 1..Len(s) : Append(s, x)[i] = s[i] /\ s[i] \in LuaValue
  <2>1. Append(s, x) # <<>> /\ Len(Append(s, x)) = Len(s) + 1
    BY <1>1, AppendProperties
  <2>2. \A i \in 1..Len(s) : Append(s, x)[i] = s[i]
    BY <1>1, AppendProperties
  <2>3. Len(s) \in Nat /\ \A i \in 1..Len(s) : s[i] \in LuaValue
    BY <1>1, LenProperties, ElementOfSeq
  <2> QED
    BY <2>1, <2>2, <2>3
<1>3. /\ SubSeq(Append(s, x), 1, Len(s)) \in Seq(LuaValue)
      /\ Len(SubSeq(Append(s, x), 1, Len(s))) = Len(s)
      /\ \A i \in 1..Len(s) : SubSeq(Append(s, x), 1, Len(s))[i] = s[i]
  <2>1. \A i \in 1..Len(s) : Append(s, x)[i] \in LuaValue
    BY <1>2
  <2> QED
    BY <1>2, <2>1, SubSeqProperties
<1>4. SubSeq(Append(s, x), 1, Len(s)) = s
  BY <1>1, <1>3, SeqEqual
<1>5. Len(Append(s, x)) - 1 = Len(s)
  BY <1>2
<1> QED
  BY <1>2, <1>4, <1>5

\* lua_settop takes off what is above, and nothing else.
LEMMA SetTopCuts ==
  ASSUME NEW s \in Lines, NEW t \in Lines
  PROVE  SetTop(s \o t, Len(s)) = s
<1>1. \A i \in 1..Len(s) : i <= Len(s \o t) /\ (s \o t)[i] = s[i]
  BY DEF Lines
<1>2. s = [i \in 1..Len(s) |-> s[i]]
  BY DEF Lines
<1> QED
  BY <1>1, <1>2 DEF SetTop

\* What is above is what was put there.
LEMMA AboveIsPushed ==
  ASSUME NEW s \in Lines, NEW t \in Lines
  PROVE  SubSeq(s \o t, Len(s) + 1, Len(s \o t)) = t
BY DEF Lines

LEMMA ConsoleInvInit == ConsoleInit => ConsoleInv
<1> SUFFICES ASSUME ConsoleInit PROVE ConsoleInv
  OBVIOUS
<1>1. Answer(NoSnippet) = <<>>
  BY DEF Answer, NoSnippet
<1> QED
  BY <1>1 DEF ConsoleInit, ConsoleInv, StackByPlace, AtRest

LEMMA SnippetShape ==
  ASSUME NEW s \in Snippet
  PROVE  s.results \in Lines /\ s.raises \in {"nothing", "text", "other"}
BY ConsoleAssumption DEF Lines

LEMMA RestingShape ==
  /\ Resting \in Lines /\ SetTop(Resting, Len(Resting)) = Resting
  /\ Append(Resting, "chunk") = Resting \o <<"chunk">> /\ <<"chunk">> \in Lines
<1>1. Resting \in Lines /\ <<>> \in Lines /\ <<"chunk">> \in Lines
  BY ConsoleAssumption DEF Lines
<1>2. Resting \o <<>> = Resting
  BY <1>1, ConcatEmptySeq DEF Lines
<1>3. Append(Resting, "chunk") = Resting \o <<"chunk">>
  BY <1>1, AppendIsConcat DEF Lines
<1> QED
  BY <1>1, <1>2, <1>3, SetTopCuts

LEMMA ConsoleInvStep == ConsoleInv /\ [ConsoleNext]_consoleVars => ConsoleInv'
<1> SUFFICES ASSUME ConsoleInv, [ConsoleNext]_consoleVars PROVE ConsoleInv'
  OBVIOUS
<1> USE DEF ConsoleInv
<1>1. ASSUME NEW s \in Snippet, TypeSnippet(s) PROVE ConsoleInv'
  BY <1>1 DEF TypeSnippet, StackByPlace, AtRest, AtWork
<1>2. ASSUME TypeExit PROVE ConsoleInv'
  BY <1>2 DEF TypeExit, StackByPlace, AtRest
<1>3. ASSUME Load PROVE ConsoleInv'
  <2>1. CASE snippet.loads = "neither"
    BY <1>3, <2>1, RestingShape DEF Load, Answers, StackByPlace, AtRest, AtWork, Answer
  <2>2. CASE snippet.loads # "neither"
    BY <1>3, <2>2 DEF Load, StackByPlace, AtWork
  <2> QED
    BY <2>1, <2>2
<1>4. ASSUME Run PROVE ConsoleInv'
  <2> DEFINE below == SubSeq(lua, 1, Len(lua) - 1)
  <2>1. ~met => /\ AtWork /\ snippet.loads # "neither" /\ snippet \in Snippet
                /\ lua = Append(Resting, "chunk")
    BY <1>4 DEF Run, StackByPlace, AtWork
  <2>2. ~met => below = Resting
    BY <2>1, RestingShape, PopPushed, ConsoleAssumption
  <2>3. CASE snippet.raises = "nothing"
    BY <1>4, <2>1, <2>2, <2>3 DEF Run, StackByPlace, AtWork
  <2>4. CASE snippet.raises = "text"
    <3>1. /\ shown' = <<"message">> /\ lua' = SetTop(lua, before) /\ console' = "prompt"
          /\ UNCHANGED <<snippet, before, inHook, met>>
      BY <1>4, <2>4 DEF Run, Answers
    <3>2. ~met => lua' = Resting
      BY <2>1, <3>1, RestingShape, SetTopCuts DEF AtWork
    <3> QED
      BY <2>1, <2>4, <3>1, <3>2 DEF StackByPlace, AtRest, AtWork, Answer
  <2>5. CASE snippet.raises \notin {"nothing", "text"}
    BY <1>4, <2>5 DEF Run, StackByPlace
  <2> QED
    BY <2>3, <2>4, <2>5
<1>5. ASSUME PrintResults PROVE ConsoleInv'
  <2> DEFINE values == SubSeq(lua, before + 1, Len(lua))
  <2>1. CASE \E i \in DOMAIN values : values[i] = "unprintable"
    BY <1>5, <2>1 DEF PrintResults, StackByPlace
  <2>2. CASE ~\E i \in DOMAIN values : values[i] = "unprintable"
    <3>1. /\ shown' = values /\ lua' = SetTop(lua, before) /\ console' = "prompt"
          /\ UNCHANGED <<snippet, before, inHook, met>>
      BY <1>5, <2>2 DEF PrintResults, Answers
    <3>2. ~met => /\ ~inHook /\ before = Len(Resting) /\ snippet \in Snippet
                  /\ snippet.loads # "neither" /\ snippet.raises = "nothing"
                  /\ lua = Resting \o snippet.results
      BY <1>5 DEF PrintResults, StackByPlace, AtWork
    <3>3. ASSUME ~met PROVE lua' = Resting /\ shown' = snippet.results
      <4>1. /\ before = Len(Resting) /\ lua = Resting \o snippet.results
            /\ Resting \in Lines /\ snippet.results \in Lines
        BY <3>2, <3>3, SnippetShape, RestingShape
      <4>2. lua' = SetTop(Resting \o snippet.results, Len(Resting))
        BY <3>1, <4>1
      <4>3. shown' = SubSeq(Resting \o snippet.results, Len(Resting) + 1,
                            Len(Resting \o snippet.results))
        BY <3>1, <4>1
      <4> QED
        BY <4>1, <4>2, <4>3, SetTopCuts, AboveIsPushed
    <3> QED
      BY <3>1, <3>2, <3>3 DEF StackByPlace, AtRest, Answer
  <2> QED
    BY <2>1, <2>2
<1>6. ASSUME HookEnters PROVE ConsoleInv'
  BY <1>6 DEF HookEnters, StackByPlace, AtRest
<1>7. ASSUME HookLeaves PROVE ConsoleInv'
  <2>1. /\ inHook /\ inHook' = FALSE /\ console # "crashed"
        /\ lua' = SubSeq(lua, 1, Len(lua) - 1)
        /\ UNCHANGED <<console, snippet, before, shown, met>>
    BY <1>7 DEF HookLeaves
  <2>2. ~met => lua = Append(Resting, "hook") /\ shown = Answer(snippet)
    BY <2>1 DEF StackByPlace, AtRest, AtWork
  <2>3. ~met => lua' = Resting
    BY <2>1, <2>2, RestingShape, PopPushed, ConsoleAssumption
  <2>4. ~met => console \in {"prompt", "ended"}
    BY <2>1 DEF StackByPlace, AtWork
  <2> QED
    BY <2>1, <2>2, <2>3, <2>4 DEF StackByPlace, AtRest
<1>8. CASE UNCHANGED consoleVars
  BY <1>8 DEF consoleVars, StackByPlace, AtRest, AtWork
<1> QED
  BY <1>1, <1>2, <1>3, <1>4, <1>5, <1>6, <1>7, <1>8 DEF ConsoleNext

\* A snippet is answered by all that it returns, in order, or by its error, and
\* leaves the stack of the one Lua state as it was (console.cpp), however many
\* snippets and hooks there were, as long as none of them was there at one time.
THEOREM SnippetsAreAnswered == ConsoleSpec => []SnippetsAnswer
<1>1. ConsoleInv => SnippetsAnswer
  BY DEF ConsoleInv, StackByPlace, AtRest, SnippetsAnswer
<1> QED
  BY ConsoleInvInit, ConsoleInvStep, <1>1, PTL DEF ConsoleSpec
-----------------------------------------------------------------------------
(* Require.                                                                  *)

Frame == [as : Spelling, next : Nat \ {0}, run : Nat]

RequireTypeOK ==
  /\ script \in [File -> [needs : Seq(Spelling), returns : {"object", "false", "nil"}]]
  /\ stack \in Seq(Frame)
  /\ LOADED \in [Spelling -> [is : {"nil", "false", "object"}, run : Nat]]
  /\ runs \in Nat

\* A script runs because the one below it required it.
StackIsRequired ==
  /\ \A i \in 1..Len(stack) : FileOf[stack[i].as] \in File
  /\ \A i \in 1..Len(stack) : \A j \in 1..(i - 1) : Reaches(stack[j].as, stack[i].as)

\* While a script runs nobody else can have finished it, but a script inside it.
NotKeptYet == \A i \in 1..Len(stack) : InCycle(stack[i].as) \/ ~Kept(stack[i].as)

\* What is kept and what was got is what the file returns.
OfItsKind(s, value) ==
  /\ value.is \in {"false", "object"} => FileOf[s] \in File /\ value.is = script[FileOf[s]].returns
  /\ value.is = "library" => FileOf[s] = None /\ value = Library
  /\ value.is = "nil" => value = Nil
  /\ value.is = "false" => value = False
  /\ value.is = "object" => value.run \in done

KindsKept ==
  /\ \A s \in Spelling : OfItsKind(s, LOADED[s])
  /\ \A x \in got : /\ x[1] \in Spelling /\ OfItsKind(x[1], x[2])
                    /\ x[2].is \in {"nil", "false", "object", "library"}
                    /\ x[2].is = "nil" =>
                         FileOf[x[1]] \in File /\ script[FileOf[x[1]]].returns = "nil"

\* An object that was got is still the one that is kept.
StillKept ==
  \A x \in got : x[2].is = "object" => InCycle(x[1]) \/ LOADED[x[1]] = x[2]

RequireInv ==
  RequireTypeOK /\ StackIsRequired /\ NotKeptYet /\ KindsKept /\ StillKept

-----------------------------------------------------------------------------
\* What the last of a row requires, the first reaches.
LEMMA ReachesOn ==
  ASSUME NEW s \in Spelling, NEW t \in Spelling, NEW u \in Spelling,
         s = t \/ Reaches(s, t), Needs(t, u)
  PROVE  Reaches(s, u)
BY DEF Reaches

\* Whether a script is in a cycle, and what it returns, is fixed.
LEMMA CyclesStay ==
  ASSUME script' = script
  PROVE  \A s, t : Reaches(s, t)' = Reaches(s, t)
BY DEF Reaches, Needs

\* The scripts that go on are the ones that ran below.
LEMMA GoneOnShape ==
  ASSUME NEW frames \in Seq(Frame)
  PROVE  /\ GoneOn(frames) \in Seq(Frame)
         /\ Len(GoneOn(frames)) = Len(frames)
         /\ \A i \in 1..Len(frames) : GoneOn(frames)[i].as = frames[i].as
<1>1. CASE frames = <<>>
  BY <1>1 DEF GoneOn
<1>2. CASE frames # <<>>
  <2> DEFINE n == Len(frames)
             top == frames[n]
             moved == [top EXCEPT !.next = @ + 1]
  <2>1. n \in 1..Len(frames)
    BY <1>2, EmptySeq
  <2>2. top \in Frame
    BY <2>1, ElementOfSeq
  <2>3. moved \in Frame /\ moved.as = top.as
    BY <2>2 DEF Frame
  <2>4. GoneOn(frames) = [frames EXCEPT ![n] = moved]
    BY <1>2, <2>1 DEF GoneOn
  <2> HIDE DEF moved
  <2> QED
    BY <2>1, <2>3, <2>4, ExceptSeq
<1> QED
  BY <1>1, <1>2

LEMMA PrefixShape ==
  ASSUME NEW frames \in Seq(Frame), NEW n \in 0..Len(frames)
  PROVE  /\ GoneOn(SubSeq(frames, 1, n)) \in Seq(Frame)
         /\ Len(GoneOn(SubSeq(frames, 1, n))) = n
         /\ \A i \in 1..n : GoneOn(SubSeq(frames, 1, n))[i].as = frames[i].as
<1>1. \A i \in 1..n : frames[i] \in Frame
  BY ElementOfSeq, LenProperties
<1>2. n \in Int /\ Len(frames) \in Nat
  BY LenProperties
<1>3. /\ SubSeq(frames, 1, n) \in Seq(Frame) /\ Len(SubSeq(frames, 1, n)) = n
      /\ \A i \in 1..n : SubSeq(frames, 1, n)[i] = frames[i]
  BY <1>1, <1>2, SubSeqProperties
<1> DEFINE rest == SubSeq(frames, 1, n)
<1> HIDE DEF rest
<1>4. rest \in Seq(Frame) /\ Len(rest) = n /\ \A i \in 1..n : rest[i] = frames[i]
  BY <1>3 DEF rest
<1>5. /\ GoneOn(rest) \in Seq(Frame) /\ Len(GoneOn(rest)) = n
      /\ \A i \in 1..n : GoneOn(rest)[i].as = rest[i].as
  BY <1>4, GoneOnShape
<1> QED
  BY <1>4, <1>5 DEF rest

\* The stack without its n last scripts.
Shorter(n) ==
  /\ stack' \in Seq(Frame) /\ Len(stack') = Len(stack) - n
  /\ \A i \in 1..(Len(stack) - n) : stack'[i].as = stack[i].as

LEMMA ThrownShape ==
  ASSUME RequireTypeOK, NEW n \in 0..Running, Thrown(n)
  PROVE  Shorter(n)
<1>1. stack \in Seq(Frame) /\ Len(stack) \in Nat
  BY LenProperties DEF RequireTypeOK
<1>2. Running - n \in 0..Len(stack)
  BY <1>1 DEF Running
<1> QED
  BY <1>1, <1>2, PrefixShape DEF Thrown, Shorter, Running

\* Scripts that end leave those below as they were.
LEMMA ShorterIsRequired ==
  ASSUME RequireInv, NEW n \in 0..Running, Shorter(n), UNCHANGED script
  PROVE  /\ \A i \in 1..Len(stack') : i \in 1..Len(stack) /\ stack'[i].as = stack[i].as
         /\ StackIsRequired'
<1>1. Len(stack) \in Nat /\ Len(stack') = Len(stack) - n
  BY LenProperties DEF RequireInv, RequireTypeOK, Shorter
<1>2. \A i \in 1..Len(stack') : i \in 1..Len(stack) /\ stack'[i].as = stack[i].as
  BY <1>1 DEF Shorter, Running
<1>3. StackIsRequired'
  <2>1. \A s, t : Reaches(s, t)' = Reaches(s, t)
    BY CyclesStay
  <2>2. ASSUME NEW i \in 1..Len(stack') PROVE FileOf[stack'[i].as] \in File
    BY <1>2 DEF RequireInv, StackIsRequired
  <2>3. ASSUME NEW i \in 1..Len(stack'), NEW j \in 1..(i - 1)
        PROVE  Reaches(stack[j].as, stack[i].as)'
    <3>1. j \in 1..Len(stack')
      BY <1>1
    <3>2. i \in 1..Len(stack) /\ stack'[i].as = stack[i].as /\ stack'[j].as = stack[j].as
      BY <1>2, <3>1
    <3>3. Reaches(stack[j].as, stack[i].as)
      BY <3>2 DEF RequireInv, StackIsRequired
    <3>4. Reaches(stack'[j].as, stack'[i].as)
      BY <3>2, <3>3
    <3> QED
      BY <2>1, <3>4
  <2> QED
    BY <2>2, <2>3 DEF StackIsRequired
<1> QED
  BY <1>2, <1>3

LEMMA ShorterKeeps ==
  ASSUME RequireInv, NEW n \in 0..Running, Shorter(n), UNCHANGED <<script, LOADED>>
  PROVE  StackIsRequired' /\ NotKeptYet'
BY ShorterIsRequired, CyclesStay DEF RequireInv, NotKeptYet, InCycle, Kept

\* The innermost script is on top, and what is due is one that it requires.
LEMMA TopShape ==
  ASSUME RequireInv, stack # <<>>
  PROVE  /\ Len(stack) \in 1..Len(stack)
         /\ Last(stack) = stack[Len(stack)] /\ Last(stack) \in Frame
         /\ FileOf[Last(stack).as] \in File
<1>1. stack \in Seq(Frame)
  BY DEF RequireInv, RequireTypeOK
<1>2. Len(stack) \in 1..Len(stack)
  BY <1>1, EmptySeq
<1>3. Last(stack) = stack[Len(stack)]
  BY DEF Last
<1> QED
  BY <1>1, <1>2, <1>3, ElementOfSeq DEF RequireInv, StackIsRequired

LEMMA DueIsNeeded ==
  ASSUME RequireInv, NEW s \in Spelling, Due(s)
  PROVE  Needs(Last(stack).as, s)
<1> DEFINE top == Last(stack)
           needs == script[FileOf[top.as]].needs
<1>1. top \in Frame /\ FileOf[top.as] \in File
  BY TopShape DEF Due
<1>2. needs \in Seq(Spelling)
  BY <1>1 DEF RequireInv, RequireTypeOK
<1>3. top.next \in 1..Len(needs)
  BY <1>1, <1>2, LenProperties DEF Due, Frame
<1>4. s \in Range(needs)
  BY <1>2, <1>3, LenProperties DEF Due, Range
<1> QED
  BY <1>1, <1>4, RequireAssumption DEF Needs

-----------------------------------------------------------------------------
LEMMA RequireInvInit == Init => RequireInv
<1> SUFFICES ASSUME Init PROVE RequireInv
  OBVIOUS
<1>1. Scripts \subseteq [needs : Seq(Spelling), returns : {"object", "false", "nil"}]
  <2>1. \A needs \in SeqOf(Spelling, MaxNeeds) : needs \in Seq(Spelling)
    BY RequireAssumption DEF SeqOf
  <2> QED
    BY <2>1 DEF Scripts
<1>2. script \in [File -> [needs : Seq(Spelling), returns : {"object", "false", "nil"}]]
  BY <1>1 DEF Init
<1>3. stack = <<>> /\ stack \in Seq(Frame) /\ Len(stack) = 0
  BY EmptySeq DEF Init
<1> QED
  BY <1>2, <1>3 DEF Init, RequireInv, RequireTypeOK, StackIsRequired, NotKeptYet, KindsKept,
     OfItsKind, StillKept, Nil

\* What was got and kept stays as it is.
LEMMA ValuesStay ==
  ASSUME RequireInv, UNCHANGED <<script, LOADED, got>>, done \subseteq done'
  PROVE  KindsKept' /\ StillKept'
BY CyclesStay DEF RequireInv, KindsKept, OfItsKind, StillKept, InCycle

LEMMA CachedKeeps ==
  ASSUME RequireInv, NEW s \in Spelling, Cached(s)
  PROVE  RequireInv'
<1>1. /\ stack' = GoneOn(stack) /\ got' = got \cup {<<s, LOADED[s]>>}
      /\ UNCHANGED <<script, LOADED, runs, done>> /\ Kept(s)
  BY DEF Cached
<1>2. Shorter(0)
  <2>1. stack \in Seq(Frame) /\ Len(stack) \in Nat
    BY LenProperties DEF RequireInv, RequireTypeOK
  <2>2. /\ stack' \in Seq(Frame) /\ Len(stack') = Len(stack)
        /\ \A i \in 1..Len(stack) : stack'[i].as = stack[i].as
    BY <1>1, <2>1, GoneOnShape
  <2>3. Len(stack) - 0 = Len(stack)
    BY <2>1
  <2> QED
    BY <2>2, <2>3 DEF Shorter
<1>3. StackIsRequired' /\ NotKeptYet'
  BY <1>1, <1>2, ShorterKeeps, LenProperties DEF Running, RequireInv, RequireTypeOK
<1>4. RequireTypeOK'
  BY <1>1, <1>2 DEF RequireInv, RequireTypeOK, Shorter
<1>5. KindsKept'
  BY <1>1 DEF RequireInv, KindsKept, OfItsKind, Kept
<1>6. StillKept'
  BY <1>1, CyclesStay DEF RequireInv, StillKept, InCycle
<1> QED
  BY <1>3, <1>4, <1>5, <1>6 DEF RequireInv

LEMMA BinaryKeeps ==
  ASSUME RequireInv, NEW s \in Spelling, RequireBinary(s)
  PROVE  RequireInv'
<1>1. /\ stack' = GoneOn(stack) /\ got' = got \cup {<<s, Library>>}
      /\ UNCHANGED <<script, LOADED, runs, done>> /\ FileOf[s] = None
  BY RequireAssumption DEF RequireBinary
<1>2. Shorter(0)
  <2>1. stack \in Seq(Frame) /\ Len(stack) \in Nat
    BY LenProperties DEF RequireInv, RequireTypeOK
  <2>2. /\ stack' \in Seq(Frame) /\ Len(stack') = Len(stack)
        /\ \A i \in 1..Len(stack) : stack'[i].as = stack[i].as
    BY <1>1, <2>1, GoneOnShape
  <2>3. Len(stack) - 0 = Len(stack)
    BY <2>1
  <2> QED
    BY <2>2, <2>3 DEF Shorter
<1>3. StackIsRequired' /\ NotKeptYet'
  BY <1>1, <1>2, ShorterKeeps, LenProperties DEF Running, RequireInv, RequireTypeOK
<1>4. RequireTypeOK'
  BY <1>1, <1>2 DEF RequireInv, RequireTypeOK, Shorter
<1>5. Library.is = "library"
  BY DEF Library
<1>6. KindsKept'
  BY <1>1, <1>5 DEF RequireInv, KindsKept, OfItsKind
<1>7. StillKept'
  BY <1>1, <1>5, CyclesStay DEF RequireInv, StillKept, InCycle
<1> QED
  BY <1>3, <1>4, <1>6, <1>7 DEF RequireInv

LEMMA ThrownKeeps ==
  ASSUME RequireInv, NEW n \in 0..Running, Thrown(n), UNCHANGED <<script, LOADED, runs, done, got>>
  PROVE  RequireInv'
<1>1. Shorter(n)
  BY ThrownShape DEF RequireInv
<1>2. StackIsRequired' /\ NotKeptYet'
  BY <1>1, ShorterKeeps
<1>3. RequireTypeOK'
  BY <1>1 DEF RequireInv, RequireTypeOK, Shorter
<1> QED
  BY <1>2, <1>3, ValuesStay DEF RequireInv

LEMMA EnterKeeps ==
  ASSUME RequireInv, NEW s \in Spelling, Enter(s)
  PROVE  RequireInv'
<1> DEFINE frame == [as |-> s, next |-> 1, run |-> runs + 1]
<1>1. /\ stack' = Append(stack, frame) /\ runs' = runs + 1
      /\ UNCHANGED <<script, LOADED, done, got>>
      /\ ~Kept(s) /\ FileOf[s] # None /\ Asked(s)
  BY DEF Enter
<1>2. frame \in Frame /\ frame.as = s
  BY DEF RequireInv, RequireTypeOK, Frame
<1> HIDE DEF frame
<1>3. /\ stack \in Seq(Frame) /\ Len(stack) \in Nat
      /\ stack' \in Seq(Frame) /\ Len(stack') = Len(stack) + 1
      /\ \A i \in 1..Len(stack) : stack'[i] = stack[i]
      /\ stack'[Len(stack) + 1] = frame
  BY <1>1, <1>2, AppendProperties, LenProperties DEF RequireInv, RequireTypeOK
<1>4. RequireTypeOK'
  BY <1>1, <1>3 DEF RequireInv, RequireTypeOK
<1>5. ASSUME NEW j \in 1..Len(stack) PROVE Reaches(stack[j].as, s)
  <2>1. stack # <<>> /\ Due(s)
    BY <1>1, <1>3, <1>5, EmptySeq DEF Asked
  <2>2. Needs(Last(stack).as, s)
    BY <2>1, DueIsNeeded
  <2>3. Last(stack) = stack[Len(stack)] /\ Last(stack) \in Frame
    BY <2>1, TopShape
  <2>4. stack[j] \in Frame
    BY <1>3, ElementOfSeq
  <2>5. j = Len(stack) \/ Reaches(stack[j].as, Last(stack).as)
    BY <1>3, <2>3 DEF RequireInv, StackIsRequired
  <2> QED
    BY <2>2, <2>3, <2>4, <2>5, ReachesOn DEF Frame
<1>6. StackIsRequired'
  <2>1. FileOf[s] \in File
    BY <1>1, RequireAssumption
  <2>2. \A i \in 1..Len(stack') : i \in 1..Len(stack) \/ i = Len(stack) + 1
    BY <1>3
  <2> QED
    BY <1>1, <1>2, <1>3, <1>5, <2>1, <2>2, CyclesStay DEF RequireInv, StackIsRequired
<1>7. NotKeptYet'
  <2>2. \A i \in 1..Len(stack') : i \in 1..Len(stack) \/ i = Len(stack) + 1
    BY <1>3
  <2> QED
    BY <1>1, <1>2, <1>3, <2>2, CyclesStay DEF RequireInv, NotKeptYet, InCycle, Kept
<1> QED
  BY <1>1, <1>4, <1>6, <1>7, ValuesStay DEF RequireInv

\* What a script returns is of the kind its file says.
LEMMA ValueShape ==
  ASSUME RequireInv, stack # <<>>, NEW value,
         value = CASE script[FileOf[Last(stack).as]].returns = "object" -> Object(Last(stack).run)
                   [] script[FileOf[Last(stack).as]].returns = "false" -> False
                   [] OTHER -> Nil
  PROVE  /\ value \in [is : {"nil", "false", "object"}, run : Nat]
         /\ value.is = script[FileOf[Last(stack).as]].returns
         /\ value.is = "nil" => value = Nil
         /\ value.is = "false" => value = False
         /\ value.is = "object" => value.run = Last(stack).run
<1>1. Last(stack) \in Frame /\ FileOf[Last(stack).as] \in File
  BY TopShape
<1>2. script[FileOf[Last(stack).as]].returns \in {"object", "false", "nil"}
  BY <1>1 DEF RequireInv, RequireTypeOK
<1> QED
  BY <1>1, <1>2 DEF Object, False, Nil, Frame

LEMMA ReturnKeeps ==
  ASSUME RequireInv, Return
  PROVE  RequireInv'
<1> DEFINE top == Last(stack)
           value == CASE script[FileOf[top.as]].returns = "object" -> Object(top.run)
                      [] script[FileOf[top.as]].returns = "false" -> False
                      [] OTHER -> Nil
<1>1. /\ stack # <<>> /\ stack' = GoneOn(Front(stack))
      /\ LOADED' = [LOADED EXCEPT ![top.as] = value]
      /\ done' = done \cup {top.run} /\ got' = got \cup {<<top.as, value>>}
      /\ UNCHANGED <<script, runs>>
  BY DEF Return
<1>2. /\ Len(stack) \in 1..Len(stack) /\ top = stack[Len(stack)] /\ top \in Frame
      /\ top.as \in Spelling /\ FileOf[top.as] \in File
  BY <1>1, TopShape DEF Frame
<1>3. /\ value \in [is : {"nil", "false", "object"}, run : Nat]
      /\ value.is = script[FileOf[top.as]].returns
      /\ value.is = "nil" => value = Nil
      /\ value.is = "false" => value = False
      /\ value.is = "object" => value.run = top.run
  BY <1>1, ValueShape
<1> HIDE DEF top, value
<1>4. Shorter(1)
  <2>1. stack \in Seq(Frame) /\ Len(stack) \in Nat /\ Len(stack) - 1 \in 0..Len(stack)
    BY <1>2, LenProperties DEF RequireInv, RequireTypeOK
  <2> QED
    BY <1>1, <2>1, PrefixShape DEF Front, Shorter
<1>5. /\ Len(stack') = Len(stack) - 1 /\ Len(stack) \in Nat
      /\ \A i \in 1..Len(stack') : i \in 1..Len(stack) /\ i < Len(stack)
                                   /\ stack'[i].as = stack[i].as
  BY <1>4, LenProperties DEF Shorter, RequireInv, RequireTypeOK
<1>6. /\ DOMAIN LOADED' = Spelling /\ LOADED'[top.as] = value
      /\ \A s \in Spelling : s # top.as => LOADED'[s] = LOADED[s]
  BY <1>1, <1>2 DEF RequireInv, RequireTypeOK
<1>7. RequireTypeOK'
  BY <1>1, <1>3, <1>4 DEF RequireInv, RequireTypeOK, Shorter
<1>8. StackIsRequired'
  <2>1. 1 \in 0..Running
    BY <1>2, <1>5 DEF Running
  <2> QED
    BY <1>1, <1>4, <2>1, ShorterIsRequired
<1>9. NotKeptYet'
  <2> SUFFICES ASSUME NEW i \in 1..Len(stack'), NEW t, t = stack[i].as
               PROVE  InCycle(t) \/ ~Kept(t)'
    BY <1>1, <1>5, CyclesStay DEF NotKeptYet, InCycle, Kept
  <2>1. i \in 1..Len(stack) /\ i < Len(stack)
    BY <1>5
  <2>2. t \in Spelling
    <3>1. stack \in Seq(Frame)
      BY DEF RequireInv, RequireTypeOK
    <3>2. stack[i] \in Frame
      BY <2>1, <3>1, ElementOfSeq
    <3> QED
      BY <3>2 DEF Frame
  <2>3. CASE t = top.as
    BY <1>2, <1>5, <2>1, <2>3 DEF RequireInv, StackIsRequired, InCycle
  <2>4. CASE t # top.as
    BY <1>6, <2>1, <2>2, <2>4 DEF RequireInv, NotKeptYet, Kept
  <2> QED
    BY <2>3, <2>4
<1>10. KindsKept'
  BY <1>1, <1>2, <1>3, <1>6 DEF RequireInv, KindsKept, OfItsKind
<1>11. StillKept'
  <2>1. InCycle(top.as) \/ ~Kept(top.as)
    BY <1>2 DEF RequireInv, NotKeptYet
  <2>2. \A x \in got : x[1] = top.as /\ x[2].is = "object" => InCycle(x[1])
    BY <2>1 DEF RequireInv, StillKept, Kept
  <2>3. \A x \in got' : x \in got \/ x = <<top.as, value>>
    BY <1>1
  <2> QED
    BY <1>1, <1>2, <1>6, <2>2, <2>3, CyclesStay DEF RequireInv, StillKept, InCycle, KindsKept
<1> QED
  BY <1>7, <1>8, <1>9, <1>10, <1>11 DEF RequireInv

LEMMA RequireInvStep == RequireInv /\ [Next]_vars => RequireInv'
<1> SUFFICES ASSUME RequireInv, [Next]_vars PROVE RequireInv'
  OBVIOUS
<1>1. Running \in Nat
  BY LenProperties DEF Running, RequireInv, RequireTypeOK
<1>2. ASSUME NEW s \in Spelling, Refuse(s) PROVE RequireInv'
  BY <1>2, ThrownKeeps DEF Refuse
<1>3. ASSUME Raise PROVE RequireInv'
  BY <1>1, <1>3, ThrownKeeps DEF Raise
<1>4. CASE UNCHANGED vars
  <2>1. Shorter(0)
    BY <1>1, <1>4 DEF vars, RequireInv, RequireTypeOK, Shorter, Running
  <2>2. StackIsRequired' /\ NotKeptYet'
    BY <1>1, <1>4, <2>1, ShorterKeeps DEF vars
  <2>3. RequireTypeOK'
    BY <1>4 DEF vars, RequireInv, RequireTypeOK
  <2> QED
    BY <1>4, <2>2, <2>3, ValuesStay DEF vars, RequireInv
<1> QED
  BY <1>2, <1>3, <1>4, CachedKeeps, BinaryKeeps, EnterKeeps, ReturnKeeps DEF Next

\* Whoever requires a file by one spelling gets the one object that its script
\* returned when it came to its end (restrictedRequireFunction, luaRequire), for
\* every set of scripts, whatever fails and is caught on the way, except for
\* scripts that require themselves by way of others.
THEOREM OneObjectForAll == Spec => []OneFinishedObject
<1>1. ASSUME RequireInv PROVE OneFinishedObject
  <2>1. ASSUME NEW x \in got, NEW y \in got, x[1] = y[1], ~InCycle(x[1])
        PROVE  x[2] = y[2]
    <3>1. x[2].is = y[2].is
      BY <1>1, <2>1, RequireAssumption DEF RequireInv, KindsKept, OfItsKind
    <3>2. x[2].is = "object" => x[2] = LOADED[x[1]] /\ y[2] = LOADED[x[1]]
      BY <1>1, <2>1, <3>1 DEF RequireInv, StillKept
    <3>3. x[2].is \in {"nil", "false", "object", "library"}
      BY <1>1, <2>1 DEF RequireInv, KindsKept
    <3> QED
      BY <1>1, <3>1, <3>2, <3>3 DEF RequireInv, KindsKept, OfItsKind
  <2>2. ASSUME NEW x \in got \cup {<<s, LOADED[s]>> : s \in Spelling}, x[2].is = "object"
        PROVE  x[2].run \in done
    BY <1>1, <2>2 DEF RequireInv, KindsKept, OfItsKind
  <2> QED
    BY <2>1, <2>2 DEF OneFinishedObject
<1> QED
  BY RequireInvInit, RequireInvStep, <1>1, PTL DEF Spec
=============================================================================
