--------------------------------- MODULE Proxies --------------------------------
(***************************************************************************)
(* What one extension can get at of another: the proxies of                 *)
(* extensions/proxies.lua around the handle that an extension's init script *)
(* returns.  Modules get an ExtensionProxy of the others, plugins a         *)
(* PublicProxy (main.lua).                                                  *)
(*                                                                         *)
(* A value is a table, a function, or anything else ("plain").  A table has *)
(* fields with names, and may have values as keys, as a set does; what      *)
(* stands under such a key is plain.  What a function does to its self is   *)
(* to set a field of it or not; a field that is set gets a plain value that *)
(* nothing below looks at.  Others is one script of another extension,      *)
(* which keeps all it ever got.                                             *)
(***************************************************************************)
EXTENDS FiniteSets

CONSTANTS
  Obj,             \* the tables of the extension
  Handle,          \* the one its init script returned
  Fun,             \* its functions
  Key              \* the names of fields

ASSUME ProxiesAssumption == Handle \in Obj

VARIABLES
  contents,        \* table -> key -> value
  elements,        \* table -> the tables and functions that are keys of it
  returned,        \* function -> the first value it returns
  stores,          \* the functions that set a field of self
  ignored,         \* the keys of the option with which results are not wrapped
  public,          \* the keys that plugins may use
  held,            \* the values the script of the other extension has
  written          \* the tables that were written to, and by whom

extension == <<contents, elements, returned, stores, ignored, public>>
proxyVars == <<extension, held, written>>

-----------------------------------------------------------------------------
Tab(o) == [is |-> "table", of |-> o]
Fn(f)  == [is |-> "function", of |-> f]
Plain  == [is |-> "plain", of |-> "plain"]

Reference == {Tab(o) : o \in Obj} \cup {Fn(f) : f \in Fun}

Value == Reference \cup {Plain}

\* What a script has: a table or a function itself, a proxy, or a function that
\* a proxy of the handle made of one of its own.
Raw(o)      == [as |-> "raw", of |-> o]
Proxy(o)    == [as |-> "table", of |-> o]
ExtProxy    == [as |-> "extension", of |-> Handle]
PubProxy    == [as |-> "public", of |-> Handle]
Loose(f)    == [as |-> "function", of |-> f]
Bound(f)    == [as |-> "bound", of |-> f]
BoundRaw(f) == [as |-> "bound raw", of |-> f]

Ref ==
  {Raw(o) : o \in Obj} \cup {Proxy(o) : o \in Obj} \cup {ExtProxy, PubProxy}
  \cup {Loose(f) : f \in Fun} \cup {Bound(f) : f \in Fun} \cup {BoundRaw(f) : f \in Fun}

ProxyInit ==
  /\ contents \in [Obj -> [Key -> Value]]
  /\ elements \in [Obj -> SUBSET Reference]
  /\ returned \in [Fun -> Value]
  /\ stores \in SUBSET Fun
  /\ ignored \in SUBSET Key
  /\ public \in SUBSET Key
  /\ held \in {{ExtProxy}, {PubProxy}}
  /\ written = {}

Bare(v) ==
  {Raw(o) : o \in {o \in Obj : v = Tab(o)}} \cup {Loose(f) : f \in {f \in Fun : v = Fn(f)}}

\* TableProxy: only tables are wrapped.
TableProxy(v) ==
  {Proxy(o) : o \in {o \in Obj : v = Tab(o)}} \cup {Loose(f) : f \in {f \in Fun : v = Fn(f)}}

Filtered == {"enable", "disable", "init"}

\* Mutant: every field of the handle can be used.
UnfilteredField(k, raw) ==
  LET v == contents[Handle][k] IN
  IF v.is # "function" THEN TableProxy(v)
  ELSE IF raw THEN {BoundRaw(v.of)} ELSE {Bound(v.of)}

\* ExtensionProxy: __index
HandleField(k, raw) ==
  LET v == contents[Handle][k] IN
  IF k \in Filtered THEN {}
  ELSE IF v.is # "function" THEN TableProxy(v)
  ELSE IF raw THEN {BoundRaw(v.of)} ELSE {Bound(v.of)}

\* r[k]; PublicProxy makes its ExtensionProxy without options.
Field(r, k) ==
  CASE r.as = "raw"       -> Bare(contents[r.of][k])
    [] r.as = "table"     -> TableProxy(contents[r.of][k])
    [] r.as = "extension" -> HandleField(k, k \in ignored)
    [] r.as = "public"    -> IF k \in public THEN HandleField(k, FALSE) ELSE {}
    [] OTHER              -> {}

Gains(refs) == held' = held \cup refs /\ UNCHANGED extension

GetField(r, k) == r \in held /\ Gains(Field(r, k)) /\ UNCHANGED written

Elements(o) == UNION {Bare(v) : v \in elements[o]}

\* Mutant: pairs() gives the values as they are.
IterateRaw(r) ==
  /\ r \in held /\ r.as \in {"raw", "table"}
  /\ Gains(Elements(r.of) \cup UNION {Bare(contents[r.of][k]) : k \in Key})
  /\ UNCHANGED written

\* pairs(r): only values are wrapped, and keys come as they are.  The proxies of a
\* handle are empty tables, and have no __pairs.
Iterate(r) ==
  /\ r \in held /\ r.as \in {"raw", "table"}
  /\ Gains(Elements(r.of) \cup
            UNION {IF r.as = "raw" THEN Bare(contents[r.of][k]) ELSE TableProxy(contents[r.of][k]) : k \in Key})
  /\ UNCHANGED written

\* r(...), where r came from a proxy of the handle: self is the handle itself.
CallBound(r) ==
  /\ r \in held /\ r.as \in {"bound", "bound raw"}
  /\ Gains(IF r.as = "bound" THEN TableProxy(returned[r.of]) ELSE Bare(returned[r.of]))
  /\ written' = IF r.of \in stores THEN written \cup {[table |-> Handle, by |-> "itself"]} ELSE written

\* r(self, ...), where r is the function itself.  If it sets a field of self, self
\* has to be a table, as __newindex of all proxies raises an error.
CallLoose(r, self) ==
  /\ r \in held /\ r.as = "function" /\ self \in held
  /\ r.of \in stores => self.as = "raw"
  /\ Gains(Bare(returned[r.of]))
  /\ written' = IF r.of \in stores THEN written \cup {[table |-> self.of, by |-> "others"]} ELSE written

\* r[k] = v
SetField(r) ==
  /\ r \in held /\ r.as = "raw"
  /\ written' = written \cup {[table |-> r.of, by |-> "others"]}
  /\ UNCHANGED <<extension, held>>

Inside(o) == {p \in Obj : Tab(p) \in elements[o] \/ \E k \in Key : contents[o][k] = Tab(p)}

Has(o, f) == Fn(f) \in elements[o] \/ \E k \in Key : contents[o][k] = Fn(f)

\* The tables that o leads to.
Below(o) ==
  {p \in Obj : \A C \in SUBSET Obj : (Inside(o) \subseteq C /\ \A c \in C : Inside(c) \subseteq C) => p \in C}

\* Deproxy(r): a copy of all that r leads to, keys too, with its functions; where that leads
\* back to itself, the copying ends with an error.
Deproxy(r) ==
  /\ r \in held /\ r.as \in {"raw", "table"}
  /\ \A o \in Below(r.of) \cup {r.of} : o \notin Below(o)
  /\ Gains({Loose(f) : f \in {f \in Fun : \E o \in Below(r.of) \cup {r.of} : Has(o, f)}})
  /\ UNCHANGED written

ProxyNext ==
  \E r \in held :
    \/ \E k \in Key : GetField(r, k)
    \/ Iterate(r)
    \/ CallBound(r)
    \/ \E self \in held : CallLoose(r, self)
    \/ SetField(r)
    \/ Deproxy(r)

ProxySpec == ProxyInit /\ [][ProxyNext]_proxyVars

-----------------------------------------------------------------------------
\* The handle is in a table or a result of something of its own: a method that
\* returns self, say.
LeadsBack ==
  \/ \E o \in Obj : Handle \in Inside(o)
  \/ \E f \in Fun : returned[f] = Tab(Handle)

\* f is in another table than the handle, or is returned by a function.
Elsewhere(f) ==
  \/ \E o \in Obj \ {Handle} : Has(o, f)
  \/ \E g \in Fun : returned[g] = Fn(f)

\* f can be called so that what it returns is not wrapped.
Unwrapped(f) ==
  LeadsBack \/ Elsewhere(f) \/ \E k \in ignored : contents[Handle][k] = Fn(f)

\* The tables that come out as they are: keys, and results that are not wrapped.
Leaks ==
  {p \in Obj : \/ \E o \in Obj : Tab(p) \in elements[o]
               \/ \E f \in Fun : returned[f] = Tab(p) /\ Unwrapped(f)}

\* o is one of them, or is inside one.
Leaked(o) ==
  \A C \in SUBSET Obj : (Leaks \subseteq C /\ \A c \in C : Inside(c) \subseteq C) => o \in C

\* Whatever a script reads, goes through, calls and copies, it changes no table of
\* another extension but by the methods of its handle, the tables that the proxies
\* hand out as they are, and what is inside these.
OnlyLeaksAreWritten == \A w \in written : w.by = "itself" \/ Leaked(w.table)

\* "Setting a value on this table is not allowed" (proxies.lua:73), nor on the
\* extension (proxies.lua:176), but by its own methods.
OthersOnlyRead == \A w \in written : w.by = "itself"

\* The functions that enable and disable an extension are not for others, by
\* whatever way (proxies.lua:125), if nothing leads back to the handle, whose
\* fields a TableProxy does not filter, and if they have no other name.
LifecycleHidden ==
  ~LeadsBack =>
    \A r \in held : r.as \in {"function", "bound", "bound raw"} =>
      \/ \E k \in Key \ Filtered : contents[Handle][k] = Fn(r.of)
      \/ Elsewhere(r.of)
=============================================================================
