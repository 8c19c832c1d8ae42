----------------------------- MODULE LibraryStore -----------------------------
(***************************************************************************)
(* How modules open DLLs: loadLibrary of the module handles, LibraryStore  *)
(* and the import resolver it passes to MemoryModule (LibraryStore.h).     *)
(*                                                                         *)
(* A zipped module's DLL is mapped from memory; its imports are resolved   *)
(* one by one by customLoadLibraryFromZipDependencyFunction, which may map *)
(* another DLL of the zip and so recurse.  The stack holds the mappings in *)
(* progress.  A handle is the library it stands for: its name and the      *)
(* module, the game or the system its file belongs to.                     *)
(*                                                                         *)
(* Windows' loader and MemoryModule are not part of the repository; they   *)
(* are modelled as far as the store depends on them: LoadLibrary counts    *)
(* references, GetModuleHandle does not, and a mapping that fails frees    *)
(* the imports it had, with the freeLibrary callback the store gives it.   *)
(***************************************************************************)
EXTENDS Naturals, Sequences

CONSTANTS
  Module,         \* the modules that open libraries
  Zipped,         \* those of them that are read from a zip
  DllName,        \* file names of libraries
  Worlds,         \* what the modules ship, import and find on the system
  LuaName,        \* names of Lua modules
  Exports         \* library name -> the Lua modules it has a luaopen_ function for

System == "system"

Game == "game"

Owners == Module \cup {System, Game}

ASSUME StoreAssumption ==
  /\ Zipped \subseteq Module /\ System \notin Module /\ Game \notin Module
  /\ Exports \in [DllName -> SUBSET LuaName]
  /\ \A w \in Worlds :
       /\ w.files \in [Module -> SUBSET DllName]
       /\ w.imports \in [DllName -> SUBSET DllName]
       /\ w.system \subseteq DllName /\ w.game \subseteq DllName /\ w.pinned \subseteq DllName

VARIABLES
  world,          \* [files, imports, system, game, pinned]
  store,          \* hmoduleMapping: name -> library
  os,             \* name -> [owner, refs]: what LoadLibrary has loaded
  bound,          \* mapped library -> the library each of its imports got
  stack,          \* [lib, todo, depth, got, retry]: the mappings in progress
  failed,         \* some mapping has failed and freed its imports
  loaded          \* package.loaded: Lua module -> the library it came from

storeVars == <<world, store, os, bound, stack, failed, loaded>>

-----------------------------------------------------------------------------
Lib(n, m) == [name |-> n, owner |-> m]

IsCustom(lib) == lib.owner \in Zipped

With(f, k, v) == [x \in DOMAIN f \cup {k} |-> IF x = k THEN v ELSE f[x]]

StoreInit ==
  /\ world \in Worlds
  /\ store = << >>
  /\ os = [n \in world.pinned |-> [owner |-> System, refs |-> 1]]
  /\ bound = << >>
  /\ stack = << >>
  /\ failed = FALSE
  /\ loaded = << >>

\* fetch: a stored handle, or one GetModuleHandle knows, which is then stored.
Found(n) == n \in DOMAIN store \cup DOMAIN os
Fetched(n) == IF n \in DOMAIN store THEN store[n] ELSE Lib(n, os[n].owner)
Fetch(n) == store' = With(store, n, Fetched(n))

\* LoadLibrary of a file: Windows loads it, and what it imports from the same folder.
LoadFile(n, owner, files) ==
  \E more \in SUBSET (files \ (DOMAIN os \cup {n})) :
    os' = [x \in DOMAIN os \cup more \cup {n} |->
             IF x \in DOMAIN os THEN os[x] ELSE [owner |-> owner, refs |-> 1]]

\* LoadLibrary of a name that is not loaded looks in the game's directory first.
Origin(n) == IF n \in world.game THEN Game ELSE System

DefaultLoad(n) ==
  \/ n \in world.game /\ LoadFile(n, Game, world.game)
  \/ /\ n \in world.system \ world.game
     /\ os' = With(os, n, [owner |-> System, refs |-> 1])

\* putLibrary: the file at the path in the game's directory if there is one, with its
\* folder on the search path and nothing else tried when it is refused; else by name.
PutLibrary(n) ==
  /\ IF n \in world.game THEN LoadFile(n, Game, world.game) ELSE DefaultLoad(n)
  /\ store' = With(store, n, Lib(n, Origin(n)))

\* The handle is NULL.
PutFails(n) == n \in world.game \/ n \notin world.system

-----------------------------------------------------------------------------
(* loadLibrary of the module handles, from Lua, fasm or the exported API.    *)

Frame(n, m) ==
  [lib |-> Lib(n, m), todo |-> world.imports[n], depth |-> 0, got |-> << >>, retry |-> {}]

OpenFetched(n) ==
  /\ Found(n)
  /\ Fetch(n)
  /\ UNCHANGED <<os, stack>>

OpenFromZip(m, n) ==
  /\ ~Found(n) /\ m \in Zipped /\ n \in world.files[m]
  /\ stack' = <<Frame(n, m)>>
  /\ UNCHANGED <<store, os>>

\* What the zip does not hold, and its like for folders.
OpenByName(m, n) ==
  /\ ~Found(n) /\ n \notin world.files[m]
  /\ PutLibrary(n)
  /\ UNCHANGED stack

\* putLibrary with the module's folder on the search path.
OpenFromFolder(m, n) ==
  /\ ~Found(n) /\ m \notin Zipped /\ n \in world.files[m]
  /\ LoadFile(n, m, world.files[m])
  /\ store' = With(store, n, Lib(n, m))
  /\ UNCHANGED stack

\* NULL or an exception: nothing is stored.
OpenFails(m, n) ==
  /\ ~Found(n)
  /\ IF n \in world.files[m] THEN m \notin Zipped ELSE PutFails(n)
  /\ UNCHANGED <<store, os, stack>>

LoadLibrary(m, n) ==
  /\ stack = << >>
  /\ \/ OpenFetched(n) \/ OpenFromZip(m, n) \/ OpenByName(m, n)
     \/ OpenFromFolder(m, n) \/ OpenFails(m, n)
  /\ UNCHANGED <<world, bound, failed, loaded>>

-----------------------------------------------------------------------------
(* The mapping on top of the stack.                                          *)

Top == stack[Len(stack)]
Below == SubSeq(stack, 1, Len(stack) - 1)

Gets(f, n, lib) ==
  [f EXCEPT !.todo = @ \ {n}, !.got = With(@, n, lib), !.retry = {}]

\* Imports come one at a time; one whose own mapping failed is finished first.
Pending == IF Top.retry = {} THEN Top.todo ELSE Top.retry

Deeper(f) == [f EXCEPT !.depth = @ + 1]

\* The resolver for import n of the top mapping.  Each name that is not known
\* yet counts one depth, and the count is that of the whole import table.
ImportFetched(n) ==
  /\ Found(n)
  /\ Fetch(n)
  /\ stack' = Append(Below, Gets(Top, n, Fetched(n)))
  /\ UNCHANGED os

\* Mutant: the library is stored before it is mapped.
StoreThenMap(n) ==
  /\ ~Found(n) /\ Top.depth = 0
  /\ n \in world.files[Top.lib.owner]
  /\ store' = With(store, n, Lib(n, Top.lib.owner))
  /\ stack' = Append(Append(Below, Deeper(Top)), Frame(n, Top.lib.owner))
  /\ UNCHANGED os

\* Mutant: the zip is asked before the store.
ZipBeforeStore(n) ==
  /\ Top.depth = 0
  /\ n \in world.files[Top.lib.owner]
  /\ stack' = Append(Append(Below, Deeper(Top)), Frame(n, Top.lib.owner))
  /\ UNCHANGED <<store, os>>

ImportFromZip(n) ==
  /\ ~Found(n) /\ Top.depth = 0
  /\ n \in world.files[Top.lib.owner]
  /\ stack' = Append(Append(Below, Deeper(Top)), Frame(n, Top.lib.owner))
  /\ UNCHANGED <<store, os>>

ImportByName(n) ==
  /\ ~Found(n) /\ Top.depth = 0
  /\ n \notin world.files[Top.lib.owner]
  /\ PutLibrary(n)
  /\ stack' = Append(Below, Gets(Deeper(Top), n, Lib(n, Origin(n))))

\* Past the limit, or after the zip's own library failed: LoadLibrary, and the
\* store does not learn the handle.
ImportDefault(n) ==
  /\ ~Found(n) /\ Top.depth > 0
  /\ DefaultLoad(n)
  /\ stack' = Append(Below, Gets(Deeper(Top), n, Lib(n, Origin(n))))
  /\ UNCHANGED store

Import ==
  /\ stack # << >>
  /\ \E n \in Pending :
       ImportFetched(n) \/ ImportFromZip(n) \/ ImportByName(n) \/ ImportDefault(n)
  /\ UNCHANGED <<world, bound, failed, loaded>>

\* All imports are there: the library is stored and handed to who asked for it.
MapSucceeds ==
  /\ stack # << >> /\ Top.todo = {}
  /\ store' = With(store, Top.lib.name, Top.lib)
  /\ bound' = With(bound, Top.lib, Top.got)
  /\ stack' =
       IF Below = << >> THEN << >>
       ELSE [Below EXCEPT ![Len(Below)] = Gets(@, Top.lib.name, Top.lib)]
  /\ UNCHANGED <<world, os, failed, loaded>>

\* An import that is nowhere, or a DllMain that refuses.  MemoryModule frees what
\* was bound, also handles that GetModuleHandle gave and nobody counted; the
\* resolver that asked for the library tries LoadLibrary instead.
Unreferenced(f) ==
  LET freed == {n \in DOMAIN f.got : n \in DOMAIN os /\ ~IsCustom(f.got[n])}
      left  == [n \in DOMAIN os |->
                  [os[n] EXCEPT !.refs = IF n \in freed \ world.pinned THEN @ - 1 ELSE @]]
  IN  [n \in {x \in DOMAIN os : left[x].refs > 0} |-> left[n]]

CannotImport(n) ==
  /\ ~Found(n) /\ PutFails(n)
  /\ Top.depth > 0 \/ n \notin world.files[Top.lib.owner]

\* Mutant: the resolver starts over when the zip's library fails.
FailStartsOver ==
  /\ stack # << >>
  /\ Top.todo = {} \/ \E n \in Pending : CannotImport(n)
  /\ os' = Unreferenced(Top)
  /\ stack' =
       IF Below = << >> THEN << >>
       ELSE [Below EXCEPT ![Len(Below)] = [@ EXCEPT !.depth = 0, !.retry = {Top.lib.name}]]
  /\ failed' = TRUE
  /\ UNCHANGED <<world, store, bound, loaded>>

MapFails ==
  /\ stack # << >>
  /\ Top.todo = {} \/ \E n \in Pending : CannotImport(n)
  /\ os' = Unreferenced(Top)
  /\ stack' =
       IF Below = << >> THEN << >>
       ELSE [Below EXCEPT ![Len(Below)] = [@ EXCEPT !.retry = {Top.lib.name}]]
  /\ failed' = TRUE
  /\ UNCHANGED <<world, store, bound, loaded>>

\* A library that can be called into: mapped to its end, or held by Windows.
Live(lib) ==
  IF IsCustom(lib) THEN lib \in DOMAIN bound
  ELSE lib.name \in DOMAIN os /\ os[lib.name].owner = lib.owner

\* luaL_requiref: what package.loaded has under the name, whoever put it there,
\* else what the luaopen_ function of the library returns.
LuaModule(lib, u) == IF u \in DOMAIN loaded THEN loaded[u] ELSE lib

\* require of a library handle.  Without the function it raises, and nothing changes.
RequireLuaModule(n, u) ==
  /\ stack = << >>
  /\ n \in DOMAIN store /\ Live(store[n])
  /\ u \in Exports[n]
  /\ loaded' = With(loaded, u, LuaModule(store[n], u))
  /\ UNCHANGED <<world, store, os, bound, stack, failed>>

StoreNext ==
  \/ \E m \in Module, n \in DllName : LoadLibrary(m, n)
  \/ Import \/ MapSucceeds \/ MapFails
  \/ \E n \in DllName, u \in LuaName : RequireLuaModule(n, u)

\* A load that has begun is a chain of calls on one thread: it runs on.
StoreSpec == StoreInit /\ [][StoreNext]_storeVars /\ WF_storeVars(Import \/ MapSucceeds \/ MapFails)

-----------------------------------------------------------------------------
Libs == [name : DllName, owner : Owners]

IsMap(f, S, T) == DOMAIN f \subseteq S /\ \A k \in DOMAIN f : f[k] \in T

TypeOK ==
  /\ world \in Worlds
  /\ IsMap(store, DllName, Libs) /\ \A n \in DOMAIN store : store[n].name = n
  /\ IsMap(os, DllName, [owner : Owners, refs : Nat \ {0}])
  /\ \A l \in DOMAIN bound : l \in Libs /\ IsMap(bound[l], DllName, Libs)
  /\ \A k \in DOMAIN stack :
       /\ stack[k].lib \in Libs /\ stack[k].todo \subseteq DllName
       /\ stack[k].depth \in Nat /\ IsMap(stack[k].got, DllName, Libs)
       /\ stack[k].retry \subseteq stack[k].todo
  /\ failed \in BOOLEAN
  /\ IsMap(loaded, LuaName, Libs)

\* As long as no mapping has failed, every stored handle can be called into, and
\* so can, for every mapped library, what each of its imports was bound to: a
\* library is never used before its own imports are there, at any nesting.  The Lua
\* modules that scripts share come from libraries that can be called into too.
StoredAndBoundAreLive ==
  ~failed =>
    /\ \A n \in DOMAIN store : Live(store[n])
    /\ \A l \in DOMAIN bound :
         DOMAIN bound[l] = world.imports[l.name] /\ \A n \in DOMAIN bound[l] : Live(bound[l][n])
    /\ \A u \in DOMAIN loaded : Live(loaded[u])

\* Scripts keep handles and look functions up in them later: the handle of a name
\* is never replaced, whichever module or import asks for the name next.
LibrariesStay ==
  [][\A n \in DOMAIN store : n \in DOMAIN store' /\ store'[n] = store[n]]_storeVars

\* A load comes back to its caller, with a handle or an error, also when mappings
\* inside it fail and are tried again by other means.
LoadsReturn == (stack # << >>) ~> (stack = << >>)

\* "require a module from this library" (LibraryAccessHandle in core.lua): what
\* require of a handle answers is a module of that very library.
RequiresItsLibrary ==
  \A n \in DOMAIN store : \A u \in Exports[n] : LuaModule(store[n], u) = store[n]
=============================================================================
