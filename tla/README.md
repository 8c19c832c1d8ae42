# TLA+ models of UnofficialCrusaderPatch3

UCP3 is a DLL (`ucp3.dll`, C++) that is loaded into the game Stronghold
Crusader by a shim (`binkw32.dll`), and a Lua program (`content/ucp/code`) that
the DLL runs. The Lua program finds the *extensions* the user activated
(modules, which may patch the game and ship DLLs, and plugins, which may only
use what modules offer), loads them and enables them. All paths below are
relative to `src/`.

The models check how the DLL and the script keep their tables, files and patches
consistent when files, versions, errors, restarts and import graphs come together
in ways no test of the repository exercises: its only tests are those of the
directory listing (`tests/listing`).

## 1. The system

| Component | State it keeps | Operations | Hard about it | What makes it correct |
|---|---|---|---|---|
| Dependency solver (`extensions/dependencies.lua`), which only `config/order.lua` uses and no start of the game runs | table of dependencies, layers | `solve` | missing names, cycles, termination | each extension after what it needs, once, nothing lost; returns |
| Extension handle manager (`dll/io/modules/ModuleManager.h`) and the path routers | maps of module handles, module errors, extension handles; code handle; path aliases | open by path, by alias, by name; code handle | two maps filled by different routes, keyed without the folder; the file on disk is looked at, verified and opened one after the other | handles are stable; in secure mode only verified archives; one handle for both maps outside of it |
| Bootstrap (`binkw32/dllmain.cpp`, `dll/ucp3.cpp`, `dll/core/Core.cpp`, `code/main.lua`) | `isInitialized`, modes; matched extensions, loaders, aliases, joined config, proxies | detour, `initialize`, `main.lua`, jump to the game | an error anywhere leaves a half-done start; keys that differ between tables | order, own options, nobody enabled before all are loaded, console after the script, the game starts in any case |
| Security (`dll/security`) | what a verification has acquired, its verdict; the list of hashes | `Verify`, `Hash`, the store, `verifyZipFile` | every call may fail, all leave by one label | no failure counts as a verdict, nothing stays acquired |
| Config handling (`config/init.lua`, `main.lua`) and YAML (`lua/yaml`) | the user's config, the joined and the final config | load, validate, join, normalise, dump | validation that complains and goes on; holes in lists; values that change type in the text | each option has the value its contents give; what was accepted does not fail later; the file says what is used |
| Versions and requirements (`version/init.lua`, `config/matcher.lua`) | - | parse, compare, search | text against numbers, order of `pairs()` | the newest extension that answers, modules before plugins |
| AOB cache and captures (`data/cache.lua`, `core.AOBScan`, `utils.AOBExtract`) | pattern -> address, the file; groups | retrieve, load, dump, scan; parse groups and read them | entries older than the executable or a patch; torn file; offsets in bytes and in characters | an address that is returned matches now; a capture is what stands under its group |
| Hooks and code compiler (`hooks.lua`, `core.lua`, `compilation/fasm.cpp`) | hook lists, the game's code, callers' tables, assembler state | register, fire, compile, `insertCode`, `allocateAssembly` | distances, labels, failures after the first write, tables used twice, scripts that get longer | the game does what the table says and goes on where it should |
| Userdata (`data/userdata.lua`) | `meta.json` of each extension, over restarts; interfaces given out | `interface`, `setVersion`, `open`, `remove` | ready only after a hook; a crash inside a write; several interfaces and the extension itself write one file | ready before any callback of an extension; no older version comes back |
| Library store (`dll/io/modules/LibraryStore.h`, `LuaLoadLibraryRaw.cpp`) | name -> library handle; `package.loaded` | `loadLibrary`, import resolver, `require` of a library | recursion through MemoryModule, failures inside | one live library per name |
| Zip and temp file handles (`TempFileExtensionHandle.h`, `TempfileManager.h`) | unpacked files in `ucp/.cache`, what is mapped to them | open, make, close, size, contents | processes share the folder; cut writes; deletion on close; sizes that do not agree | a descriptor reads its own entry, complete |
| Directory listing (`DirectoryListing.h`, `ZipDirectoryListing.h`) | the one open entry of an archive | `files`, `directories` | directories without entries, errors in the middle | the same answer for a folder and for its archive |
| Extension environment, proxies and `require` (`extensions/environment.lua`, `proxies.lua`, `lua/Preload.cpp`) | per-extension `_G`, table of required files, proxies given out | `require`, proxy access, `Deproxy` | cyclic `require`, caught errors, spellings; values that escape the wrapping | one complete object for everybody; others only read |
| Console thread (`dll/console/console.cpp`) | a thread on the Lua state of the game's thread | read, load, run, print | no lock; one Lua stack | a snippet's own results are shown, and nothing is left behind |
| JSON and logging bridges, debugging helpers, installer, scripts, vendored Lua | - | - | - | not modelled (section 8) |

Interactions. The detour of the shim calls `ucp_initialize`, which runs
`Core::initialize`: it parses the command line, verifies and opens the store,
obtains the code handle from the manager and runs `main.lua`. `main.lua` calls
back into the DLL for files and listings (routers -> manager -> zip or folder
handle), for AOB scans and code, and for libraries (module handle -> library
store -> MemoryModule -> the store's import resolver -> module handle). It takes
the load order from the user's config (`main.lua:112`), where the launcher has
written it, and matches its entries with what is installed; it does not compute one: the
solver and `config/order.lua`, which turns a table of dependencies into an order,
are not called at a start. It uses the cache for addresses, whose results are the
sites of `insertCode`. After it the console
thread may be started, which shares the Lua state with the game's thread; the
game's thread runs the callbacks of `afterInit` when it comes to its message
loop. Other than these, what happens concurrently is outside of the process: the
disk (the user, an update, a crash) and other processes of the game in the same
directory.

## 2. Modules

| Module | Models | State and actions against the code |
|---|---|---|
| `DependencySolver` | `DependencySolver:solve`, `Set`, the flattening in `config/order.lua` (not part of a start) | `modules` is the argument, `d` and `r` the two locals of the loop; `Round` is a turn, its parts are the sets `t1..t3` of the code (`Layer`) and `d2` (`Without`) |
| `ExtensionHandles` | `ModuleHandleManager`, the routers, aliases | each map is a variable of its C++ name; a *slot* is a place on disk, a handle an index into `heap`, so that pointer identity can be spoken of. `call` is the `get...Handle` in progress: `Look` at the disk, `HashFile`, `VerifySignature`, then `OpenZip` or `OpenFolder`, each reading the file by its path again, with `DiskChange` for the world between any two; `NothingFound` is the way out. `OpenPath`, `OpenBarePath` stand for all callers with a path, `GetLatestCodeHandle` for the code, `RegisterAlias` for `registerPathAlias` with and without `overwrite` |
| `Startup` | the detour, `ucp_initialize`, `Core::initialize`, `main.lua` | `pc` is the part of the start or the section of `main.lua`, `i` its loop index; one action per turn of a loop or straight-line section. Every section may raise (`ScriptRaises`) because each runs extension or library code |
| `Verification` | `Signature.h`, `Hash.h`, the look-up in the store, `verifyZipFile` | `check` is the verification in progress: one action per call of the crypto API (`CallApi`), which may fail, and `MainExit` for what is behind the label. `Startup` uses it for the store, the code and each module |
| `ExtensionLifecycle` | what the bootstrap promises | abstract: absent, matched, loaded, enabled; `Startup` is shown to implement it |
| `Yaml` | `LuaYamlParser.cpp`, `LuaYamlDumper.cpp` | functions between nodes and Lua values, with the order in which types are tried, what is left out and what raises |
| `ConfigLoading` | `loadUserConfig`, `validateUserConfig`, `normalizeContentsValues`, the joining, digest and final config in `main.lua` | `document` is the file, `userConfig` the Lua table, `final` what the extensions get, `written` the file for it; one action per function |
| `ExtensionMatcher` | the search for an entry of the load order | one action per extension that `pairs()` comes to (`Consider`, `Raise`), then `LookAmongPlugins`; versions are the texts between the dots, as in the code. `ConfigLoading` extends it; `Startup` uses the outcome of a search and takes versions as plain values |
| `AobCache` | `data/cache.lua`, `core.AOBScan`, its file | `aobs` and `file`; `mem` is what matches where; `Scan`, `LoadFromFile`, `DumpOpens`, `DumpWrites` are the functions, `Patch` and `RestartGame` the world. A file that was cut inside its first line is a scalar (`ScalarFile`): it loads, and `aobs` is a text from then on, into which nothing can be put |
| `AobExtract` | `utils.AOBExtract` | one action per branch of the parser of groups, then the scan (`ScanTarget`), the reading of a group (`Extract`) and the formatting of the first result (`Log`), with the locals of the function as variables |
| `CodeInjection` | `core.insertCode`, `compile`, `calculateCodeSize`, `writeCode`, `AssemblyLambda`, `allocateAssembly`, the state of `fasm.cpp` | `mem` is bytes of the game and of allocated blocks, `tables` the callers' Lua tables, `call` the program counter inside one `insertCode`: `InsertCode` up to the NOPs, `PlaceCode` or `CompileFails`, `PlaceJumps` |
| `UserData` | the `afterInit` hook of `hooks.lua`, `data/userdata.lua` | `afterInit`, `INITIALIZED` and the interfaces of one start, `meta` on disk; opening a `meta.json` for writing and writing it are two steps (`CreateMeta` or `SetVersion`, then `WriteMeta`) with a crash (`Restart`) between them. `OpenMeta` is the interface's `open` of that file, `WriteOwn` and `CloseOwn` what the extension does with what it got; `wanted` is the version last asked for |
| `LibraryStore` | `LibraryStore`, `loadLibrary` of the three module handles, `require` of a library handle | `store` is `hmoduleMapping`; `stack` is the C++ call stack of mappings in progress, one frame per call of the resolver's owner; `os` is Windows' module list, `loaded` is `package.loaded`; `world` has the files of modules, of the game's directory and of the system, and the imports |
| `TempFiles` | `openFileDescriptor` of archives, `TempfileManager`, the temp files of scripts | `at` is the place of each process inside a call, `mapping` and `fds` its tables, `disk` the files of `ucp/.cache` with the process that holds each |
| `ExtensionListing` | `files()`, `directories()`, sizes, contents and descriptors of folders and archives | `entry` is the archive's one open entry, `rest` the entries still to visit, `children` the `Children` collected so far, `read` and `answer` a reading. A path keeps the slash at its end (`Sanitized`), and the entry of a directory has one in its name (`EntryName`) |
| `Require` | `require` of extensions and of UCP's code | `LOADED` is the table of the code, `stack` the scripts that run; an error may be caught by any script outside of it (`Thrown`); `RequireBinary` is the branch for a `.dll`, whose result is not kept |
| `Proxies` | `ExtensionProxy`, `PublicProxy`, `TableProxy`, `Deproxy` | `contents` (values by key), `elements` (tables and functions that are keys) and `returned` are the other extension's tables and functions, `held` all that one script of another extension got; one action per metamethod |
| `Console` | the input loop and the running of snippets | `lua` is the one Lua stack; `Load`, `Run`, `PrintResults` are steps of the console's thread, `HookEnters` and `HookLeaves` of the game's |

`*_proofs` hold the proofs (section 5), one for each group of modules that one part of
the program is made of: `LoadOrder_proofs` (`DependencySolver`, `ExtensionMatcher`),
`ExtensionHandles_proofs`, `ExtensionFiles_proofs` (`ExtensionListing`, `TempFiles`,
`LibraryStore`), `Environment_proofs` (`Proxies`, `Require`, `Console`), `LuaData_proofs`
(`AobCache`, `AobExtract`, `UserData`), `Startup_proofs`, `CodeInjection_proofs`.
`NumberInduction` has the lemmas they share. MC modules give constants their values,
narrow the initial states where their number has to be held down and put small,
independent models side by side: their variable `part` says which of them
runs, the variables of the others rest. `MCConfigLoading` has `ConfigLoading`, the
solver and `CodeInjection` side by side, `MCExtensionFiles` the handles, `TempFiles`,
`ExtensionListing` and `LibraryStore`, `MCLuaData` and `MCEnvironment` three models each.
Operators whose comment begins with "Mutant:" are plausible mistakes in the operation that
follows; no specification uses them. They show that a property would notice the mistake.

## 3. Runs

| Run | Shows | Bounds and why they are enough |
|---|---|---|
| `startup` | load order, proxies, own section, console, verification and its resources, the game starts, refinement | two names, one of them in two versions, load orders up to three requirements (so repeated, unmatched and matched ones mix) on a developer's build; every build, command line, store, code and module archive with a fixed load order; an error at each point of the script and at each call of the crypto API |
| `config_loading` | the newest match is taken, nothing is missed, which searches fail; options are resolved, the final file reads back, accepted configs load; the solver's order and its end; the game runs what a table says and goes on at the return address, also after failures and other insertions, and nothing else changes | *config*: three extensions of two names, five versions, among them one with two parts and one with a part of two digits, four operators (`<` and `<=` satisfy nothing in the code: one of them is there); scalars of every type, tables without entries, options of depth two, lists up to three, contents with every set of the three keys, and at each place of the document ten other nodes. *solver*: all tables over 4 names, defined or missing: the longest chain, the diamond, a cycle with an extension behind it and a missing name between two installed ones all occur. *injection*: two sites of 6 and 5 bytes, `MaxCalls = 3`, so that one site can be hooked twice with another hook or a failure in between; tables with a call, with a jump to a label over an integer, with an `AssemblyLambda`, and one that does not compile; scripts that keep their size, get shorter or fail at their address. Sizes of patches below 5 are left out (section 6) |
| `lua_data` | an address returned matches now; captures; no older version comes back; callbacks registered early fire, and find user data | *cache*: two patterns, two addresses, `MaxPatches = 1` per start, `MaxRestarts = 1` with any new executable and any garbled, torn or scalar file. *captures*: up to three groups of all sizes around the limits, nested, empty, open. *user data*: two callbacks, extensions, versions and interfaces, so that two interfaces share a file, `MaxStarts = 2`, a crash or a failure in each write, and extensions that open the file themselves |
| `captures` | finding | as `lua_data` |
| `shared_table` | finding | as *injection* of `config_loading` |
| `assembly` | finding | as *injection* of `config_loading`, with a script that is longer at its address |
| `extension_files` | secure modules are verified, remembered errors are final, handles stay and serve both maps; descriptors read their own entry, entries are unpacked once; folder and archive list and read the same; libraries are live, stable, and loads return | *handles*: two versions of a module and a plugin that has the name and version of one of them, the code folder, a stray code archive; `MaxChanges = 1`: one change of the disk to anything at any point between two steps of a call. Each map then has keys of several origins and a stale and a fresh content. More slots and changes: the proofs. *unpacking*: two processes, three names, one entry and one text of a script, every step may fail, processes end anywhere, the computer may stop; more of each: the proofs. *listing*: all trees over five places of depth up to three, every archive of each, all orders of entries, nine paths, four sizes of buffers. *libraries*: three names make nesting of depth three and two imports of one library; a zipped and a folder module, every set of files, every acyclic import table up to renaming, and files of the game's directory that shadow those of the system |
| `lua_modules` | finding | as `extension_files` |
| `plugin_folder` | finding | as *handles* of `extension_files` |
| `names` | finding | as *handles* of `extension_files` |
| `environment` | one object for everybody outside of cycles, never a half-done one; others write only to what leaks, and do not get at `enable` and `disable`; snippets are answered | *require*: two files, one of them with two spellings, a missing one and a library; scripts that require up to two others; `MaxDepth = 3`, `MaxCalls = 2`, `Restricted = TRUE` (the `require` of extensions). *proxies*: contents of a handle and two tables with two functions, `enable` being a field of the handle, with every set of public and ignored keys, and tables and functions as keys. *console*: six kinds of snippets, `MaxStack = 3` |
| `proxy_keys` | finding | as *proxies* of `environment` |

`extension_files` and `lua_modules` check deadlock (of the handles: that no call is
left without a next step); the others may really stop (a start that has ended, a search
that is over, no call left within the bounds). Bounds on counters are the constants `MaxChanges`,
`MaxPatches`, `MaxRestarts`, `MaxCalls`, `MaxStarts`, `MaxDepth` and `MaxStack`,
each in the guard of its action, and `MaxNeeds`, the files that a script requires
at most; `MaxDepth` stands for a limit of Lua
(`LUAI_MAXCCALLS`) that the code runs into too, and `MaxStack` bounds what the
two threads leave behind on the Lua stack once they have met.

What the properties presuppose:

* `SecureModulesVerified` compares what was opened with what was verified where the disk
  did not change just between the two: the code does not hold the file open
  (`ModuleManager.h:205`, `:214`), so no more is true of it.
* `AnswerMatches` allows an error for a pattern that is in memory where the cache file was
  cut inside its first line, which no later start repairs (section 6).
* `NoOlderVersion` speaks of files that can be read, and that the extension did not open
  for writing itself.
* `extension_files` takes acyclic import tables: the resolver recurses without end
  on a cycle, and no statement of the repository excludes or allows one.
  `StoredAndBoundAreLive` speaks of the time before the first failed mapping,
  after which the counts depend on Windows.
* `FindsTheNewest` and the first part of `MissesNothing` speak of versions whose
  parts have the same number of digits (`SameDigits`), as the code compares text.
* `HooksRun` speaks of tables that were passed for the first time, and, where
  overwritten bytes are kept, of sites that were not hooked before: moving the jump
  of an earlier hook changes where it leads. The callers of the run keep to `Contracts`,
  which TLC evaluates (`ContractsHold`) and section 5 lists. `BlocksAreKept` is checked
  with scripts that do not get longer; `assembly` shows the others.
* `AcceptedConfigsLoad` speaks of files that have the form of
  `content/README.md`, and names the four ways in which such a file still raises
  after the validation was silent: versions that cannot be compared, a section of
  an extension that was not found, a scalar where the digest needs a map, and a list
  with a hole.
* `LifecycleHidden` speaks of handles to which nothing leads back. `OnlyLeaksAreWritten`
  has no such condition: it bounds what others may write by the tables that the proxies
  hand out as they are (`Leaks`), which `proxy_keys` shows there to be.
* `OneFinishedObject` leaves out files that require themselves, by way of others
  too; its second part does not.
* `SnippetsAnswer` speaks of snippets during which no hook of the game's thread used
  the Lua state: nothing in the code keeps them apart, and `met` records that it
  happened.

## 4. Fairness

* `DependencySolver`: weak fairness of `Round`, a loop on one thread.
* `Startup`: weak fairness of what the DLL does and of the script: they are
  consecutive statements of one thread, from the detour to the jump to the game's
  entry point. It assumes that extension code returns. `Die` is not in it: whether
  a FATAL message ends the process is not known.
* `LibraryStore`: weak fairness of the mapping in progress (calls on one
  thread), none for new requests.
* `UserData`: weak fairness of `OnAfterInit`, `Fire` and `AllFired`: the game
  comes to its message loop, and the loop over the callbacks goes on, as each
  callback runs protected. A game that ends before is excepted by the property.
* The other modules promise nothing that must happen and have no fairness. Where an
  MC module puts models side by side, the fairness of one is assumed of the
  behaviours in which it runs (`part`).

## 5. What is proved

For every value of the constants, with `tlapm`:

* `LoadOrder_proofs`, of the solver: `TypeCorrect`, `OrderIsSound`, `OrderHasNoRepeats`,
  `OrderIsComplete` and `CyclesHang`. The invariant has the parts `SolverTypeOK`,
  `Remainder` (what is left is the input without what was placed: no other fact
  links `d` to `modules`), the three properties in a form that is kept by a
  turn, and that no member of a knot was placed: a turn frees only what waits
  for nothing, and each member of a knot waits for another.
* `LoadOrder_proofs`, of the search for an extension: `NewestIsFound` and
  `NothingIsMissed`, for versions of any length. The code compares text; that text of
  as many digits has the order of the numbers it writes (`SameDigits`, a condition in the
  properties) is shown by induction over the digits, with the weight of the first digit
  that differs above all that follow. From it `Order` is a total preorder, and the
  invariant `MatchInv` says what the search has established of the extensions it has
  come to: the best so far, why it raised, and which folder it looks in.
* `ExtensionHandles_proofs`: `TypeCorrect`, `SecureModeVerifies`, `OpenModeShares`,
  `HandlesAreKept` and `RejectionsAreFinal`, for any set of extensions, also where modules and
  plugins share names and versions, and with the disk changing between any two steps of a
  call. The invariant adds to the types what the call in progress has found out
  (`CallInHand`): that its key has no handle and no error, that in secure mode a
  module's call that came to the opening has a verdict, and since which change of the disk;
  that a handle is entered under the key of its slot (`EnteredByKey`), that errors and handles
  do not overlap and, by mode, what the handles in the maps are. `HandlesAreKept` says
  which handle may be replaced and by which: `Enter` writes over what `extensionHandles`
  has for the key, which can only be a plugin's, as a module's would be in
  `moduleHandles` too.
* `Startup_proofs`, in five parts.
  * `LoopsKeepStep`: the inductive invariant `LoopInv` ties the lengths of `found`,
    `sees` and `enabled` to `pc` and `i`, and `proxies` and `aliases` to what was
    loaded and matched; `SeesThoseBefore` is a part of it.
  * `LoadOrderIsFollowed`: beside it, the `n`th extension found answers the `n`th of those
    requirements so far that anything answers (`OrderInv`). The property counts them
    (`Cardinality`), so the turn of the loop that finds one needs the lemmas on counting
    in `NumberInduction`.
  * `OnlyVerified`, `NothingStaysHeld` and `ConsoleWaits` from `SecureInv`: what the
    verification in progress has established of its file by the call it has come to
    (`Proven`), what it may hold (`Sane`), what the modes are of the options given,
    and that all that ran was vouched for. The argument that no failing call of the
    crypto API counts as a verdict is in `CallIs` and `ExitIs`.
  * `OwnOptions`: the loader of a name is that of the extension matched last of that name,
    so the key a section is stored under is the key its version is looked up with. Where a
    module and a plugin share a name, the section of the plugin replaces that of the
    module, and whoever has the version of the last one gets what there is (`SectionOf`).
  * `StartIsALifecycle`: the refinement of `ExtensionLifecycle`: each step of `Startup` is
    a stutter or moves one extension to its next stage.
* `ExtensionFiles_proofs`, of listings and readings: `ListingIsTheTree` and `FilesAreRead`,
  for any tree, any order in which an archive's entries are visited and any sizes. A
  directory without an entry of its own appears in a listing only through what is below
  it, so `ListingInv` says which places the visited entries account for (`Listed`); the
  normal form of a path is a recursive function, of which it is shown by induction that
  it is a path of the listing's kind. `Opened` says that the one open entry of an
  archive is the one that was asked for. `FilesAreRead` says of the slash at the end of a path
  that it leads to no file, but in an archive to the entry of a directory.
* `ExtensionFiles_proofs`, of unpacking: `DescriptorsAreSound` and `FilesAreKept`, for any
  number of processes, entries, texts and names. The property alone is not inductive:
  a write could hit a file that somebody reads. The invariant adds that nothing is
  mapped to the file that a process writes (`WriterAlone`), which rests on a
  mapped file being held by a running process (`MappedComplete`) and on
  `CREATE_ALWAYS` failing for a file that is held; and what a process between two
  steps has in hand (`JobInHand`).
* `ExtensionFiles_proofs`, of libraries: `StoreIsSound`, `StoredIsLive` and
  `HandlesOfNamesStay` under
  `AcyclicWorlds`: there is a rank that falls from each library to its imports. The
  induction is over the stack: each mapping in progress is of a library that the one
  below it still needs, so ranks fall along the stack (`ChainOK`), so what the
  top one asks for is none of those in progress, and nobody stores a name for
  which a mapping will store another handle later (`FrameOK`).
* `Environment_proofs`, of proxies: `LeaksBoundWrites` and `LifecycleIsHidden`, for any
  tables, functions and keys, the second under the conditions that are part of the property.
  The invariant says of each kind of value that is held what it can lead to (`Safe`): a raw
  table is one that leaks or lies in one (`Leaked`), and a function that is not bound is
  one that can be called without its result being wrapped (`Unwrapped`).
* `Environment_proofs`, of `require`: `OneObjectForAll`, for any files, scripts and spellings.
  `RequireInv` ties each script on the stack to the one below it, which requires it, so that
  a file that is on the stack twice is one that requires itself by way of others; what
  `LOADED` has of a file that does not was put there when its script had returned, and
  once.
* `Environment_proofs`, of the console: `SnippetsAreAnswered`, from what lies on the Lua stack
  at each place of the loop as long as the threads have not met (`ConsoleInv`).
* `LuaData_proofs`, of the cache: `CacheTypeCorrect` and `AnswersMatch`. A retrieved address
  is one from which the scan stopped right there, whatever the cache contained; an error
  comes from a scan of all there is, or from a cache that is a text.
* `LuaData_proofs`, of captures: `CapturesAreTheirs`, for any target. `ParseInv` ties what
  the parser has after `i` tokens to the target: the length of the pattern is the number of
  bytes up to `i`, and each group, but the one that is open, lies where the bytes between its
  parentheses lie (`IsClosed`); `ResultInv` says that results are read of a target that was
  parsed to its end, one group after the other. Both count places of the target, with the
  lemmas on counting in `NumberInduction`.
* `LuaData_proofs`, of user data: `VersionsNeverGoBack`: a write in progress is of the version
  last asked for and finds a torn file, and an extension with the file open in its own hands
  counts as one that wants nothing. `UserDataComesFirst`: userdata's callback is the first of
  the list, so that `INITIALIZED` holds from the first one that is fired (`HookInv`).
* `CodeInjection_proofs`: for any game, sites, tables and heap. `BlocksLieApart`: what
  `core.compile` returns has the length that `calculateCodeSize` said, each block ends
  where the next one begins, and the heap begins behind them. `OnlyPatches`: nothing of the
  game is written but patches, if each is as wide as a jump (`WidePatches`). `BlocksKept`
  and `AssemblyStays`: blocks and assembled scripts are not written again, if also no
  script is longer at its block than at 0 (`NoLonger`). The code checks neither condition;
  without them the statements are false (`assembly`, section 6), and `AssemblyStays` is
  what the finding of `assembly` leaves: a script that gets longer is the only way
  to lose one.
* `CodeInjection_proofs`, of what the game runs: `HooksDoWhatTheySay`, under `Contracts`.
  These are what callers keep to and no code checks: patches are as wide as a jump and do
  not overlap, the code does not return to a site, the heap is more than a byte's distance
  from each site (`JumpTo` would be shorter than it is read), and in a table
  numbers and bytes spell neither a jump nor a call but a jump to a label behind it
  (`WellSpelt`). The argument has four parts.
  * What a table means, up to each element, is a recursive function (`Meanings`); the
    original bytes that `insertCode` puts before or after a table stand before or after
    what it means (`HookCodeMeans`).
  * What `compile` returns lies in the block element by element (`EmitInCompile`), and
    running the bytes of an element takes the game from what the table means up to it to
    what it means up to the next one (`ElementRuns`): where a jump is under way, the
    game is at the label already.
  * So a hook whose block holds its code and whose two jumps are at their places does what
    its table means, and ends at the return address (`HookExecutes`).
  * The invariant `Injected` says that every established hook is such a hook, and what
    the call that runs has in its table (`Underway`) by the place it has come to. It is
    kept as only calls for a site write its patch (`GameStep`), and nobody writes the
    block of a hook (`HookKept`).

Where a proof needs an induction over numbers or over the elements of a sequence, the
step is stated as membership in a set (`NumberInduction`: `LeastNumber`, `UpTo`, and
`FoldExists` and `RecursionExists` for functions that are defined by recursion), which
is in reach of the provers.

Assumptions on constants are `InstallableAssumption` (the shape of slots),
`TempAssumption` (`None` is no process, entry, text or name; an entry is no text),
`StoreAssumption` (zipped modules are modules, the shape of worlds),
`ListingAssumption` (places are paths, finitely many, each with the directory it is in),
`MatcherAssumption` (a version has one to three parts, of digits),
`StartupAssumption` (kinds and names of what is installed, and of sections; a load order
is a finite list), `InjectionAssumption` and `SourceAssumption` (patches lie in the game, the
heap behind it; a table is a sequence of the kinds of elements that `core.compile` knows),
`ConsoleAssumption`, `RequireAssumption`, `ProxiesAssumption`, `ExtractAssumption`,
`CacheAssumption` and `UserDataAssumption` (values that stand for nothing are no values;
bounds are numbers). Conditions under which single theorems hold are
`AcyclicWorlds`, `WidePatches`, `NoLonger` and `Contracts`, where stated.

Only model-checked:

* liveness (`AcyclicReturns`, `GameStarts`, `LoadsReturn`, `EarlyCallbacksFire`): the prover
  has no rule for fairness here;
* `ReadsBackTheSame`, `OptionsAreResolved` and `AcceptedConfigsLoad`: documents are nested to any
  depth, and `Yaml` and `ConfigLoading` walk them with RECURSIVE operators. What these compute
  for every document is an induction over the data, and the prover has no backend for
  arithmetic in a module with such an operator.

## 6. Where code and text differ

Seven runs show a difference; each has an entry under "findings" in `PROJECT.json`:

* `shared_table`: a table passed to `core.insertCode` twice runs the overwritten
  bytes of the first site at the second one (`core.lua:604`): they are inserted into
  the caller's own table. `fixes/threading.lua` passes one table to two calls with
  `"after"`.
* `assembly`: `allocateAssembly` gets a block of the size its script has at address 0
  (`core.lua:661`); a script that is longer at its real address overruns it, and the
  next block lies over its end.
* `captures`: `AOBExtract` raises an error after it has found a target that has no
  groups, or whose first group is one of bytes (`utils.lua:440`).
* `lua_modules`: a second library with a Lua module of the same name gets that of the
  first (`LuaLoadLibraryRaw.cpp:101`).
* `plugin_folder`: a plugin's path is answered from the module of the same name and version
  once that was opened (`ModuleManager.h:223`; both maps are keyed without the folder);
  `content/README.md:27` says that the files of plugins live in their own folder.
* `names`: a file of a version that was not loaded makes the look-up by name answer with
  that version (`ModuleManager.h:65`), although its comment (line 59) relies on
  one version being loaded.
* `proxy_keys`: a table that is a key comes out of `pairs()` over a proxy as it is
  (`proxies.lua:86`), as do tables returned by functions that are not the handle's own;
  it can be written, though line 73 says that no value may be set.

Other differences between the code and its documentation, found while modelling.
The models have them as they are in the code; no run is made for them.

Extensions and libraries:

* In secure mode a module is not entered in the map that look-ups by name search
  (`ModuleManager.h:217`); `module_utils.cpp:8` lets later extensions reference
  earlier ones in general.
* Secure mode opens what it verified by its path again (`ModuleManager.h:205`, `:214`); what
  is put there in between is opened. `SecureModulesVerified` names the exception.
* A module and a plugin of one name share one section of the final config, that of the
  plugin, and one of another version than the last one matched is enabled without options
  (`main.lua:146`, `:169`).
* The scan for versioned code archives keeps the major version for the name
  (`ModuleManager.h:258`; line 243 has the pattern with the name in front), so no
  versioned archive is ever chosen by its name.
* The store is keyed by the file name of a library, as Windows is: two modules that ship
  one of the same name share the first one, though `core.lua:672` documents a path.
* `LibraryStore.h:217` is marked "We should never get here"; the branch is reached
  with a handle that was returned at line 260 without being stored.
* The depth that limits the look-up in a zip (`LibraryStore.h:233`, message in
  line 255) counts the unknown imports of one library, not the nesting.
* Folders and archives answer differently for an empty file (the contents from a
  folder are an error), for a buffer that is too small (a folder reads the first part) and
  for upper and lower case. A directory that has an entry of its own in an archive is answered
  as an empty file if its path ends with a slash (`TempFileExtensionHandle.h:41`, `:107`).
* A function called through an `ExtensionProxy` loses its first argument and all results
  but the first; the length of such a proxy, and going through it, see an empty table;
  `__ipairs` and `__next` are not metamethods of Lua 5.4.

Config and versions:

* Parts of versions are compared as text (`version/init.lua`): `1.10.1` is older
  than `1.2.1`, and parts that are there on one side only raise an error.
* The digest of the config (`data/version.lua:42`) looks at a field `active` that the
  options of extensions do not have: it is the same for almost all configs, though line
  50 wants it for "easy verification for multiplayer".
* An unquoted and a quoted number are one to the parser: a text `"1.10"` becomes 1.1.
* `validateUserConfig` raises (`config/init.lua:94`) where `meta` is a scalar, instead of
  complaining.

Start, game and data:

* `main.lua` is still called after a compilation that failed; a later call of
  `ucp_initialize` throws, as its options exist already; the question for the
  user's consent cannot be reached in a compiled build.
* A cache that was torn makes every later start fail (`data/cache.lua:18`). One that was cut
  inside its first line loads as a text (`LuaYamlParser.cpp:177`), and then each search raises
  where it is to remember what it found (`data/cache.lua:38`).
* `open` of an interface reaches `meta.json` (`data/userdata.lua:157`), so an extension can
  write over the version that the interface keeps there.
* A patch size below five is overwritten by the five bytes of the jump
  (`core.lua:626`); line 593 calls it the number of bytes to overwrite.
* `core.scanForAOB` is documented to return 0 where nothing is found; its callers take nil.
* `interface.version` is a copy from when the interface was made
  (`data/userdata.lua:147`, "the last known file format version").
* The help of the console lists `luaStackSize`, the command is `.luaStackSize`; an
  error object that is no text, or a value whose `__tostring` raises, ends the process.

## 7. Abstractions

* Names, patterns and paths are values or sequences of parts; splitting text is left
  out. A version is a number in the order of the map's keys in `ExtensionHandles`
  and `Startup`, and texts of digits in `ExtensionMatcher`.
* A section of the config is its origin (kind and name) in `Startup`, whose properties
  ask only *whose* options arrive; its values are in `ConfigLoading`.
* A scalar of YAML is one of some texts for each type; a double is the text it is
  written as.
* A 4-byte integer in memory is its value and the four places of its bytes;
  distances are not wrapped at 32 bits, as both sides of an addition are. A script for
  the assembler is its size at address 0 and at its block.
* The contents of files are which entry they are, nothing, or a part of it; in a reading
  their length. A file to verify is what is wrong with its signature and whether the
  store lists it.
* Logging is left out except that a FATAL message may end the process.
* What a script does is left out except that it may raise, open files, scan,
  patch, register callbacks and require.
* External: Windows' loader, crypto API and file system, MemoryModule, the zip library,
  yaml-cpp, fasm, the disk, the executable.

## 8. Not modelled, and what is left

Not modelled:

* JSON and logging bridges, debugging helpers, installer, scripts, vendored Lua: no
  state of their own that another part relies on, or third-party code.
* `ZipFileExtensionHandle.h` and `ZipFileModuleHandle.h`: never instantiated
  (`ModuleManager.h:7` names the classes that are).
* What nothing calls: `config/merger.lua`, `loadDefaultConfig`, the load orders over
  default configs (`main.lua:181` keeps them for later), the verifying functions of
  `extensions/loader.lua`, `environment.lua:91-140` with its restricted `io`,
  `extensions/globber.lua`, `versionToInt`.
* `binkw32-hijack` and the exports of `ucp3.cpp` beyond the look-ups: they forward.
* `data/structures.lua` and the rest of `utils.lua`: accessors and conversions.
* Detours, `hookCode` and the allocator: they are in RuntimePatchingSystem, a submodule
  whose directory is empty here.
* The environment variables and the set-up of the logger in `Core::initialize`: they only
  give `hasConsole` and levels a value that the command line overwrites.

Left:

1. The console's thread and a hook that read files of one archive at once
   (`TempFileExtensionHandle.h:41`): a composition of `Console` with the open entry of
   `ExtensionListing`. `Console` has the two threads on the Lua state only.
2. Abstract specifications: a handle manager that opens each key at most once (for
   `ExtensionHandles`), a store that maps each name once (for `LibraryStore`).
