-------------------------------- MODULE Startup --------------------------------
(***************************************************************************)
(* The start of UCP3 and of the game: the detour of the game's entry point *)
(* (binkw32/dllmain.cpp), ucp_initialize (ucp3.cpp) and Core::initialize   *)
(* (core/Core.cpp), which decide by the build and the command line whether *)
(* files are verified, around the bootstrap script main.lua, which matches *)
(* the load order of the user's config against the installed extensions,   *)
(* loads each of them and then enables each of them.                       *)
(*                                                                         *)
(* A requirement of the load order is a name and a version, compared for   *)
(* equality.  An installed extension is a kind ("module" or "plugin"), a   *)
(* name and a version.  A section is the part of the user's config that    *)
(* holds the options of one extension: a kind and a name.                  *)
(*                                                                         *)
(* A message logged with level FATAL ends the process where the logging    *)
(* library is built to abort on it; the code after such a call goes on     *)
(* otherwise.  The library is not part of the repository: both happen here.*)
(***************************************************************************)
EXTENDS Naturals, Sequences, FiniteSets, Verification

CONSTANTS
  Names,          \* the names extensions can have
  Inputs,         \* what the disk and the user's config may say
  Hosts           \* how UCP3 was built, started and installed

Kinds == {"module", "plugin"}

ASSUME StartupAssumption ==
  /\ \A c \in Inputs :
       /\ \A e \in c.installed : e.kind \in Kinds /\ e.name \in Names
       /\ c.sections \subseteq Kinds \X Names
       /\ Len(c.order) \in Nat /\ DOMAIN c.order = 1..Len(c.order)
  /\ \A h \in Hosts : h.compiled \in BOOLEAN /\ h.debug \in BOOLEAN

VARIABLES
  host,           \* [compiled, debug, args, store, code]: see Hosts in the MC module
  input,          \* [installed, active, order, sections, files]: disk and config
  mode,           \* Core's secureMode, hasConsole and interactiveConsole
  isInitialized,  \* Core::isInitialized
  console,        \* the interactive console thread runs
  game,           \* the game's own entry point was reached
  pc,             \* where the start is
  i,              \* the index of its current loop
  found,          \* extensionsInLoadOrder
  loaders,        \* extensionLoaders: name -> extension
  aliases,        \* Core::aliasedPaths: <<kind, name>> -> version
  joined,         \* joinedUserConfig: <<name, ver>> -> section it came from
  sees,           \* position -> the proxies its script saw when it was run
  proxies,        \* moduleProxies and pluginProxies: <<kind, name>>
  enabled,        \* position -> the section enable() was called with
  cached          \* dumpToFile has written the AOB cache

world    == <<host, input>>
core     == <<mode, isInitialized, console, game>>
dll      == <<core, check>>
control  == <<pc, i>>
matching == <<found, loaders, aliases>>
running  == <<sees, proxies, enabled, cached>>
vars     == <<world, dll, control, matching, joined, running>>

-----------------------------------------------------------------------------
Id(e) == <<e.kind, e.name>>

NoSection == <<"none", "none">>

With(f, k, v) == [x \in DOMAIN f \cup {k} |-> IF x = k THEN v ELSE f[x]]

\* The start is before the script, the script runs, or the start has ended.
Before  == {"loading", "entry", "options", "store", "lua", "code"}
Working == {"fixes", "config", "match", "join", "write", "load", "enable", "finish"}
Failed  == {"error", "missing"}
Ended   == {"done", "inactive", "thrown", "died"} \cup Failed

Release == host.compiled /\ ~host.debug

Init ==
  /\ host \in Hosts
  /\ input \in Inputs
  /\ mode = [secure |-> host.compiled, hasConsole |-> FALSE, interactive |-> ~Release]
  /\ isInitialized = FALSE /\ console = FALSE /\ game = FALSE
  /\ check = Unchecked
  /\ pc = "loading" /\ i = 1
  /\ found = << >> /\ loaders = << >> /\ aliases = << >>
  /\ joined = << >>
  /\ sees = << >> /\ proxies = {} /\ enabled = << >> /\ cached = FALSE

-----------------------------------------------------------------------------
(* The DLL.                                                                  *)

script == <<matching, joined, running>>

\* DllMain points the call at the entry point of the executable to the detour.
Detour ==
  /\ pc = "loading" /\ pc' = "entry"
  /\ UNCHANGED <<world, dll, i, script>>

\* The detour calls ucp_initialize, which makes the Core.  Its constructor throws
\* a char pointer when there is no folder for application data: nobody catches it.
MakeCore ==
  /\ pc = "entry" /\ pc' \in {"options", "died"}
  /\ UNCHANGED <<world, dll, i, script>>

Idle   == check.doing = "nothing" /\ check.verdict = "none"
Judged == check.doing = "nothing" /\ check.verdict # "none"

Forgotten == [Unchecked EXCEPT !.held = check.held]

Given(option) == option \in host.args

\* Mutant: either of the two options opens the console to scripts.
AnySecurityOption ==
  [secure      |-> IF Given("no-security") # Given("security") THEN Given("security") ELSE mode.secure,
   hasConsole  |-> IF Release THEN Given("console") /\ ~Given("no-console") ELSE ~Given("no-console"),
   interactive |-> mode.interactive \/ Given("no-security") \/ Given("security")]

\* The options of the command line overwrite what the environment said of the
\* console; of the two options for the security one counts, both do not.
ParsedOptions ==
  [secure      |-> IF Given("no-security") # Given("security") THEN Given("security") ELSE mode.secure,
   hasConsole  |-> IF Release THEN Given("console") /\ ~Given("no-console") ELSE ~Given("no-console"),
   interactive |-> IF Given("no-security") # Given("security") THEN Given("no-security") ELSE mode.interactive]

\* Core::initialize up to the console.  Arguments that cannot be parsed throw.
ProcessArguments ==
  /\ pc = "options"
  /\ \/ ~Given("unparsable") /\ mode' = ParsedOptions /\ pc' = "store"
     \/ Given("unparsable") /\ UNCHANGED mode /\ pc' = "thrown"
  /\ UNCHANGED <<world, isInitialized, console, game, check, i, script>>

\* Mutant: the store is read whatever became of its verification.
OpenStoreAnyway ==
  /\ pc = "store"
  /\ IF mode.secure /\ Idle
     THEN check' = VerifyFile(host.store) /\ UNCHANGED pc
     ELSE /\ ~mode.secure \/ Judged
          /\ check' = Forgotten
          /\ pc' = IF mode.secure /\ ~host.store.readable THEN "thrown" ELSE "lua"
  /\ UNCHANGED <<world, core, i, script>>

\* The constructor of the store: in secure mode the file is verified and has to be
\* a map with a sequence of extensions; whatever is wrong with it is thrown.
OpenStore ==
  /\ pc = "store"
  /\ IF mode.secure /\ Idle
     THEN check' = VerifyFile(host.store) /\ UNCHANGED pc
     ELSE /\ ~mode.secure \/ Judged
          /\ check' = Forgotten
          /\ pc' = IF ~mode.secure \/ (check.verdict = "accepted" /\ host.store.readable)
                   THEN "lua" ELSE "thrown"
  /\ UNCHANGED <<world, core, i, script>>

\* The folder for temporary files, whose creation is where the file system may
\* throw; other errors of it are only shown.  Then the Lua state, with the
\* functions scripts call.
InitializeLua ==
  /\ pc = "lua" /\ pc' \in {"code", "thrown"}
  /\ UNCHANGED <<world, dll, i, script>>

\* getLatestCodeHandle in secure mode: the archive of the code is hashed, or there
\* is none.
VerifyCode ==
  /\ pc = "code" /\ mode.secure /\ Idle
  /\ \/ host.code.zip /\ check' = Begun("hash") /\ UNCHANGED pc
     \/ ~host.code.zip /\ pc' = "missing" /\ UNCHANGED check
  /\ UNCHANGED <<world, core, i, script>>

\* executeLuaMain: main.lua is fetched through the code handle and run; or it is
\* missing, empty or does not compile, or its archive is refused.
RunMain ==
  /\ pc = "code"
  /\ mode.secure => Judged
  /\ pc' \in IF mode.secure /\ check.verdict # "accepted" THEN {"missing"} ELSE {"fixes", "missing"}
  /\ check' = Forgotten
  /\ UNCHANGED <<world, core, i, script>>

\* The thread is started if there is to be a console, which may fail.
StartConsoleThread == console' \in {FALSE, mode.hasConsole /\ mode.interactive}

\* After main.lua, however it ended.
FinishInitialize ==
  /\ pc \in Ended \ {"died", "thrown"} /\ ~isInitialized
  /\ StartConsoleThread
  /\ isInitialized' = TRUE
  /\ UNCHANGED <<world, mode, game, check, control, script>>

\* Mutant: the game is only started by an initialization that came to its end.
StartInitialized ==
  /\ ~game /\ isInitialized
  /\ game' = TRUE
  /\ UNCHANGED <<world, mode, isInitialized, console, check, control, script>>

\* ucp_initialize has returned, also from what it caught, and the detour jumps to
\* the game's own entry point.  A later call of ucp_initialize gets nowhere: it
\* says that the core is initialized, or throws as the options are there already.
StartGame ==
  /\ ~game /\ (isInitialized \/ pc = "thrown")
  /\ game' = TRUE
  /\ UNCHANGED <<world, mode, isInitialized, console, check, control, script>>

-----------------------------------------------------------------------------
(* main.lua.                                                                 *)

Goto(l) == pc' = l /\ i' = 1

\* A Lua error ends the script on the spot: in the script itself, in extension
\* code it runs or in a function it calls.
Raise ==
  /\ pc' = "error"
  /\ UNCHANGED <<world, dll, i, matching, joined, running>>

ScriptRaises == pc \in Working /\ check.doing = "nothing" /\ Raise

\* fixes.applyAll, data.version.initialize and the AOB cache.
ApplyFixes ==
  /\ pc = "fixes"
  /\ Goto("config")
  /\ UNCHANGED <<world, dll, matching, joined, running>>

\* The user's config and the folder listings.  Without 'load-order' there is
\* nothing to match.
ReadConfig ==
  /\ pc = "config"
  /\ Goto(IF input.active THEN "match" ELSE "inactive")
  /\ UNCHANGED <<world, dll, matching, joined, running>>

Req == input.order[i]

\* findPreMatchForExtensionRequirement, on the modules and then on the plugins.
Matches(req) ==
  LET of(kind) == {e \in input.installed :
                     e.kind = kind /\ e.name = req.name /\ e.ver = req.ver}
  IN  IF of("module") # {} THEN of("module") ELSE of("plugin")

\* Mutant: a second extension of a kind and name is accepted.
MatchAgain ==
  /\ pc = "match" /\ i <= Len(input.order)
  /\ \E e \in Matches(Req) :
       /\ aliases' = With(aliases, Id(e), e.ver)
       /\ loaders' = With(loaders, e.name, e)
       /\ found' = Append(found, e)
  /\ i' = i + 1
  /\ UNCHANGED <<world, dll, pc, joined, running>>

\* A match gets a loader and the aliases of its name.
Match ==
  /\ pc = "match" /\ i <= Len(input.order)
  /\ \E e \in Matches(Req) :
       /\ Id(e) \notin DOMAIN aliases
       /\ aliases' = With(aliases, Id(e), e.ver)
       /\ loaders' = With(loaders, e.name, e)
       /\ found' = Append(found, e)
  /\ i' = i + 1
  /\ UNCHANGED <<world, dll, pc, joined, running>>

\* registerPathAlias refuses a second extension of the kind and name.
MatchTwice ==
  /\ pc = "match" /\ i <= Len(input.order)
  /\ \E e \in Matches(Req) : Id(e) \in DOMAIN aliases
  /\ Raise

\* Nothing matches: FATAL is logged and the loop goes on without it.
MatchNone ==
  /\ pc = "match" /\ i <= Len(input.order)
  /\ Matches(Req) = {}
  /\ i' = i + 1
  /\ UNCHANGED <<world, dll, pc, matching, joined, running>>

MatchDone ==
  /\ pc = "match" /\ i > Len(input.order)
  /\ Goto("join")
  /\ UNCHANGED <<world, dll, matching, joined, running>>

\* The sections are keyed by their name and by the version of the LOADER of that
\* name.
SectionKey(s) == <<s[2], loaders[s[2]].ver>>

\* Mutant: the sections of the plugins replace those of the modules.
JoinPluginsOnly ==
  /\ pc = "join"
  /\ \A s \in input.sections : s[2] \in DOMAIN loaders
  /\ joined' =
       [k \in {SectionKey(s) : s \in {t \in input.sections : t[1] = "plugin"}} |->
          CHOOSE s \in input.sections : s[1] = "plugin" /\ SectionKey(s) = k]
  /\ Goto("write")
  /\ UNCHANGED <<world, dll, matching, running>>

\* The sections of the plugins come last and overwrite.
JoinConfig ==
  /\ pc = "join"
  /\ \A s \in input.sections : s[2] \in DOMAIN loaders
  /\ joined' =
       [k \in {SectionKey(s) : s \in input.sections} |->
          CHOOSE s \in input.sections :
            /\ SectionKey(s) = k
            /\ \A t \in input.sections : SectionKey(t) = k => t = s \/ s[1] = "plugin"]
  /\ Goto("write")
  /\ UNCHANGED <<world, dll, matching, running>>

\* A section for an extension without a loader indexes nil.
JoinFails ==
  /\ pc = "join"
  /\ \E s \in input.sections : s[2] \notin DOMAIN loaders
  /\ Raise

\* normalizeContentsValues, the final-config file and the menu version.
WriteConfig ==
  /\ pc = "write"
  /\ Goto("load")
  /\ UNCHANGED <<world, dll, matching, joined, running>>

\* The first file that is opened of a module in secure mode has its archive
\* verified.
VerifyModule ==
  /\ pc = "load" /\ i <= Len(found) /\ Idle
  /\ mode.secure /\ found[i].kind = "module"
  /\ check' = Begun("hash")
  /\ UNCHANGED <<world, core, control, script>>

\* init.lua of a module that is refused cannot be opened, which raises.
LoadRefused ==
  /\ pc = "load" /\ check.verdict \in {"refused", "raised"}
  /\ pc' = "error" /\ check' = Forgotten
  /\ UNCHANGED <<world, core, i, script>>

\* Is the archive of e open, or is there nothing to verify?
May(e) == ~mode.secure \/ e.kind = "plugin" \/ check.verdict = "accepted"

\* Mutant: the proxy is published before the script runs.
PublishThenRun ==
  /\ pc = "load" /\ i <= Len(found) /\ May(found[i])
  /\ check' = Forgotten
  /\ sees' = Append(sees, proxies \cup {Id(found[i])})
  /\ proxies' = proxies \cup {Id(found[i])}
  /\ i' = i + 1
  /\ UNCHANGED <<world, core, pc, matching, joined, enabled, cached>>

\* Mutant: one loop loads and enables.
LoadAndEnable ==
  /\ pc = "load" /\ i <= Len(found) /\ May(found[i])
  /\ check' = Forgotten
  /\ sees' = Append(sees, proxies)
  /\ proxies' = proxies \cup {Id(found[i])}
  /\ enabled' = Append(enabled, NoSection)
  /\ i' = i + 1
  /\ UNCHANGED <<world, core, pc, matching, joined, cached>>

\* One turn of the load loop: the environment is made, init.lua is run, and the
\* proxies for those that come later are published.
Load ==
  /\ pc = "load" /\ i <= Len(found) /\ May(found[i])
  /\ check' = Forgotten
  /\ sees' = Append(sees, proxies)
  /\ proxies' = proxies \cup {Id(found[i])}
  /\ i' = i + 1
  /\ UNCHANGED <<world, core, pc, matching, joined, enabled, cached>>

LoadDone ==
  /\ pc = "load" /\ i > Len(found)
  /\ Goto("enable")
  /\ UNCHANGED <<world, dll, matching, joined, running>>

\* configFinal[name-version] or {}
Options(e) ==
  IF <<e.name, e.ver>> \in DOMAIN joined THEN joined[<<e.name, e.ver>>] ELSE NoSection

Enable ==
  /\ pc = "enable" /\ i <= Len(found)
  /\ enabled' = Append(enabled, Options(found[i]))
  /\ i' = i + 1
  /\ UNCHANGED <<world, dll, pc, matching, joined, sees, proxies, cached>>

EnableDone ==
  /\ pc = "enable" /\ i > Len(found)
  /\ Goto("finish")
  /\ UNCHANGED <<world, dll, matching, joined, running>>

\* dev.lua is run under pcall; then the AOB cache is dumped, or its file cannot
\* be opened, which is only logged.
Finish ==
  /\ pc = "finish"
  /\ cached' \in BOOLEAN
  /\ Goto("done")
  /\ UNCHANGED <<world, dll, matching, joined, sees, proxies, enabled>>

\* What is verified: the store, the code or the module that is loaded next.
Subject == CASE pc = "store" -> host.store [] pc = "code" -> host.code [] OTHER -> input.files[found[i]]

Verify ==
  /\ ~Idle /\ Verifying(Subject)
  /\ UNCHANGED <<world, core, control, script>>

\* FATAL was logged and the process is gone.
Die ==
  /\ \/ pc \in Failed /\ ~isInitialized
     \/ pc = "match" /\ i <= Len(input.order) /\ Matches(Req) = {}
  /\ pc' = "died"
  /\ UNCHANGED <<world, dll, i, matching, joined, running>>

Main ==
  \/ ApplyFixes \/ ReadConfig
  \/ Match \/ MatchTwice \/ MatchNone \/ MatchDone
  \/ JoinConfig \/ JoinFails \/ WriteConfig
  \/ VerifyModule \/ LoadRefused \/ Load \/ LoadDone \/ Enable \/ EnableDone \/ Finish
  \/ ScriptRaises

Dll ==
  \/ Detour \/ MakeCore \/ ProcessArguments \/ OpenStore \/ InitializeLua \/ VerifyCode
  \/ RunMain \/ Verify \/ FinishInitialize \/ StartGame

Next == Dll \/ Main \/ Die

\* One thread does all of this, from the loading of the executable to the jump to
\* the game's entry point, provided the extension code it calls returns.
Fairness == WF_vars(Dll) /\ WF_vars(Main)

Spec == Init /\ [][Next]_vars /\ Fairness

-----------------------------------------------------------------------------
IsMap(f, S, T) == DOMAIN f \subseteq S /\ \A k \in DOMAIN f : f[k] \in T

TypeOK ==
  /\ host \in Hosts /\ input \in Inputs
  /\ DOMAIN mode = {"secure", "hasConsole", "interactive"} /\ \A f \in DOMAIN mode : mode[f] \in BOOLEAN
  /\ isInitialized \in BOOLEAN /\ console \in BOOLEAN /\ game \in BOOLEAN
  /\ pc \in Before \cup Working \cup Ended
  /\ i \in Nat
  /\ found \in Seq(input.installed)
  /\ IsMap(loaders, Names, input.installed)
  /\ DOMAIN aliases \subseteq Kinds \X Names
  /\ \A k \in DOMAIN joined : joined[k] \in input.sections
  /\ sees \in Seq(SUBSET (Kinds \X Names))
  /\ proxies \subseteq Kinds \X Names
  /\ enabled \in Seq(input.sections \cup {NoSection})
  /\ cached \in BOOLEAN

\* The extensions are loaded and enabled in the order the user's config gives,
\* each at most once, and what is left out is exactly what is not installed.
FollowsLoadOrder ==
  LET wanted == {p \in DOMAIN input.order : Matches(input.order[p]) # {}} IN
  /\ \A n \in DOMAIN found : \E p \in wanted :
       Cardinality({q \in wanted : q <= p}) = n /\ found[n] \in Matches(input.order[p])
  /\ \A n, m \in DOMAIN found : n # m => Id(found[n]) # Id(found[m])
  /\ pc \in {"load", "enable", "finish", "done"} => Len(found) = Cardinality(wanted)

\* When its script runs, an extension sees a proxy of each extension before it in
\* the load order, and of no other ("plugins can call functions that modules
\* provide through lua" needs the module first).
SeesTheEarlier ==
  \A n \in DOMAIN sees : sees[n] = {Id(found[m]) : m \in 1..(n - 1)}

\* The extension at m is the last one matched that has the name of the one at n.
Latest(n, m) ==
  /\ found[m].name = found[n].name
  /\ \A l \in DOMAIN found : l > m => found[l].name # found[n].name

SectionOf(name) ==
  IF <<"plugin", name>> \in input.sections THEN <<"plugin", name>>
  ELSE IF <<"module", name>> \in input.sections THEN <<"module", name>> ELSE NoSection

\* Every extension is enabled with the options of the section of its name, or with
\* none when the config has no section for it: never with those of another name.  A
\* module and a plugin of one name share what there is.  The section of the plugin
\* replaces that of the module, and it is given to the extensions that have the
\* version of the one matched last; one of another version is left without options.
OwnSection ==
  \A n \in DOMAIN enabled, m \in DOMAIN found :
    Latest(n, m) =>
      enabled[n] = IF found[n].ver = found[m].ver THEN SectionOf(found[n].name) ELSE NoSection

\* The console thread shares the Lua state with main.lua and takes no lock: it
\* does not exist before main.lua has ended.  Nor does it where it was switched
\* off; in a released build it takes the option for it and security switched off.
ConsoleOnlyWhereAllowed ==
  console =>
    /\ pc \in Ended /\ isInitialized
    /\ ~Given("no-console")
    /\ Release => Given("console") /\ Given("no-security") /\ ~mode.secure

\* In secure mode, which a released build leaves only when told to, the script is
\* run with a store whose signature is that of its bytes, from an archive that the
\* store lists or that is signed, and so is every module that was loaded; however
\* the calls of the crypto API went.
OnlyVerifiedCodeRuns ==
  LET ran == pc \in Working \cup {"done", "inactive", "error"} IN
  /\ ran /\ (IF Given("no-security") # Given("security") THEN Given("security") ELSE host.compiled)
       => mode.secure
  /\ ran /\ mode.secure =>
       /\ host.store.sig = "genuine" /\ Vouched(host.code)
       /\ \A n \in DOMAIN sees : found[n].kind = "module" => Vouched(input.files[found[n]])

\* However a verification ends, nothing of the crypto API stays acquired.
NothingHeld == check.doing = "nothing" => check.held = {}

\* Whatever goes wrong in UCP3, the game itself starts in the end, unless the
\* process died of it.
GameStarts == <>(game \/ pc = "died")

\* Nothing of the bootstrap moves once it has ended.
Over == pc \in Ended

Life(e) ==
  LET at(s) == \E n \in DOMAIN s : Id(found[n]) = e IN
  IF at(enabled) THEN "enabled"
  ELSE IF at(sees) THEN "loaded"
  ELSE IF at(found) THEN "matched" ELSE "absent"

Lifecycle == INSTANCE ExtensionLifecycle WITH
  Extensions <- Kinds \X Names,
  life <- [e \in Kinds \X Names |-> Life(e)],
  over <- Over

\* The bootstrap takes every extension through the stages it promises.
ImplementsLifecycle == Lifecycle!Spec
=============================================================================
