--------------------------- MODULE ExtensionHandles ---------------------------
(***************************************************************************)
(* How the DLL turns a virtual path into an extension handle: the          *)
(* ModuleHandleManager singleton (io/modules/ModuleManager.h), the path    *)
(* routers in front of it (core/Core-path.cpp, io/files.cpp,               *)
(* io/modules/module_utils.cpp, lua/LuaCustomOpenFile.cpp, ...) and the    *)
(* look-ups by bare extension name of the exported API (ucp3.cpp).         *)
(*                                                                         *)
(* A slot is a place under the UCP directory where an extension can be:    *)
(* modules/<name>-<ver>, plugins/<name>-<ver> or code.  The manager keys   *)
(* its maps by <name>-<ver> alone.  A handle is its index in heap.         *)
(***************************************************************************)
EXTENDS Naturals, Sequences, FiniteSets

CONSTANTS
  Installable,   \* the slots of extensions something may be installed in
  NoVer,         \* the version of a path that names none ("ucp/modules/x/...")
  MaxChanges     \* bound on changes of the disk while the game runs

VARIABLES
  secureMode,          \* Core::secureMode, fixed before the first handle
  installed,           \* slot -> what is on disk there
  strayCode,           \* some code-x.y.z.zip lies beside the code folder
  aliases,             \* Core::aliasedPaths: <<folder, name>> -> version
  heap,                \* the handles ever constructed
  moduleHandles,       \* key -> handle
  moduleHandleErrors,  \* the keys whose failure is remembered
  extensionHandles,    \* key -> handle
  codeHandle,          \* a handle or Null
  call,                \* the get...Handle call in progress, by where it is
  changes              \* how often the disk changed

maps == <<moduleHandles, moduleHandleErrors, extensionHandles, codeHandle, heap>>
handleVars == <<secureMode, installed, strayCode, aliases, maps, call, changes>>

-----------------------------------------------------------------------------
Null == 0

\* An archive is listed in the store, has a signature beside it, has neither,
\* or cannot be read as a zip either.
Zips == {"none", "listed", "signed", "unvouched", "broken"}
Vouched == {"listed", "signed"}

DiskForms == [zip : Zips, folder : BOOLEAN]
Absent == [zip |-> "none", folder |-> FALSE]

\* The code folder, and what the scan for versioned code archives makes of one.
CodeSlot  == [folder |-> "ucp", name |-> "code", ver |-> NoVer]
StraySlot == [folder |-> "ucp", name |-> "major", ver |-> NoVer]

Slots == Installable \cup {CodeSlot}

\* A versionless path of an installed name, when no alias catches it.
Bare(s) == [s EXCEPT !.ver = NoVer]

Routed == Slots \cup {StraySlot} \cup {Bare(s) : s \in Slots}

Key(s) == <<s.name, s.ver>>

Keys == {Key(s) : s \in Routed}

Content(s) == IF s \in Slots THEN installed[s] ELSE Absent

Put(f, k, v) == [x \in DOMAIN f \cup {k} |-> IF x = k THEN v ELSE f[x]]

Idle == [at |-> "idle"]

ASSUME InstallableAssumption ==
  /\ \A s \in Installable :
       /\ s = [folder |-> s.folder, name |-> s.name, ver |-> s.ver]
       /\ s.folder \in {"modules", "plugins"}
       /\ s.ver \in Nat
       /\ s.name \notin {CodeSlot.name, StraySlot.name}
  /\ NoVer \notin Nat
  /\ MaxChanges \in Nat

-----------------------------------------------------------------------------
HandlesInit ==
  /\ secureMode \in BOOLEAN
  /\ installed \in [Slots -> DiskForms]
  /\ strayCode \in BOOLEAN
  /\ aliases = << >>
  /\ heap = << >>
  /\ moduleHandles = << >>
  /\ moduleHandleErrors = {}
  /\ extensionHandles = << >>
  /\ codeHandle = Null
  /\ call = Idle
  /\ changes = 0

-----------------------------------------------------------------------------
(* getModuleHandle and getExtensionHandle.  A call that the maps answer, or   *)
(* that a remembered error ends, changes nothing; any other first looks what  *)
(* there is, may verify it, and then opens it, each by its path.              *)

\* Mutant: every look-up by extension constructs a handle.
MissesAlways(s, as) == as = "module" => Key(s) \notin DOMAIN moduleHandles \cup moduleHandleErrors

\* Mutant: the remembered errors are not asked.
ForgetsErrors(s, as) ==
  Key(s) \notin DOMAIN (IF as = "module" THEN moduleHandles ELSE extensionHandles)

Misses(s, as) ==
  IF as = "module" THEN Key(s) \notin DOMAIN moduleHandles \cup moduleHandleErrors
                   ELSE Key(s) \notin DOMAIN extensionHandles

\* existsAsZip and existsAsFolder are what there is now.
Look(s, as, code) ==
  /\ call = Idle /\ Misses(s, as)
  /\ call' = [at |-> "found", slot |-> s, as |-> as, code |-> code,
              zip |-> Content(s).zip # "none", folder |-> Content(s).folder,
              verified |-> "none", since |-> 0]
  /\ UNCHANGED <<secureMode, installed, strayCode, aliases, maps, changes>>

\* Every caller passes verifyContents = false to getExtensionHandle.
MustVerify == secureMode /\ call.as = "module"

\* The steps of a call; each leaves the rest alone.
RestStays == UNCHANGED <<secureMode, installed, strayCode, aliases, changes>>

\* It ends with an error, which is remembered, or with one that is not.
RememberError ==
  /\ moduleHandleErrors' = moduleHandleErrors \cup {Key(call.slot)}
  /\ call' = Idle
  /\ UNCHANGED <<moduleHandles, extensionHandles, codeHandle, heap>>

Throw == call' = Idle /\ UNCHANGED maps

\* No archive: a folder is not enough in secure mode.
NothingFound ==
  /\ call.at = "found"
  /\ \/ MustVerify /\ ~call.zip /\ RememberError
     \/ ~MustVerify /\ ~call.zip /\ ~call.folder /\ Throw
  /\ RestStays

\* Mutant: an archive that is neither listed nor signed may stay.
TrustUnlisted ==
  /\ call.at = "found" /\ MustVerify /\ call.zip
  /\ IF Content(call.slot).zip = "none" THEN Throw
     ELSE /\ call' = [call EXCEPT !.at = "verified", !.verified = Content(call.slot).zip,
                                  !.since = changes]
          /\ UNCHANGED maps
  /\ RestStays

\* verifyZipFile hashes the archive; one that has gone cannot be hashed.
HashFile ==
  /\ call.at = "found" /\ MustVerify /\ call.zip
  /\ CASE Content(call.slot).zip = "none" -> Throw
       [] Content(call.slot).zip = "listed" ->
            /\ call' = [call EXCEPT !.at = "verified", !.verified = "listed", !.since = changes]
            /\ UNCHANGED maps
       [] OTHER -> call' = [call EXCEPT !.at = "hashed"] /\ UNCHANGED maps
  /\ RestStays

\* What the store does not list needs a signature, for which it is read again.
VerifySignature ==
  /\ call.at = "hashed"
  /\ IF Content(call.slot).zip = "signed"
     THEN /\ call' = [call EXCEPT !.at = "verified", !.verified = "signed", !.since = changes]
          /\ UNCHANGED maps
     ELSE RememberError
  /\ RestStays

\* A new handle; beside it what its archive was when it was verified, what it is,
\* and how often the disk changed in between.
Construct(kind) ==
  heap' = Append(heap, [slot |-> call.slot, kind |-> kind, zip |-> Content(call.slot).zip,
                        verified |-> call.verified, between |-> changes - call.since])

\* Mutant: a module's handle does not serve look-ups by extension.
EnterOnce ==
  LET h == Len(heap) + 1 IN
  /\ moduleHandles' = IF call.as = "module" THEN Put(moduleHandles, Key(call.slot), h)
                                            ELSE moduleHandles
  /\ extensionHandles' = IF call.as = "module" THEN extensionHandles
                                               ELSE Put(extensionHandles, Key(call.slot), h)
  /\ codeHandle' = IF call.code THEN h ELSE codeHandle
  /\ call' = Idle
  /\ UNCHANGED moduleHandleErrors

\* Secure mode enters a module in moduleHandles only; otherwise its handle serves
\* for both maps, over whatever extensionHandles had for the key.
Enter ==
  LET h == Len(heap) + 1 IN
  /\ moduleHandles' = IF call.as = "module" THEN Put(moduleHandles, Key(call.slot), h)
                                            ELSE moduleHandles
  /\ extensionHandles' = IF MustVerify THEN extensionHandles
                                       ELSE Put(extensionHandles, Key(call.slot), h)
  /\ codeHandle' = IF call.code THEN h ELSE codeHandle
  /\ call' = Idle
  /\ UNCHANGED moduleHandleErrors

\* The zip is opened by its path; zip_open fails on what is no archive.
OpenZip ==
  /\ \/ call.at = "verified"
     \/ call.at = "found" /\ ~MustVerify /\ call.zip /\ ~call.folder
  /\ IF Content(call.slot).zip \in {"none", "broken"} THEN Throw
                                                     ELSE Construct("zip") /\ Enter
  /\ RestStays

\* The folder wins over the zip; its handle keeps the path only.
OpenFolder ==
  /\ call.at = "found" /\ ~MustVerify /\ call.folder
  /\ Construct("folder") /\ Enter
  /\ RestStays

GetHandle == NothingFound \/ HashFile \/ VerifySignature \/ OpenZip \/ OpenFolder

-----------------------------------------------------------------------------
(* The look-ups by bare name walk a std::map in key order and take the first *)
(* version they meet.  Versions are numbered in key order.                   *)

VersionsIn(m, name) == {k[2] : k \in {x \in DOMAIN m : x[1] = name /\ x[2] # NoVer}}

FirstOf(m, name) ==
  IF VersionsIn(m, name) = {} THEN Null
  ELSE m[<<name, CHOOSE v \in VersionsIn(m, name) : \A w \in VersionsIn(m, name) : v <= w>>]

LoadedExtensionHandle(name) == FirstOf(extensionHandles, name)

-----------------------------------------------------------------------------
(* Routing.  A path names a folder and an extension, with its version or     *)
(* without; resolveAliasedPath puts the version of a registered alias in.    *)

Resolve(s) ==
  IF s.ver = NoVer /\ <<s.folder, s.name>> \in DOMAIN aliases
  THEN [s EXCEPT !.ver = aliases[<<s.folder, s.name>>]]
  ELSE s

Route(s) == Look(s, IF s.folder = "modules" THEN "module" ELSE "extension", FALSE)

\* Any of the file, listing and library functions, on a path inside s, which
\* need not be of the version that was loaded; or on a path without a version.
OpenPath(s) == Route(s)
OpenBarePath(s) == Route(Resolve(Bare(s)))

\* main.lua registers the aliases of what it matched, without overwrite: a second
\* registration for the name raises an error instead.  Scripts may pass it.
RegisterAlias(s, overwrite) ==
  /\ call = Idle
  /\ overwrite \/ <<s.folder, s.name>> \notin DOMAIN aliases
  /\ aliases' = Put(aliases, <<s.folder, s.name>>, s.ver)
  /\ UNCHANGED <<secureMode, installed, strayCode, maps, call, changes>>

\* getLatestCodeHandle.  The entry "code" is taken by its name; of an entry
\* code-x.y.z.zip the scan keeps capture group 1, which is x.  With both there
\* the order of the directory iteration decides.
CodeChoices ==
  (IF installed[CodeSlot] # Absent THEN {CodeSlot} ELSE {})
    \cup (IF strayCode THEN {StraySlot} ELSE {})

GetLatestCodeHandle ==
  /\ codeHandle = Null
  /\ \E s \in CodeChoices : Look(s, "module", TRUE)

\* Someone installs, replaces or removes an extension under the running game.
\* External: nothing in the DLL watches the folders.
DiskChange(s) ==
  /\ changes < MaxChanges
  /\ \E c \in DiskForms \ {installed[s]} : installed' = [installed EXCEPT ![s] = c]
  /\ changes' = changes + 1
  /\ UNCHANGED <<secureMode, strayCode, aliases, maps, call>>

HandlesNext ==
  \/ \E s \in Installable :
       OpenPath(s) \/ OpenBarePath(s) \/ \E overwrite \in BOOLEAN : RegisterAlias(s, overwrite)
  \/ GetLatestCodeHandle
  \/ GetHandle
  \/ \E s \in Slots : DiskChange(s)

HandlesSpec == HandlesInit /\ [][HandlesNext]_handleVars

-----------------------------------------------------------------------------
Handles == [slot : Routed, kind : {"zip", "folder"}, zip : Zips, verified : Zips, between : Nat]

Calls == [at : {"found", "hashed", "verified"}, slot : Routed, as : {"module", "extension"},
          code : BOOLEAN, zip : BOOLEAN, folder : BOOLEAN, verified : Zips, since : Nat]

MapsInto(f, S, T) == DOMAIN f \subseteq S /\ \A k \in DOMAIN f : f[k] \in T

HandlesTypeOK ==
  /\ secureMode \in BOOLEAN
  /\ installed \in [Slots -> DiskForms]
  /\ strayCode \in BOOLEAN
  /\ MapsInto(aliases, {<<s.folder, s.name>> : s \in Installable},
           {s.ver : s \in Installable})
  /\ heap \in Seq(Handles)
  /\ MapsInto(moduleHandles, Keys, DOMAIN heap)
  /\ moduleHandleErrors \subseteq Keys
  /\ MapsInto(extensionHandles, Keys, DOMAIN heap)
  /\ codeHandle \in DOMAIN heap \cup {Null}
  /\ call \in Calls \cup {Idle}
  /\ changes \in 0..MaxChanges

\* Without secure mode whatever was opened as a module is in the map of the
\* extensions too, as the SAME handle, however the look-ups by path and by the code
\* folder interleave (ModuleManager.h:223, :230).
OpenModulesAreExtensions ==
  ~secureMode =>
    \A k \in DOMAIN moduleHandles :
      k \in DOMAIN extensionHandles /\ extensionHandles[k] = moduleHandles[k]

\* In secure mode a key that has a handle has no remembered error, and its handle is
\* of an archive that getModuleHandle verified in the call that opened it.  The file
\* is read by its path each time: once or twice to verify it and once to open it;
\* what is opened is what was verified, whatever changed before and after, unless
\* the disk changed just between these two.
SecureModulesVerified ==
  secureMode =>
    /\ DOMAIN moduleHandles \cap moduleHandleErrors = {}
    /\ \A k \in DOMAIN moduleHandles :
         LET h == heap[moduleHandles[k]] IN
         /\ h.kind = "zip" /\ h.verified \in Vouched
         /\ h.between = 0 => h.zip = h.verified

\* "The files of plugins live in their own folder." (content/README.md:27): the
\* handle that a plugin's path is answered from reads that folder.
PathReadsItsFolder ==
  \A s \in Installable :
    s.folder = "plugins" /\ Key(s) \in DOMAIN extensionHandles =>
      heap[extensionHandles[Key(s)]].slot = s

\* "This function works because only one version of any extension can be loaded
\* at the same time" (ModuleManager.h:59): for an extension whose alias is registered
\* the look-up by bare name and the aliased path lead to the same handle.
NameAgreesWithAlias ==
  \A p \in DOMAIN aliases :
    LET k == <<p[2], aliases[p]>> IN
    k \in DOMAIN extensionHandles => LoadedExtensionHandle(p[2]) = extensionHandles[k]

\* Callers keep the pointers (open libraries, Lua userdata, the code handle).  What
\* answers for a module's path, and the code handle, is never replaced, whatever else
\* is opened and whatever happens on disk.  What answers look-ups by extension is
\* replaced at most once: where a plugin was opened first, by the module of the same
\* name and version (ModuleManager.h:223), and never in secure mode.
HandlesStay ==
  [][/\ \A k \in DOMAIN moduleHandles :
          k \in DOMAIN moduleHandles' /\ moduleHandles'[k] = moduleHandles[k]
     /\ \A k \in DOMAIN extensionHandles :
          /\ k \in DOMAIN extensionHandles'
          /\ \/ extensionHandles'[k] = extensionHandles[k]
             \/ /\ ~secureMode
                /\ heap[extensionHandles[k]].slot.folder = "plugins"
                /\ heap'[extensionHandles'[k]].slot.folder # "plugins"
                /\ extensionHandles'[k] = moduleHandles'[k]
     /\ codeHandle # Null => codeHandle' = codeHandle]_handleVars

\* In secure mode a remembered error is final: the key never opens again in this
\* process, not even when the right archive is put in its place.
RejectionsStay ==
  [][\A k \in moduleHandleErrors :
       k \in moduleHandleErrors' /\ k \notin DOMAIN moduleHandles']_handleVars
=============================================================================
