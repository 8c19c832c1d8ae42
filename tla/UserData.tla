-------------------------------- MODULE UserData -------------------------------
(***************************************************************************)
(* The callbacks of the afterInit hook (hooks.lua) and the user data of    *)
(* extensions that they open (data/userdata.lua): a folder and a meta.json *)
(* with a version for each, which outlive the game.                        *)
(*                                                                         *)
(* Userdata is known to be ready when its own callback was fired, the      *)
(* first one that is registered.  A meta.json is emptied when it is opened *)
(* for writing and has its contents when it is closed.                     *)
(***************************************************************************)
EXTENDS Naturals, Sequences, SequencesExt

CONSTANTS
  Callback,        \* the callbacks of extensions
  Userdata,        \* the callback of userdata itself
  Extension,       \* extensions with user data
  Version,         \* the versions they set
  Default,         \* "1.0.0"
  Nothing,         \* no file, no write
  Torn,            \* a meta.json that is not JSON with a version
  Handle,          \* the interfaces that are given out in one start
  MaxStarts        \* bound on the starts of the game

ASSUME UserDataAssumption ==
  /\ Userdata \notin Callback
  /\ {Default, Nothing, Torn} \cap Version = {}
  /\ Default # Torn /\ Default # Nothing /\ Torn # Nothing
  /\ MaxStarts \in Nat

VARIABLES
  phase,           \* "loading", "firing" the callbacks, "running" the game
  afterInit,       \* the callbacks, in the order they were registered
  fired,           \* those that were fired, in that order
  INITIALIZED,
  meta,            \* extension -> what its meta.json holds
  interfaces,      \* handle -> the interface given out
  writing,         \* the write that was begun: a file and its contents
  files,           \* extensions that have their own meta.json open, for writing
  starts,
  wanted           \* extension -> the version last asked for, if it wrote nothing itself

vars == <<phase, afterInit, fired, INITIALIZED, meta, interfaces, writing, files, starts,
          wanted>>

hookVars == <<phase, afterInit, fired, INITIALIZED, starts>>

dataVars == <<meta, interfaces, writing, files, wanted>>

-----------------------------------------------------------------------------
Contents == Version \cup {Default, Nothing, Torn}

NoInterface == [extension |-> Nothing, version |-> Nothing]

FreshStart ==
  /\ phase' = "loading"
  /\ afterInit' = <<Userdata>>
  /\ fired' = <<>>
  /\ INITIALIZED' = FALSE
  /\ interfaces' = [h \in Handle |-> NoInterface]
  /\ writing' = Nothing
  /\ files' = {}

Init ==
  /\ phase = "loading"
  /\ afterInit = <<Userdata>>
  /\ fired = <<>>
  /\ INITIALIZED = FALSE
  /\ meta \in [Extension -> {Nothing, Torn}]
  /\ interfaces = [h \in Handle |-> NoInterface]
  /\ writing = Nothing
  /\ files = {}
  /\ starts = 1
  /\ wanted = [e \in Extension |-> Nothing]

-----------------------------------------------------------------------------
\* Mutant: the last one that was registered comes first.
RegisterInFront(c) ==
  /\ c \notin Range(afterInit)
  /\ afterInit' = IF phase = "loading" THEN <<c>> \o afterInit ELSE Append(afterInit, c)
  /\ UNCHANGED <<phase, fired, INITIALIZED, starts>> /\ UNCHANGED dataVars

\* registerHookCallback, at any time: while callbacks are fired too.
RegisterHookCallback(c) ==
  /\ c \notin Range(afterInit)
  /\ afterInit' = Append(afterInit, c)
  /\ UNCHANGED <<phase, fired, INITIALIZED, starts>> /\ UNCHANGED dataVars

\* The game comes to the place where its messages loop begins.
OnAfterInit ==
  /\ phase = "loading"
  /\ phase' = "firing"
  /\ UNCHANGED <<afterInit, fired, INITIALIZED, starts>> /\ UNCHANGED dataVars

\* Mutant: an error ends the loop.
FireUnprotected ==
  /\ phase = "firing" /\ Len(fired) < Len(afterInit)
  /\ LET c == afterInit[Len(fired) + 1] IN
       /\ fired' = Append(fired, c)
       /\ INITIALIZED' = (INITIALIZED \/ c = Userdata)
  /\ phase' \in {"firing", "running"}
  /\ UNCHANGED <<afterInit, starts>> /\ UNCHANGED dataVars

\* fireCallbacksForHook: the next one, whose error is logged.
Fire ==
  /\ phase = "firing" /\ Len(fired) < Len(afterInit)
  /\ LET c == afterInit[Len(fired) + 1] IN
       /\ fired' = Append(fired, c)
       /\ INITIALIZED' = (INITIALIZED \/ c = Userdata)
  /\ UNCHANGED <<phase, afterInit, starts>> /\ UNCHANGED dataVars

AllFired ==
  /\ phase = "firing" /\ Len(fired) = Len(afterInit)
  /\ phase' = "running"
  /\ UNCHANGED <<afterInit, fired, INITIALIZED, starts>> /\ UNCHANGED dataVars

-----------------------------------------------------------------------------
\* A write of the program: opening the file empties it.
BeginWrite(e, v) ==
  /\ writing = Nothing
  /\ meta' = [meta EXCEPT ![e] = Torn]
  /\ writing' = [extension |-> e, version |-> v]
  /\ wanted' = [wanted EXCEPT ![e] = v]

\* interface() when there is no meta.json: the default version is written.
CreateMeta(e) ==
  /\ INITIALIZED /\ meta[e] = Nothing
  /\ BeginWrite(e, Default)
  /\ UNCHANGED <<interfaces, files>> /\ UNCHANGED hookVars

\* interface() with a meta.json that has a version: an object with the version
\* it was read with.  Of one that is torn, indexing what was decoded fails.
Interface(e) ==
  /\ INITIALIZED /\ writing = Nothing
  /\ meta[e] \in Version \cup {Default}
  /\ \E h \in Handle :
       /\ interfaces[h] = NoInterface
       /\ interfaces' = [interfaces EXCEPT ![h] =
                           [extension |-> e, version |-> meta[e]]]
  /\ UNCHANGED <<meta, writing, files, wanted>> /\ UNCHANGED hookVars

\* setVersion of an interface.
SetVersion(h, v) ==
  /\ interfaces[h] # NoInterface
  /\ BeginWrite(interfaces[h].extension, v)
  /\ UNCHANGED <<interfaces, files>> /\ UNCHANGED hookVars

\* Mutant: what is written is the version that an interface was made with.
WriteUnchanged ==
  /\ writing # Nothing
  /\ LET mine == {h \in Handle : interfaces[h].extension = writing.extension}
         read == {interfaces[h].version : h \in mine}
     IN  \E v \in IF mine = {} THEN {writing.version} ELSE read :
           meta' = [meta EXCEPT ![writing.extension] = v]
  /\ writing' = Nothing
  /\ UNCHANGED <<interfaces, files, wanted>> /\ UNCHANGED hookVars

\* The encoded table is written and the file is closed.  That the write failed,
\* for want of space, goes unnoticed.
WriteMeta ==
  /\ writing # Nothing
  /\ \E c \in {writing.version, Torn} : meta' = [meta EXCEPT ![writing.extension] = c]
  /\ writing' = Nothing
  /\ UNCHANGED <<interfaces, files, wanted>> /\ UNCHANGED hookVars

\* open of an interface reaches the meta.json of its extension too, for reading,
\* which changes nothing, or for writing, which may empty or create it.
OpenMeta(h) ==
  /\ writing = Nothing
  /\ interfaces[h] # NoInterface
  /\ LET e == interfaces[h].extension IN
       /\ \E c \in {meta[e], Torn} \ {Nothing} : meta' = [meta EXCEPT ![e] = c]
       /\ wanted' = IF meta'[e] = meta[e] THEN wanted ELSE [wanted EXCEPT ![e] = Nothing]
       /\ files' = files \cup {e}
  /\ UNCHANGED <<interfaces, writing>> /\ UNCHANGED hookVars

\* What an extension writes to the file it opened, whenever it does.
WriteOwn(e) ==
  /\ e \in files /\ writing = Nothing
  /\ \E c \in Version \cup {Torn} : meta' = [meta EXCEPT ![e] = c]
  /\ wanted' = [wanted EXCEPT ![e] = Nothing]
  /\ UNCHANGED <<interfaces, writing, files>> /\ UNCHANGED hookVars

CloseOwn(e) ==
  /\ e \in files /\ writing = Nothing
  /\ files' = files \ {e}
  /\ UNCHANGED <<meta, interfaces, writing, wanted>> /\ UNCHANGED hookVars

\* remove of an interface reaches it as well; a file that is open stays.
RemoveMeta(h) ==
  /\ writing = Nothing
  /\ interfaces[h] # NoInterface
  /\ LET e == interfaces[h].extension IN
       /\ e \notin files
       /\ meta' = [meta EXCEPT ![e] = Nothing]
       /\ wanted' = [wanted EXCEPT ![e] = Nothing]
  /\ UNCHANGED <<interfaces, writing, files>> /\ UNCHANGED hookVars

\* The game ends or crashes, in a write too, and is started again.  External.
Restart ==
  /\ starts < MaxStarts
  /\ starts' = starts + 1
  /\ FreshStart
  /\ UNCHANGED <<meta, wanted>>

Next ==
  \/ \E c \in Callback : RegisterHookCallback(c)
  \/ OnAfterInit \/ Fire \/ AllFired
  \/ \E e \in Extension : CreateMeta(e) \/ Interface(e)
  \/ \E h \in Handle, v \in Version : SetVersion(h, v)
  \/ WriteMeta
  \/ \E h \in Handle : OpenMeta(h) \/ RemoveMeta(h)
  \/ \E e \in Extension : WriteOwn(e) \/ CloseOwn(e)
  \/ Restart

\* The game comes to its messages loop, and the loop over the callbacks goes on.
Fairness == WF_vars(OnAfterInit) /\ WF_vars(Fire) /\ WF_vars(AllFired)

Spec == Init /\ [][Next]_vars /\ Fairness

-----------------------------------------------------------------------------
\* A callback that was registered before the hook was over is fired, whatever
\* the callbacks before it did, unless the game ends.
EarlyCallbacksFire ==
  \A c \in Callback, n \in 1..MaxStarts :
    (starts = n /\ phase # "running" /\ c \in Range(afterInit))
      ~> (starts # n \/ c \in Range(fired))

\* userdata registers its callback before any extension has its own, so that no
\* callback of an extension is told that user data is not ready yet.
CallbacksFindUserData ==
  \A c \in Callback : c \in Range(fired) => INITIALIZED

\* A meta.json that can be read has the version that was last asked for, never an
\* older one: whichever of its interfaces asked, in whichever start, and whatever
\* writes failed or were cut short, as long as the extension did not write to the
\* file itself.
NoOlderVersion ==
  \A e \in Extension :
    (wanted[e] # Nothing /\ meta[e] # Torn) => meta[e] = wanted[e]

=============================================================================
