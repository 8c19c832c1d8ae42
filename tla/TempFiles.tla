-------------------------------- MODULE TempFiles --------------------------------
(***************************************************************************)
(* The files of archived extensions, unpacked to ucp/.cache so that the    *)
(* game can read them (TempFileExtensionHandle.h, TempfileManager.h), and   *)
(* the write protected files scripts make there (LuaTempFile.cpp).          *)
(*                                                                         *)
(* Every process of the game that runs from the same directory uses the    *)
(* same ucp/.cache, with names drawn at random; one thread of each opens   *)
(* files, and two of its steps have any steps of the others between them.  *)
(***************************************************************************)
EXTENDS Naturals, FiniteSets

CONSTANTS
  Proc,            \* the processes
  Entry,           \* the entries of archives
  Text,            \* what scripts put in files
  Name,            \* the names "session-number" there are
  None             \* no entry, no name, no process

ASSUME TempAssumption ==
  None \notin Proc \cup Entry \cup Text \cup Name /\ Entry \cap Text = {}

Thing == Entry \cup Text

Contents == Thing \cup {"empty", "partial"}

VARIABLES
  disk,            \* name -> the file: the process that holds it, its contents
  alive,           \* the processes that run
  at,              \* process -> where it is in openFileDescriptor, or "idle"
  job,             \* process -> what is opened or made
  name,            \* process -> the name drawn for it
  mapping,         \* process -> thing -> the name of its file, or None
  fds              \* the open descriptors: process, thing and file

vars == <<disk, alive, at, job, name, mapping, fds>>

NoFile == [by |-> None, has |-> "nothing"]

OnDisk(n) == disk[n] # NoFile

-----------------------------------------------------------------------------
Init ==
  /\ disk = [n \in Name |-> NoFile]
  /\ alive = {}
  /\ at = [p \in Proc |-> "idle"]
  /\ job = [p \in Proc |-> None]
  /\ name = [p \in Proc |-> None]
  /\ mapping = [p \in Proc |-> [t \in Thing |-> None]]
  /\ fds = {}

\* TempfileManager::initialize
Start(p) == p \notin alive /\ alive' = alive \cup {p} /\ UNCHANGED <<disk, at, job, name, mapping, fds>>

Goto(p, step) == at' = [at EXCEPT ![p] = step]

\* The call returns an error or throws: whatever it holds it keeps.
Fails(p) ==
  /\ Goto(p, "idle") /\ job' = [job EXCEPT ![p] = None] /\ name' = [name EXCEPT ![p] = None]
  /\ UNCHANGED <<alive, mapping, fds>>

\* Mutant: the mapping is not looked at.
OpenAgain(p, t) ==
  /\ p \in alive /\ at[p] = "idle" /\ job' = [job EXCEPT ![p] = t]
  /\ Goto(p, "read")
  /\ UNCHANGED <<disk, alive, name, mapping, fds>>

\* openFileDescriptor(path): an entry is unpacked the first time.
Open(p, t) ==
  /\ p \in alive /\ at[p] = "idle" /\ job' = [job EXCEPT ![p] = t]
  /\ Goto(p, IF mapping[p][t] = None THEN "read" ELSE "open")
  /\ UNCHANGED <<disk, alive, name, mapping, fds>>

\* zip_entry_open, zip_entry_read, zip_entry_close
ReadEntry(p) ==
  /\ p \in alive /\ at[p] = "read" /\ UNCHANGED disk
  /\ \/ Goto(p, "name") /\ UNCHANGED <<alive, job, name, mapping, fds>>
     \/ Fails(p)

\* createTempFileDescriptor, called by a script.
Make(p, t) ==
  /\ p \in alive /\ at[p] = "idle" /\ mapping[p][t] = None
  /\ job' = [job EXCEPT ![p] = t] /\ Goto(p, "name")
  /\ UNCHANGED <<disk, alive, name, mapping, fds>>

\* io.openWriteProtectedTempFile of the path the script was given.
OpenMade(p, t) ==
  /\ p \in alive /\ at[p] = "idle" /\ mapping[p][t] # None
  /\ job' = [job EXCEPT ![p] = t] /\ Goto(p, "open")
  /\ UNCHANGED <<disk, alive, name, mapping, fds>>

\* nextFile, until a name has no file.
DrawName(p) ==
  /\ p \in alive /\ at[p] = "name" /\ Goto(p, "create")
  /\ \E n \in Name : ~OnDisk(n) /\ name' = [name EXCEPT ![p] = n]
  /\ UNCHANGED <<disk, alive, job, mapping, fds>>

\* Mutant: the file is shared with writers.
CreateShared(p) ==
  /\ p \in alive /\ at[p] = "create"
  /\ \/ /\ disk' = [disk EXCEPT ![name[p]] = [by |-> p, has |-> "empty"]]
        /\ Goto(p, "write") /\ UNCHANGED <<alive, job, name, mapping, fds>>
     \/ Fails(p) /\ UNCHANGED disk

\* CreateFileA(CREATE_ALWAYS): a file of that name is emptied, unless a process
\* holds it, which shares it with readers only.
Create(p) ==
  /\ p \in alive /\ at[p] = "create"
  /\ \/ /\ disk[name[p]].by = None
        /\ disk' = [disk EXCEPT ![name[p]] = [by |-> p, has |-> "empty"]]
        /\ Goto(p, "write") /\ UNCHANGED <<alive, job, name, mapping, fds>>
     \/ Fails(p) /\ UNCHANGED disk

Filled(p, contents) == disk' = [disk EXCEPT ![name[p]].has = contents]

\* WriteFile: a short write is an error, that leaves the file behind, held.
Write(p) ==
  /\ p \in alive /\ at[p] = "write"
  /\ \/ /\ Filled(p, job[p])
        /\ mapping' = [mapping EXCEPT ![p][job[p]] = name[p]]
        /\ Goto(p, IF job[p] \in Entry THEN "open" ELSE "idle")
        /\ name' = [name EXCEPT ![p] = None]
        /\ job' = IF job[p] \in Entry THEN job ELSE [job EXCEPT ![p] = None]
        /\ UNCHANGED <<alive, fds>>
     \/ Filled(p, "partial") /\ Fails(p)

\* CreateFileA(OPEN_EXISTING) of the mapped file, and _open_osfhandle.  (When a FILE is
\* asked for and _fdopen fails, the descriptor stays open as well, and is never closed.)
OpenMapped(p) ==
  /\ p \in alive /\ at[p] = "open" /\ UNCHANGED disk
  /\ \/ /\ OnDisk(mapping[p][job[p]])
        /\ fds' = fds \cup {[proc |-> p, of |-> job[p], file |-> mapping[p][job[p]]]}
        /\ Goto(p, "idle") /\ job' = [job EXCEPT ![p] = None]
        /\ UNCHANGED <<alive, name, mapping>>
     \/ Fails(p)

Close(fd) ==
  fd \in fds /\ fds' = fds \ {fd} /\ UNCHANGED <<disk, alive, at, job, name, mapping>>

Gone(P) ==
  /\ alive' = alive \ P /\ fds' = {fd \in fds : fd.proc \notin P}
  /\ at' = [p \in Proc |-> IF p \in P THEN "idle" ELSE at[p]]
  /\ job' = [p \in Proc |-> IF p \in P THEN None ELSE job[p]]
  /\ name' = [p \in Proc |-> IF p \in P THEN None ELSE name[p]]

Forgotten(P) ==
  mapping' = [p \in Proc |-> IF p \in P THEN [t \in Thing |-> None] ELSE mapping[p]]

\* A process ends, wherever it is: its handles are closed, and FILE_FLAG_DELETE_ON_CLOSE.
Die(p) ==
  /\ p \in alive /\ Gone({p}) /\ Forgotten({p})
  /\ disk' = [n \in Name |-> IF disk[n].by = p THEN NoFile ELSE disk[n]]

\* The computer stops: nothing is deleted, and a file may have lost what was written.
PowerLoss ==
  /\ alive # {} /\ Gone(alive) /\ Forgotten(alive)
  /\ \E lost \in SUBSET {n \in Name : OnDisk(n)} :
       disk' = [n \in Name |-> IF ~OnDisk(n) THEN NoFile
                               ELSE [by |-> None, has |-> IF n \in lost THEN "partial" ELSE disk[n].has]]

Next ==
  \/ \E p \in Proc :
       \/ Start(p) \/ ReadEntry(p) \/ DrawName(p) \/ Create(p) \/ Write(p) \/ OpenMapped(p)
       \/ Die(p) \/ \E t \in Entry : Open(p, t)
       \/ \E t \in Text : Make(p, t) \/ OpenMade(p, t)
  \/ \E fd \in fds : Close(fd)
  \/ PowerLoss

Spec == Init /\ [][Next]_vars

-----------------------------------------------------------------------------
\* A descriptor reads the entry it was opened for, all of it, as long as it is
\* open: not what another process put in the file it found under that name, not
\* what a stopped computer left there, and not a part of it.  What the mapping
\* names was written to the end by this process, and is still there: an unpacking
\* that failed is not taken for a file the next time.
DescriptorsReadTheirEntry ==
  /\ \A fd \in fds : disk[fd.file] = [by |-> fd.proc, has |-> fd.of]
  /\ \A p \in Proc, t \in Thing :
       mapping[p][t] # None => disk[mapping[p][t]] = [by |-> p, has |-> t]

\* An entry is unpacked once: as long as its process runs, it keeps its file.
UnpackedOnce ==
  [][\A p \in Proc, t \in Thing :
       mapping[p][t] # None /\ p \in alive' => mapping'[p][t] = mapping[p][t]]_vars
=============================================================================
