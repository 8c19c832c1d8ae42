-------------------------- MODULE MCExtensionHandles --------------------------
(* A module in two versions, and a plugin that has the name and the version of  *)
(* one of them.                                                                *)
EXTENDS ExtensionHandles

Slot(f, n, v) == [folder |-> f, name |-> n, ver |-> v]

SameName == {Slot("modules", "a", 1), Slot("modules", "a", 2), Slot("plugins", "a", 1)}

ZipOnly(z) == [zip |-> z, folder |-> FALSE]
FolderOnly == [zip |-> "none", folder |-> TRUE]
Sound   == ZipOnly("listed")

\* Every kind of archive is the first version of the module at first, as far as the
\* mode looks at kinds; the rest of the disk starts in one of few ways, and anything
\* may replace any of it.
FewDisks ==
  LET Disk(a1, p, c) ==
        installed = [s \in Slots |-> CASE s = Slot("modules", "a", 1) -> a1
                                       [] s = Slot("plugins", "a", 1) -> p
                                       [] s = CodeSlot -> c
                                       [] OTHER -> Sound]
  IN
  \/ ~strayCode /\ secureMode /\ \E z \in Zips : Disk(ZipOnly(z), FolderOnly, Absent)
  \/ ~strayCode /\ secureMode /\ Disk(FolderOnly, ZipOnly("unvouched"), Absent)
  \/ ~strayCode /\ ~secureMode /\ \E z \in {"none", "listed"}, f \in BOOLEAN :
                                     Disk([zip |-> z, folder |-> f], FolderOnly, Absent)
  \/ strayCode /\ Disk(Sound, FolderOnly, FolderOnly)

MCHandlesInit == HandlesInit /\ FewDisks
MCHandlesSpec == MCHandlesInit /\ [][HandlesNext]_handleVars
=============================================================================
