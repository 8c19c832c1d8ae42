---------------------------- MODULE MCExtensionFiles ---------------------------
(* The files of extensions: the handles that give access to them, listing and   *)
(* reading them, unpacking them, and loading the libraries among them.          *)
EXTENDS TempFiles, ExtensionListing, LibraryStore, MCExtensionHandles

CONSTANTS n1, n2, n3

Names == {n1, n2, n3}

Places == {<<"a">>, <<"b">>, <<"a", "a">>, <<"a", "b">>, <<"a", "a", "b">>}

\* The file b is empty.
Sizes == [p \in Places |-> IF p = <<"b">> THEN 0 ELSE 2]

\* Also with a trailing slash, a dot, a parent, and from the root of the disk.
Paths == {<<>>, <<"a">>, <<"a", "">>, <<"b">>, <<".", "a", "a">>, <<"a", "a", "b">>,
          <<"a", "..">>, <<"", "a">>, <<"ab">>}

BufferSizes == {0, 1, 2, 3}

-----------------------------------------------------------------------------
\* Libraries: a zipped module and one in a folder, three file names.
CONSTANTS x, y, z, zip, folder, lua

\* What a library imports depends on its name; no library needs itself.  x is on
\* top: the other orders are the same up to names.
AcyclicImports ==
  {i \in [DllName -> SUBSET DllName] :
     i[x] \subseteq {y, z} /\ i[y] \subseteq {z} /\ i[z] = {}}

MCWorlds ==
  [files   : [Module -> SUBSET DllName],
   imports : AcyclicImports,
   system  : {{}, {x}, {y, z}},
   game    : {{}},
   pinned  : {{}}]
    \cup
  [files   : [Module -> SUBSET DllName],
   imports : AcyclicImports,
   system  : {{y, z}},
   game    : {{}, {z}, {y, z}},
   pinned  : {{z}}]
    \cup
  [files   : [Module -> SUBSET DllName],
   imports : AcyclicImports,
   system  : {{z}},
   game    : {{x, y}},
   pinned  : {{}}]

\* x and y were made from one template and kept the name of its Lua module.
LuaModules == [n \in DllName |-> IF n = z THEN {} ELSE {lua}]

NoWorld == [files |-> [m \in Module |-> {}], imports |-> [n \in DllName |-> {}],
            system |-> {}, game |-> {}, pinned |-> {}]

LibrariesRest ==
  /\ world = NoWorld /\ os = << >>
  /\ store = << >> /\ bound = << >> /\ stack = << >> /\ failed = FALSE /\ loaded = << >>

HandlesRest ==
  /\ secureMode = FALSE /\ installed = [s \in Slots |-> Absent] /\ strayCode = FALSE
  /\ HandlesInit

ListingRests == tree = [p \in Places |-> "nothing"] /\ handle = "folder"

-----------------------------------------------------------------------------
VARIABLE part    \* the part that runs: they share no state

MCInit ==
  /\ Init /\ ListingInit
  /\ \/ part = "listing" /\ LibrariesRest /\ HandlesRest
     \/ part = "unpacking" /\ ListingRests /\ LibrariesRest /\ HandlesRest
     \/ part = "libraries" /\ ListingRests /\ StoreInit /\ HandlesRest
     \/ part = "handles" /\ ListingRests /\ LibrariesRest /\ MCHandlesInit

\* Between calls the program may come to an end of what it can open; a call may not.
AllOpened == call = Idle /\ UNCHANGED handleVars

MCNext ==
  /\ UNCHANGED part
  /\ \/ part = "unpacking" /\ Next /\ UNCHANGED <<listingVars, storeVars, handleVars>>
     \/ part = "listing" /\ ListingNext /\ UNCHANGED <<vars, storeVars, handleVars>>
     \/ part = "libraries" /\ StoreNext /\ UNCHANGED <<vars, listingVars, handleVars>>
     \/ part = "handles" /\ (HandlesNext \/ AllOpened) /\ UNCHANGED <<vars, listingVars, storeVars>>

MCSpec ==
  /\ MCInit /\ [][MCNext]_<<vars, listingVars, storeVars, handleVars, part>>
  /\ part = "libraries" => WF_storeVars(Import \/ MapSucceeds \/ MapFails)
=============================================================================
