---------------------------- MODULE ExtensionListing ---------------------------
(***************************************************************************)
(* Listing the files or the directories in a directory of an extension,    *)
(* ucp.internal.io.files() and directories(), and reading a file of it,    *)
(* for an extension that is a folder and for one that is an archive        *)
(* (DirectoryListing.h, ZipDirectoryListing.h, FolderFileExtensionHandle.h, *)
(* TempFileExtensionHandle.h).                                              *)
(*                                                                         *)
(* A path is the sequence of its parts.  An archive has an entry for each  *)
(* file, in any order, and for a directory only if it is empty or whoever  *)
(* packed it wrote one.                                                     *)
(***************************************************************************)
EXTENDS Integers, Sequences, FiniteSets, SequencesExt

CONSTANTS
  Place,           \* the paths there can be files and directories at
  FileSize,        \* place -> the size of a file there
  Asked,           \* the paths that are asked for, as they are written
  AskedSize,       \* the sizes of the buffers that contents are asked for with
  NoEntry             \* no entry

ASSUME ListingAssumption ==
  /\ Place \subseteq Seq(STRING) /\ Asked \subseteq Seq(STRING) /\ IsFiniteSet(Place)
  /\ \A p \in Place : Len(p) > 0 /\ Front(p) \in Place \cup {<<>>} /\ p[Len(p)] # ""
  /\ NoEntry \notin Place
  /\ FileSize \in [Place -> Nat] /\ AskedSize \subseteq Nat

VARIABLES
  tree,            \* the contents: place -> "file", "directory" or "nothing"
  handle,          \* "zip" or "folder"
  entries,         \* the places with an entry in the archive
  query,           \* the path asked for and whether directories are listed
  rest,            \* the entries that were not visited yet
  entry,           \* the entry that is open, or NoEntry
  children,        \* the paths found, and whether the directory exists
  outcome,         \* "idle", "listing", "reading", "returned", "answered",
                   \* "invalid" or "failed"
  result,
  read,            \* what is read: the size, the contents or a descriptor
  answer           \* the number that reading returns

content == <<tree, handle, entries>>

reading == <<read, answer>>

listingVars == <<content, query, rest, entry, children, outcome, result, reading>>

-----------------------------------------------------------------------------
Dirs(t) == {p \in Place : t[p] = "directory"} \cup {<<>>}

Files(t) == {p \in Place : t[p] = "file"}

IsTree(t) == \A p \in Place : t[p] # "nothing" => Front(p) \in Dirs(t)

InDir(p, d) == p # <<>> /\ Front(p) = d

\* Packed(t): what an archive of t may have entries for.
Packed(t) ==
  {E \in SUBSET (Files(t) \cup (Dirs(t) \ {<<>>})) :
     /\ Files(t) \subseteq E
     /\ \A d \in Dirs(t) \ {<<>>} : d \in E \/ \E p \in Files(t) \cup Dirs(t) : InDir(p, d)}

\* relativePath: parts that say nothing are left out.
RelativePath(path) ==
  LET parts[n \in 0..Len(path)] ==
        IF n = 0 THEN <<>>
        ELSE IF path[n] \in {"", "."} THEN parts[n - 1] ELSE Append(parts[n - 1], path[n])
  IN  parts[Len(path)]

\* Absolute paths and parents are refused.
Invalid(path) == ".." \in Range(path) \/ (path # <<>> /\ Head(path) = "")

Nothing == [what |-> "nothing", size |-> 0]

ListingInit ==
  /\ tree \in {t \in [Place -> {"file", "directory", "nothing"}] : IsTree(t)}
  /\ handle \in {"zip", "folder"}
  /\ entries \in IF handle = "zip" THEN Packed(tree) ELSE {{}}
  /\ query = [path |-> <<>>, directories |-> FALSE]
  /\ rest = {} /\ entry = NoEntry
  /\ children = [exists |-> FALSE, paths |-> {}]
  /\ outcome = "idle"
  /\ result = {}
  /\ read = Nothing /\ answer = -1

-----------------------------------------------------------------------------
\* Mutant: only entries of directories count as directories.
ExplicitOnly(c, q, name, isDirectory) ==
  LET inside == IsStrictPrefix(q.path, name)
      direct == Len(name) = Len(q.path) + 1
  IN  [exists |-> c.exists \/ inside \/ (isDirectory /\ name = q.path),
       paths |->
         c.paths \cup
         IF inside /\ direct /\ isDirectory = q.directories THEN {name} ELSE {}]

\* Children::add: an entry below the directory shows that it exists; the first
\* part of the entry behind it is a child.
Add(c, q, name, isDirectory) ==
  LET inside == IsStrictPrefix(q.path, name)
      child  == SubSeq(name, 1, Len(q.path) + 1)
  IN  [exists |-> c.exists \/ inside \/ (isDirectory /\ name = q.path),
       paths |->
         c.paths \cup
         IF inside /\ q.directories = (isDirectory \/ name # child) THEN {child} ELSE {}]

\* ExtensionListing::folder
Folder(q) ==
  [exists |-> q.path \in Dirs(tree),
   paths |-> {p \in Place : InDir(p, q.path) /\
                tree[p] = IF q.directories THEN "directory" ELSE "file"}]

\* files(path) and directories(path), of a path in an extension.
List(path, directories) ==
  /\ outcome = "idle"
  /\ query' = [path |-> RelativePath(path), directories |-> directories]
  /\ IF Invalid(path)
     THEN outcome' = "invalid" /\ UNCHANGED <<rest, children>>
     ELSE /\ outcome' = "listing"
          /\ rest' = entries
          /\ children' = IF handle = "folder" THEN Folder(query')
                         ELSE [exists |-> query'.path = <<>>, paths |-> {}]
  /\ UNCHANGED <<content, reading>> /\ UNCHANGED <<entry, result>>

Fail == outcome' = "failed" /\ result' = {}

\* zip_entry_openbyindex, which may fail.
OpenEntry ==
  /\ outcome = "listing" /\ entry = NoEntry /\ rest # {}
  /\ \/ \E e \in rest : entry' = e /\ UNCHANGED <<outcome, result>>
     \/ entry' = NoEntry /\ Fail
  /\ UNCHANGED <<content, reading>> /\ UNCHANGED <<query, rest, children>>

\* The open entry is added, or cannot be inspected, and is closed either way.
Visit ==
  /\ outcome = "listing" /\ entry # NoEntry
  /\ entry' = NoEntry
  /\ \/ /\ children' = Add(children, query, entry, tree[entry] = "directory")
        /\ rest' = rest \ {entry}
        /\ UNCHANGED <<outcome, result>>
     \/ Fail /\ UNCHANGED <<rest, children>>
  /\ UNCHANGED <<content, reading>> /\ UNCHANGED query

\* Children::result
Return ==
  /\ outcome = "listing" /\ rest = {} /\ entry = NoEntry
  /\ IF children.exists
     THEN outcome' = "returned" /\ result' = children.paths
     ELSE outcome' = "invalid" /\ UNCHANGED result
  /\ UNCHANGED <<content, reading>> /\ UNCHANGED <<query, rest, entry, children>>

-----------------------------------------------------------------------------
\* Mutant: a buffer that is too long is filled as far as it goes.
FolderReadsShort(r, file) ==
  CASE r.what = "contents" ->
         IF r.size > 0 /\ FileSize[file] > 0 THEN IF r.size < FileSize[file] THEN r.size ELSE FileSize[file] ELSE -1
    [] OTHER -> FileSize[file]

\* getFileSizeOfRegularFile, getFileContentsOfRegularFile, or a descriptor of the
\* file.  No bytes at all are an error.
FolderReads(r, file) ==
  CASE r.what = "contents" -> IF 0 < r.size /\ r.size <= FileSize[file] THEN r.size ELSE -1
    [] OTHER -> FileSize[file]

\* zip_entry_size, or zip_entry_read: the buffer must have the size of the file.  A
\* directory has the size 0 and is not read; a descriptor is one of an empty file.
ZipReads(r, e) ==
  CASE tree[e] = "directory" -> IF r.what = "contents" THEN -1 ELSE 0
    [] tree[e] = "file" /\ r.what = "contents" -> IF r.size = FileSize[e] THEN r.size ELSE -1
    [] OTHER -> FileSize[e]

\* lexically_normal: no "." and no "..", and "" only for a slash at the end.
Sanitized ==
  {path \in Asked : path \in {RelativePath(path), Append(RelativePath(path), "")} /\ ".." \notin Range(path)}

\* The name of an entry: that of a directory ends with a slash.
EntryName(e) == IF tree[e] = "directory" THEN Append(e, "") ELSE e

\* getFileSize, getFileContents and openFileDescriptor of a path in an extension: a
\* folder has a file there, an archive has an entry of that name, or the answer is -1.
Read(r, path) ==
  /\ outcome = "idle" /\ read' = r
  /\ query' = [path |-> path, directories |-> FALSE]
  /\ \/ handle = "folder" /\ outcome' = "answered" /\ UNCHANGED entry
        /\ answer' = IF path \in Files(tree) THEN FolderReads(r, path) ELSE -1
     \/ handle = "zip" /\ outcome' = "reading" /\ UNCHANGED answer
        /\ \E e \in entries : EntryName(e) = path /\ entry' = e
     \/ handle = "zip" /\ outcome' = "answered" /\ UNCHANGED <<entry, answer>>
        /\ \A e \in entries : EntryName(e) # path
  /\ UNCHANGED content /\ UNCHANGED <<rest, children, result>>

\* The open entry is read, which may fail, and is closed either way.
CloseRead ==
  /\ outcome = "reading" /\ entry' = NoEntry
  /\ \/ outcome' = "answered" /\ answer' = ZipReads(read, entry)
     \/ read.what # "size" /\ outcome' = "failed" /\ UNCHANGED answer
  /\ UNCHANGED content /\ UNCHANGED <<query, rest, children, result, read>>

\* The next call.
Done ==
  /\ outcome \in {"returned", "answered", "invalid", "failed"}
  /\ outcome' = "idle" /\ result' = {}
  /\ query' = [path |-> <<>>, directories |-> FALSE]
  /\ rest' = {} /\ children' = [exists |-> FALSE, paths |-> {}]
  /\ read' = Nothing /\ answer' = -1
  /\ UNCHANGED content /\ UNCHANGED entry

ListingNext ==
  \/ \E path \in Asked, directories \in BOOLEAN : List(path, directories)
  \/ OpenEntry \/ Visit \/ Return \/ CloseRead \/ Done
  \/ \E path \in Sanitized, what \in {"size", "contents", "descriptor"}, size \in AskedSize :
       Read([what |-> what, size |-> IF what = "contents" THEN size ELSE 0], path)

ListingSpec == ListingInit /\ [][ListingNext]_listingVars

-----------------------------------------------------------------------------
\* A listing has exactly the files, or the directories, that are in the directory,
\* whether the extension is a folder or an archive, whatever the order of its
\* entries and whichever directories have one.  A missing directory, or a file, is
\* an error and never an empty listing; a directory is listed, also an empty one.
ListsTheTree ==
  /\ outcome = "returned" =>
       /\ query.path \in Dirs(tree)
       /\ result = {p \in Place : InDir(p, query.path) /\
                      tree[p] = IF query.directories THEN "directory" ELSE "file"}
  /\ outcome = "invalid" =>
       query.path \notin Dirs(tree) \/ \E a \in Asked : Invalid(a) /\ RelativePath(a) = query.path

\* Whoever asks for the size of a file and then for that many bytes gets all of
\* the file, from a folder and from an archive; only an empty file of a folder
\* cannot be read.  With a longer buffer the answer is -1, and never a part of a
\* file that passes for all of it.  What is no file has no contents, and no size or
\* descriptor either, but that a directory with an entry in the archive passes for
\* an empty file when it is asked for with a slash at the end.  The archive has one
\* open entry at a time: however a listing or a reading ends, it leaves none open.
ReadsTheFile ==
  /\ outcome \notin {"listing", "reading"} => entry = NoEntry
  /\ outcome = "failed" => answer = -1
  /\ outcome = "answered" /\ query.path \notin Files(tree) =>
       answer = IF read.what # "contents" /\ \E d \in entries : tree[d] = "directory" /\ query.path = Append(d, "")
                THEN 0 ELSE -1
  /\ outcome = "answered" /\ query.path \in Files(tree) =>
       LET size == FileSize[query.path] IN
       /\ read.what # "contents" => answer = size
       /\ read.what = "contents" =>
            /\ read.size = size => answer = IF handle = "folder" /\ size = 0 THEN -1 ELSE size
            /\ read.size > size => answer = -1
            /\ read.size < size => answer \in {-1, read.size}

=============================================================================
