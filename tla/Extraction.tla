----------------------------- MODULE Extraction -----------------------------
(***************************************************************************)
(* Extraction of files and directories (lib/inflate.c): each file of the   *)
(* archive is looked up, its package opened, and its data copied or        *)
(* inflated block by block to an output file whose directories are made on *)
(* the way.  Packages may be missing or too short; directories, files and  *)
(* writes may fail, a write also when the output file is closed.           *)
(*                                                                         *)
(* The archive is a tree as in WowsContext and does not change.  Data is   *)
(* counted in blocks: BUFSIZ of a stored file, an inflated buffer of a     *)
(* compressed one.                                                         *)
(*                                                                         *)
(* Names go into output paths as the index has them.  An output path is    *)
(* the components the file system reads in it, of which a name may have    *)
(* several, and Place says where they lead.  Symbolic links are left out.  *)
(***************************************************************************)
EXTENDS PathLookup, Termination

CONSTANTS
    Names,        \* of files and directories, and the components of them
    Here, Up,     \* the components "." and ".."
    Split,        \* Split[n]: the components of name n; an empty one is Here
    Place(_),     \* what the file system has where the components lead
    Tree,         \* path -> [type, id]
    Package,      \* Package[p]: the package of the index of file p
    Stored,       \* the files whose entry has type_1 = type_2 = 0
    FileMaps,     \* the files whose entry file_map may have
    Blocks,       \* Blocks[p]: the blocks of data of file p
    Strings,      \* the paths asked for
    OutDir,       \* out_dir_path of wows_extract_dir
    OutFiles,     \* values of out_path of wows_extract_file
    OldOutputs,   \* what the file system may hold at first
    MaxCalls      \* bound on the number of calls, for model checking

Files == {p \in DOMAIN Tree : Tree[p].type = "file"}

\* A name of one component, which is not a way to another directory.
Ordinary(n) == Split[n] = <<n>> /\ n \notin {Here, Up}

ASSUME ExtractionAssumption ==
    /\ Sep \notin Names
    /\ Split \in [Names -> Seq(Names) \ {<< >>}]
    /\ IsTree(Tree, Names) /\ IsFiniteSet(DOMAIN Tree)
    /\ Stored \subseteq Files
    /\ \A m \in FileMaps : m \subseteq Files
    /\ Blocks \in [Files -> Nat]
    /\ Strings \subseteq Seq({n \in Names : Split[n] = <<n>>} \cup {Sep})
    /\ MaxCalls \in Nat

VARIABLES
    file_map,   \* the files whose data entry is there
    packages,   \* each package is whole, short of its last blocks, or missing
    output,     \* the file system: path -> its kind, the file its data is of and how much
    call,       \* the call under way, or the last one, and its arguments
    todo,       \* the children still to scan, of each directory being scanned
    inode,      \* the inode being extracted
    sink,       \* the output file
    made,       \* how many of its directories open_file_with_parents has passed
    written,    \* the blocks given to fwrite
    pc,
    ret,
    trouble,    \* history: something failed in this call
    calls

archive == <<file_map, packages>>
scanning == <<call, todo, inode>>
vars == <<archive, output, scanning, sink, made, written, pc, ret, trouble, calls>>

Absent    == [kind |-> "none", of |-> << >>, blocks |-> 0]
Directory == [kind |-> "dir",  of |-> << >>, blocks |-> 0]
Data(p, n) == [kind |-> "file", of |-> p, blocks |-> n]

Init ==
    /\ file_map \in FileMaps
    /\ packages \in [{Package[p] : p \in Files} -> {"whole", "short", "missing"}]
    /\ output \in OldOutputs
    /\ call = [name |-> "none"]
    /\ todo = << >>
    /\ inode = NoInode
    /\ sink = << >>
    /\ made = 0
    /\ written = 0
    /\ pc = "idle"
    /\ ret = "ok"
    /\ trouble = FALSE
    /\ calls = 0

-----------------------------------------------------------------------------

Children(p) == {q \in DOMAIN Tree \ {<< >>} : Front(q) = p}

\* base_path, a separator and the string of the inode, as the file system
\* reads it.
OutPath ==
    [p \in Files |->
       LET names == NamesIn(PathString(Tree, p))
       IN  OutDir \o FlattenSeq([k \in DOMAIN names |-> Split[names[k]]])]

\* The file at p has ordinary names only, and directories above it.
Plain(p) == \A k \in DOMAIN p : Ordinary(p[k])

\* What the file system has a place for: all that is written and its parents.
Sinks == OutFiles \cup {OutPath[p] : p \in Files}
OutPaths == {<< >>} \cup UNION {{Place(SubSeq(x, 1, n)) : n \in 1 .. Len(x)} : x \in Sinks}

\* What is given by its place leads to it, and so do ordinary names below it.
ASSUME FileSystemAssumption ==
    /\ OutDir \in Seq(Names)
    /\ OutFiles \subseteq Seq(Names) \ {<< >>}
    /\ \A o \in OutFiles : Place(o) = o
    /\ \A p \in Files : Plain(p) =>
         \A n \in 1 .. Len(OutDir \o p) :
           Place(SubSeq(OutDir \o p, 1, n)) = SubSeq(OutDir \o p, 1, n)
    /\ \A o \in OldOutputs :
         /\ DOMAIN o = OutPaths
         /\ o[<< >>] = Directory
         /\ \A x \in OutPaths :
              o[x] \in {Absent, Directory} \/ (o[x].kind = "file" /\ o[x].blocks \in Nat)

Directories == {o \in DOMAIN output : output[o].kind = "dir"}

\* fopen(o, "w+b"): what is there is truncated.
CanOpen(o) == o \notin Directories /\ Front(o) \in Directories

Truncated(o) == [output EXCEPT ![o] = Data(<< >>, 0)]

\* The blocks fread can give of a file.
Readable(p) == IF packages[Package[p]] = "whole" THEN Blocks[p]
               ELSE IF Blocks[p] = 0 THEN 0 ELSE Blocks[p] - 1

Begin(name, s, o) ==
    /\ pc = "idle"
    /\ calls < MaxCalls
    /\ calls' = calls + 1
    /\ call' = [name |-> name, path |-> s, out |-> o]

Return(e) ==
    /\ pc' = "idle"
    /\ ret' = e

\* The output file is closed, whose result is not looked at: what stdio still
\* holds may be lost.  wows_extract_file returns the result of the file,
\* extract_recursive goes on without it.
FileDone(e) ==
    /\ \E n \in 0 .. written :
         /\ output' = [output EXCEPT ![Place(sink)] = Data(inode, n)]
         /\ trouble' = (trouble \/ e # "ok" \/ written < Blocks[inode] \/ n < written)
    /\ IF call.name = "file" THEN Return(e) ELSE pc' = "scan" /\ UNCHANGED ret
    /\ UNCHANGED <<archive, scanning, sink, made, written, calls>>

\* The same where nothing was opened or read.
FileFails(e) ==
    /\ trouble' = TRUE
    /\ IF call.name = "file" THEN Return(e) ELSE pc' = "scan" /\ UNCHANGED ret
    /\ UNCHANGED <<archive, output, scanning, sink, made, written, calls>>

-----------------------------------------------------------------------------
(* wows_extract_file and wows_extract_dir                                  *)

ExtractFileUnopened(s, o) ==
    /\ Begin("file", s, o)
    /\ Return("open")
    /\ trouble' = TRUE
    /\ UNCHANGED <<archive, output, todo, inode, sink, made, written>>

\* The output file is there before the path is looked up.
ExtractFile(s, o) ==
    LET found == GetInode(Tree, s) IN
    /\ Begin("file", s, o)
    /\ CanOpen(o)
    /\ output' = Truncated(o)
    /\ sink' = o
    /\ inode' = found.inode
    /\ made' = 0
    /\ written' = 0
    /\ trouble' = (found.ret # "ok")
    /\ IF found.ret = "ok" THEN pc' = "extract" /\ UNCHANGED ret ELSE Return(found.ret)
    /\ UNCHANGED <<archive, todo>>

ExtractDirFails(s) ==
    LET found == GetInode(Tree, s) IN
    /\ Begin("dir", s, OutDir)
    /\ found.ret # "ok" \/ ~ IsFolder(Tree, found.inode)
    /\ Return(IF found.ret # "ok" THEN found.ret ELSE "not_a_dir")
    /\ trouble' = TRUE
    /\ UNCHANGED <<archive, output, todo, inode, sink, made, written>>

\* Mutant: the root is scanned in place of the directory found.
ExtractDirOfRoot(s) ==
    LET found == GetInode(Tree, s) IN
    /\ Begin("dir", s, OutDir)
    /\ found.ret = "ok" /\ IsFolder(Tree, found.inode)
    /\ todo' = <<Children(<< >>)>>
    /\ trouble' = FALSE
    /\ pc' = "scan"
    /\ UNCHANGED <<archive, output, inode, sink, made, written, ret>>

ExtractDir(s) ==
    LET found == GetInode(Tree, s) IN
    /\ Begin("dir", s, OutDir)
    /\ found.ret = "ok" /\ IsFolder(Tree, found.inode)
    /\ todo' = <<Children(found.inode)>>
    /\ trouble' = FALSE
    /\ pc' = "scan"
    /\ UNCHANGED <<archive, output, inode, sink, made, written, ret>>

-----------------------------------------------------------------------------
(* hashmap_scan with extract_recursive: the children in any order, the     *)
(* whole of a directory before the next child                              *)

Scanning(p) ==
    /\ pc = "scan"
    /\ todo # << >>
    /\ p \in Last(todo)

Rest(p) == Append(Front(todo), Last(todo) \ {p})

ScanFile(p) ==
    /\ Scanning(p)
    /\ p \in Files
    /\ todo' = Rest(p)
    /\ inode' = p
    /\ sink' = OutPath[p]
    /\ made' = 0
    /\ written' = 0
    /\ pc' = "parents"
    /\ UNCHANGED <<archive, output, call, ret, trouble, calls>>

\* Mutant: the scan begins again at the root.
ScanDirFromRoot(p) ==
    /\ Scanning(p)
    /\ p \notin Files
    /\ todo' = Append(Rest(p), Children(<< >>) \ {p})
    /\ UNCHANGED <<archive, output, call, inode, sink, made, written, pc, ret, trouble, calls>>

ScanDir(p) ==
    /\ Scanning(p)
    /\ p \notin Files
    /\ todo' = Append(Rest(p), Children(p))
    /\ UNCHANGED <<archive, output, call, inode, sink, made, written, pc, ret, trouble, calls>>

\* Mutant: extract_recursive returns false for a directory, which ends the
\* scan of the directory above.
ScanUpStops ==
    /\ pc = "scan"
    /\ todo # << >> /\ Last(todo) = {}
    /\ todo' = IF Len(todo) = 1 THEN << >> ELSE Append(Front(Front(todo)), {})
    /\ IF Len(todo) = 1 THEN Return("ok") ELSE UNCHANGED <<pc, ret>>
    /\ UNCHANGED <<archive, output, call, inode, sink, made, written, trouble, calls>>

ScanUp ==
    /\ pc = "scan"
    /\ todo # << >> /\ Last(todo) = {}
    /\ todo' = Front(todo)
    /\ IF Len(todo) = 1 THEN Return("ok") ELSE UNCHANGED <<pc, ret>>
    /\ UNCHANGED <<archive, output, call, inode, sink, made, written, trouble, calls>>

-----------------------------------------------------------------------------
(* open_file_with_parents                                                  *)

Parent == Place(SubSeq(sink, 1, made + 1))

AtParent == pc = "parents" /\ made < Len(sink) - 1

\* Mutant: the next separator is looked for where the last one was.
PassParentAgain ==
    /\ AtParent
    /\ output[Parent].kind # "file"
    /\ output' = [output EXCEPT ![Parent] = Directory]
    /\ UNCHANGED <<archive, scanning, sink, made, written, pc, ret, trouble, calls>>

\* The directory is there, or is made.
PassParent ==
    /\ AtParent
    /\ output[Parent].kind # "file"
    /\ output' = [output EXCEPT ![Parent] = Directory]
    /\ made' = made + 1
    /\ UNCHANGED <<archive, scanning, sink, written, pc, ret, trouble, calls>>

\* The directory is a file, or cannot be made: the file is skipped.
ParentFails ==
    /\ AtParent
    /\ output[Parent].kind # "dir"
    /\ FileFails("open")

OpenOutput ==
    /\ pc = "parents" /\ made = Len(sink) - 1
    /\ CanOpen(Place(sink))
    /\ output' = Truncated(Place(sink))
    /\ pc' = "extract"
    /\ UNCHANGED <<archive, scanning, sink, made, written, ret, trouble, calls>>

OutputFails ==
    /\ pc = "parents" /\ made = Len(sink) - 1
    /\ FileFails("open")

-----------------------------------------------------------------------------
(* extract_file_inode                                                      *)

\* What it returns before any data is read.
Refused(p) ==
    IF p \notin Files THEN "not_a_file"
    ELSE IF packages[Package[p]] = "missing" THEN "open"
    ELSE IF p \notin file_map THEN "unknown"
    ELSE "ok"

Refuse ==
    /\ pc = "extract"
    /\ Refused(inode) # "ok"
    /\ FileFails(Refused(inode))

StartCopy ==
    /\ pc = "extract"
    /\ Refused(inode) = "ok"
    /\ pc' = IF inode \in Stored THEN "copy" ELSE "inflate"
    /\ UNCHANGED <<archive, output, scanning, sink, made, written, ret, trouble, calls>>

\* Mutant: a block is asked for that is past the size.
WriteBlockPast ==
    /\ pc \in {"copy", "inflate"}
    /\ written <= Readable(inode)
    /\ written' = written + 1
    /\ UNCHANGED <<archive, output, scanning, sink, made, pc, ret, trouble, calls>>

\* A block is read and given to fwrite, by copy_data or the inflate loop.
WriteBlock ==
    /\ pc \in {"copy", "inflate"}
    /\ written < Readable(inode)
    /\ written' = written + 1
    /\ UNCHANGED <<archive, output, scanning, sink, made, pc, ret, trouble, calls>>

\* Mutant: copy_data does not compare what it read with the size.
CopyEndsUnchecked ==
    /\ pc = "copy"
    /\ written = Readable(inode)
    /\ FileDone("ok")

CopyEnds ==
    /\ pc = "copy"
    /\ written = Readable(inode)
    /\ FileDone(IF written = Blocks[inode] THEN "ok" ELSE "unknown")

CopyWriteFails ==
    /\ pc = "copy"
    /\ written < Readable(inode)
    /\ FileDone("unknown")

\* The end of the data or of the package, a read error or a write error end
\* the loop alike: the error is kept in ret, and 0 is returned.
InflateEnds ==
    /\ pc = "inflate"
    /\ FileDone("ok")

-----------------------------------------------------------------------------

Step ==
    \/ \E p \in DOMAIN Tree : ScanFile(p) \/ ScanDir(p)
    \/ ScanUp
    \/ PassParent \/ ParentFails \/ OpenOutput \/ OutputFails
    \/ Refuse \/ StartCopy \/ WriteBlock
    \/ CopyEnds \/ CopyWriteFails \/ InflateEnds

Next ==
    \/ \E s \in Strings :
         \/ ExtractDir(s) \/ ExtractDirFails(s)
         \/ \E o \in OutFiles : ExtractFile(s, o) \/ ExtractFileUnopened(s, o)
    \/ Step

Spec == Init /\ [][Next]_vars

\* The library runs in the caller's thread and waits for nothing but the file
\* system, which answers.
FairSpec == Spec /\ WF_vars(Step)

-----------------------------------------------------------------------------
(* Properties                                                              *)

TypeOK ==
    /\ file_map \subseteq Files
    /\ packages \in [{Package[p] : p \in Files} -> {"whole", "short", "missing"}]
    /\ \A o \in DOMAIN output : output[o].kind \in {"none", "dir", "file"} /\ output[o].blocks \in Nat
    /\ \A n \in DOMAIN todo : todo[n] \subseteq DOMAIN Tree
    /\ inode \in DOMAIN Tree \cup {NoInode}
    /\ sink \in {<< >>} \cup Sinks
    /\ made \in 0 .. Len(sink)
    /\ written \in Nat /\ (pc = "copy" => written <= Blocks[inode])
    /\ pc \in {"idle", "scan", "parents", "extract", "copy", "inflate"}
    /\ trouble \in BOOLEAN

Returned(name) == pc = "idle" /\ call.name = name

Asked == GetInode(Tree, call.path).inode

FilesBelow(p) == {q \in Files : IsStrictPrefix(p, q)}

\* Where a file belongs: at its own path below the output directory, or where
\* its path leads from there if it has other than ordinary names.
Home(p) == IF Plain(p) THEN OutDir \o p ELSE Place(OutPath[p])

\* No other file of the directory asked for belongs at the same place.
Alone(p) == \A q \in FilesBelow(Asked) : Home(q) = Home(p) => q = p

\* When nothing fails, the whole directory is recreated: after
\* wows_extract_dir every file below the directory asked for has all its
\* blocks where it belongs, unless another one belongs there too, whatever
\* order the children are scanned in and whatever directories and files were
\* already there (inflate.c:212-314).
DirComplete ==
    Returned("dir") /\ ~ trouble =>
      /\ ret = "ok"
      /\ \A p \in FilesBelow(Asked) : Alone(p) => output[Home(p)] = Data(p, Blocks[p])

\* A stored file is reported as extracted only if all of it was read and
\* given to the output: a package that ends too soon or a block that is not
\* taken are reported (inflate.c:85-117, 153-158).
StoredIsCopied ==
    Returned("file") /\ ret = "ok" /\ inode \in Stored => written = Blocks[inode]

\* Nothing else in the file system changes: wows_extract_file writes its
\* output file only, wows_extract_dir only the files of the archive below the
\* directory asked for and the directories on the way to them, which are below
\* the output directory as long as the names are ordinary; what was a directory
\* stays one (inflate.c:212-314, 325-334).
MayWrite(o) ==
    IF call'.name = "file" THEN o = call'.out
    ELSE \E p \in FilesBelow(GetInode(Tree, call'.path).inode) :
           IF Plain(p) THEN IsPrefix(o, OutDir \o p)
           ELSE \E n \in 1 .. Len(OutPath[p]) : o = Place(SubSeq(OutPath[p], 1, n))

OthersUntouched ==
    [][\A o \in DOMAIN output :
         output'[o] # output[o] => MayWrite(o) /\ output[o].kind # "dir"]_vars

\* What the scans of td have still to visit, and all below it.
PendingOf(td) == {x \in DOMAIN Tree : \E n \in DOMAIN td : \E q \in td[n] : IsPrefix(q, x)}

\* A file is scanned once; a directory is scanned, and left.
ScansAhead == 2 * Cardinality(PendingOf(todo)) + Len(todo)

\* How much of the file at hand is still to be done: its directories, the
\* opening of its package, its data.
StagesAhead ==
    CASE pc = "parents" -> 3
      [] pc = "extract" -> 2
      [] pc \in {"copy", "inflate"} -> 1
      [] OTHER -> 0

RoundsAhead ==
    CASE pc = "parents" -> Len(sink) - made
      [] pc \in {"copy", "inflate"} -> Blocks[inode] - written
      [] OTHER -> 0

Variant == <<ScansAhead, StagesAhead, RoundsAhead>>

\* Every step of a call brings it closer to its end, whatever fails: nothing
\* is scanned twice, and the loops over the directories of an output path and
\* over blocks go on to their end (inflate.c:98-111, 173-203, 222-234, 311).
CallsEnd == [][pc # "idle" => Variant' \in Measures /\ Lower(Variant', Variant)]_vars

\* Every call returns: the scan and the loops over directories and blocks end
\* (inflate.c:98-111, 173-203, 222-234, 311).
CallsReturn == []<>(pc = "idle")

\* inc/wows-depack.h:252 and 267: wows_extract_file and wows_extract_dir, which
\* "will extract all files under the given directory" (line 259), return "0 on
\* success, or an error code if an error occurred".
FailureReported ==
    ret = "ok" =>
      /\ Returned("file") => output[call.out] = Data(inode, Blocks[inode])
      /\ Returned("dir") =>
           \A p \in FilesBelow(Asked) : Alone(p) => output[Home(p)] = Data(p, Blocks[p])
=============================================================================
