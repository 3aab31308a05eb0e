----------------------------- MODULE WowsContext -----------------------------
(***************************************************************************)
(* The parser context of lib/index-parser.c and lib/inode.c: index files   *)
(* are parsed one after the other, each adds its records to metadata_map   *)
(* and file_map and its files, with the directories above them, to the     *)
(* inode tree.  One action per file parsed and per file entry put in the   *)
(* tree, since an entry that fails leaves everything before it in place.   *)
(*                                                                         *)
(* The two hash maps and the children of a directory are maps here (what   *)
(* HashMap is shown to implement).  The tree is a function from paths, the *)
(* names from the root down, to the inodes that can be reached: an inode   *)
(* that is replaced takes everything below it out of reach.                *)
(***************************************************************************)
EXTENDS Integers, Sequences, FiniteSets, SequencesExt

CONSTANTS
    IndexFiles,   \* the entries of the directory of index files
    Metadata,     \* Metadata[f]: the metadata section, a sequence of records
    Entries,      \* Entries[f]: the metadata ids of the data file section
    Corrupted,    \* the files map_index_file rejects
    Ids,          \* record ids
    Names,
    NoRecord,
    RootId,       \* WOWS_ROOT_INODE, 0; a record may have it too
    MaxLevel,     \* WOWS_DIR_MAX_LEVEL, 32
    MaxIndexes    \* bound on index_count, for model checking

ASSUME ContextAssumption ==
    /\ Corrupted \subseteq IndexFiles
    /\ Metadata \in [IndexFiles -> Seq([id : Ids, parent : Ids, name : Names])]
    /\ Entries \in [IndexFiles -> Seq(Ids)]
    /\ NoRecord \notin Ids \cup Names \cup {RootId} \cup IndexFiles
    /\ NoRecord \notin Nat \cup [id : Ids, parent : Ids, name : Names, index : Nat]
    /\ MaxLevel \in Nat \ {0}
    /\ MaxIndexes \in Nat

VARIABLES
    metadata_map,   \* id -> the record and the index that holds it
    file_map,       \* id -> the index whose data entry it is
    indexes,        \* the files registered; indexes[n] is context->indexes[n-1]
    tree,           \* path -> inode
    call,           \* the API call under way, or the last one
    todo,           \* what wows_parse_index_dir has still to read
    file,           \* the index file being parsed
    entry,          \* the data entry build_inode_tree is at
    pc,
    ret,            \* what the last call returned
    failed          \* history: the parsing of a file failed in this call

context == <<metadata_map, file_map, indexes, tree>>
vars == <<context, call, todo, file, entry, pc, ret, failed>>

Dir == "dir"
File == "file"

Errors == {"open", "corrupted", "missing_metadata", "collision"}

Root == << >>

Init ==
    /\ metadata_map = [m \in Ids |-> NoRecord]
    /\ file_map = [m \in Ids |-> NoRecord]
    /\ indexes = << >>
    /\ tree = [p \in {Root} |-> [type |-> Dir, id |-> RootId, index |-> 0]]
    /\ call = "none"
    /\ todo = {}
    /\ file = NoRecord
    /\ entry = 0
    /\ pc = "idle"
    /\ ret = "ok"
    /\ failed = FALSE

-----------------------------------------------------------------------------
(* Paths                                                                   *)

\* Mutant: get_path stops one level early.
AncestorsOneShort(r) ==
    LET above[l \in 1 .. MaxLevel] ==
          LET id == IF l = 1 THEN r.parent
                    ELSE IF above[l-1] = NoRecord THEN NoRecord ELSE above[l-1].parent
          IN  IF id = NoRecord \/ l = MaxLevel THEN NoRecord ELSE metadata_map[id]
    IN  above

\* The records get_path collects above r, nearest first: level l is the
\* record l levels up, until a parent is not known or the limit is reached.
Ancestors(r) ==
    LET above[l \in 1 .. MaxLevel] ==
          LET id == IF l = 1 THEN r.parent
                    ELSE IF above[l-1] = NoRecord THEN NoRecord ELSE above[l-1].parent
          IN  IF id = NoRecord THEN NoRecord ELSE metadata_map[id]
    IN  above

Depth(r) == Cardinality({l \in 1 .. MaxLevel : Ancestors(r)[l] # NoRecord})

\* The record of the directory d levels down on the way to r, and its path.
DirRecord(r, d) == Ancestors(r)[Depth(r) - d + 1]
DirPath(r, d)   == [j \in 1 .. d |-> DirRecord(r, j).name]
DirPaths(r)     == {DirPath(r, d) : d \in 1 .. Depth(r)}
FilePath(r)     == Append(DirPath(r, Depth(r)), r.name)

Below(p) == {q \in DOMAIN tree : IsStrictPrefix(p, q)}

-----------------------------------------------------------------------------
(* The records and entries of an index file are put in the maps, over      *)
(* those of earlier indexes that have the same id.                         *)

\* Mutant: the index is numbered before it is counted.
NewIndexUncounted == Len(indexes)

NewIndex == Len(indexes) + 1

PutMetadata(f, n) ==
    LET defines(m) == {j \in DOMAIN Metadata[f] : Metadata[f][j].id = m}
        last(m)    == Metadata[f][CHOOSE j \in defines(m) : \A k \in defines(m) : k <= j]
    IN  [m \in Ids |-> IF defines(m) = {} THEN metadata_map[m]
                       ELSE [id |-> m, parent |-> last(m).parent,
                             name |-> last(m).name, index |-> n]]

\* Mutant: an entry that is there already is kept.
PutEntriesIfNew(f, n) ==
    [m \in Ids |-> IF m \in ToSet(Entries[f]) /\ file_map[m] = NoRecord
                   THEN n ELSE file_map[m]]

PutEntries(f, n) ==
    [m \in Ids |-> IF m \in ToSet(Entries[f]) THEN n ELSE file_map[m]]

-----------------------------------------------------------------------------
(* A call of wows_parse_index_dir or wows_parse_index_file returns.        *)

\* The result of a file's parsing is the call's own, or is dropped by
\* wows_parse_index_dir, which goes on with the next entry.
FileParsed(result) ==
    /\ file' = NoRecord
    /\ entry' = 0
    /\ failed' = (failed \/ result # "ok")
    /\ IF call = "parse_dir"
       THEN pc' = "readdir" /\ UNCHANGED ret
       ELSE pc' = "idle" /\ ret' = result

-----------------------------------------------------------------------------

ParseDir ==
    /\ pc = "idle"
    /\ call' = "parse_dir"
    /\ todo' = IndexFiles
    /\ pc' = "readdir"
    /\ failed' = FALSE
    /\ UNCHANGED <<context, file, entry, ret>>

OpendirFails ==
    /\ pc = "idle"
    /\ call' = "parse_dir"
    /\ ret' = "open"
    /\ failed' = FALSE
    /\ UNCHANGED <<context, todo, file, entry, pc>>

\* readdir gives the entries in any order.
ReadFile(f) ==
    /\ pc = "readdir"
    /\ f \in todo
    /\ todo' = todo \ {f}
    /\ file' = f
    /\ pc' = "parse"
    /\ UNCHANGED <<context, call, entry, ret, failed>>

\* lstat fails, or the entry is not a regular file.
SkipFile(f) ==
    /\ pc = "readdir"
    /\ f \in todo
    /\ todo' = todo \ {f}
    /\ UNCHANGED <<context, call, file, entry, pc, ret, failed>>

DirParsed ==
    /\ pc = "readdir"
    /\ todo = {}
    /\ pc' = "idle"
    /\ ret' = "ok"
    /\ UNCHANGED <<context, call, todo, file, entry, failed>>

ParseFile(f) ==
    /\ pc = "idle"
    /\ call' = "parse_file"
    /\ file' = f
    /\ pc' = "parse"
    /\ failed' = FALSE
    /\ UNCHANGED <<context, todo, entry, ret>>

OpenFails ==
    /\ pc = "parse"
    /\ FileParsed("open")
    /\ UNCHANGED <<context, call, todo>>

\* Mutant: the records are in metadata_map before the index is rejected.
MapFailsLate ==
    /\ pc = "parse"
    /\ file \in Corrupted
    /\ metadata_map' = PutMetadata(file, NewIndex)
    /\ FileParsed("corrupted")
    /\ UNCHANGED <<file_map, indexes, tree, call, todo>>

\* map_index_file finds the contents out of bounds; the index is freed.
MapFails ==
    /\ pc = "parse"
    /\ file \in Corrupted
    /\ FileParsed("corrupted")
    /\ UNCHANGED <<context, call, todo>>

\* The index is put in the context; build_inode_tree is next.
Register ==
    /\ pc = "parse"
    /\ file \notin Corrupted
    /\ Len(indexes) < MaxIndexes
    /\ metadata_map' = PutMetadata(file, NewIndex)
    /\ file_map' = PutEntries(file, NewIndex)
    /\ indexes' = Append(indexes, file)
    /\ entry' = 1
    /\ pc' = "build"
    /\ UNCHANGED <<tree, call, todo, file, ret, failed>>

-----------------------------------------------------------------------------
(* build_inode_tree                                                        *)

Record == metadata_map[Entries[file][entry]]

Building ==
    /\ pc = "build"
    /\ entry <= Len(Entries[file])

\* Mutant: the type of an inode on the path is not looked at.
CollidesNever(r) == FALSE

\* A directory of the path is a file of the tree.
Collides(r) == \E p \in DirPaths(r) \cap DOMAIN tree : tree[p].type # Dir

BuildMissesMetadata ==
    /\ Building
    /\ Record = NoRecord
    /\ FileParsed("missing_metadata")
    /\ UNCHANGED <<context, call, todo>>

BuildCollides ==
    /\ Building
    /\ Record # NoRecord
    /\ Collides(Record)
    /\ FileParsed("collision")
    /\ UNCHANGED <<context, call, todo>>

\* The directories that are not there yet are created, then the file, which
\* replaces whatever had its name.
BuildFile ==
    LET r == Record
        p == FilePath(r)
        kept == DOMAIN tree \ ({p} \cup Below(p))
    IN
    /\ Building
    /\ r # NoRecord
    /\ ~ Collides(r)
    /\ tree' = [q \in kept \cup DirPaths(r) \cup {p} |->
         IF q = p THEN [type |-> File, id |-> r.id, index |-> Len(indexes)]
         ELSE IF q \in kept THEN tree[q]
         ELSE [type |-> Dir, id |-> DirRecord(r, Len(q)).id, index |-> Len(indexes)]]
    /\ entry' = entry + 1
    /\ UNCHANGED <<metadata_map, file_map, indexes, call, todo, file, pc, ret, failed>>

BuildDone ==
    /\ pc = "build"
    /\ entry > Len(Entries[file])
    /\ FileParsed("ok")
    /\ UNCHANGED <<context, call, todo>>

-----------------------------------------------------------------------------

Next ==
    \/ ParseDir \/ OpendirFails \/ DirParsed
    \/ \E f \in IndexFiles : ReadFile(f) \/ SkipFile(f) \/ ParseFile(f)
    \/ OpenFails \/ MapFails \/ Register
    \/ BuildMissesMetadata \/ BuildCollides \/ BuildFile \/ BuildDone

Spec == Init /\ [][Next]_vars
=============================================================================
