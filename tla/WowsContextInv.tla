--------------------------- MODULE WowsContextInv ---------------------------
(***************************************************************************)
(* What the parser context promises: the tree is a tree, whatever it holds *)
(* can be resolved to an index, and index files that agree with each other *)
(* give the same tree in whatever order the directory lists them.          *)
(***************************************************************************)
EXTENDS WowsContext

Records(f) == Range(Metadata[f])
Listed(f)  == Range(Entries[f])
Registered == Range(indexes)

Inodes == [type : {Dir, File}, id : Ids \cup {RootId}, index : 0 .. MaxIndexes]

\* Every variable has the values of its type; what is parsed is parsed only
\* inside a call, and an entry is built only of the last index registered
\* (index-parser.c:278-342).
TypeOK ==
    /\ metadata_map \in [Ids -> {NoRecord} \cup
         [id : Ids, parent : Ids, name : Names, index : 1 .. MaxIndexes]]
    /\ file_map \in [Ids -> {NoRecord} \cup 1 .. MaxIndexes]
    /\ indexes \in Seq(IndexFiles) /\ Len(indexes) <= MaxIndexes
    /\ \A p \in DOMAIN tree : p \in Seq(Names) /\ tree[p] \in Inodes
    /\ call \in {"none", "parse_dir", "parse_file"}
    /\ todo \subseteq IndexFiles
    /\ pc \in {"idle", "readdir", "parse", "build"}
    /\ ret \in Errors \cup {"ok"}
    /\ failed \in BOOLEAN
    /\ (file \in IndexFiles) <=> (pc \in {"parse", "build"})
    /\ pc = "build" => /\ indexes # << >> /\ file = Last(indexes)
                       /\ entry \in 1 .. Len(Entries[file]) + 1

-----------------------------------------------------------------------------
(* The tree is a tree.                                                     *)

\* Every inode but the root is the child of a directory that can be reached:
\* a file that takes the name of a directory leaves nothing below itself
\* (add_child_inode, inode.c:69-72).
TreeShape ==
    /\ Root \in DOMAIN tree /\ tree[Root].type = Dir
    /\ \A p \in DOMAIN tree \ {Root} :
         Front(p) \in DOMAIN tree /\ tree[Front(p)].type = Dir

-----------------------------------------------------------------------------
(* Whatever is reached can be resolved.                                    *)

MetadataResolves ==
    \A m \in Ids : metadata_map[m] # NoRecord =>
      LET r == metadata_map[m] IN
      /\ r.index \in DOMAIN indexes
      /\ [id |-> m, parent |-> r.parent, name |-> r.name] \in Records(indexes[r.index])

EntriesResolve ==
    \A m \in Ids : file_map[m] # NoRecord =>
      file_map[m] \in DOMAIN indexes /\ m \in Listed(indexes[file_map[m]])

Resolves(i, name) ==
    /\ metadata_map[i.id] # NoRecord
    /\ \E f \in Registered : \E r \in Records(f) : r.id = i.id /\ r.name = name
    /\ i.type = File => file_map[i.id] # NoRecord /\ i.id \in Listed(indexes[i.index])

\* The maps and the tree point into registered indexes that hold what is
\* looked for: an extraction that starts from a file inode finds its metadata,
\* its data entry and its index, and the name it shows is that of a record
\* (extract_file_inode, inflate.c:119-142, which dereferences all of them).
Resolvable ==
    /\ MetadataResolves
    /\ EntriesResolve
    /\ \A p \in DOMAIN tree \ {Root} : Resolves(tree[p], Last(p))

-----------------------------------------------------------------------------
(* The tree that a set R of records and the listed ids stand for, from the *)
(* root down; build_inode_tree goes from each file up.                     *)

DefinedIn(R) == {r.id : r \in R}

\* The ids met going down from a record without parent, d levels.
ChainsOf(R) ==
    LET chains[d \in 1 .. MaxLevel + 1] ==
          IF d = 1 THEN {<<r.id>> : r \in {x \in R : x.parent \notin DefinedIn(R)}}
          ELSE {Append(c[1], c[2].id) :
                  c \in {x \in chains[d-1] \X R : x[2].parent = Last(x[1])}}
    IN  UNION {chains[d] : d \in 1 .. MaxLevel + 1}

NamesOf(R, chain) == [j \in DOMAIN chain |-> (CHOOSE r \in R : r.id = chain[j]).name]

Known  == UNION {Records(f) : f \in Registered}
Chains == ChainsOf(Known)

FilePaths   == {NamesOf(Known, c) : c \in {x \in Chains : \E f \in Registered : Last(x) \in Listed(f)}}
FolderPaths == UNION {{SubSeq(p, 1, n) : n \in 1 .. Len(p) - 1} : p \in FilePaths}

\* Registered index files that agree: an id has one record, each file holds
\* all the directories of its entries, none nested too deep, and no path is
\* both a file and a directory.
Agreeing ==
    /\ \A r, s \in Known : r.id = s.id => r = s
    /\ \A f \in Registered : \A m \in Listed(f) :
         \E c \in Chains : Last(c) = m /\ Range(c) \subseteq DefinedIn(Records(f))
    /\ FilePaths \cap FolderPaths = {}

\* Between two calls the tree of agreeing index files is exactly that of all
\* their records, whatever the order they were parsed in and whichever were
\* parsed twice (build_inode_tree, inode.c:10-66).
TreeComplete ==
    pc = "idle" /\ Agreeing =>
      /\ {p \in DOMAIN tree : tree[p].type = File} = FilePaths
      /\ {p \in DOMAIN tree : tree[p].type = Dir} = FolderPaths \cup {Root}

\* The index a file's inode names, which gives the package, is the one whose
\* data entry file_map holds, which gives the offset: otherwise extraction
\* reads the offset of one package in another (inflate.c:123-140).
PkgConsistent ==
    pc = "idle" /\ Agreeing =>
      \A p \in DOMAIN tree :
        tree[p].type = File => tree[p].index = file_map[tree[p].id]

-----------------------------------------------------------------------------
(* What the documentation says, and the code does not do.                  *)

\* inc/wows-depack.h:138: wows_parse_index_dir returns "0 on success, or an
\* error code if an error occurred".
DirReportsFailure == pc = "idle" /\ failed => ret # "ok"
=============================================================================
