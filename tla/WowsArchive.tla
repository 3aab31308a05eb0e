----------------------------- MODULE WowsArchive -----------------------------
(***************************************************************************)
(* The queries of the archive (lib/stat.c, lib/search.c, the listing of    *)
(* lib/debug.c), made between the parsing calls of WowsContext, whatever   *)
(* those returned.                                                         *)
(***************************************************************************)
EXTENDS WowsContextInv, PathLookup

CONSTANTS
    Paths,       \* the strings asked for
    Patterns,    \* a regular expression is the set of strings it matches
    ReaddirChunk,   \* READDIR_ALLOC_SIZE, 16
    SearchChunk,    \* SEARCH_RESULT_ALLOC_SIZE, 10
    MaxAsked     \* bound on the indexes parsed before a query

ASSUME ArchiveAssumption ==
    /\ Sep \notin Names
    /\ NoInode \notin Seq(Names)
    /\ \A s \in Paths : IsString(s, Names)
    /\ ReaddirChunk \in Nat \ {0} /\ SearchChunk \in Nat \ {0}

VARIABLES
    query,       \* the last query: its function and its argument
    answer       \* what it returned

qvars == <<query, answer>>

ArchiveInit ==
    /\ Init
    /\ query = [call |-> "none"]
    /\ answer = [ret |-> "ok"]

-----------------------------------------------------------------------------

\* The calls of the library are made one at a time.
Asking == pc = "idle" /\ query.call = "none" /\ Len(indexes) <= MaxAsked

\* Mutant: the array grows by one element less.
RoomOneShort(n, chunk) ==
    LET grown == {c \in 0 .. n : c % chunk = chunk - 1}
    IN  IF grown = {} THEN chunk ELSE Greatest(grown) + chunk - 1

\* The room of an array of results when its element n, from 0, is written: it
\* has grown whenever the place of the element was the last one of a chunk.
Room(n, chunk) ==
    LET grown == {c \in 0 .. n : c % chunk = chunk - 1}
    IN  IF grown = {} THEN chunk ELSE Greatest(grown) + chunk

\* The elements that are written past the end of an array of count results.
Overrun(count, chunk) == {n \in 0 .. count - 1 : n >= Room(n, chunk)}

\* What wows_stat_path answers for an inode: the size is that of the entry.
StatOf(p) ==
    IF tree[p].type = File /\ file_map[tree[p].id] = NoRecord
    THEN Fails("missing_metadata")
    ELSE Found(p)

Stat(s) ==
    LET found == GetInode(tree, s) IN
    /\ Asking
    /\ query' = [call |-> "stat", path |-> s]
    /\ answer' = IF found.ret = "ok" THEN StatOf(found.inode) ELSE found
    /\ UNCHANGED vars

\* Mutant: the listing goes down into the directories it finds.
ChildrenOfAll(p) == {Last(q) : q \in {x \in DOMAIN tree : IsStrictPrefix(p, x)}}

ChildrenOf(p) == {Last(q) : q \in {x \in DOMAIN tree \ {Root} : Front(x) = p}}

ReadDir(s) ==
    LET found == GetInode(tree, s) IN
    /\ Asking
    /\ query' = [call |-> "readdir", path |-> s]
    /\ answer' =
         IF found.ret # "ok" THEN found
         ELSE IF tree[found.inode].type # Dir THEN Fails("not_a_dir")
         ELSE LET names == ChildrenOf(found.inode)
              IN  [ret |-> "ok", inode |-> found.inode, names |-> names,
                   overrun |-> Overrun(Cardinality(names), ReaddirChunk)]
    /\ UNCHANGED vars

Modes == {"file_only", "dir_only", "file_plus_dir", "full_path"}

\* search_inode looks at every inode below the root: a file by its name or its
\* path, a directory by its name.
Matches(mode, pattern) ==
    {p \in DOMAIN tree \ {Root} :
       \/ /\ tree[p].type = File /\ mode \in {"file_only", "file_plus_dir"}
          /\ <<Last(p)>> \in pattern
       \/ /\ tree[p].type = File /\ mode = "full_path"
          /\ PathString(tree, p) \in pattern
       \/ /\ tree[p].type = Dir /\ mode \in {"dir_only", "file_plus_dir"}
          /\ <<Last(p)>> \in pattern}

Search(mode, pattern) ==
    /\ Asking
    /\ query' = [call |-> "search", mode |-> mode, pattern |-> pattern]
    /\ answer' = [ret |-> "ok", results |-> {PathString(tree, p) : p \in Matches(mode, pattern)},
                  overrun |-> Overrun(Cardinality(Matches(mode, pattern)), SearchChunk)]
    /\ UNCHANGED vars

\* The pattern does not compile: the results are left as they were.
SearchBadPattern ==
    /\ Asking
    /\ query' = [call |-> "search_bad"]
    /\ answer' = [ret |-> "invalid_pattern"]
    /\ UNCHANGED vars

\* wows_print_flat: a line for each file, which begins with a separator.
PrintFlat ==
    /\ Asking
    /\ query' = [call |-> "print"]
    /\ answer' = [ret |-> "ok",
                  lines |-> {<<Sep>> \o PathString(tree, p) :
                               p \in {q \in DOMAIN tree : tree[q].type = File}}]
    /\ UNCHANGED vars

\* The caller has read the answer.  A query leaves the context as it was.
Answered ==
    /\ query.call # "none"
    /\ query' = [call |-> "none"]
    /\ answer' = [ret |-> "ok"]
    /\ UNCHANGED vars

Parse ==
    /\ query.call = "none"
    /\ Next
    /\ UNCHANGED qvars

-----------------------------------------------------------------------------

ArchiveNext ==
    \/ Parse
    \/ \E s \in Paths : Stat(s) \/ ReadDir(s)
    \/ \E mode \in Modes, pattern \in Patterns : Search(mode, pattern)
    \/ SearchBadPattern \/ PrintFlat
    \/ Answered

ArchiveSpec == ArchiveInit /\ [][ArchiveNext]_<<vars, qvars>>

-----------------------------------------------------------------------------
(* Properties                                                              *)

BelowFile(p) == \E q \in DOMAIN tree : IsStrictPrefix(q, p) /\ tree[q].type = File

\* A string resolves to the inode its names lead to from the root, however
\* many separators it has, and where there is none the error says whether a
\* file was in the way: get_inode walks over directories that are missing and
\* over files to the end of the string (inflate.c:24-83).  Not so of a string
\* that goes below a file and ends with a separator: it is answered with the
\* file, where the walk stays.
LookupExact ==
    query.call \in {"stat", "readdir"} =>
      LET s == query.path
          p == NamesIn(s)
      IN  (s # << >> /\ Shallow(s) /\ ~ (Last(s) = Sep /\ BelowFile(p))) =>
            IF p \in DOMAIN tree
            THEN IF query.call = "readdir" /\ tree[p].type = File
                 THEN answer.ret = "not_a_dir"
                 ELSE answer.ret = "ok" /\ answer.inode = p
            ELSE answer.ret = IF BelowFile(p) THEN "not_a_dir" ELSE "not_found"

\* No directory has the id of the root, at which get_path_inode would stop.
RootIdUnused == \A p \in DOMAIN tree \ {Root} : tree[p].type = Dir => tree[p].id # RootId

\* Whatever a search finds can be asked for: each result of wows_search is a
\* string that wows_stat_path and the extraction functions resolve, to an
\* inode of a kind the mode asks for, unless a directory has the id of the
\* root (search.c:23-85, inode.c:153-165, inflate.c:24-83).
ResultsResolve ==
    query.call = "search" /\ RootIdUnused =>
      \A s \in answer.results : Shallow(s) =>
        LET found == GetInode(tree, s) IN
        /\ found.ret = "ok" /\ StatOf(found.inode).ret = "ok"
        /\ found.inode # Root
        /\ tree[found.inode].type \in
             CASE query.mode = "dir_only"      -> {Dir}
               [] query.mode = "file_plus_dir" -> {Dir, File}
               [] OTHER                        -> {File}

\* What wows_readdir lists is there: the directory's string, a separator and
\* a name of the list resolve to the child, and no other name does
\* (stat.c:18-50).
ListedResolve ==
    query.call = "readdir" /\ answer.ret = "ok" =>
      \A n \in Names :
        LET s == query.path \o <<Sep, n>> IN
        Shallow(s) => (n \in answer.names <=> GetInode(tree, s) = Found(Append(answer.inode, n)))

\* The listing wows_print_flat prints, as a reader takes it, is the archive:
\* the names of its lines are the paths of the files, each of which has its
\* line, and a line that is asked for is answered with its file (debug.c:162-192,
\* inode.c:153-165, inflate.c:24-83).
PrintedResolve ==
    query.call = "print" /\ RootIdUnused =>
      /\ {NamesIn(s) : s \in answer.lines} = {p \in DOMAIN tree : tree[p].type = File}
      /\ \A s \in answer.lines : Shallow(s) => GetInode(tree, s) = Found(NamesIn(s))

\* No name is written past the end of the array of a listing or of results,
\* which is made larger while it is filled (stat.c:22-25, search.c:50-56,
\* 71-77).
AnswersFit ==
    query.call \in {"readdir", "search"} /\ answer.ret = "ok" => answer.overrun = {}

\* inc/wows-depack.h:175: wows_stat_path returns "WOWS_ERROR_NOT_FOUND if the
\* path does not exist", and not for one that does, written with single
\* separators.
ExistingPathFound ==
    LET s == query.path IN
    /\ query.call = "stat"
    /\ NamesIn(s) \in DOMAIN tree \ {Root}
    /\ \A j \in 1 .. Len(s) - 1 : s[j] # Sep \/ s[j+1] # Sep
    => answer.ret # "not_found"
=============================================================================
