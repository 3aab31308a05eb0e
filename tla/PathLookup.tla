------------------------------ MODULE PathLookup ------------------------------
(***************************************************************************)
(* Paths given to the library: how lib/utils.c takes them apart and puts   *)
(* them together, and how get_inode of lib/inflate.c walks the inode tree. *)
(*                                                                         *)
(* A string is a sequence of names and separators in which no two names    *)
(* are adjacent, and names hold no separator.  An inode is named by its    *)
(* path in the tree, as in WowsContext; t is the tree.                     *)
(***************************************************************************)
EXTENDS Integers, Sequences, FiniteSets, SequencesExt

CONSTANTS
    Sep,         \* '/'
    NoInode,
    MaxDirs      \* MAX_DIRS, 10

ASSUME LookupAssumption == MaxDirs \in Nat \ {0}

\* No two names are adjacent in a string.
IsString(s, names) ==
    /\ s \in Seq(names \cup {Sep})
    /\ \A j \in 1 .. Len(s) - 1 : s[j] = Sep \/ s[j+1] = Sep

\* The first n members of a set of positions.
Firsts(S, n) == {j \in S : Cardinality({k \in S : k <= j}) <= n}

Greatest(S) == CHOOSE m \in S : \A k \in S : k <= m

\* What s has at the positions S, in their order.
InOrder(s, S) == [n \in 1 .. Cardinality(S) |-> s[Greatest(Firsts(S, n))]]

\* The names of a string, as a file system reads it.
NamesIn(s) == InOrder(s, {j \in DOMAIN s : s[j] # Sep})

SepsIn(s) == {j \in DOMAIN s : s[j] = Sep}

\* The positions of the names that a separator follows.
DirsIn(s) == {j \in DOMAIN s : s[j] # Sep /\ j < Len(s)}

\* What follows the last separator, but at most MaxDirs of them are skipped.
FileIn(s) == SubSeq(s, Greatest(Firsts(SepsIn(s), MaxDirs) \cup {0}) + 1, Len(s))

\* Mutant: a leading or repeated separator ends a directory without a name.
DecomposeKeepsEmpty(s) ==
    LET dirs == Firsts({j \in SepsIn(s) : j > 1}, MaxDirs)
        end  == Greatest(dirs \cup {0})
    IN  [dirs |-> [n \in 1 .. Cardinality(dirs) |->
                     s[Greatest(Firsts(dirs, n)) - 1]],
         file |-> FileIn(SubSeq(s, end + 1, Len(s)))]

\* decompose_path: at most MaxDirs directories, and the file name.  A file is
\* missing, and not empty, when the string ends with a separator.
Decompose(s) ==
    LET dirs == Firsts(DirsIn(s), MaxDirs)
        rest == SubSeq(s, IF dirs = {} THEN 1 ELSE Greatest(dirs) + 2, Len(s))
    IN  [dirs |-> InOrder(s, dirs), file |-> FileIn(rest)]

\* The strings decompose_path takes apart whole: no more than MaxDirs
\* directories, nor MaxDirs separators in a row.
Shallow(s) ==
    /\ Cardinality(DirsIn(s)) <= MaxDirs
    /\ \A j \in 1 .. Len(s) - MaxDirs : \E k \in j .. j + MaxDirs : s[k] # Sep

HasFile(s) == SepsIn(s) = {} \/ Decompose(s).file # << >>

Child(t, p, n) == IF Append(p, n) \in DOMAIN t THEN Append(p, n) ELSE NoInode

IsFolder(t, p) == p # NoInode /\ t[p].type = "dir"

\* An inode tree over a set of names, as WowsContextInv keeps it.
IsTree(t, names) ==
    /\ DOMAIN t \subseteq Seq(names) /\ NoInode \notin DOMAIN t
    /\ << >> \in DOMAIN t /\ IsFolder(t, << >>)
    /\ \A p \in DOMAIN t \ {<< >>} : Front(p) \in DOMAIN t /\ IsFolder(t, Front(p))

\* The inode the directories of a string lead to: the walk stays where it is
\* once it has left the tree or come to a file.
Walk(t, dirs) ==
    LET at[n \in 0 .. Len(dirs)] ==
          IF n = 0 THEN << >>
          ELSE IF IsFolder(t, at[n-1]) THEN Child(t, at[n-1], dirs[n])
          ELSE at[n-1]
    IN  at[Len(dirs)]

Found(p)  == [ret |-> "ok", inode |-> p]
Fails(e)  == [ret |-> e, inode |-> NoInode]

\* Mutant: a file is looked for below whatever the walk ended at.
GetInodeUntyped(t, s) ==
    LET file == Decompose(s).file
        at   == Walk(t, Decompose(s).dirs)
        p    == IF Len(file) = 1 THEN Child(t, at, file[1]) ELSE NoInode
    IN  IF at = NoInode THEN Fails("not_found")
        ELSE IF ~ HasFile(s) THEN Found(at)
        ELSE IF p = NoInode THEN Fails("not_found")
        ELSE Found(p)

\* get_inode
GetInode(t, s) ==
    LET file == Decompose(s).file
        at   == Walk(t, Decompose(s).dirs)
        p    == IF Len(file) = 1 THEN Child(t, at, file[1]) ELSE NoInode
    IN  IF at = NoInode THEN Fails("not_found")
        ELSE IF ~ HasFile(s) THEN Found(at)
        ELSE IF ~ IsFolder(t, at) THEN Fails("not_a_dir")
        ELSE IF p = NoInode THEN Fails("not_found")
        ELSE Found(p)

\* Mutant: the directories are joined in the order get_path_inode found them.
JoinPathUnreversed(parents, name) ==
    FoldRight(LAMBDA dir, s : <<dir, Sep>> \o s, parents, <<name>>)

\* join_path: parents has the nearest directory first.
JoinPath(parents, name) ==
    FoldLeft(LAMBDA s, dir : <<dir, Sep>> \o s, <<name>>, parents)

\* Mutant: the directory below the root is left out.
ParentNamesOneShort(t, p) ==
    LET roots == {n \in 0 .. Len(p) - 1 : t[SubSeq(p, 1, n)].id = t[<< >>].id}
    IN  Reverse(SubSeq(p, Greatest(roots) + 2, Len(p) - 1))

\* get_path_inode: the names of the directories above p, nearest first, up to
\* one that has the id of the root.  No tree is deeper than its limit.
ParentNames(t, p) ==
    LET roots == {n \in 0 .. Len(p) - 1 : t[SubSeq(p, 1, n)].id = t[<< >>].id}
    IN  Reverse(SubSeq(p, Greatest(roots) + 1, Len(p) - 1))

\* The string get_path_inode and join_path make of an inode.
PathString(t, p) == JoinPath(ParentNames(t, p), Last(p))
=============================================================================
