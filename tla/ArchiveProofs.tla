---------------------------- MODULE ArchiveProofs ----------------------------
(***************************************************************************)
(* Whatever the index files, the limits and the sizes of the arrays: the   *)
(* inode tree is a tree of inodes that can be resolved, and that of files  *)
(* that agree is complete; the answers to questions are those of the tree, *)
(* and the arrays of listings and results have room for what is written to *)
(* them.                                                                   *)
(***************************************************************************)
EXTENDS WowsArchive, LookupProofs

-----------------------------------------------------------------------------
(* The growth of the arrays                                                *)

\* Of any chunk places in a row one is the last of a chunk.
LEMMA LastOfChunk ==
    ASSUME NEW n \in Nat, NEW chunk \in Nat \ {0}, n >= chunk
    PROVE  \E c \in 0 .. n : c % chunk = chunk - 1 /\ c + chunk > n
<1> DEFINE r == (n + 1) % chunk
           c == n - r
<1>1. r \in 0 .. chunk - 1
  OBVIOUS
<1>2. c \in 0 .. n /\ c + chunk > n
  BY <1>1
<1>3. c % chunk = chunk - 1
  <2> DEFINE q == (n + 1) \div chunk
  <2>1. q \in Nat /\ n + 1 = q * chunk + r
    OBVIOUS
  <2>2. q >= 1
    BY <1>1, <2>1
  <2>3. c = (q - 1) * chunk + (chunk - 1)
    BY <2>1
  <2>4. \A a \in Nat : (a * chunk + (chunk - 1)) % chunk = chunk - 1
    OBVIOUS
  <2>5. ((q - 1) * chunk + (chunk - 1)) % chunk = chunk - 1
    <3>1. q - 1 \in Nat
      BY <2>1, <2>2
    <3> HIDE DEF q
    <3> QED
      BY <2>4, <3>1
  <2> QED
    BY <2>3, <2>5
<1> QED
  BY <1>2, <1>3

\* Element n of an array that has grown with its elements is inside of it, for
\* every size of a chunk.
LEMMA RoomCovers ==
    ASSUME NEW n \in Nat, NEW chunk \in Nat \ {0}
    PROVE  Room(n, chunk) \in Nat /\ n < Room(n, chunk)
<1> DEFINE grown == {c \in 0 .. n : c % chunk = chunk - 1}
<1>1. CASE grown = {}
  <2>1. n < chunk
    <3> SUFFICES ASSUME n >= chunk PROVE FALSE
      OBVIOUS
    <3> QED
      BY <1>1, LastOfChunk
  <2> QED
    BY <1>1, <2>1 DEF Room
<1>2. CASE grown # {}
  <2>1. Greatest(grown) \in 0 .. n /\ \A k \in grown : k <= Greatest(grown)
    BY <1>2, GreatestExists
  <2>2. Room(n, chunk) = Greatest(grown) + chunk
    BY <1>2 DEF Room
  <2>3. CASE n < chunk
    BY <2>1, <2>2, <2>3
  <2>4. CASE n >= chunk
    <3>1. PICK c \in grown : c + chunk > n
      BY <2>4, LastOfChunk
    <3>2. c \in Nat /\ c <= Greatest(grown) /\ Greatest(grown) \in Nat
      BY <2>1
    <3> QED
      BY <2>2, <3>1, <3>2
  <2> QED
    BY <2>3, <2>4
<1> QED
  BY <1>1, <1>2

LEMMA NoOverrun ==
    ASSUME NEW count \in Nat, NEW chunk \in Nat \ {0}
    PROVE  Overrun(count, chunk) = {}
<1>1. \A n \in 0 .. count - 1 : ~ (n >= Room(n, chunk))
  BY RoomCovers
<1> QED
  BY <1>1 DEF Overrun

-----------------------------------------------------------------------------
(* The tree                                                                *)

LEMMA DepthType ==
    ASSUME NEW r
    PROVE  Depth(r) \in Nat
<1>1. IsFiniteSet(1 .. MaxLevel)
  BY ContextAssumption, FS_Interval
<1>2. {l \in 1 .. MaxLevel : Ancestors(r)[l] # NoRecord} \in SUBSET (1 .. MaxLevel)
  OBVIOUS
<1> QED
  BY <1>1, <1>2, FS_Subset, FS_CardinalityType DEF Depth

\* The paths of the directories above a file are each the next one's front.
LEMMA DirPathShape ==
    ASSUME NEW r, NEW d \in Nat
    PROVE  \E S : /\ DirPath(r, d) \in Seq(S)
                  /\ Len(DirPath(r, d)) = d
                  /\ \A e \in 0 .. d : /\ DirPath(r, e) \in Seq(S)
                                       /\ Len(DirPath(r, e)) = e
                                       /\ e > 0 => Front(DirPath(r, e)) = DirPath(r, e - 1)
<1> DEFINE S == {DirRecord(r, j).name : j \in 1 .. d}
<1>1. \A e \in 0 .. d : DirPath(r, e) \in Seq(S) /\ Len(DirPath(r, e)) = e
  <2> SUFFICES ASSUME NEW e \in 0 .. d
               PROVE  DirPath(r, e) \in Seq(S) /\ Len(DirPath(r, e)) = e
    OBVIOUS
  <2>1. DirPath(r, e) \in [1 .. e -> S]
    BY DEF DirPath
  <2> QED
    BY <2>1
<1>2. \A e \in 1 .. d : Front(DirPath(r, e)) = DirPath(r, e - 1)
  <2> SUFFICES ASSUME NEW e \in 1 .. d PROVE Front(DirPath(r, e)) = DirPath(r, e - 1)
    OBVIOUS
  <2> HIDE DEF S
  <2>3. /\ DirPath(r, e) \in Seq(S) /\ Len(DirPath(r, e)) = e
        /\ DirPath(r, e - 1) \in Seq(S) /\ Len(DirPath(r, e - 1)) = e - 1
        /\ DirPath(r, e) # << >>
    BY <1>1
  <2>1. /\ Front(DirPath(r, e)) \in Seq(S)
        /\ Len(Front(DirPath(r, e))) = e - 1
        /\ \A j \in 1 .. e - 1 : Front(DirPath(r, e))[j] = DirPath(r, e)[j]
    BY <2>3, FrontShape
  <2>2. \A j \in 1 .. e - 1 : DirPath(r, e)[j] = DirPath(r, e - 1)[j]
    BY DEF DirPath
  <2> QED
    BY <2>1, <2>2, <2>3
<1> HIDE DEF S
<1>3. d \in 0 .. d /\ \A e \in 0 .. d : e > 0 => e \in 1 .. d
  OBVIOUS
<1> QED
  BY <1>1, <1>2, <1>3

LEMMA DirPathsFinite ==
    ASSUME NEW r
    PROVE  IsFiniteSet(DirPaths(r))
<1> DEFINE f == [d \in 1 .. Depth(r) |-> DirPath(r, d)]
<1>1. IsFiniteSet(1 .. Depth(r))
  BY DepthType, FS_Interval
<1>2. IsFiniteSet({f[d] : d \in 1 .. Depth(r)})
  <2>1. f = [d \in 1 .. Depth(r) |-> f[d]]
    OBVIOUS
  <2> HIDE DEF f
  <2> QED
    BY <1>1, <2>1, ImageFinite
<1>3. {f[d] : d \in 1 .. Depth(r)} = DirPaths(r)
  BY DEF DirPaths
<1> QED
  BY <1>2, <1>3

\* TreeShape alone does not say what a front is: paths are finite sequences,
\* and the inodes can be counted.
TreeInv ==
    /\ IsFiniteSet(DOMAIN tree)
    /\ \A q \in DOMAIN tree : IsSequence(q)
    /\ TreeShape

LEMMA TreeInit == Init => TreeInv
<1> SUFFICES ASSUME Init PROVE TreeInv
  OBVIOUS
<1>1. DOMAIN tree = {Root} /\ tree[Root].type = Dir
  BY DEF Init
<1>2. IsSequence(Root)
  <2>1. << >> \in Seq({})
    OBVIOUS
  <2> QED
    BY <2>1, SequenceWhenever DEF Root
<1> QED
  BY <1>1, <1>2, FS_Singleton DEF TreeInv, TreeShape

\* What a file's path has below it is kept from the tree, and nothing else.
LEMMA FrontKept ==
    ASSUME TreeInv, NEW S, NEW p \in Seq(S),
           NEW q \in DOMAIN tree \ ({p} \cup Below(p)), q # Root
    PROVE  Front(q) \in DOMAIN tree \ ({p} \cup Below(p)) /\ tree[Front(q)].type = Dir
<1>1. Front(q) \in DOMAIN tree /\ tree[Front(q)].type = Dir
  BY DEF TreeInv, TreeShape
<1>2. ~ (p = Front(q) \/ IsStrictPrefix(p, Front(q)))
  <2> DEFINE X == S \cup {q[j] : j \in DOMAIN q}
  <2>1. q \in Seq({q[j] : j \in DOMAIN q})
    BY DEF TreeInv, IsSequence
  <2>2. q \in Seq(X) /\ p \in Seq(X)
    BY <2>1
  <2>3. q # << >>
    BY DEF Root
  <2> HIDE DEF X
  <2>4. ~ IsStrictPrefix(p, q)
    BY DEF Below
  <2> QED
    BY <2>2, <2>3, <2>4, PrefixOfFront
<1> QED
  BY <1>1, <1>2 DEF Below

\* A file put in the tree leaves it a tree, with the directories on the way to
\* it and without what was below its path.
LEMMA TreeBuildFile == TreeInv /\ BuildFile => TreeInv'
<1> SUFFICES ASSUME TreeInv, BuildFile PROVE TreeInv'
  OBVIOUS
<1> DEFINE r == Record
           p == FilePath(r)
           n == Depth(r)
           T == DirPaths(r)
           kept == DOMAIN tree \ ({p} \cup Below(p))
<1>1. n \in Nat
  BY DepthType
<1>2. PICK S : \A e \in 0 .. n : /\ DirPath(r, e) \in Seq(S)
                                 /\ Len(DirPath(r, e)) = e
                                 /\ e > 0 => Front(DirPath(r, e)) = DirPath(r, e - 1)
  BY <1>1, DirPathShape
<1>3. /\ p \in Seq(S \cup {r.name})
      /\ Len(p) = n + 1
      /\ Front(p) = DirPath(r, n)
  <2> DEFINE X == S \cup {r.name}
  <2>1. DirPath(r, n) \in Seq(X) /\ Len(DirPath(r, n)) = n
    BY <1>1, <1>2
  <2>2. p = Append(DirPath(r, n), r.name)
    BY DEF FilePath
  <2> HIDE DEF X, p, n
  <2>3. r.name \in X
    BY DEF X
  <2>4. p \in Seq(X) /\ Len(p) = n + 1 /\ p # << >>
    BY <2>1, <2>2, <2>3
  <2>5. Front(p) = DirPath(r, n)
    BY <2>1, <2>2, <2>3, FrontOfAppend
  <2> QED
    BY <2>4, <2>5 DEF X
<1>4. /\ tree' = [q \in kept \cup T \cup {p} |->
            IF q = p THEN [type |-> File, id |-> r.id, index |-> Len(indexes)]
            ELSE IF q \in kept THEN tree[q]
            ELSE [type |-> Dir, id |-> DirRecord(r, Len(q)).id, index |-> Len(indexes)]]
      /\ \A q \in T \cap DOMAIN tree : tree[q].type = Dir
  BY DEF BuildFile, Collides
<1>5. DirPath(r, 0) = Root
  BY DEF DirPath, Root
<1>6. Root \in kept /\ tree[Root].type = Dir
  <2>1. Root \in DOMAIN tree /\ tree[Root].type = Dir
    BY DEF TreeInv, TreeShape
  <2>2. Len(Root) = 0 /\ Len(p) > Len(Root)
    BY <1>1, <1>3 DEF Root
  <2>3. p # Root /\ ~ IsStrictPrefix(p, Root)
    BY <2>2, <1>1, <1>3 DEF IsStrictPrefix, IsPrefix
  <2> QED
    BY <2>1, <2>3 DEF Below
<1> HIDE DEF r, p, n, T, kept
\* The directories on the way to the file, the root among them.
<1>7. \A e \in 0 .. n : /\ DirPath(r, e) \in DOMAIN tree'
                        /\ tree'[DirPath(r, e)].type = Dir
  <2> SUFFICES ASSUME NEW e \in 0 .. n
               PROVE  DirPath(r, e) \in DOMAIN tree' /\ tree'[DirPath(r, e)].type = Dir
    OBVIOUS
  <2>1. DirPath(r, e) # p
    BY <1>1, <1>2, <1>3
  <2>2. CASE e = 0
    BY <2>1, <2>2, <1>4, <1>5, <1>6
  <2>3. CASE e # 0
    <3>1. DirPath(r, e) \in T
      BY <2>3 DEF T, DirPaths, n
    <3>2. DirPath(r, e) \in kept => tree[DirPath(r, e)].type = Dir
      BY <3>1, <1>4 DEF kept
    <3> QED
      BY <3>1, <3>2, <2>1, <1>4
  <2> QED
    BY <2>2, <2>3
<1>8. \A q \in DOMAIN tree' \ {Root} : Front(q) \in DOMAIN tree' /\ tree'[Front(q)].type = Dir
  <2> SUFFICES ASSUME NEW q \in DOMAIN tree', q # Root
               PROVE  Front(q) \in DOMAIN tree' /\ tree'[Front(q)].type = Dir
    OBVIOUS
  <2>1. CASE q = p
    BY <2>1, <1>1, <1>3, <1>7
  <2>2. CASE q \in T
    <3>1. PICK e \in 1 .. n : q = DirPath(r, e)
      BY <2>2 DEF T, DirPaths, n
    <3>2. e \in 0 .. n /\ e > 0 /\ e - 1 \in 0 .. n
      BY <1>1
    <3> QED
      BY <3>1, <3>2, <1>2, <1>7
  <2>3. CASE q \in kept
    <3>1. Front(q) \in kept /\ tree[Front(q)].type = Dir
      BY <2>3, <1>3, FrontKept DEF kept
    <3>2. Front(q) # p
      BY <3>1 DEF kept
    <3> QED
      BY <3>1, <3>2, <1>4
  <2> QED
    BY <2>1, <2>2, <2>3, <1>4
<1>9. TreeShape'
  <2>1. Root \in DOMAIN tree' /\ tree'[Root].type = Dir
    BY <1>1, <1>5, <1>7
  <2> QED
    BY <2>1, <1>8 DEF TreeShape, Root, Dir
<1>10. \A q \in DOMAIN tree' : IsSequence(q)
  <2> SUFFICES ASSUME NEW q \in DOMAIN tree' PROVE IsSequence(q)
    OBVIOUS
  <2>1. CASE q = p
    BY <2>1, <1>3, SequenceWhenever
  <2>2. CASE q \in T
    <3>1. PICK e \in 1 .. n : q = DirPath(r, e)
      BY <2>2 DEF T, DirPaths, n
    <3> QED
      BY <3>1, <1>1, <1>2, SequenceWhenever
  <2>3. CASE q \in kept
    BY <2>3 DEF kept, TreeInv
  <2> QED
    BY <2>1, <2>2, <2>3, <1>4
<1>11. IsFiniteSet(DOMAIN tree')
  <2>1. IsFiniteSet(kept)
    BY FS_Subset DEF kept, TreeInv
  <2>2. IsFiniteSet(T)
    BY DirPathsFinite DEF T
  <2>3. DOMAIN tree' = (kept \cup T) \cup {p}
    BY <1>4
  <2>4. IsFiniteSet(kept \cup T)
    BY <2>1, <2>2, FS_Union
  <2> QED
    BY <2>3, <2>4, FS_AddElement
<1> QED
  BY <1>9, <1>10, <1>11 DEF TreeInv

LEMMA OnlyBuildFile == Next /\ ~ BuildFile => tree' = tree
<1> SUFFICES ASSUME Next, ~ BuildFile PROVE tree' = tree
  OBVIOUS
<1>1. CASE ParseDir \/ OpendirFails \/ DirParsed
  BY <1>1 DEF ParseDir, OpendirFails, DirParsed, context
<1>2. CASE \E f \in IndexFiles : ReadFile(f) \/ SkipFile(f) \/ ParseFile(f)
  BY <1>2 DEF ReadFile, SkipFile, ParseFile, context
<1>3. CASE OpenFails \/ MapFails \/ Register
  BY <1>3 DEF OpenFails, MapFails, Register, context
<1>4. CASE BuildMissesMetadata \/ BuildCollides \/ BuildDone
  BY <1>4 DEF BuildMissesMetadata, BuildCollides, BuildDone, context
<1> QED
  BY <1>1, <1>2, <1>3, <1>4 DEF Next

LEMMA TreeNext == TreeInv /\ Next => TreeInv'
BY TreeBuildFile, OnlyBuildFile DEF TreeInv, TreeShape

-----------------------------------------------------------------------------
(* The queries                                                             *)

LEMMA ChildrenFinite ==
    ASSUME TreeInv, NEW p
    PROVE  Cardinality(ChildrenOf(p)) \in Nat
<1> DEFINE S == {x \in DOMAIN tree \ {Root} : Front(x) = p}
           f == [q \in S |-> Last(q)]
<1>1. IsFiniteSet(S)
  BY FS_Subset DEF TreeInv
<1>2. f = [q \in S |-> f[q]]
  OBVIOUS
<1>3. {f[q] : q \in S} = ChildrenOf(p)
  BY DEF ChildrenOf
<1> HIDE DEF S, f
<1> QED
  BY <1>1, <1>2, <1>3, ImageFinite

LEMMA MatchesFinite ==
    ASSUME TreeInv, NEW mode, NEW pattern
    PROVE  Cardinality(Matches(mode, pattern)) \in Nat
<1>1. Matches(mode, pattern) \in SUBSET (DOMAIN tree)
  BY DEF Matches
<1> QED
  BY <1>1, FS_Subset, FS_CardinalityType DEF TreeInv

\* A query leaves the tree as it was.
LEMMA QueryTree ==
    ASSUME TreeInv, UNCHANGED vars
    PROVE  TreeInv'
BY DEF TreeInv, TreeShape, vars, context

ArchiveInv == TreeInv /\ AnswersFit

LEMMA ArchiveStep == ArchiveInv /\ [ArchiveNext]_<<vars, qvars>> => ArchiveInv'
<1> SUFFICES ASSUME ArchiveInv, [ArchiveNext]_<<vars, qvars>> PROVE ArchiveInv'
  OBVIOUS
<1> USE DEF ArchiveInv
<1>1. CASE Parse
  <2>1. TreeInv'
    BY <1>1, TreeNext DEF Parse
  <2>2. AnswersFit'
    BY <1>1 DEF Parse, qvars, AnswersFit
  <2> QED
    BY <2>1, <2>2
<1>2. ASSUME NEW s \in Paths, Stat(s) PROVE ArchiveInv'
  BY <1>2, QueryTree DEF Stat, AnswersFit
<1>3. ASSUME NEW s \in Paths, ReadDir(s) PROVE ArchiveInv'
  <2>1. TreeInv'
    BY <1>3, QueryTree DEF ReadDir
  <2>2. \A p : Overrun(Cardinality(ChildrenOf(p)), ReaddirChunk) = {}
    BY ChildrenFinite, NoOverrun, ArchiveAssumption
  <2>3. AnswersFit'
    BY <1>3, <2>2 DEF ReadDir, AnswersFit, Fails
  <2> QED
    BY <2>1, <2>3
<1>4. ASSUME NEW mode \in Modes, NEW pattern \in Patterns, Search(mode, pattern)
      PROVE  ArchiveInv'
  <2>1. TreeInv'
    BY <1>4, QueryTree DEF Search
  <2>2. Overrun(Cardinality(Matches(mode, pattern)), SearchChunk) = {}
    BY MatchesFinite, NoOverrun, ArchiveAssumption
  <2>3. AnswersFit'
    BY <1>4, <2>2 DEF Search, AnswersFit
  <2> QED
    BY <2>1, <2>3
<1>5. CASE SearchBadPattern \/ PrintFlat \/ Answered
  BY <1>5, QueryTree DEF SearchBadPattern, PrintFlat, Answered, AnswersFit
<1>6. CASE UNCHANGED <<vars, qvars>>
  BY <1>6, QueryTree DEF qvars, AnswersFit
<1> QED
  BY <1>1, <1>2, <1>3, <1>4, <1>5, <1>6 DEF ArchiveNext

LEMMA ArchiveInductive == ArchiveSpec => []ArchiveInv
<1>1. ArchiveInit => ArchiveInv
  BY TreeInit DEF ArchiveInit, ArchiveInv, AnswersFit
<1> QED
  BY <1>1, ArchiveStep, PTL DEF ArchiveSpec

\* The inode tree is a tree whatever the index files hold and in whatever
\* order they are parsed (build_inode_tree and add_child_inode, inode.c:10-72).
THEOREM TreeIsATree == ArchiveSpec => []TreeShape
<1>1. ArchiveInv => TreeShape
  BY DEF ArchiveInv, TreeInv
<1> QED
  BY <1>1, ArchiveInductive, PTL

\* No listing and no search writes past the end of its array, for archives and
\* chunks of any size (collect_child_name, stat.c:18-27, and search_inode,
\* search.c:23-87).
THEOREM AnswersAlwaysFit == ArchiveSpec => []AnswersFit
<1>1. ArchiveInv => AnswersFit
  BY DEF ArchiveInv
<1> QED
  BY <1>1, ArchiveInductive, PTL

-----------------------------------------------------------------------------
(* The records above a file                                                *)

RawRecords  == [id : Ids, parent : Ids, name : Names]
RecordsOf(n) == [id : Ids, parent : Ids, name : Names, index : 1 .. n]

LEMMA NoRecordApart ==
    /\ NoRecord \notin Ids
    /\ NoRecord \notin IndexFiles
    /\ NoRecord \notin Nat
    /\ \A x \in RecordsOf(MaxIndexes) : x # NoRecord
<1>1. \A x \in RecordsOf(MaxIndexes) : x \in [id : Ids, parent : Ids, name : Names, index : Nat]
  BY ContextAssumption DEF RecordsOf
<1> QED
  BY <1>1, ContextAssumption

\* The record at level l, when f has those of the levels below it.
Above(r, f, l) ==
    LET id == IF l = 1 THEN r.parent
              ELSE IF f[l-1] = NoRecord THEN NoRecord ELSE f[l-1].parent
    IN  IF id = NoRecord THEN NoRecord ELSE metadata_map[id]

\* There is a sequence of records each of which is above the one before.
LEMMA AncestorsDef ==
    ASSUME NEW r
    PROVE  Ancestors(r) = [l \in 1 .. MaxLevel |-> Above(r, Ancestors(r), l)]
<1> DEFINE Climbs(n, f) == f = [l \in 1 .. n |-> Above(r, f, l)]
           G == {n \in 0 .. MaxLevel : \E f : Climbs(n, f)}
<1>0. MaxLevel \in Nat
  BY ContextAssumption
<1>1. 0 \in G
  <2> DEFINE f == [l \in 1 .. 0 |-> NoRecord]
  <2>1. \A l : l \notin 1 .. 0
    OBVIOUS
  <2>2. Climbs(0, f)
    BY <2>1
  <2>3. \E h : Climbs(0, h)
    BY <2>2
  <2> HIDE DEF Climbs
  <2> QED
    BY <1>0, <2>3
<1>2. \A n \in 0 .. MaxLevel - 1 : n \in G => n + 1 \in G
  <2> SUFFICES ASSUME NEW n \in 0 .. MaxLevel - 1, NEW f, Climbs(n, f)
               PROVE  \E g : Climbs(n + 1, g)
    BY <1>0
  <2> DEFINE g == [l \in 1 .. n + 1 |-> IF l <= n THEN f[l] ELSE Above(r, f, l)]
  <2>1. \A l \in 1 .. n : g[l] = f[l] /\ f[l] = Above(r, f, l)
    OBVIOUS
  <2>2. g[n + 1] = Above(r, f, n + 1)
    OBVIOUS
  <2> HIDE DEF g
  <2>3. \A l \in 1 .. n + 1 : Above(r, g, l) = Above(r, f, l)
    <3>1. \A l \in 1 .. n + 1 : l = 1 \/ l - 1 \in 1 .. n
      OBVIOUS
    <3> QED
      BY <2>1, <3>1 DEF Above
  <2>4. \A l \in 1 .. n + 1 : g[l] = Above(r, g, l)
    <3>1. \A l \in 1 .. n + 1 : l \in 1 .. n \/ l = n + 1
      OBVIOUS
    <3> QED
      BY <2>1, <2>2, <2>3, <3>1
  <2>5. g = [l \in 1 .. n + 1 |-> g[l]]
    BY DEF g
  <2>6. g = [l \in 1 .. n + 1 |-> Above(r, g, l)]
    BY <2>4, <2>5
  <2> QED
    BY <2>6
<1>3. G = 0 .. MaxLevel
  <2> HIDE DEF G
  <2>1. G \in SUBSET (0 .. MaxLevel)
    BY DEF G
  <2> QED
    BY <1>0, <1>1, <1>2, <2>1, BoundedInduction
<1>4. PICK f : Climbs(MaxLevel, f)
  BY <1>0, <1>3
<1>5. Ancestors(r) = CHOOSE h : Climbs(MaxLevel, h)
  BY DEF Ancestors, Above
<1>6. Climbs(MaxLevel, CHOOSE h : Climbs(MaxLevel, h))
  BY <1>4
<1> QED
  BY <1>5, <1>6

\* Each level up to the depth is the record of an id, and the names are there.
LEMMA AncestorsAreRecords ==
    ASSUME metadata_map \in [Ids -> {NoRecord} \cup RecordsOf(MaxIndexes)],
           NEW r \in RecordsOf(MaxIndexes)
    PROVE  \A l \in 1 .. MaxLevel :
              Ancestors(r)[l] = NoRecord \/ \E m \in Ids : Ancestors(r)[l] = metadata_map[m]
<1> DEFINE a == Ancestors(r)
           Recorded(l) == a[l] = NoRecord \/ \E m \in Ids : a[l] = metadata_map[m]
           G == {l \in 0 .. MaxLevel : l = 0 \/ Recorded(l)}
<1>0. MaxLevel \in Nat
  BY ContextAssumption
<1>1. \A l \in 1 .. MaxLevel : a[l] = Above(r, a, l)
  BY AncestorsDef
<1> HIDE DEF a
<1>2. 0 \in G
  BY <1>0
<1>3. \A l \in 0 .. MaxLevel - 1 : l \in G => l + 1 \in G
  <2> SUFFICES ASSUME NEW l \in 0 .. MaxLevel - 1, l \in G
               PROVE  Recorded(l + 1)
    BY <1>0
  <2>1. a[l + 1] = Above(r, a, l + 1)
    BY <1>0, <1>1
  <2>2. CASE l = 0
    <3>1. r.parent \in Ids /\ r.parent # NoRecord
      BY NoRecordApart DEF RecordsOf
    <3>2. a[l + 1] = metadata_map[r.parent]
      BY <2>1, <2>2, <3>1 DEF Above
    <3> QED
      BY <3>1, <3>2
  <2>3. CASE l # 0 /\ a[l] = NoRecord
    <3>1. l + 1 # 1 /\ (l + 1) - 1 = l
      BY <2>3
    <3> QED
      BY <2>1, <2>3, <3>1 DEF Above
  <2>4. CASE l # 0 /\ a[l] # NoRecord
    <3>1. a[l] \in RecordsOf(MaxIndexes)
      BY <2>4
    <3>2. a[l].parent \in Ids /\ a[l].parent # NoRecord
      BY <3>1, NoRecordApart DEF RecordsOf
    <3>3. l + 1 # 1 /\ (l + 1) - 1 = l
      BY <2>4
    <3>4. a[l + 1] = metadata_map[a[l].parent]
      BY <2>1, <2>4, <3>2, <3>3 DEF Above
    <3> QED
      BY <3>2, <3>4
  <2> QED
    BY <2>2, <2>3, <2>4
<1>4. G = 0 .. MaxLevel
  <2> HIDE DEF G
  <2>1. G \in SUBSET (0 .. MaxLevel)
    BY DEF G
  <2> QED
    BY <1>0, <1>2, <1>3, <2>1, BoundedInduction
<1>5. \A l \in 1 .. MaxLevel : l \in G /\ l # 0
  BY <1>4
<1> QED
  BY <1>5 DEF a

\* The levels that have a record are those up to the depth.
LEMMA DepthReached ==
    ASSUME NEW r
    PROVE  {l \in 1 .. MaxLevel : Ancestors(r)[l] # NoRecord} = 1 .. Depth(r)
<1> DEFINE a == Ancestors(r)
           S == {l \in 1 .. MaxLevel : a[l] # NoRecord}
<1>0. MaxLevel \in Nat
  BY ContextAssumption
<1>1. \A l \in 1 .. MaxLevel : a[l] = Above(r, a, l)
  BY AncestorsDef
<1>2. Depth(r) = Cardinality(S)
  BY DEF Depth
<1> HIDE DEF a
<1>3. \A l \in S : l > 1 => l - 1 \in S
  <2> SUFFICES ASSUME NEW l \in S, l > 1, a[l-1] = NoRecord PROVE FALSE
    BY <1>0
  <2> QED
    BY <1>1 DEF Above
<1>4. \E n \in Nat : S = 1 .. n
  <2>1. CASE S = {}
    <3>1. S = 1 .. 0
      BY <2>1
    <3> QED
      BY <3>1
  <2>2. CASE S # {}
    <3> DEFINE m == Greatest(S)
               G == {k \in 0 .. m - 1 : m - k \in S}
    <3>1. m \in S /\ \A k \in S : k <= m
      <4>1. S \in SUBSET (0 .. MaxLevel)
        BY <1>0
      <4> HIDE DEF S
      <4> QED
        BY <1>0, <2>2, <4>1, GreatestExists
    <3>2. m \in 1 .. MaxLevel
      BY <3>1
    <3> HIDE DEF m
    <3>3. 0 \in G
      BY <1>0, <3>1, <3>2
    <3>4. \A k \in 0 .. (m - 1) - 1 : k \in G => k + 1 \in G
      <4> SUFFICES ASSUME NEW k \in 0 .. (m - 1) - 1, m - k \in S
                   PROVE  m - (k + 1) \in S
        BY <1>0, <3>2
      <4>1. m - k > 1 /\ (m - k) - 1 = m - (k + 1)
        BY <1>0, <3>2
      <4> HIDE DEF S
      <4> QED
        BY <1>3, <4>1
    <3>5. G = 0 .. m - 1
      <4> HIDE DEF G
      <4>1. G \in SUBSET (0 .. m - 1) /\ m - 1 \in Nat
        BY <1>0, <3>2 DEF G
      <4> QED
        BY <3>3, <3>4, <4>1, BoundedInduction
    <3>6. \A l \in 1 .. m : l \in S
      <4> SUFFICES ASSUME NEW l \in 1 .. m PROVE l \in S
        OBVIOUS
      <4>1. m - l \in 0 .. m - 1 /\ m - (m - l) = l
        BY <1>0, <3>2
      <4>2. m - l \in G
        BY <3>5, <4>1
      <4> QED
        BY <4>1, <4>2
    <3>7. S = 1 .. m
      BY <3>1, <3>2, <3>6
    <3> QED
      BY <1>0, <3>2, <3>7
  <2> QED
    BY <2>1, <2>2
<1>5. PICK n \in Nat : S = 1 .. n
  BY <1>4
<1>6. Cardinality(1 .. n) = n
  <2>1. Cardinality(1 .. n) = IF 1 > n THEN 0 ELSE n - 1 + 1
    BY FS_Interval
  <2> QED
    BY <2>1
<1>7. S = 1 .. Depth(r)
  <2> HIDE DEF S
  <2> QED
    BY <1>2, <1>5, <1>6
<1> QED
  BY <1>7 DEF a

\* The directories above a file have records, and the paths have names.
LEMMA DirRecordKnown ==
    ASSUME metadata_map \in [Ids -> {NoRecord} \cup RecordsOf(MaxIndexes)],
           NEW r \in RecordsOf(MaxIndexes), NEW d \in 1 .. Depth(r)
    PROVE  \E m \in Ids : metadata_map[m] # NoRecord /\ DirRecord(r, d) = metadata_map[m]
<1> DEFINE l == Depth(r) - d + 1
<1>1. Depth(r) \in Nat
  BY DepthType
<1>2. l \in 1 .. Depth(r)
  BY <1>1
<1>3. l \in 1 .. MaxLevel /\ Ancestors(r)[l] # NoRecord
  BY <1>2, DepthReached
<1>4. DirRecord(r, d) = Ancestors(r)[l]
  BY DEF DirRecord
<1> HIDE DEF l
<1> QED
  BY <1>3, <1>4, AncestorsAreRecords

LEMMA DirPathType ==
    ASSUME metadata_map \in [Ids -> {NoRecord} \cup RecordsOf(MaxIndexes)],
           NEW r \in RecordsOf(MaxIndexes), NEW d \in 0 .. Depth(r)
    PROVE  /\ DirPath(r, d) \in Seq(Names)
           /\ Len(DirPath(r, d)) = d
           /\ d > 0 => Last(DirPath(r, d)) = DirRecord(r, d).name
<1>1. Depth(r) \in Nat
  BY DepthType
<1>2. \A j \in 1 .. d : DirRecord(r, j).name \in Names
  <2> SUFFICES ASSUME NEW j \in 1 .. d PROVE DirRecord(r, j).name \in Names
    OBVIOUS
  <2>1. j \in 1 .. Depth(r)
    BY <1>1
  <2>2. DirRecord(r, j) \in RecordsOf(MaxIndexes)
    BY <2>1, DirRecordKnown
  <2> QED
    BY <2>2 DEF RecordsOf
<1>3. DirPath(r, d) \in [1 .. d -> Names]
  BY <1>2 DEF DirPath
<1>4. DirPath(r, d) \in Seq(Names) /\ Len(DirPath(r, d)) = d
  BY <1>1, <1>3
<1>5. d > 0 => DirPath(r, d)[d] = DirRecord(r, d).name
  BY <1>1 DEF DirPath
<1> QED
  BY <1>4, <1>5 DEF Last

LEMMA FilePathType ==
    ASSUME metadata_map \in [Ids -> {NoRecord} \cup RecordsOf(MaxIndexes)],
           NEW r \in RecordsOf(MaxIndexes)
    PROVE  /\ FilePath(r) \in Seq(Names)
           /\ FilePath(r) # << >>
           /\ Last(FilePath(r)) = r.name
<1>1. Depth(r) \in Nat /\ Depth(r) \in 0 .. Depth(r)
  BY DepthType
<1>2. DirPath(r, Depth(r)) \in Seq(Names)
  BY <1>1, DirPathType
<1>3. r.name \in Names
  BY DEF RecordsOf
<1> DEFINE s == DirPath(r, Depth(r))
           p == Append(s, r.name)
<1>4. p \in Seq(Names) /\ Len(p) = Len(s) + 1 /\ p[Len(s) + 1] = r.name /\ p # << >>
  BY <1>2, <1>3, AppendType
<1> QED
  BY <1>4 DEF FilePath, Last

-----------------------------------------------------------------------------
(* What the context holds can be resolved                                  *)

\* Resolvable does not say that a record is found under its own id, that an
\* inode names an index there is, nor that the entries of the file whose tree
\* is being built are in file_map already.
Located ==
    /\ \A m \in Ids : metadata_map[m] # NoRecord => metadata_map[m].id = m
    /\ \A p \in DOMAIN tree \ {Root} : tree[p].index \in DOMAIN indexes
    /\ pc = "build" => \A m \in Listed(file) : file_map[m] # NoRecord

ContextInv == TypeOK /\ Resolvable /\ Located

LEMMA ContextInit == Init => ContextInv
<1> SUFFICES ASSUME Init PROVE ContextInv
  OBVIOUS
<1>1. DOMAIN tree = {Root} /\ tree[Root] = [type |-> Dir, id |-> RootId, index |-> 0]
  BY DEF Init
<1>2. Root \in Seq(Names)
  BY DEF Root
<1>3. NoRecord \notin IndexFiles
  BY NoRecordApart
<1>4. TypeOK
  <2>1. tree[Root] \in Inodes
    BY <1>1, ContextAssumption DEF Inodes
  <2>2. \A p \in DOMAIN tree : p \in Seq(Names) /\ tree[p] \in Inodes
    BY <1>1, <1>2, <2>1
  <2>3. indexes \in Seq(IndexFiles) /\ Len(indexes) <= MaxIndexes
    BY ContextAssumption DEF Init
  <2> QED
    BY <1>3, <2>2, <2>3 DEF TypeOK, Init
<1>5. Resolvable
  BY <1>1 DEF Resolvable, MetadataResolves, EntriesResolve, Init
<1>6. Located
  BY <1>1 DEF Located, Init
<1> QED
  BY <1>4, <1>5, <1>6 DEF ContextInv

\* The steps that leave the maps, the indexes and the tree alone.
LEMMA ContextFrame ==
    ASSUME ContextInv, UNCHANGED context, TypeOK', pc' = "build" => pc = "build" /\ file' = file
    PROVE  ContextInv'
<1>1. Resolvable'
  BY DEF ContextInv, Resolvable, MetadataResolves, EntriesResolve, Resolves, Registered, context
<1>2. Located'
  BY DEF ContextInv, Located, context
<1> QED
  BY <1>1, <1>2 DEF ContextInv

LEMMA ContextReturn ==
    ASSUME ContextInv, UNCHANGED <<context, call, todo>>,
           NEW e \in Errors \cup {"ok"}, FileParsed(e)
    PROVE  ContextInv'
<1>1. TypeOK'
  BY NoRecordApart DEF ContextInv, TypeOK, FileParsed, context
<1>2. pc' # "build"
  BY DEF FileParsed
<1> QED
  BY <1>1, <1>2, ContextFrame

\* The last record of a file with an id is one of its records.
LEMMA PutMetadataType ==
    ASSUME NEW f \in IndexFiles, NEW n, NEW m \in Ids
    PROVE  \/ PutMetadata(f, n)[m] = metadata_map[m]
           \/ \E r \in Records(f) :
                /\ r \in RawRecords /\ r.id = m
                /\ PutMetadata(f, n)[m] =
                     [id |-> m, parent |-> r.parent, name |-> r.name, index |-> n]
<1> DEFINE defines == {j \in DOMAIN Metadata[f] : Metadata[f][j].id = m}
           k == Greatest(defines)
<1>1. Metadata[f] \in Seq(RawRecords)
  BY ContextAssumption DEF RawRecords
<1>2. CASE defines = {}
  BY <1>2 DEF PutMetadata
<1>3. CASE defines # {}
  <2>1. k \in defines
    <3>1. Len(Metadata[f]) \in Nat /\ defines \in SUBSET (0 .. Len(Metadata[f]))
      BY <1>1
    <3> HIDE DEF defines
    <3> QED
      BY <1>3, <3>1, GreatestExists
  <2>2. PutMetadata(f, n)[m] = [id |-> m, parent |-> Metadata[f][k].parent,
                                name |-> Metadata[f][k].name, index |-> n]
    BY <1>3 DEF PutMetadata, Greatest
  <2>3. /\ Metadata[f][k] \in Records(f)
        /\ Metadata[f][k] \in RawRecords
        /\ Metadata[f][k].id = m
    <3> HIDE DEF k
    <3> QED
      BY <1>1, <2>1 DEF Records, Range
  <2> QED
    BY <2>2, <2>3
<1> QED
  BY <1>2, <1>3

\* An index is put in the context: what was resolved before still is, and the
\* records and entries that are new are those of its file.
LEMMA ContextRegister == ContextInv /\ Register => ContextInv'
<1> SUFFICES ASSUME ContextInv, Register PROVE ContextInv'
  OBVIOUS
<1> DEFINE n == NewIndex
<1>1. /\ file \in IndexFiles
      /\ indexes \in Seq(IndexFiles) /\ Len(indexes) < MaxIndexes
      /\ MaxIndexes \in Nat
  BY ContextAssumption DEF ContextInv, TypeOK, Register
<1>2. /\ metadata_map' = PutMetadata(file, n)
      /\ file_map' = PutEntries(file, n)
      /\ indexes' = Append(indexes, file)
      /\ tree' = tree /\ file' = file /\ pc' = "build" /\ entry' = 1
      /\ UNCHANGED <<call, todo, ret, failed>>
  BY DEF Register
<1>3. /\ n \in 1 .. MaxIndexes /\ n = Len(indexes) + 1
      /\ indexes' \in Seq(IndexFiles) /\ Len(indexes') = n
      /\ indexes'[n] = file
      /\ \A k \in DOMAIN indexes : k \in DOMAIN indexes' /\ indexes'[k] = indexes[k]
      /\ n \in DOMAIN indexes'
      /\ indexes' # << >> /\ Last(indexes') = file
  BY <1>1, <1>2 DEF NewIndex, Last
<1>4. Entries[file] \in Seq(Ids)
  BY <1>1, ContextAssumption
<1> HIDE DEF n
<1>5. \A m \in Ids :
        \/ metadata_map'[m] = metadata_map[m]
        \/ /\ metadata_map'[m] \in RecordsOf(MaxIndexes)
           /\ metadata_map'[m].id = m
           /\ metadata_map'[m].index = n
           /\ [id |-> m, parent |-> metadata_map'[m].parent,
               name |-> metadata_map'[m].name] \in Records(file)
  <2> SUFFICES ASSUME NEW m \in Ids, metadata_map'[m] # metadata_map[m]
               PROVE  /\ metadata_map'[m] \in RecordsOf(MaxIndexes)
                      /\ metadata_map'[m].id = m
                      /\ metadata_map'[m].index = n
                      /\ [id |-> m, parent |-> metadata_map'[m].parent,
                          name |-> metadata_map'[m].name] \in Records(file)
    OBVIOUS
  <2>1. PICK r \in Records(file) :
          /\ r \in RawRecords /\ r.id = m
          /\ metadata_map'[m] = [id |-> m, parent |-> r.parent, name |-> r.name, index |-> n]
    BY <1>1, <1>2, PutMetadataType
  <2>2. r = [id |-> m, parent |-> r.parent, name |-> r.name]
    BY <2>1 DEF RawRecords
  <2>3. metadata_map'[m] \in RecordsOf(MaxIndexes)
    BY <1>3, <2>1 DEF RawRecords, RecordsOf
  <2> QED
    BY <2>1, <2>2, <2>3
<1>6. \A m \in Ids : metadata_map[m] # NoRecord => metadata_map'[m] # NoRecord
  BY <1>5, NoRecordApart
<1>7. \A m \in Ids : \/ file_map'[m] = file_map[m]
                     \/ file_map'[m] = n /\ m \in Listed(file)
  <2>1. Range(Entries[file]) = ToSet(Entries[file])
    BY DEF Range, ToSet
  <2> QED
    BY <1>2, <2>1 DEF PutEntries, Listed
<1>8. \A m \in Listed(file) : m \in Ids /\ file_map'[m] = n
  <2>1. Range(Entries[file]) = ToSet(Entries[file]) /\ ToSet(Entries[file]) \subseteq Ids
    BY <1>4 DEF Range, ToSet
  <2> QED
    BY <1>2, <2>1 DEF PutEntries, Listed
<1>9. n # NoRecord
  BY <1>3, NoRecordApart
<1>10. TypeOK'
  <2>1. metadata_map' \in [Ids -> {NoRecord} \cup RecordsOf(MaxIndexes)]
    <3>1. metadata_map' = [m \in Ids |-> metadata_map'[m]]
      BY <1>2 DEF PutMetadata
    <3>2. \A m \in Ids : metadata_map[m] \in {NoRecord} \cup RecordsOf(MaxIndexes)
      BY DEF ContextInv, TypeOK, RecordsOf
    <3>3. \A m \in Ids : metadata_map'[m] \in {NoRecord} \cup RecordsOf(MaxIndexes)
      BY <1>5, <3>2
    <3> QED
      BY <3>1, <3>3
  <2>2. file_map' \in [Ids -> {NoRecord} \cup 1 .. MaxIndexes]
    <3>1. file_map' = [m \in Ids |-> file_map'[m]]
      BY <1>2 DEF PutEntries
    <3>2. \A m \in Ids : file_map'[m] \in {NoRecord} \cup 1 .. MaxIndexes
      BY <1>3, <1>7 DEF ContextInv, TypeOK
    <3> QED
      BY <3>1, <3>2
  <2>3. 1 \in 1 .. Len(Entries[file]) + 1
    BY <1>4
  <2> QED
    BY <1>1, <1>2, <1>3, <2>1, <2>2, <2>3 DEF ContextInv, TypeOK, RecordsOf
<1>11. MetadataResolves'
  <2> SUFFICES ASSUME NEW m \in Ids, metadata_map'[m] # NoRecord
               PROVE  /\ metadata_map'[m].index \in DOMAIN indexes'
                      /\ [id |-> m, parent |-> metadata_map'[m].parent,
                          name |-> metadata_map'[m].name]
                             \in Records(indexes'[metadata_map'[m].index])
    BY DEF MetadataResolves, Records
  <2>1. CASE metadata_map'[m] = metadata_map[m]
    BY <1>3, <2>1 DEF ContextInv, Resolvable, MetadataResolves
  <2>2. CASE metadata_map'[m] # metadata_map[m]
    BY <1>3, <1>5, <2>2
  <2> QED
    BY <2>1, <2>2
<1>12. EntriesResolve'
  <2> SUFFICES ASSUME NEW m \in Ids, file_map'[m] # NoRecord
               PROVE  /\ file_map'[m] \in DOMAIN indexes'
                      /\ m \in Listed(indexes'[file_map'[m]])
    BY DEF EntriesResolve, Listed
  <2>1. CASE file_map'[m] = file_map[m]
    BY <1>3, <2>1 DEF ContextInv, Resolvable, EntriesResolve
  <2>2. CASE file_map'[m] # file_map[m]
    BY <1>3, <1>7, <2>2
  <2> QED
    BY <2>1, <2>2
<1>13. \A p \in DOMAIN tree \ {Root} :
         Resolves(tree[p], Last(p))' /\ tree[p].index \in DOMAIN indexes'
  <2> SUFFICES ASSUME NEW p \in DOMAIN tree \ {Root}
               PROVE  Resolves(tree[p], Last(p))' /\ tree[p].index \in DOMAIN indexes'
    OBVIOUS
  <2> DEFINE i == tree[p]
  <2>1. Resolves(i, Last(p)) /\ i.index \in DOMAIN indexes
    BY DEF ContextInv, Resolvable, Located
  <2>2. i.id \in Ids
    <3>1. metadata_map[i.id] # NoRecord /\ \E f \in Registered : \E r \in Records(f) : r.id = i.id
      BY <2>1 DEF Resolves
    <3>2. PICK f \in Registered : \E r \in Records(f) : r.id = i.id
      BY <3>1
    <3>3. f \in IndexFiles
      BY <1>1 DEF Registered, Range
    <3>4. Metadata[f] \in Seq(RawRecords)
      BY <3>3, ContextAssumption DEF RawRecords
    <3>5. \A r \in Records(f) : r \in RawRecords
      BY <3>4 DEF Records, Range
    <3>6. \A r \in RawRecords : r.id \in Ids
      BY DEF RawRecords
    <3> QED
      BY <3>2, <3>5, <3>6
  <2>3. Registered \subseteq Registered'
    BY <1>3 DEF Registered, Range
  <2>4. indexes'[i.index] = indexes[i.index] /\ i.index \in DOMAIN indexes'
    BY <1>3, <2>1
  <2>5. i.type = File => file_map'[i.id] # NoRecord
    BY <1>7, <1>9, <2>1, <2>2 DEF Resolves
  <2>6. metadata_map'[i.id] # NoRecord
    BY <1>6, <2>1, <2>2 DEF Resolves
  <2>7. tree' = tree
    BY <1>2
  <2>8. \E f \in Registered' : \E r \in Records(f) : r.id = i.id /\ r.name = Last(p)
    BY <2>1, <2>3 DEF Resolves
  <2>9. i.type = File => i.id \in Listed(indexes'[i.index])
    BY <2>1, <2>4 DEF Resolves
  <2> HIDE DEF i
  <2>10. i' = i
    BY <2>7 DEF i
  <2>11. Resolves(i, Last(p))'
    BY <2>5, <2>6, <2>8, <2>9, <2>10 DEF Resolves, Records, Listed
  <2> QED
    BY <2>4, <2>11 DEF i
<1>14. Located'
  <2>1. \A m \in Ids : metadata_map'[m] # NoRecord => metadata_map'[m].id = m
    BY <1>5 DEF ContextInv, Located
  <2>2. \A m \in Listed(file) : file_map'[m] # NoRecord
    BY <1>8, <1>9
  <2> QED
    BY <1>2, <1>13, <2>1, <2>2 DEF Located, Listed
<1>15. Resolvable'
  BY <1>2, <1>11, <1>12, <1>13 DEF Resolvable
<1> QED
  BY <1>10, <1>14, <1>15 DEF ContextInv

LEMMA BuiltRecord ==
    ASSUME ContextInv, BuildFile
    PROVE  /\ metadata_map \in [Ids -> {NoRecord} \cup RecordsOf(MaxIndexes)]
           /\ Record \in RecordsOf(MaxIndexes)
<1>1. /\ file \in IndexFiles
      /\ entry \in 1 .. Len(Entries[file])
      /\ Entries[file] \in Seq(Ids)
      /\ metadata_map \in [Ids -> {NoRecord} \cup RecordsOf(MaxIndexes)]
  BY ContextAssumption DEF ContextInv, TypeOK, BuildFile, Building, RecordsOf
<1>2. Entries[file][entry] \in Ids
  BY <1>1
<1>3. Record # NoRecord
  BY DEF BuildFile
<1> QED
  BY <1>1, <1>2, <1>3 DEF Record

\* A file put in the tree and the directories on the way to it resolve.
LEMMA ContextBuildFile == ContextInv /\ BuildFile => ContextInv'
<1> SUFFICES ASSUME ContextInv, BuildFile PROVE ContextInv'
  OBVIOUS
<1> DEFINE k == Entries[file][entry]
           r == Record
           p == FilePath(r)
           T == DirPaths(r)
           kept == DOMAIN tree \ ({p} \cup Below(p))
<1>1. /\ file \in IndexFiles /\ pc = "build"
      /\ indexes \in Seq(IndexFiles) /\ Len(indexes) <= MaxIndexes
      /\ indexes # << >> /\ Last(indexes) = file
      /\ entry \in 1 .. Len(Entries[file])
      /\ Entries[file] \in Seq(Ids)
      /\ metadata_map \in [Ids -> {NoRecord} \cup RecordsOf(MaxIndexes)]
      /\ MaxIndexes \in Nat
  BY ContextAssumption DEF ContextInv, TypeOK, BuildFile, Building, RecordsOf
<1>2. k \in Ids /\ k \in Listed(file)
  BY <1>1 DEF Listed, Range
<1>3. r = metadata_map[k] /\ r # NoRecord /\ r \in RecordsOf(MaxIndexes)
  BY <1>1, <1>2 DEF Record, BuildFile
<1>4. r.id = k
  BY <1>2, <1>3 DEF ContextInv, Located
<1>5. /\ tree' = [q \in kept \cup T \cup {p} |->
            IF q = p THEN [type |-> File, id |-> r.id, index |-> Len(indexes)]
            ELSE IF q \in kept THEN tree[q]
            ELSE [type |-> Dir, id |-> DirRecord(r, Len(q)).id, index |-> Len(indexes)]]
      /\ entry' = entry + 1
      /\ UNCHANGED <<metadata_map, file_map, indexes, call, todo, file, pc, ret, failed>>
  BY DEF BuildFile
<1>6. /\ Len(indexes) \in DOMAIN indexes /\ indexes[Len(indexes)] = file
      /\ Len(indexes) \in 0 .. MaxIndexes
  BY <1>1 DEF Last
<1>7. p \in Seq(Names) /\ p # << >> /\ Last(p) = r.name
  BY <1>1, <1>3, FilePathType
\* A record of metadata_map is a record of a file.
<1>8. \A m \in Ids : metadata_map[m] # NoRecord =>
        /\ metadata_map[m].id = m
        /\ \E f \in Registered : \E x \in Records(f) :
             x.id = m /\ x.name = metadata_map[m].name
  <2> SUFFICES ASSUME NEW m \in Ids, metadata_map[m] # NoRecord
               PROVE  /\ metadata_map[m].id = m
                      /\ \E f \in Registered : \E x \in Records(f) :
                           x.id = m /\ x.name = metadata_map[m].name
    OBVIOUS
  <2> DEFINE x == [id |-> m, parent |-> metadata_map[m].parent, name |-> metadata_map[m].name]
             f == indexes[metadata_map[m].index]
  <2>1. x \in Records(f) /\ metadata_map[m].index \in DOMAIN indexes
    BY DEF ContextInv, Resolvable, MetadataResolves
  <2>2. f \in Registered
    BY <2>1 DEF Registered, Range
  <2>3. x.id = m /\ x.name = metadata_map[m].name
    OBVIOUS
  <2>4. metadata_map[m].id = m
    BY DEF ContextInv, Located
  <2> HIDE DEF x, f
  <2> QED
    BY <2>1, <2>2, <2>3, <2>4
<1>9. \A q \in T : \E m \in Ids : /\ metadata_map[m] # NoRecord
                                  /\ DirRecord(r, Len(q)) = metadata_map[m]
                                  /\ q \in Seq(Names)
                                  /\ Last(q) = metadata_map[m].name
  <2> SUFFICES ASSUME NEW d \in 1 .. Depth(r)
               PROVE  \E m \in Ids : /\ metadata_map[m] # NoRecord
                                     /\ DirRecord(r, Len(DirPath(r, d))) = metadata_map[m]
                                     /\ DirPath(r, d) \in Seq(Names)
                                     /\ Last(DirPath(r, d)) = metadata_map[m].name
    BY DEF DirPaths
  <2>1. Depth(r) \in Nat /\ d \in 0 .. Depth(r) /\ d > 0
    BY DepthType
  <2> HIDE DEF r
  <2>2. /\ DirPath(r, d) \in Seq(Names) /\ Len(DirPath(r, d)) = d
        /\ Last(DirPath(r, d)) = DirRecord(r, d).name
    BY <1>1, <1>3, <2>1, DirPathType
  <2> QED
    BY <1>1, <1>3, <2>2, DirRecordKnown
<1> HIDE DEF k, r, p, T, kept
\* Every inode of the new tree has its type, and it resolves.
<1>10. \A q \in DOMAIN tree' :
         /\ q \in Seq(Names) /\ tree'[q] \in Inodes
         /\ q # Root => Resolves(tree'[q], Last(q)) /\ tree'[q].index \in DOMAIN indexes
  <2> SUFFICES ASSUME NEW q \in DOMAIN tree'
               PROVE  /\ q \in Seq(Names) /\ tree'[q] \in Inodes
                      /\ q # Root => /\ Resolves(tree'[q], Last(q))
                                     /\ tree'[q].index \in DOMAIN indexes
    OBVIOUS
  <2> DEFINE i == tree'[q]
  <2>1. CASE q = p
    <3>1. i = [type |-> File, id |-> k, index |-> Len(indexes)]
      BY <1>4, <1>5, <2>1
    <3>2. file_map[k] # NoRecord
      BY <1>1, <1>2 DEF ContextInv, Located
    <3>3. \E f \in Registered : \E x \in Records(f) : x.id = k /\ x.name = Last(q)
      BY <1>2, <1>3, <1>7, <1>8, <2>1
    <3>4. Resolves(i, Last(q))
      BY <1>2, <1>3, <1>6, <3>1, <3>2, <3>3 DEF Resolves
    <3>5. i \in Inodes
      BY <1>2, <1>6, <3>1 DEF Inodes
    <3> QED
      BY <1>6, <1>7, <2>1, <3>1, <3>4, <3>5
  <2>2. CASE q # p /\ q \in kept
    <3>1. i = tree[q] /\ q \in DOMAIN tree
      BY <1>5, <2>2 DEF kept
    <3>2. q \in Seq(Names) /\ tree[q] \in Inodes
      BY <3>1 DEF ContextInv, TypeOK
    <3>3. q # Root => Resolves(tree[q], Last(q)) /\ tree[q].index \in DOMAIN indexes
      BY <3>1 DEF ContextInv, Resolvable, Located
    <3> QED
      BY <3>1, <3>2, <3>3
  <2>3. CASE q # p /\ q \notin kept
    <3>1. q \in T
      BY <1>5, <2>3
    <3>2. PICK m \in Ids : /\ metadata_map[m] # NoRecord
                           /\ DirRecord(r, Len(q)) = metadata_map[m]
                           /\ q \in Seq(Names)
                           /\ Last(q) = metadata_map[m].name
      BY <1>9, <3>1
    <3>3. i = [type |-> Dir, id |-> m, index |-> Len(indexes)]
      BY <1>5, <1>8, <2>3, <3>1, <3>2
    <3>4. Resolves(i, Last(q))
      BY <1>8, <3>2, <3>3 DEF Resolves, Dir, File
    <3>5. i \in Inodes
      BY <1>6, <3>3 DEF Inodes
    <3> QED
      BY <1>6, <3>2, <3>3, <3>4, <3>5
  <2> QED
    BY <2>1, <2>2, <2>3
<1>11. TypeOK'
  <2>1. entry' \in 1 .. Len(Entries[file]) + 1
    BY <1>1, <1>5
  <2>2. \A q \in DOMAIN tree' : q \in Seq(Names) /\ tree'[q] \in Inodes
    BY <1>10
  <2> QED
    BY <1>1, <1>5, <2>1, <2>2 DEF ContextInv, TypeOK, Inodes
<1>12. Resolvable'
  <2>1. MetadataResolves' /\ EntriesResolve'
    BY <1>5 DEF ContextInv, Resolvable, MetadataResolves, EntriesResolve
  <2>2. \A q \in DOMAIN tree' \ {Root} : Resolves(tree[q], Last(q))'
    <3> SUFFICES ASSUME NEW q \in DOMAIN tree' \ {Root} PROVE Resolves(tree[q], Last(q))'
      OBVIOUS
    <3>1. Resolves(tree'[q], Last(q))
      BY <1>10
    <3> QED
      BY <1>5, <3>1 DEF Resolves, Registered
  <2> QED
    BY <2>1, <2>2 DEF Resolvable
<1>13. Located'
  BY <1>5, <1>10 DEF ContextInv, Located
<1> QED
  BY <1>11, <1>12, <1>13 DEF ContextInv

LEMMA ContextNext == ContextInv /\ Next => ContextInv'
<1> SUFFICES ASSUME ContextInv, Next PROVE ContextInv'
  OBVIOUS
<1>1. CASE ParseDir \/ OpendirFails \/ DirParsed
  <2>1. UNCHANGED context /\ pc' # "build" /\ TypeOK'
    BY <1>1, NoRecordApart
    DEF ContextInv, TypeOK, ParseDir, OpendirFails, DirParsed, context, Errors
  <2> QED
    BY <2>1, ContextFrame
<1>2. ASSUME NEW f \in IndexFiles, ReadFile(f) \/ SkipFile(f) \/ ParseFile(f)
      PROVE  ContextInv'
  <2>1. UNCHANGED context /\ pc' # "build" /\ TypeOK'
    BY <1>2, NoRecordApart DEF ContextInv, TypeOK, ReadFile, SkipFile, ParseFile, context
  <2> QED
    BY <2>1, ContextFrame
<1>3. CASE OpenFails \/ MapFails \/ BuildMissesMetadata \/ BuildCollides \/ BuildDone
  <2>1. /\ UNCHANGED <<context, call, todo>>
        /\ \E e \in Errors \cup {"ok"} : FileParsed(e)
    BY <1>3 DEF OpenFails, MapFails, BuildMissesMetadata, BuildCollides, BuildDone, Errors
  <2> QED
    BY <2>1, ContextReturn
<1> QED
  BY <1>1, <1>2, <1>3, ContextRegister, ContextBuildFile DEF Next

\* A query leaves the context as it was.
LEMMA ContextUnchanged == ContextInv /\ UNCHANGED vars => ContextInv'
<1> SUFFICES ASSUME ContextInv, UNCHANGED vars PROVE ContextInv'
  OBVIOUS
<1>1. TypeOK'
  BY DEF ContextInv, TypeOK, vars, context
<1> QED
  BY <1>1, ContextFrame DEF vars

LEMMA ContextInductive == ArchiveSpec => []ContextInv
<1>1. ArchiveInit => ContextInv
  BY ContextInit DEF ArchiveInit
<1>2. ContextInv /\ [ArchiveNext]_<<vars, qvars>> => ContextInv'
  <2>1. [ArchiveNext]_<<vars, qvars>> => Next \/ UNCHANGED vars
    BY DEF ArchiveNext, Parse, Stat, ReadDir, Search, SearchBadPattern, PrintFlat, Answered
  <2> QED
    BY <2>1, ContextNext, ContextUnchanged
<1> QED
  BY <1>1, <1>2, PTL DEF ArchiveSpec

\* The maps, the indexes and the tree have their types through every call,
\* and a file is being parsed exactly inside of one (index-parser.c:278-342).
THEOREM ContextTyped == ArchiveSpec => []TypeOK
<1>1. ContextInv => TypeOK
  BY DEF ContextInv
<1> QED
  BY <1>1, ContextInductive, PTL

\* Whatever was parsed, in whatever order and with whatever failures: the
\* record, the data entry and the index of every inode are there when
\* extract_file_inode dereferences them (inflate.c:119-142).
THEOREM AlwaysResolvable == ArchiveSpec => []Resolvable
<1>1. ContextInv => Resolvable
  BY DEF ContextInv
<1> QED
  BY <1>1, ContextInductive, PTL

-----------------------------------------------------------------------------
(* What the queries answer                                                 *)

\* The answers of the queries, as the tree is.
StatAnswer(s) ==
    LET found == GetInode(tree, s)
    IN  IF found.ret = "ok" THEN StatOf(found.inode) ELSE found

ListAnswer(s) ==
    LET found == GetInode(tree, s)
    IN  IF found.ret # "ok" THEN found
        ELSE IF tree[found.inode].type # Dir THEN Fails("not_a_dir")
        ELSE [ret |-> "ok", inode |-> found.inode, names |-> ChildrenOf(found.inode),
              overrun |-> Overrun(Cardinality(ChildrenOf(found.inode)), ReaddirChunk)]

SearchAnswer(mode, pattern) == {PathString(tree, p) : p \in Matches(mode, pattern)}

PrintAnswer == {<<Sep>> \o PathString(tree, p) :
                  p \in {q \in DOMAIN tree : tree[q].type = File}}

\* The root stays where it is, with its id.
RootKept == Root \in DOMAIN tree /\ tree[Root].id = RootId

\* An answer is about the tree as it is: nothing is parsed before the caller
\* has read it.
AnswerInv ==
    /\ RootKept
    /\ query.call = "stat" => query.path \in Paths /\ answer = StatAnswer(query.path)
    /\ query.call = "readdir" => query.path \in Paths /\ answer = ListAnswer(query.path)
    /\ query.call = "search" => /\ query.mode \in Modes
                                /\ answer.results = SearchAnswer(query.mode, query.pattern)
    /\ query.call = "print" => answer.lines = PrintAnswer

LEMMA RootStays == ContextInv /\ TreeInv /\ RootKept /\ Next => RootKept'
<1> SUFFICES ASSUME ContextInv, TreeInv, RootKept, Next PROVE RootKept'
  OBVIOUS
<1>1. CASE BuildFile
  <2> DEFINE p == FilePath(Record)
             kept == DOMAIN tree \ ({p} \cup Below(p))
  <2>1. /\ Record \in RecordsOf(MaxIndexes)
        /\ metadata_map \in [Ids -> {NoRecord} \cup RecordsOf(MaxIndexes)]
    BY <1>1, BuiltRecord
  <2>2. p \in Seq(Names) /\ p # << >>
    BY <2>1, FilePathType
  <2>3. Len(p) \in Nat /\ Len(p) > 0 /\ Len(Root) = 0
    BY <2>2 DEF Root
  <2>4. tree' = [q \in kept \cup DirPaths(Record) \cup {p} |->
            IF q = p THEN [type |-> File, id |-> Record.id, index |-> Len(indexes)]
            ELSE IF q \in kept THEN tree[q]
            ELSE [type |-> Dir, id |-> DirRecord(Record, Len(q)).id, index |-> Len(indexes)]]
    BY <1>1 DEF BuildFile
  <2> HIDE DEF p
  <2>5. Root # p /\ ~ IsStrictPrefix(p, Root)
    BY <2>2, <2>3 DEF IsStrictPrefix, IsPrefix, Root
  <2>6. Root \in kept
    BY <2>5 DEF RootKept, Below
  <2> HIDE DEF kept
  <2>7. Root \in DOMAIN tree' /\ tree'[Root] = tree[Root]
    BY <2>4, <2>5, <2>6
  <2> QED
    BY <2>7 DEF RootKept, Root
<1>2. CASE ~ BuildFile
  BY <1>2, OnlyBuildFile DEF RootKept
<1> QED
  BY <1>1, <1>2

LEMMA AnswerStep ==
    ContextInv /\ TreeInv /\ AnswerInv /\ [ArchiveNext]_<<vars, qvars>> => AnswerInv'
<1> SUFFICES ASSUME ContextInv, TreeInv, AnswerInv, [ArchiveNext]_<<vars, qvars>>
             PROVE  AnswerInv'
  OBVIOUS
<1> USE DEF AnswerInv
<1>1. CASE Parse
  <2>1. RootKept'
    BY <1>1, RootStays DEF Parse
  <2>2. query'.call = "none"
    BY <1>1 DEF Parse, qvars
  <2> QED
    BY <2>1, <2>2
<1>2. ASSUME UNCHANGED vars
      PROVE  /\ RootKept'
             /\ \A s : StatAnswer(s)' = StatAnswer(s) /\ ListAnswer(s)' = ListAnswer(s)
             /\ \A m, x : SearchAnswer(m, x)' = SearchAnswer(m, x)
             /\ PrintAnswer' = PrintAnswer
  <2>1. tree' = tree /\ file_map' = file_map
    BY <1>2 DEF vars, context
  <2> QED
    BY <2>1 DEF RootKept, StatAnswer, StatOf, ListAnswer, ChildrenOf, SearchAnswer, Matches,
                PrintAnswer
<1>3. ASSUME NEW s \in Paths, Stat(s) PROVE AnswerInv'
  BY <1>2, <1>3 DEF Stat, StatAnswer
<1>4. ASSUME NEW s \in Paths, ReadDir(s) PROVE AnswerInv'
  BY <1>2, <1>4 DEF ReadDir, ListAnswer
<1>5. ASSUME NEW mode \in Modes, NEW pattern \in Patterns, Search(mode, pattern)
      PROVE  AnswerInv'
  BY <1>2, <1>5 DEF Search, SearchAnswer
<1>6. CASE SearchBadPattern \/ Answered
  BY <1>2, <1>6 DEF SearchBadPattern, Answered
<1>7. CASE PrintFlat
  BY <1>2, <1>7 DEF PrintFlat, PrintAnswer
<1>8. CASE UNCHANGED <<vars, qvars>>
  BY <1>2, <1>8 DEF qvars
<1> QED
  BY <1>1, <1>3, <1>4, <1>5, <1>6, <1>7, <1>8 DEF ArchiveNext

LEMMA AnswerInductive == ArchiveSpec => [](ContextInv /\ TreeInv /\ AnswerInv)
<1>1. ArchiveInit => AnswerInv
  BY DEF ArchiveInit, AnswerInv, RootKept, Init, Root
<1>2. ArchiveInv => TreeInv
  BY DEF ArchiveInv
<1> QED
  BY <1>1, <1>2, AnswerStep, ContextInductive, ArchiveInductive, PTL DEF ArchiveSpec

-----------------------------------------------------------------------------
(* The tree the queries walk                                               *)

LEMMA TreeOfArchive ==
    ASSUME ContextInv, TreeInv, RootKept
    PROVE  /\ IsTree(tree, Names)
           /\ \A p \in DOMAIN tree : /\ p # NoInode
                                     /\ tree[p].type \in {Dir, File}
                                     /\ IsFolder(tree, p) <=> tree[p].type = Dir
           /\ RootIdUnused => RootIdOnce(tree)
<1>1. \A p \in DOMAIN tree : p \in Seq(Names) /\ tree[p].type \in {Dir, File}
  BY DEF ContextInv, TypeOK, Inodes
<1>2. NoInode \notin DOMAIN tree
  BY <1>1, ArchiveAssumption
<1>3. \A p \in DOMAIN tree : IsFolder(tree, p) <=> tree[p].type = Dir
  BY <1>2 DEF IsFolder, Dir
<1>4. IsTree(tree, Names)
  BY <1>1, <1>2, <1>3 DEF IsTree, TreeInv, TreeShape, Root
<1>5. RootIdUnused => RootIdOnce(tree)
  BY <1>3 DEF RootIdUnused, RootIdOnce, RootKept, Root
<1> QED
  BY <1>1, <1>2, <1>3, <1>4, <1>5

LEMMA BlockedByFile ==
    ASSUME ContextInv, TreeInv, RootKept, NEW p \in Seq(Names)
    PROVE  BelowFile(p) <=> Blocked(tree, p, Len(p))
<1>1. \A q \in DOMAIN tree : ~ IsFolder(tree, q) <=> tree[q].type = File
  BY TreeOfArchive DEF Dir, File
<1> QED
  BY <1>1, TreeOfArchive, BlockedMeans DEF BelowFile

\* Every inode there is has the metadata wows_stat_path asks for.
LEMMA StatFinds ==
    ASSUME ContextInv, TreeInv, NEW p \in DOMAIN tree
    PROVE  StatOf(p) = Found(p)
<1>1. tree[p].type = File => p # Root
  BY DEF TreeInv, TreeShape, Dir, File
<1>2. tree[p].type = File => file_map[tree[p].id] # NoRecord
  BY <1>1 DEF ContextInv, Resolvable, Resolves
<1> QED
  BY <1>2 DEF StatOf

-----------------------------------------------------------------------------
(* What is promised of the answers                                         *)

LEMMA LookupStated == ContextInv /\ TreeInv /\ AnswerInv => LookupExact
<1> DEFINE s == query.path
           p == NamesIn(s)
           found == GetInode(tree, s)
<1> SUFFICES ASSUME ContextInv, TreeInv, AnswerInv, query.call \in {"stat", "readdir"},
                    s # << >>, Shallow(s), ~ (Last(s) = Sep /\ BelowFile(p))
             PROVE  IF p \in DOMAIN tree
                    THEN IF query.call = "readdir" /\ tree[p].type = File
                         THEN answer.ret = "not_a_dir"
                         ELSE answer.ret = "ok" /\ answer.inode = p
                    ELSE answer.ret = IF BelowFile(p) THEN "not_a_dir" ELSE "not_found"
  BY DEF LookupExact
<1>1. s \in Paths /\ RootKept
  BY DEF AnswerInv
<1>2. IsString(s, Names) /\ Sep \notin Names
  BY <1>1, ArchiveAssumption
<1>3. IsTree(tree, Names)
  BY <1>1, TreeOfArchive
<1> HIDE DEF s, p, found
<1>4. p \in Seq(Names) /\ Answers(tree, s, found)
  BY <1>2, <1>3, GetInodeExact DEF p, found
<1>5. BelowFile(p) <=> Blocked(tree, p, Len(p))
  BY <1>1, <1>4, BlockedByFile
<1>6. p \in DOMAIN tree => found = Found(p)
  BY <1>4 DEF Answers, p
<1>7. p \notin DOMAIN tree =>
        found = Fails(IF BelowFile(p) THEN "not_a_dir" ELSE "not_found")
  BY <1>4, <1>5 DEF Answers, p
<1>8. answer = IF query.call = "stat" THEN StatAnswer(s) ELSE ListAnswer(s)
  BY DEF AnswerInv, s
<1>9. CASE p \in DOMAIN tree
  <2>1. found.ret = "ok" /\ found.inode = p
    BY <1>6, <1>9 DEF Found
  <2>2. tree[p].type \in {Dir, File}
    BY <1>1, <1>9, TreeOfArchive
  <2>3. CASE query.call = "stat"
    <3>1. answer = Found(p)
      BY <1>8, <1>9, <2>1, <2>3, StatFinds DEF StatAnswer, found
    <3> QED
      BY <1>9, <2>3, <3>1 DEF Found
  <2>4. CASE query.call = "readdir" /\ tree[p].type = File
    <3>1. answer = Fails("not_a_dir")
      BY <1>8, <2>1, <2>4 DEF ListAnswer, found, Dir, File
    <3> QED
      BY <1>9, <2>4, <3>1 DEF Fails
  <2>5. CASE query.call = "readdir" /\ tree[p].type = Dir
    <3>1. answer.ret = "ok" /\ answer.inode = p
      BY <1>8, <2>1, <2>5 DEF ListAnswer, found
    <3> QED
      BY <1>9, <2>5, <3>1 DEF Dir, File
  <2> QED
    BY <2>2, <2>3, <2>4, <2>5
<1>10. CASE p \notin DOMAIN tree
  <2>1. found.ret = IF BelowFile(p) THEN "not_a_dir" ELSE "not_found"
    BY <1>7, <1>10 DEF Fails
  <2>2. answer = found
    BY <1>8, <2>1 DEF StatAnswer, ListAnswer, found
  <2> QED
    BY <1>10, <2>1, <2>2
<1> QED
  BY <1>9, <1>10

LEMMA ListingOf ==
    ASSUME ContextInv, NEW p \in DOMAIN tree, NEW n \in Names
    PROVE  n \in ChildrenOf(p) <=> Append(p, n) \in DOMAIN tree
<1>1. \A q \in DOMAIN tree : q \in Seq(Names)
  BY DEF ContextInv, TypeOK
<1>2. ASSUME n \in ChildrenOf(p) PROVE Append(p, n) \in DOMAIN tree
  <2>1. PICK q \in DOMAIN tree \ {Root} : Front(q) = p /\ n = Last(q)
    BY <1>2 DEF ChildrenOf
  <2>2. q = Append(Front(q), Last(q))
    BY <1>1, <2>1, FrontAndLast DEF Root
  <2> QED
    BY <2>1, <2>2
<1>3. ASSUME Append(p, n) \in DOMAIN tree PROVE n \in ChildrenOf(p)
  <2>1. p \in Seq(Names)
    BY <1>1
  <2>2. /\ Append(p, n) # << >>
        /\ Len(Append(p, n)) = Len(p) + 1 /\ Append(p, n)[Len(p) + 1] = n
    BY <2>1, AppendType
  <2>3. Front(Append(p, n)) = p
    BY <2>1, FrontOfAppend
  <2>4. Last(Append(p, n)) = n
    BY <2>2 DEF Last
  <2> QED
    BY <1>3, <2>2, <2>3, <2>4 DEF ChildrenOf, Root
<1> QED
  BY <1>2, <1>3

LEMMA ListedStated == ContextInv /\ TreeInv /\ AnswerInv => ListedResolve
<1> DEFINE s == query.path
           found == GetInode(tree, s)
           p == NamesIn(s)
<1> SUFFICES ASSUME ContextInv, TreeInv, AnswerInv, query.call = "readdir", answer.ret = "ok",
                    NEW n \in Names, Shallow(s \o <<Sep, n>>)
             PROVE  n \in answer.names <=>
                      GetInode(tree, s \o <<Sep, n>>) = Found(Append(answer.inode, n))
  BY DEF ListedResolve
<1>1. s \in Paths /\ RootKept /\ answer = ListAnswer(s)
  BY DEF AnswerInv
<1>2. IsString(s, Names) /\ Sep \notin Names
  BY <1>1, ArchiveAssumption
<1>3. IsTree(tree, Names)
  BY <1>1, TreeOfArchive
<1> HIDE DEF s, found, p
<1>4. /\ found.ret = "ok" /\ tree[found.inode].type = Dir
      /\ answer.inode = found.inode /\ answer.names = ChildrenOf(found.inode)
  <2>1. Fails("not_a_dir").ret # "ok"
    BY DEF Fails
  <2> QED
    BY <1>1, <2>1 DEF ListAnswer, found
<1>5. s # << >>
  BY <1>3, <1>4, EmptyNotFound DEF found
<1>6. Shallow(s)
  BY <1>2, ShallowBefore
<1>7. p \in Seq(Names) /\ Answers(tree, s, found)
  BY <1>2, <1>3, <1>5, <1>6, GetInodeExact DEF p, found
<1>8. p \in DOMAIN tree /\ found = Found(p)
  <2>1. Fails("not_a_dir").ret # "ok" /\ Fails("not_found").ret # "ok"
    BY DEF Fails
  <2>2. ~ \E q \in DOMAIN tree : found = Found(q) /\ ~ IsFolder(tree, q)
    BY <1>1, <1>4, TreeOfArchive DEF Found
  <2> QED
    BY <1>4, <1>7, <2>1, <2>2 DEF Answers, p
<1>9. answer.inode = p /\ answer.names = ChildrenOf(p)
  BY <1>4, <1>8 DEF Found
<1> DEFINE u == s \o <<Sep, n>>
<1>10. /\ IsString(u, Names) /\ u # << >> /\ Last(u) = n
       /\ NamesIn(u) = Append(p, n)
  BY <1>2, NameAfter DEF p
<1>11. Shallow(u)
  OBVIOUS
<1> HIDE DEF u
<1>12. Answers(tree, u, GetInode(tree, u))
  BY <1>2, <1>3, <1>10, <1>11, GetInodeExact
<1>13. n # Sep
  BY <1>2
<1>14. GetInode(tree, u) = Found(Append(p, n)) <=> Append(p, n) \in DOMAIN tree
  <2>1. \A x : Fails("not_a_dir") # Found(x) /\ Fails("not_found") # Found(x)
    <3>1. Fails("not_a_dir").ret = "not_a_dir" /\ Fails("not_found").ret = "not_found"
      BY DEF Fails
    <3>2. \A x : Found(x).ret = "ok"
      BY DEF Found
    <3> QED
      BY <3>1, <3>2
  <2> QED
    BY <1>10, <1>12, <1>13, <2>1 DEF Answers
<1>15. n \in ChildrenOf(p) <=> Append(p, n) \in DOMAIN tree
  BY <1>8, ListingOf
<1> QED
  BY <1>9, <1>14, <1>15 DEF u

\* The string of an inode is found to be that inode.
LEMMA StringFinds ==
    ASSUME ContextInv, TreeInv, RootKept, RootIdUnused, NEW p \in DOMAIN tree, p # Root,
           NEW s, s = PathString(tree, p) \/ s = <<Sep>> \o PathString(tree, p), Shallow(s)
    PROVE  GetInode(tree, s) = Found(p)
<1>1. IsTree(tree, Names) /\ RootIdOnce(tree) /\ Sep \notin Names
  BY TreeOfArchive, ArchiveAssumption
<1> QED
  BY <1>1, PathStringResolves DEF Root

LEMMA ResultsStated == ContextInv /\ TreeInv /\ AnswerInv => ResultsResolve
<1> DEFINE kinds == CASE query.mode = "dir_only"      -> {Dir}
                      [] query.mode = "file_plus_dir" -> {Dir, File}
                      [] OTHER                        -> {File}
<1> SUFFICES ASSUME ContextInv, TreeInv, AnswerInv, query.call = "search", RootIdUnused,
                    NEW s \in answer.results, Shallow(s)
             PROVE  LET found == GetInode(tree, s) IN
                    /\ found.ret = "ok" /\ StatOf(found.inode).ret = "ok"
                    /\ found.inode # Root
                    /\ tree[found.inode].type \in kinds
  BY DEF ResultsResolve
<1>1. /\ query.mode \in Modes /\ RootKept
      /\ answer.results = SearchAnswer(query.mode, query.pattern)
  BY DEF AnswerInv
<1>2. PICK p \in Matches(query.mode, query.pattern) : s = PathString(tree, p)
  BY <1>1 DEF SearchAnswer
<1>3. p \in DOMAIN tree /\ p # Root
  BY DEF Matches
<1>4. GetInode(tree, s) = Found(p)
  BY <1>1, <1>2, <1>3, StringFinds
<1>5. StatOf(p) = Found(p)
  BY <1>3, StatFinds
<1>6. tree[p].type \in kinds
  <2>1. CASE query.mode = "dir_only"
    BY <2>1 DEF Matches
  <2>2. CASE query.mode = "file_plus_dir"
    BY <1>1, <1>3, <2>2, TreeOfArchive
  <2>3. CASE query.mode \in {"file_only", "full_path"}
    BY <2>3 DEF Matches
  <2> QED
    BY <1>1, <2>1, <2>2, <2>3 DEF Modes
<1> HIDE DEF kinds
<1> QED
  BY <1>3, <1>4, <1>5, <1>6 DEF Found

LEMMA PrintedStated == ContextInv /\ TreeInv /\ AnswerInv => PrintedResolve
<1> DEFINE line(p) == <<Sep>> \o PathString(tree, p)
           files == {p \in DOMAIN tree : tree[p].type = File}
<1> SUFFICES ASSUME ContextInv, TreeInv, AnswerInv, query.call = "print", RootIdUnused
             PROVE  /\ {NamesIn(s) : s \in answer.lines} = files
                    /\ \A s \in answer.lines : Shallow(s) => GetInode(tree, s) = Found(NamesIn(s))
  BY DEF PrintedResolve
<1>1. RootKept /\ answer.lines = {line(p) : p \in files}
  BY DEF AnswerInv, PrintAnswer
<1>2. \A p \in files : p \in DOMAIN tree /\ p # Root
  BY DEF TreeInv, TreeShape, Dir, File
<1>3. IsTree(tree, Names) /\ RootIdOnce(tree) /\ Sep \notin Names
  BY <1>1, TreeOfArchive, ArchiveAssumption
<1>4. ASSUME NEW p \in files
      PROVE  /\ NamesIn(line(p)) = p
             /\ Shallow(line(p)) => GetInode(tree, line(p)) = Found(p)
  <2>1. NamesIn(PathString(tree, p)) = p
    BY <1>2, <1>3, PathStringNames DEF Root
  <2>2. IsString(PathString(tree, p), Names)
    BY <1>2, <1>3, PathStringIsString DEF Root
  <2>3. NamesIn(line(p)) = p
    BY <1>2, <1>3, <2>1, <2>2, PathStringIsString, LeadingSeparator DEF Root
  <2> QED
    BY <1>1, <1>2, <2>3, StringFinds
<1> HIDE DEF line, files
<1> QED
  BY <1>1, <1>4

\* Whatever was parsed: a string that is asked for is answered with the inode
\* its names lead to, or with the reason that there is none (get_inode,
\* inflate.c:24-83, stat.c:6-50).
THEOREM LookupAlwaysExact == ArchiveSpec => []LookupExact
BY LookupStated, AnswerInductive, PTL

\* Whatever was parsed: a directory's listing is what can be asked for below
\* it (stat.c:18-50).
THEOREM ListedAlwaysResolve == ArchiveSpec => []ListedResolve
BY ListedStated, AnswerInductive, PTL

\* Whatever was parsed: the results of a search can be asked for, and are of
\* the kinds its mode names (search.c:23-85).
THEOREM ResultsAlwaysResolve == ArchiveSpec => []ResultsResolve
BY ResultsStated, AnswerInductive, PTL

\* Whatever was parsed: the flat listing has the files of the archive, each as
\* a string that can be asked for (debug.c:162-192).
THEOREM PrintedAlwaysResolve == ArchiveSpec => []PrintedResolve
BY PrintedStated, AnswerInductive, PTL

-----------------------------------------------------------------------------
(* The tree of index files that agree                                      *)

\* Each id of a chain is that of a record whose parent is the one before it.
IsChain(R, c) ==
    /\ c \in Seq(DefinedIn(R)) /\ Len(c) \in 1 .. MaxLevel + 1
    /\ \E r \in R : r.id = c[1] /\ r.parent \notin DefinedIn(R)
    /\ \A j \in 1 .. Len(c) - 1 : \E r \in R : r.id = c[j+1] /\ r.parent = c[j]

OneRecord(R) == \A r, s \in R : r.id = s.id => r = s

AllListed == UNION {Listed(f) : f \in Registered}

\* Where build_inode_tree puts the file of an entry.
EntryPath(m) == FilePath(metadata_map[m])

\* The entries still to come, and those that have been put in the tree.
Coming ==
    IF pc = "build" THEN {Entries[file][j] : j \in entry .. Len(Entries[file])} ELSE {}

Built ==
    IF pc = "build"
    THEN (UNION {Listed(indexes[n]) : n \in 1 .. Len(indexes) - 1})
           \cup {Entries[file][j] : j \in 1 .. entry - 1}
    ELSE AllListed

\* All that has been registered is in the maps.
MapsComplete ==
    /\ \A f \in Registered : \A r \in Records(f) : metadata_map[r.id] # NoRecord
    /\ pc = "build" => \A m \in Listed(file) : file_map[m] = Len(indexes)

\* The tree holds the files of the entries it has been built of, each where
\* its record leads, the directories above them and nothing else; and a file
\* is of the last index that lists it, if that index is done with.
TreeIsBuilt ==
    /\ \A p \in DOMAIN tree : tree[p].type = File =>
         /\ tree[p].id \in Built /\ p = EntryPath(tree[p].id)
         /\ tree[p].index = file_map[tree[p].id] \/ tree[p].id \in Coming
    /\ \A m \in Built : EntryPath(m) \in DOMAIN tree /\ tree[EntryPath(m)].type = File
    /\ \A p \in DOMAIN tree \ {Root} : tree[p].type = Dir =>
         \E m \in Built : IsStrictPrefix(p, EntryPath(m))

CompleteInv == MapsComplete /\ (Agreeing => TreeIsBuilt)

\* The chains that go down d levels from a record without a parent.
LEMMA ChainsAre ==
    ASSUME NEW R
    PROVE  \A c : c \in ChainsOf(R) <=> IsChain(R, c)
<1> DEFINE Links(f, d) ==
             IF d = 1 THEN {<<r.id>> : r \in {x \in R : x.parent \notin DefinedIn(R)}}
             ELSE {Append(c[1], c[2].id) :
                     c \in {x \in f[d-1] \X R : x[2].parent = Last(x[1])}}
           Goes(f) == f = [d \in 1 .. MaxLevel + 1 |-> Links(f, d)]
           Long(d) == {c \in Seq(DefinedIn(R)) : Len(c) = d /\ IsChain(R, c)}
           g == [d \in 1 .. MaxLevel + 1 |-> Long(d)]
           h == CHOOSE f : Goes(f)
<1>0. MaxLevel \in Nat
  BY ContextAssumption
<1>1. Long(1) = {<<r.id>> : r \in {x \in R : x.parent \notin DefinedIn(R)}}
  <2>1. ASSUME NEW c \in Long(1)
        PROVE  \E r \in R : r.parent \notin DefinedIn(R) /\ c = <<r.id>>
    <3>1. c \in Seq(DefinedIn(R)) /\ Len(c) = 1
      OBVIOUS
    <3>2. PICK r \in R : r.id = c[1] /\ r.parent \notin DefinedIn(R)
      BY DEF IsChain
    <3>3. c = <<c[1]>>
      BY <3>1
    <3> QED
      BY <3>2, <3>3
  <2>2. ASSUME NEW r \in R, r.parent \notin DefinedIn(R)
        PROVE  <<r.id>> \in Long(1)
    <3>1. r.id \in DefinedIn(R)
      BY DEF DefinedIn
    <3> DEFINE c == <<r.id>>
    <3>2. c \in Seq(DefinedIn(R)) /\ Len(c) = 1 /\ c[1] = r.id
      BY <3>1
    <3> HIDE DEF c
    <3>3. IsChain(R, c)
      BY <1>0, <2>2, <3>2 DEF IsChain
    <3> QED
      BY <3>2, <3>3 DEF c
  <2> HIDE DEF Long
  <2> QED
    BY <2>1, <2>2
<1>2. ASSUME NEW d \in 2 .. MaxLevel + 1
      PROVE  Long(d) = {Append(c[1], c[2].id) :
                          c \in {x \in Long(d-1) \X R : x[2].parent = Last(x[1])}}
  <2>0. d - 1 \in 1 .. MaxLevel + 1 /\ d - 1 # 0 /\ d \in Nat
    BY <1>0
  <2>1. ASSUME NEW c \in Long(d)
        PROVE  \E b \in Long(d-1), r \in R : r.parent = Last(b) /\ c = Append(b, r.id)
    <3>1. c \in Seq(DefinedIn(R)) /\ Len(c) = d /\ IsChain(R, c) /\ c # << >>
      BY <2>0
    <3> DEFINE b == Front(c)
    <3>2. /\ b \in Seq(DefinedIn(R)) /\ Len(b) = d - 1
          /\ \A j \in 1 .. d - 1 : b[j] = c[j]
      BY <3>1, FrontShape
    <3>3. c = Append(b, Last(c)) /\ Last(c) = c[d]
      BY <3>1, FrontAndLast DEF Last
    <3> HIDE DEF b
    <3>4. PICK r \in R : r.id = c[(d-1)+1] /\ r.parent = c[d-1]
      BY <2>0, <3>1 DEF IsChain
    <3>5. Last(b) = c[d-1]
      BY <2>0, <3>2 DEF Last
    <3>6. IsChain(R, b)
      <4>1. 1 \in 1 .. d - 1 /\ b[1] = c[1]
        BY <2>0, <3>2
      <4>2. \A j \in 1 .. (d-1) - 1 : /\ j \in 1 .. d - 1 /\ j + 1 \in 1 .. d - 1
                                      /\ b[j] = c[j] /\ b[j+1] = c[j+1]
        BY <2>0, <3>2
      <4> QED
        BY <2>0, <3>1, <3>2, <4>1, <4>2 DEF IsChain
    <3>7. r.id = Last(c)
      BY <2>0, <3>3, <3>4
    <3>8. b \in Long(d-1)
      BY <3>2, <3>6
    <3> HIDE DEF Long
    <3> QED
      BY <3>3, <3>4, <3>5, <3>7, <3>8
  <2>2. ASSUME NEW b \in Long(d-1), NEW r \in R, r.parent = Last(b)
        PROVE  Append(b, r.id) \in Long(d)
    <3>1. b \in Seq(DefinedIn(R)) /\ Len(b) = d - 1 /\ IsChain(R, b)
      OBVIOUS
    <3>2. r.id \in DefinedIn(R)
      BY DEF DefinedIn
    <3> DEFINE c == Append(b, r.id)
    <3>3. /\ c \in Seq(DefinedIn(R)) /\ Len(c) = d /\ c[d] = r.id
          /\ \A j \in 1 .. d - 1 : c[j] = b[j]
      BY <2>0, <3>1, <3>2
    <3> HIDE DEF c
    <3>4. b[d-1] = r.parent
      BY <2>0, <2>2, <3>1 DEF Last
    <3>5. \A j \in 1 .. d - 1 : \E x \in R : x.id = c[j+1] /\ x.parent = c[j]
      <4> SUFFICES ASSUME NEW j \in 1 .. d - 1
                   PROVE  \E x \in R : x.id = c[j+1] /\ x.parent = c[j]
        OBVIOUS
      <4>1. CASE j = d - 1
        BY <2>0, <3>3, <3>4, <4>1
      <4>2. CASE j < d - 1
        <5>1. j \in 1 .. Len(b) - 1 /\ j + 1 \in 1 .. d - 1
          BY <2>0, <3>1, <4>2
        <5>2. PICK x \in R : x.id = b[j+1] /\ x.parent = b[j]
          BY <3>1, <5>1 DEF IsChain
        <5> QED
          BY <3>3, <5>1, <5>2
      <4> QED
        BY <2>0, <4>1, <4>2
    <3>6. \E x \in R : x.id = c[1] /\ x.parent \notin DefinedIn(R)
      <4>1. 1 \in 1 .. d - 1
        BY <2>0
      <4> QED
        BY <3>1, <3>3, <4>1 DEF IsChain
    <3>7. IsChain(R, c)
      BY <3>3, <3>5, <3>6 DEF IsChain
    <3> QED
      BY <3>3, <3>7 DEF c
  <2> HIDE DEF Long
  <2> DEFINE X == {x \in Long(d-1) \X R : x[2].parent = Last(x[1])}
  <2>3. \A b \in Long(d-1), r \in R : r.parent = Last(b) => <<b, r>> \in X
    OBVIOUS
  <2>4. \A x \in X : x[1] \in Long(d-1) /\ x[2] \in R /\ x[2].parent = Last(x[1])
    OBVIOUS
  <2> HIDE DEF X
  <2>5. \A c \in Long(d) : \E x \in X : c = Append(x[1], x[2].id)
    <3> SUFFICES ASSUME NEW c \in Long(d) PROVE \E x \in X : c = Append(x[1], x[2].id)
      OBVIOUS
    <3>1. PICK b \in Long(d-1), r \in R : r.parent = Last(b) /\ c = Append(b, r.id)
      BY <2>1
    <3>2. <<b, r>> \in X
      BY <2>3, <3>1
    <3>3. <<b, r>>[1] = b /\ <<b, r>>[2] = r
      OBVIOUS
    <3> QED
      BY <3>1, <3>2, <3>3
  <2>6. \A x \in X : Append(x[1], x[2].id) \in Long(d)
    BY <2>2, <2>4
  <2>7. Long(d) = {Append(x[1], x[2].id) : x \in X}
    BY <2>5, <2>6
  <2> QED
    BY <2>7 DEF X
<1> HIDE DEF Long
<1>3. \A d \in 1 .. MaxLevel + 1 : g[d] = Links(g, d)
  <2> SUFFICES ASSUME NEW d \in 1 .. MaxLevel + 1 PROVE g[d] = Links(g, d)
    OBVIOUS
  <2>1. CASE d = 1
    BY <1>1, <2>1
  <2>2. CASE d # 1
    <3>1. d \in 2 .. MaxLevel + 1 /\ d - 1 \in 1 .. MaxLevel + 1
      BY <1>0, <2>2
    <3>2. g[d-1] = Long(d-1) /\ g[d] = Long(d)
      BY <3>1
    <3> HIDE DEF g
    <3> QED
      BY <1>2, <2>2, <3>1, <3>2
  <2> QED
    BY <2>1, <2>2
<1>4. Goes(g)
  <2>1. g = [d \in 1 .. MaxLevel + 1 |-> g[d]]
    OBVIOUS
  <2> HIDE DEF g, Links
  <2>2. [d \in 1 .. MaxLevel + 1 |-> g[d]] = [d \in 1 .. MaxLevel + 1 |-> Links(g, d)]
    BY <1>3
  <2> QED
    BY <2>1, <2>2
<1>5. Goes(h)
  <2> HIDE DEF Goes, g
  <2> QED
    BY <1>4
<1>6. \A d \in 1 .. MaxLevel + 1 : h[d] = Links(h, d)
  <2> HIDE DEF h
  <2>1. h = [d \in 1 .. MaxLevel + 1 |-> Links(h, d)]
    BY <1>5
  <2> HIDE DEF Links
  <2> QED
    BY <2>1
<1>7. \A d \in 1 .. MaxLevel + 1 : h[d] = Long(d)
  <2> DEFINE G == {k \in 0 .. MaxLevel : h[k+1] = Long(k+1)}
  <2> HIDE DEF h
  <2>1. 0 \in G
    <3>1. 1 \in 1 .. MaxLevel + 1 /\ 0 + 1 = 1 /\ 0 \in 0 .. MaxLevel
      BY <1>0
    <3>2. h[1] = Links(h, 1)
      BY <1>6, <3>1
    <3>3. h[1] = Long(1)
      BY <1>1, <3>2
    <3> QED
      BY <3>1, <3>3
  <2>2. \A k \in 0 .. MaxLevel - 1 : k \in G => k + 1 \in G
    <3> SUFFICES ASSUME NEW k \in 0 .. MaxLevel - 1, h[k+1] = Long(k+1)
                 PROVE  h[(k+1)+1] = Long((k+1)+1)
      BY <1>0
    <3> DEFINE d == (k+1)+1
    <3>1. d \in 2 .. MaxLevel + 1 /\ d \in 1 .. MaxLevel + 1 /\ d # 1 /\ d - 1 = k + 1
      BY <1>0
    <3> HIDE DEF d
    <3>2. h[d-1] = Long(d-1)
      BY <3>1
    <3>4. h[d] = Links(h, d)
      BY <1>6, <3>1
    <3>5. h[d] = {Append(c[1], c[2].id) :
                    c \in {x \in Long(d-1) \X R : x[2].parent = Last(x[1])}}
      BY <3>1, <3>2, <3>4
    <3>3. h[d] = Long(d)
      BY <1>2, <3>1, <3>5
    <3> QED
      BY <3>3 DEF d
  <2>3. G = 0 .. MaxLevel
    <3> HIDE DEF G
    <3>1. G \in SUBSET (0 .. MaxLevel)
      BY DEF G
    <3> QED
      BY <1>0, <2>1, <2>2, <3>1, BoundedInduction
  <2> SUFFICES ASSUME NEW d \in 1 .. MaxLevel + 1 PROVE h[d] = Long(d)
    OBVIOUS
  <2>4. d - 1 \in 0 .. MaxLevel /\ (d - 1) + 1 = d
    BY <1>0
  <2>5. d - 1 \in G
    BY <2>3, <2>4
  <2> QED
    BY <2>4, <2>5
<1>8. ChainsOf(R) = UNION {h[d] : d \in 1 .. MaxLevel + 1}
  BY DEF ChainsOf
<1> HIDE DEF h
<1>9. ChainsOf(R) = UNION {Long(d) : d \in 1 .. MaxLevel + 1}
  BY <1>7, <1>8
<1>10. \A c : IsChain(R, c) => Len(c) \in 1 .. MaxLevel + 1 /\ c \in Long(Len(c))
  BY DEF IsChain, Long
<1>11. \A c, d : c \in Long(d) => IsChain(R, c)
  BY DEF Long
<1> QED
  BY <1>9, <1>10, <1>11

\* metadata_map holds the records that are known, and no others.
MapIsKnown ==
    /\ Known \subseteq RawRecords
    /\ \A r \in Known : /\ metadata_map[r.id] \in RecordsOf(MaxIndexes)
                        /\ metadata_map[r.id].id = r.id
                        /\ metadata_map[r.id].parent = r.parent
                        /\ metadata_map[r.id].name = r.name
    /\ \A m \in Ids : metadata_map[m] # NoRecord => m \in DefinedIn(Known)

LEMMA KnownInMap == ContextInv /\ MapsComplete /\ OneRecord(Known) => MapIsKnown
<1> SUFFICES ASSUME ContextInv, MapsComplete, OneRecord(Known) PROVE MapIsKnown
  OBVIOUS
<1>1. \A f \in Registered : f \in IndexFiles
  BY DEF ContextInv, TypeOK, Registered, Range
<1>2. \A f \in IndexFiles : Records(f) \subseteq RawRecords
  <2> SUFFICES ASSUME NEW f \in IndexFiles PROVE Records(f) \subseteq RawRecords
    OBVIOUS
  <2>1. Metadata[f] \in Seq(RawRecords)
    BY ContextAssumption DEF RawRecords
  <2> QED
    BY <2>1 DEF Records, Range
<1>3. Known \subseteq RawRecords
  BY <1>1, <1>2 DEF Known
<1>4. metadata_map \in [Ids -> {NoRecord} \cup RecordsOf(MaxIndexes)]
  BY DEF ContextInv, TypeOK, RecordsOf
\* What the map has under an id is a record of a registered index.
<1>5. \A m \in Ids : metadata_map[m] # NoRecord =>
        /\ metadata_map[m].id = m
        /\ [id |-> m, parent |-> metadata_map[m].parent, name |-> metadata_map[m].name] \in Known
  <2> SUFFICES ASSUME NEW m \in Ids, metadata_map[m] # NoRecord
               PROVE  /\ metadata_map[m].id = m
                      /\ [id |-> m, parent |-> metadata_map[m].parent,
                          name |-> metadata_map[m].name] \in Known
    OBVIOUS
  <2> DEFINE n == metadata_map[m].index
  <2>1. /\ n \in DOMAIN indexes
        /\ [id |-> m, parent |-> metadata_map[m].parent, name |-> metadata_map[m].name]
             \in Records(indexes[n])
    BY DEF ContextInv, Resolvable, MetadataResolves
  <2>2. indexes[n] \in Registered
    BY <2>1 DEF Registered, Range
  <2>3. metadata_map[m].id = m
    BY DEF ContextInv, Located
  <2> HIDE DEF n
  <2> QED
    BY <2>1, <2>2, <2>3 DEF Known
<1>6. \A r \in Known : /\ metadata_map[r.id] \in RecordsOf(MaxIndexes)
                       /\ metadata_map[r.id].id = r.id
                       /\ metadata_map[r.id].parent = r.parent
                       /\ metadata_map[r.id].name = r.name
  <2> SUFFICES ASSUME NEW r \in Known
               PROVE  /\ metadata_map[r.id] \in RecordsOf(MaxIndexes)
                      /\ metadata_map[r.id].id = r.id
                      /\ metadata_map[r.id].parent = r.parent
                      /\ metadata_map[r.id].name = r.name
    OBVIOUS
  <2>1. r.id \in Ids
    BY <1>3 DEF RawRecords
  <2>2. metadata_map[r.id] # NoRecord
    BY DEF Known, MapsComplete
  <2> DEFINE x == [id |-> r.id, parent |-> metadata_map[r.id].parent,
                   name |-> metadata_map[r.id].name]
  <2>3. x \in Known /\ metadata_map[r.id].id = r.id
    BY <1>5, <2>1, <2>2
  <2>4. x.id = r.id /\ x.parent = metadata_map[r.id].parent /\ x.name = metadata_map[r.id].name
    OBVIOUS
  <2> HIDE DEF x
  <2>5. x = r
    BY <2>3, <2>4 DEF OneRecord
  <2> QED
    BY <1>4, <2>1, <2>2, <2>3, <2>4, <2>5
<1>7. \A m \in Ids : metadata_map[m] # NoRecord => m \in DefinedIn(Known)
  <2> SUFFICES ASSUME NEW m \in Ids, metadata_map[m] # NoRecord PROVE m \in DefinedIn(Known)
    OBVIOUS
  <2>1. PICK x \in Known : x.id = m
    BY <1>5
  <2> QED
    BY <2>1 DEF DefinedIn
<1> QED
  BY <1>3, <1>6, <1>7 DEF MapIsKnown

\* The path of a chain is where the record of its last id leads.
ChainPaths ==
    \A c \in Chains :
      /\ Last(c) \in Ids
      /\ metadata_map[Last(c)] \in RecordsOf(MaxIndexes)
      /\ metadata_map[Last(c)].id = Last(c)
      /\ EntryPath(Last(c)) = NamesOf(Known, c)

\* Going up from a record get_path meets the ids of the chain that leads down
\* to it, to the first, whose parent is not known.
LEMMA PathOfChain == MapIsKnown /\ OneRecord(Known) => ChainPaths
<1> SUFFICES ASSUME MapIsKnown, OneRecord(Known), NEW c \in Chains
             PROVE  /\ Last(c) \in Ids
                    /\ metadata_map[Last(c)] \in RecordsOf(MaxIndexes)
                    /\ metadata_map[Last(c)].id = Last(c)
                    /\ EntryPath(Last(c)) = NamesOf(Known, c)
  BY DEF ChainPaths
<1> DEFINE N == Len(c)
           M(j) == metadata_map[c[j]]
           r == M(N)
           a == Ancestors(r)
<1>0. MaxLevel \in Nat
  BY ContextAssumption
<1>1. IsChain(Known, c)
  BY ChainsAre DEF Chains
<1>2. /\ c \in Seq(DefinedIn(Known)) /\ N \in 1 .. MaxLevel + 1 /\ N \in Nat
      /\ DOMAIN c = 1 .. N /\ Last(c) = c[N] /\ N \in 1 .. N
  BY <1>0, <1>1 DEF IsChain, Last
<1>3. \A j \in 1 .. N : /\ c[j] \in Ids /\ M(j) \in RecordsOf(MaxIndexes)
                        /\ M(j).id = c[j] /\ NamesOf(Known, c)[j] = M(j).name
  <2> SUFFICES ASSUME NEW j \in 1 .. N
               PROVE  /\ c[j] \in Ids /\ M(j) \in RecordsOf(MaxIndexes)
                      /\ M(j).id = c[j] /\ NamesOf(Known, c)[j] = M(j).name
    OBVIOUS
  <2>1. c[j] \in DefinedIn(Known)
    BY <1>2
  <2> DEFINE x == CHOOSE y \in Known : y.id = c[j]
  <2>2. x \in Known /\ x.id = c[j]
    BY <2>1 DEF DefinedIn
  <2>3. NamesOf(Known, c)[j] = x.name
    BY <1>2 DEF NamesOf
  <2> HIDE DEF x
  <2>4. c[j] \in Ids
    BY <2>2 DEF MapIsKnown, RawRecords
  <2> QED
    BY <2>2, <2>3, <2>4 DEF MapIsKnown
<1>4. \A j \in 1 .. N - 1 : M(j+1).parent = c[j]
  <2> SUFFICES ASSUME NEW j \in 1 .. N - 1 PROVE M(j+1).parent = c[j]
    OBVIOUS
  <2>1. PICK x \in Known : x.id = c[j+1] /\ x.parent = c[j]
    BY <1>1 DEF IsChain
  <2> QED
    BY <2>1 DEF MapIsKnown
<1>5. M(1).parent \in Ids /\ metadata_map[M(1).parent] = NoRecord
  <2>1. PICK x \in Known : x.id = c[1] /\ x.parent \notin DefinedIn(Known)
    BY <1>1 DEF IsChain
  <2>2. M(1).parent = x.parent
    BY <2>1 DEF MapIsKnown
  <2>3. x.parent \in Ids
    BY DEF MapIsKnown, RawRecords
  <2> QED
    BY <2>1, <2>2, <2>3 DEF MapIsKnown
<1>6. \A l \in 1 .. MaxLevel : a[l] = Above(r, a, l)
  BY AncestorsDef
<1>7. \A x \in RecordsOf(MaxIndexes) : x # NoRecord /\ x.parent \in Ids /\ x.parent # NoRecord
  BY NoRecordApart DEF RecordsOf
<1> HIDE DEF a, M
\* One level up.
<1>8. ASSUME NEW l \in 1 .. MaxLevel, l <= N, l = 1 \/ a[l-1] = M(N - (l-1))
      PROVE  a[l] = metadata_map[M(N - (l-1)).parent]
  <2>1. N - (l-1) \in 1 .. N
    BY <1>0, <1>2, <1>8
  <2>2. /\ M(N - (l-1)) # NoRecord
        /\ M(N - (l-1)).parent # NoRecord
    BY <1>3, <1>7, <2>1
  <2>3. a[l] = Above(r, a, l)
    BY <1>6
  <2>4. CASE l = 1
    <3>1. N - (l-1) = N
      BY <1>2, <2>4
    <3> QED
      BY <2>2, <2>3, <2>4, <3>1 DEF Above
  <2>5. CASE l # 1
    <3>1. a[l-1] = M(N - (l-1))
      BY <1>8, <2>5
    <3> QED
      BY <2>2, <2>3, <2>5, <3>1 DEF Above
  <2> QED
    BY <2>4, <2>5
<1>9. \A l \in 1 .. N - 1 : a[l] = M(N - l)
  <2> DEFINE G == {k \in 0 .. N - 1 : k = 0 \/ a[k] = M(N - k)}
  <2>1. 0 \in G
    BY <1>2
  <2>2. \A k \in 0 .. (N - 1) - 1 : k \in G => k + 1 \in G
    <3> SUFFICES ASSUME NEW k \in 0 .. (N - 1) - 1, k = 0 \/ a[k] = M(N - k)
                 PROVE  a[k+1] = M(N - (k+1))
      BY <1>2
    <3> DEFINE l == k + 1
               j == N - l
    <3>1. /\ l \in 1 .. MaxLevel /\ l <= N /\ l - 1 = k
          /\ N - (l-1) = j + 1 /\ j \in 1 .. N - 1 /\ (k = 0 => l = 1)
      BY <1>0, <1>2
    <3> HIDE DEF l, j
    <3>2. a[l] = metadata_map[M(j+1).parent]
      BY <1>8, <3>1
    <3>3. M(j+1).parent = c[j]
      BY <1>4, <3>1
    <3>4. a[l] = M(j)
      BY <3>2, <3>3 DEF M
    <3> QED
      BY <3>4 DEF l, j
  <2>3. G = 0 .. N - 1
    <3> HIDE DEF G
    <3>1. G \in SUBSET (0 .. N - 1) /\ N - 1 \in Nat
      BY <1>2 DEF G
    <3> QED
      BY <2>1, <2>2, <3>1, BoundedInduction
  <2>4. \A l \in 1 .. N - 1 : l \in G /\ l # 0
    BY <1>2, <2>3
  <2> QED
    BY <2>4
<1>10. N <= MaxLevel => a[N] = NoRecord
  <2> SUFFICES ASSUME N <= MaxLevel PROVE a[N] = NoRecord
    OBVIOUS
  <2>1. N \in 1 .. MaxLevel /\ N <= N /\ N - (N-1) = 1 /\ (N # 1 => N - 1 \in 1 .. N - 1)
    BY <1>0, <1>2
  <2>2. N = 1 \/ a[N-1] = M(N - (N-1))
    BY <1>9, <2>1
  <2>3. a[N] = metadata_map[M(N - (N-1)).parent]
    BY <1>8, <2>1, <2>2
  <2> QED
    BY <1>5, <2>1, <2>3
<1>11. Depth(r) = N - 1
  <2>1. {l \in 1 .. MaxLevel : a[l] # NoRecord} = 1 .. Depth(r) /\ Depth(r) \in Nat
    BY DepthReached, DepthType DEF a
  <2>2. N - 1 >= 1 => N - 1 \in 1 .. Depth(r)
    <3> SUFFICES ASSUME N - 1 >= 1 PROVE N - 1 \in 1 .. Depth(r)
      OBVIOUS
    <3>1. N - 1 \in 1 .. MaxLevel /\ N - 1 \in 1 .. N - 1 /\ N - (N-1) = 1 /\ 1 \in 1 .. N
      BY <1>0, <1>2
    <3>2. a[N-1] = M(1)
      BY <1>9, <3>1
    <3>3. a[N-1] # NoRecord
      BY <1>3, <1>7, <3>1, <3>2
    <3> QED
      BY <2>1, <3>1, <3>3
  <2>3. Depth(r) < N
    <3> SUFFICES ASSUME Depth(r) >= N PROVE FALSE
      BY <1>2, <2>1
    <3>1. N \in 1 .. Depth(r)
      BY <1>2, <2>1
    <3>2. N \in 1 .. MaxLevel /\ a[N] # NoRecord
      BY <2>1, <3>1
    <3> QED
      BY <1>0, <1>10, <3>2
  <2> QED
    BY <1>2, <2>1, <2>2, <2>3
<1> DEFINE s == DirPath(r, Depth(r))
           p == NamesOf(Known, c)
<1>12. \A d \in 1 .. N - 1 : DirRecord(r, d) = M(d)
  <2> SUFFICES ASSUME NEW d \in 1 .. N - 1 PROVE DirRecord(r, d) = M(d)
    OBVIOUS
  <2>1. DirRecord(r, d) = a[(N - 1) - d + 1]
    BY <1>11 DEF DirRecord, a
  <2>2. (N - 1) - d + 1 = N - d /\ N - d \in 1 .. N - 1 /\ N - (N - d) = d
    BY <1>2
  <2> QED
    BY <1>9, <2>1, <2>2
<1>13. s = [j \in 1 .. N - 1 |-> M(j).name]
  BY <1>11, <1>12 DEF DirPath
<1>14. \A j \in 1 .. N : M(j).name \in Names
  BY <1>3 DEF RecordsOf
<1>15. s \in Seq(Names) /\ Len(s) = N - 1 /\ \A j \in 1 .. N - 1 : s[j] = M(j).name
  <2>1. s \in [1 .. N - 1 -> Names] /\ N - 1 \in Nat
    BY <1>2, <1>13, <1>14
  <2> QED
    BY <1>13, <2>1
<1>16. p = [j \in 1 .. N |-> M(j).name]
  <2>1. p = [j \in 1 .. N |-> p[j]]
    BY <1>2 DEF NamesOf
  <2> QED
    BY <1>3, <2>1
<1>17. EntryPath(Last(c)) = Append(s, M(N).name)
  BY <1>2 DEF EntryPath, FilePath, M
<1>20. N \in Nat /\ N >= 1
  BY <1>2
<1> HIDE DEF s, p, N
<1>18. Append(s, M(N).name) = p
  <2> DEFINE q == Append(s, M(N).name)
  <2>1. /\ q \in Seq(Names) /\ Len(q) = N /\ q[N] = M(N).name
        /\ \A j \in 1 .. N - 1 : q[j] = s[j]
    <3>1. s \in Seq(Names) /\ M(N).name \in Names /\ Len(s) = N - 1 /\ (N - 1) + 1 = N
      BY <1>14, <1>15, <1>20
    <3> QED
      BY <3>1, AppendType
  <2> HIDE DEF q
  <2>2. \A j \in 1 .. N : q[j] = M(j).name
    <3>1. \A j \in 1 .. N : j = N \/ j \in 1 .. N - 1
      BY <1>20
    <3> QED
      BY <1>15, <2>1, <3>1
  <2>3. q = [j \in 1 .. N |-> q[j]]
    BY <1>2, <2>1
  <2>4. q = p
    BY <1>16, <2>2, <2>3
  <2> QED
    BY <2>4 DEF q
<1>19. /\ Last(c) \in Ids
       /\ metadata_map[Last(c)] \in RecordsOf(MaxIndexes)
       /\ metadata_map[Last(c)].id = Last(c)
  BY <1>2, <1>3 DEF M
<1> QED
  BY <1>17, <1>18, <1>19 DEF p

LEMMA StrictPrefixIs ==
    ASSUME NEW S, NEW p \in Seq(S), NEW q \in Seq(S)
    PROVE  IsStrictPrefix(q, p) <=> \E n \in 0 .. Len(p) - 1 : q = SubSeq(p, 1, n)
<1>1. ASSUME IsStrictPrefix(q, p)
      PROVE  \E n \in 0 .. Len(p) - 1 : q = SubSeq(p, 1, n)
  <2>1. Len(q) < Len(p) /\ \A j \in 1 .. Len(q) : q[j] = p[j]
    BY <1>1 DEF IsStrictPrefix, IsPrefix
  <2>2. Len(q) \in 0 .. Len(p) - 1
    BY <2>1
  <2>3. q = SubSeq(p, 1, Len(q))
    BY <2>1
  <2> QED
    BY <2>2, <2>3
<1>2. ASSUME NEW n \in 0 .. Len(p) - 1, q = SubSeq(p, 1, n)
      PROVE  IsStrictPrefix(q, p)
  <2>1. Len(q) = n /\ \A j \in 1 .. n : q[j] = p[j]
    BY <1>2
  <2> QED
    BY <2>1 DEF IsStrictPrefix, IsPrefix
<1> QED
  BY <1>1, <1>2

\* A chain all of whose ids are known already was one before.
LEMMA OldChain ==
    ASSUME NEW S, OneRecord(S), NEW R \in SUBSET S, NEW c, IsChain(S, c),
           \A j \in 1 .. Len(c) : c[j] \in DefinedIn(R)
    PROVE  IsChain(R, c) /\ NamesOf(R, c) = NamesOf(S, c)
<1>1. c \in Seq(DefinedIn(S)) /\ Len(c) \in 1 .. MaxLevel + 1 /\ Len(c) \in Nat
  BY DEF IsChain
<1>2. c \in Seq(DefinedIn(R)) /\ DOMAIN c = 1 .. Len(c) /\ 1 \in 1 .. Len(c)
  BY <1>1, ContextAssumption
<1>3. \A j \in 1 .. Len(c) : \E x \in R : x.id = c[j] /\ \A y \in S : y.id = c[j] => y = x
  BY DEF OneRecord, DefinedIn
<1>4. DefinedIn(R) \subseteq DefinedIn(S)
  BY DEF DefinedIn
<1>5. \E r \in R : r.id = c[1] /\ r.parent \notin DefinedIn(R)
  BY <1>2, <1>3, <1>4 DEF IsChain
<1>6. \A j \in 1 .. Len(c) - 1 : \E r \in R : r.id = c[j+1] /\ r.parent = c[j]
  <2> SUFFICES ASSUME NEW j \in 1 .. Len(c) - 1
               PROVE  \E r \in R : r.id = c[j+1] /\ r.parent = c[j]
    OBVIOUS
  <2>1. j + 1 \in 1 .. Len(c)
    BY <1>1
  <2>2. PICK y \in S : y.id = c[j+1] /\ y.parent = c[j]
    BY DEF IsChain
  <2> QED
    BY <1>3, <2>1, <2>2
<1>7. IsChain(R, c)
  BY <1>1, <1>2, <1>5, <1>6 DEF IsChain
<1>8. \A j \in 1 .. Len(c) : (CHOOSE r \in R : r.id = c[j]) = (CHOOSE r \in S : r.id = c[j])
  <2> SUFFICES ASSUME NEW j \in 1 .. Len(c)
               PROVE  (CHOOSE r \in R : r.id = c[j]) = (CHOOSE r \in S : r.id = c[j])
    OBVIOUS
  <2>1. PICK x \in R : x.id = c[j] /\ \A y \in S : y.id = c[j] => y = x
    BY <1>3
  <2>2. (CHOOSE r \in R : r.id = c[j]) = x
    BY <2>1
  <2>3. (CHOOSE r \in S : r.id = c[j]) = x
    BY <2>1
  <2> QED
    BY <2>2, <2>3
<1>9. NamesOf(R, c) = NamesOf(S, c)
  <2> DEFINE p == NamesOf(R, c)
             q == NamesOf(S, c)
  <2>1. p = [j \in 1 .. Len(c) |-> p[j]] /\ q = [j \in 1 .. Len(c) |-> q[j]]
    BY <1>2 DEF NamesOf
  <2>2. \A j \in 1 .. Len(c) : /\ p[j] = (CHOOSE r \in R : r.id = c[j]).name
                               /\ q[j] = (CHOOSE r \in S : r.id = c[j]).name
    BY <1>2 DEF NamesOf
  <2> HIDE DEF p, q
  <2>3. \A j \in 1 .. Len(c) : p[j] = q[j]
    BY <1>8, <2>2
  <2>4. p = q
    BY <2>1, <2>3
  <2> QED
    BY <2>4 DEF p, q
<1> QED
  BY <1>7, <1>9

\* The files of index files that agree are where the records of their entries
\* lead.
EntriesLead ==
    /\ FilePaths = {EntryPath(m) : m \in AllListed}
    /\ \A m \in AllListed : /\ m \in Ids
                            /\ metadata_map[m] \in RecordsOf(MaxIndexes)
                            /\ metadata_map[m].id = m
                            /\ EntryPath(m) \in Seq(Names) /\ EntryPath(m) # << >>

LEMMA AgreeingEntries == ContextInv /\ MapsComplete /\ Agreeing => EntriesLead
<1> SUFFICES ASSUME ContextInv, MapsComplete, Agreeing PROVE EntriesLead
  OBVIOUS
<1>1. OneRecord(Known)
  BY DEF Agreeing, OneRecord
<1>2. ChainPaths
  BY <1>1, KnownInMap, PathOfChain
<1>3. \A m \in AllListed : \E c \in Chains : Last(c) = m
  BY DEF Agreeing, AllListed
<1>4. \A m \in AllListed : /\ m \in Ids
                           /\ metadata_map[m] \in RecordsOf(MaxIndexes)
                           /\ metadata_map[m].id = m
  <2> SUFFICES ASSUME NEW m \in AllListed
               PROVE  /\ m \in Ids
                      /\ metadata_map[m] \in RecordsOf(MaxIndexes)
                      /\ metadata_map[m].id = m
    OBVIOUS
  <2>1. PICK c \in Chains : Last(c) = m
    BY <1>3
  <2> QED
    BY <1>2, <2>1 DEF ChainPaths
<1>5. metadata_map \in [Ids -> {NoRecord} \cup RecordsOf(MaxIndexes)]
  BY DEF ContextInv, TypeOK, RecordsOf
<1>6. \A m \in AllListed : EntryPath(m) \in Seq(Names) /\ EntryPath(m) # << >>
  BY <1>4, <1>5, FilePathType DEF EntryPath
<1>7. FilePaths \subseteq {EntryPath(m) : m \in AllListed}
  <2> SUFFICES ASSUME NEW c \in Chains, NEW f \in Registered, Last(c) \in Listed(f)
               PROVE  NamesOf(Known, c) \in {EntryPath(m) : m \in AllListed}
    BY DEF FilePaths
  <2>1. Last(c) \in AllListed
    BY DEF AllListed
  <2>2. EntryPath(Last(c)) = NamesOf(Known, c)
    BY <1>2 DEF ChainPaths
  <2> QED
    BY <2>1, <2>2
<1>8. \A m \in AllListed : EntryPath(m) \in FilePaths
  <2> SUFFICES ASSUME NEW m \in AllListed PROVE EntryPath(m) \in FilePaths
    OBVIOUS
  <2>1. PICK c \in Chains : Last(c) = m
    BY <1>3
  <2>2. PICK f \in Registered : m \in Listed(f)
    BY DEF AllListed
  <2>3. EntryPath(m) = NamesOf(Known, c)
    BY <1>2, <2>1 DEF ChainPaths
  <2> QED
    BY <2>1, <2>2, <2>3 DEF FilePaths
<1> QED
  BY <1>4, <1>6, <1>7, <1>8 DEF EntriesLead

\* Index files that agree did so before the last of them was registered, and
\* it leaves the paths of the others' files where they were.
LEMMA AgreedBefore ==
    ContextInv /\ MapsComplete /\ ContextInv' /\ MapsComplete' /\ Agreeing'
      /\ Registered \subseteq Registered'
    => Agreeing /\ \A m \in AllListed : EntryPath(m)' = EntryPath(m)
<1> SUFFICES ASSUME ContextInv, MapsComplete, ContextInv', MapsComplete', Agreeing',
                    Registered \subseteq Registered'
             PROVE  Agreeing /\ \A m \in AllListed : EntryPath(m)' = EntryPath(m)
  OBVIOUS
<1>1. Known \subseteq Known'
  BY DEF Known, Records
<1>2. OneRecord(Known') /\ OneRecord(Known)
  BY <1>1 DEF Agreeing, OneRecord
<1>3. ChainPaths
  BY <1>2, KnownInMap, PathOfChain
<1>4. ChainPaths'
  <2>1. (ContextInv /\ MapsComplete /\ OneRecord(Known) => MapIsKnown)'
    BY KnownInMap, PTL
  <2>2. (MapIsKnown /\ OneRecord(Known) => ChainPaths)'
    BY PathOfChain, PTL
  <2>3. OneRecord(Known)'
    BY <1>2 DEF OneRecord
  <2> QED
    BY <2>1, <2>2, <2>3
<1>5. EntriesLead'
  <2>1. (ContextInv /\ MapsComplete /\ Agreeing => EntriesLead)'
    BY AgreeingEntries, PTL
  <2> QED
    BY <2>1
\* A chain that is all in one of the files that were there.
<1>6. \A f \in Registered : \A m \in Listed(f) :
        \E c \in Chains : /\ Last(c) = m /\ Range(c) \subseteq DefinedIn(Records(f))
                          /\ EntryPath(m)' = EntryPath(m)
  <2> SUFFICES ASSUME NEW f \in Registered, NEW m \in Listed(f)
               PROVE  \E c \in Chains : /\ Last(c) = m /\ Range(c) \subseteq DefinedIn(Records(f))
                                        /\ EntryPath(m)' = EntryPath(m)
    OBVIOUS
  <2>1. PICK c \in Chains' : Last(c) = m /\ Range(c) \subseteq DefinedIn(Records(f))
    BY DEF Agreeing, Listed, Records
  <2>2. IsChain(Known', c)
    BY <2>1, ChainsAre DEF Chains
  <2>3. Records(f) \subseteq Known
    BY DEF Known
  <2>4. \A j \in 1 .. Len(c) : c[j] \in DefinedIn(Known)
    <3>1. DOMAIN c = 1 .. Len(c)
      BY <2>2 DEF IsChain
    <3> QED
      BY <2>1, <2>3, <3>1 DEF DefinedIn, Range
  <2>5. IsChain(Known, c) /\ NamesOf(Known, c) = NamesOf(Known', c)
    BY <1>1, <1>2, <2>2, <2>4, OldChain
  <2>6. c \in Chains
    BY <2>5, ChainsAre DEF Chains
  <2>7. EntryPath(m) = NamesOf(Known, c)
    BY <1>3, <2>1, <2>6 DEF ChainPaths
  <2>8. EntryPath(m)' = NamesOf(Known', c)
    BY <1>4, <2>1 DEF ChainPaths, NamesOf
  <2> QED
    BY <2>1, <2>5, <2>6, <2>7, <2>8
<1>7. \A m \in AllListed : EntryPath(m)' = EntryPath(m)
  BY <1>6 DEF AllListed
<1>8. \A f \in Registered : \A m \in Listed(f) :
        \E c \in Chains : Last(c) = m /\ Range(c) \subseteq DefinedIn(Records(f))
  BY <1>6
<1>9. FilePaths \subseteq FilePaths'
  <2> SUFFICES ASSUME NEW p \in FilePaths PROVE p \in FilePaths'
    OBVIOUS
  <2>1. PICK c \in Chains : p = NamesOf(Known, c) /\ \E f \in Registered : Last(c) \in Listed(f)
    BY DEF FilePaths
  <2>2. Last(c) \in AllListed /\ p = EntryPath(Last(c))
    BY <1>3, <2>1 DEF AllListed, ChainPaths
  <2>3. PICK m \in AllListed : p = EntryPath(m)
    BY <2>2
  <2>4. m \in AllListed' /\ EntryPath(m)' = p
    BY <1>7, <2>3 DEF AllListed, Listed
  <2> QED
    BY <1>5, <2>4 DEF EntriesLead
<1>10. FolderPaths \subseteq FolderPaths'
  BY <1>9 DEF FolderPaths
<1>11. FilePaths \cap FolderPaths = {}
  BY <1>9, <1>10 DEF Agreeing
<1> QED
  BY <1>2, <1>7, <1>8, <1>11 DEF Agreeing, OneRecord

\* Every other step leaves the maps and the tree, and builds no tree.
LEMMA OtherSteps ==
    Next => \/ Register \/ BuildFile \/ BuildDone \/ BuildMissesMetadata \/ BuildCollides
            \/ UNCHANGED context /\ pc # "build" /\ pc' # "build"
<1> SUFFICES ASSUME Next, ~ (Register \/ BuildFile \/ BuildDone), ~ BuildMissesMetadata,
                    ~ BuildCollides
             PROVE  UNCHANGED context /\ pc # "build" /\ pc' # "build"
  OBVIOUS
<1>1. CASE ParseDir \/ OpendirFails \/ DirParsed
  BY <1>1 DEF ParseDir, OpendirFails, DirParsed
<1>2. CASE \E f \in IndexFiles : ReadFile(f) \/ SkipFile(f) \/ ParseFile(f)
  BY <1>2 DEF ReadFile, SkipFile, ParseFile
<1>3. CASE OpenFails \/ MapFails
  BY <1>3 DEF OpenFails, MapFails, FileParsed
<1> QED
  BY <1>1, <1>2, <1>3 DEF Next

LEMMA MapsInit == Init => MapsComplete
BY DEF Init, MapsComplete, Registered, Range

\* The records and entries of an index are in the maps when its tree is built,
\* and none is ever taken out.
LEMMA MapsRegister == ContextInv /\ MapsComplete /\ Register => MapsComplete'
<1> SUFFICES ASSUME ContextInv, MapsComplete, Register PROVE MapsComplete'
  OBVIOUS
<1>1. /\ file \in IndexFiles /\ indexes \in Seq(IndexFiles)
      /\ MaxIndexes \in Nat /\ Len(indexes) < MaxIndexes
  BY ContextAssumption DEF ContextInv, TypeOK, Register
<1>2. /\ metadata_map' = PutMetadata(file, NewIndex)
      /\ file_map' = PutEntries(file, NewIndex)
      /\ indexes' = Append(indexes, file) /\ file' = file
  BY DEF Register
<1>3. NewIndex = Len(indexes') /\ NewIndex \in 1 .. MaxIndexes
  BY <1>1, <1>2 DEF NewIndex
<1>4. Registered' = Registered \cup {file}
  BY <1>1, <1>2 DEF Registered, Range
<1>5. \A f \in IndexFiles : Records(f) \subseteq RawRecords
  <2> SUFFICES ASSUME NEW f \in IndexFiles PROVE Records(f) \subseteq RawRecords
    OBVIOUS
  <2>1. Metadata[f] \in Seq(RawRecords)
    BY ContextAssumption DEF RawRecords
  <2> QED
    BY <2>1 DEF Records, Range
<1>6. \A f \in Registered : f \in IndexFiles
  BY <1>1 DEF Registered, Range
<1>7. ASSUME NEW m \in Ids, metadata_map[m] # NoRecord \/ \E r \in Records(file) : r.id = m
      PROVE  metadata_map'[m] # NoRecord
  <2> DEFINE defines == {j \in DOMAIN Metadata[file] : Metadata[file][j].id = m}
             k == CHOOSE j \in defines : \A i \in defines : i <= j
             x == [id |-> m, parent |-> Metadata[file][k].parent,
                   name |-> Metadata[file][k].name, index |-> NewIndex]
  <2>1. metadata_map'[m] = IF defines = {} THEN metadata_map[m] ELSE x
    BY <1>2 DEF PutMetadata
  <2>2. (\E r \in Records(file) : r.id = m) => defines # {}
    BY DEF Records, Range
  <2>3. defines # {} => x # NoRecord
    <3> SUFFICES ASSUME defines # {} PROVE x # NoRecord
      OBVIOUS
    <3>1. k = Greatest(defines)
      BY DEF Greatest
    <3>2. k \in defines
      <4>1. Metadata[file] \in Seq(RawRecords)
        BY <1>1, ContextAssumption DEF RawRecords
      <4>2. Len(Metadata[file]) \in Nat /\ defines \in SUBSET (0 .. Len(Metadata[file]))
        BY <4>1
      <4> HIDE DEF defines, k
      <4> QED
        BY <3>1, <4>2, GreatestExists
    <3>3. Metadata[file][k] \in Records(file)
      <4> HIDE DEF k
      <4> QED
        BY <3>2 DEF Records, Range
    <3> HIDE DEF k
    <3>4. x \in RecordsOf(MaxIndexes)
      BY <1>1, <1>3, <1>5, <3>3 DEF RawRecords, RecordsOf
    <3> HIDE DEF x
    <3> QED
      BY <3>4, NoRecordApart
  <2> HIDE DEF defines, x
  <2> QED
    BY <1>7, <2>1, <2>2, <2>3
<1>8. ASSUME NEW f \in Registered', NEW r \in Records(f)
      PROVE  metadata_map'[r.id] # NoRecord
  <2>1. f \in IndexFiles
    BY <1>1, <1>4, <1>6
  <2>2. r.id \in Ids
    BY <1>5, <2>1 DEF RawRecords
  <2>3. f \in Registered => metadata_map[r.id] # NoRecord
    BY DEF MapsComplete
  <2> QED
    BY <1>4, <1>7, <2>2, <2>3
<1>9. \A m \in Listed(file) : file_map'[m] = Len(indexes')
  <2>1. Entries[file] \in Seq(Ids)
    BY <1>1, ContextAssumption
  <2>2. Range(Entries[file]) = ToSet(Entries[file]) /\ ToSet(Entries[file]) \subseteq Ids
    BY <2>1 DEF Range, ToSet
  <2> QED
    BY <1>2, <1>3, <2>2 DEF PutEntries, Listed
<1> QED
  BY <1>2, <1>8, <1>9 DEF MapsComplete, Records, Listed

LEMMA MapsNext == ContextInv /\ MapsComplete /\ Next => MapsComplete'
<1> SUFFICES ASSUME ContextInv, MapsComplete, Next, ~ Register PROVE MapsComplete'
  BY MapsRegister
<1>1. /\ UNCHANGED <<metadata_map, file_map, indexes>>
      /\ pc' = "build" => pc = "build" /\ file' = file
  <2>1. CASE BuildFile
    BY <2>1 DEF BuildFile
  <2>2. CASE BuildDone \/ BuildMissesMetadata \/ BuildCollides
    BY <2>2 DEF BuildDone, BuildMissesMetadata, BuildCollides, FileParsed, context
  <2> QED
    BY <2>1, <2>2, OtherSteps DEF context
<1> QED
  BY <1>1 DEF MapsComplete, Registered, Records, Listed

\* The entries the tree has been built of are those of registered indexes.
LEMMA BuiltListed == ContextInv => /\ Built \subseteq AllListed /\ Coming \subseteq AllListed
                                   /\ Registered = {indexes[n] : n \in 1 .. Len(indexes)}
<1> SUFFICES ASSUME ContextInv
             PROVE  /\ Built \subseteq AllListed /\ Coming \subseteq AllListed
                    /\ Registered = {indexes[n] : n \in 1 .. Len(indexes)}
  OBVIOUS
<1>1. indexes \in Seq(IndexFiles)
  BY DEF ContextInv, TypeOK
<1>2. Registered = {indexes[n] : n \in 1 .. Len(indexes)}
  BY <1>1 DEF Registered, Range
<1>3. pc = "build" => /\ file \in Registered /\ file \in IndexFiles
                      /\ entry \in 1 .. Len(Entries[file]) + 1
  BY <1>1, <1>2 DEF ContextInv, TypeOK, Last
<1>4. \A f \in IndexFiles : /\ Len(Entries[f]) \in Nat
                            /\ \A j \in 1 .. Len(Entries[f]) : Entries[f][j] \in Listed(f)
  <2> SUFFICES ASSUME NEW f \in IndexFiles
               PROVE  /\ Len(Entries[f]) \in Nat
                      /\ \A j \in 1 .. Len(Entries[f]) : Entries[f][j] \in Listed(f)
    OBVIOUS
  <2>1. Entries[f] \in Seq(Ids)
    BY ContextAssumption
  <2> QED
    BY <2>1 DEF Listed, Range
<1>5. Built \subseteq AllListed
  <2>1. CASE pc = "build"
    <3>1. \A n \in 1 .. Len(indexes) - 1 : n \in 1 .. Len(indexes)
      BY <1>1
    <3>2. \A j \in 1 .. entry - 1 : j \in 1 .. Len(Entries[file])
      BY <1>3, <1>4, <2>1
    <3>3. \A n \in 1 .. Len(indexes) - 1 : Listed(indexes[n]) \subseteq AllListed
      BY <1>2, <3>1 DEF AllListed
    <3>4. \A j \in 1 .. entry - 1 : Entries[file][j] \in AllListed
      BY <1>3, <1>4, <2>1, <3>2 DEF AllListed
    <3>5. Built = (UNION {Listed(indexes[n]) : n \in 1 .. Len(indexes) - 1})
                    \cup {Entries[file][j] : j \in 1 .. entry - 1}
      BY <2>1 DEF Built
    <3>6. \A x \in Built : \/ \E n \in 1 .. Len(indexes) - 1 : x \in Listed(indexes[n])
                           \/ \E j \in 1 .. entry - 1 : x = Entries[file][j]
      BY <3>5
    <3> QED
      BY <3>3, <3>4, <3>6
  <2>2. CASE pc # "build"
    BY <2>2 DEF Built
  <2> QED
    BY <2>1, <2>2
<1>6. Coming \subseteq AllListed
  <2>1. CASE pc = "build"
    <3>1. \A j \in entry .. Len(Entries[file]) : j \in 1 .. Len(Entries[file])
      BY <1>3, <1>4, <2>1
    <3> QED
      BY <1>3, <1>4, <2>1, <3>1 DEF Coming, AllListed
  <2>2. CASE pc # "build"
    BY <2>2 DEF Coming
  <2> QED
    BY <2>1, <2>2
<1> QED
  BY <1>2, <1>5, <1>6

\* The tree is left as it was, and so are the paths of its files.
LEMMA TreeKept ==
    ASSUME ContextInv, TreeIsBuilt, tree' = tree, Built' = Built, Coming \subseteq Coming',
           \A m \in AllListed : EntryPath(m)' = EntryPath(m),
           \A m \in AllListed : file_map'[m] = file_map[m] \/ m \in Coming'
    PROVE  TreeIsBuilt'
<1>1. Built \subseteq AllListed
  BY BuiltListed
<1>2. \A p \in DOMAIN tree' : tree'[p].type = File =>
        /\ tree'[p].id \in Built' /\ p = EntryPath(tree[p].id)'
        /\ tree'[p].index = file_map'[tree'[p].id] \/ tree'[p].id \in Coming'
  <2> SUFFICES ASSUME NEW p \in DOMAIN tree, tree[p].type = File
               PROVE  /\ tree[p].id \in Built /\ p = EntryPath(tree[p].id)'
                      /\ tree[p].index = file_map'[tree[p].id] \/ tree[p].id \in Coming'
    OBVIOUS
  <2> DEFINE m == tree[p].id
  <2>1. /\ m \in Built /\ p = EntryPath(m)
        /\ tree[p].index = file_map[m] \/ m \in Coming
    BY DEF TreeIsBuilt
  <2>2. m \in AllListed
    BY <1>1, <2>1
  <2>3. PICK k \in AllListed : k = m
    BY <2>2
  <2>4. EntryPath(k)' = EntryPath(k)
    OBVIOUS
  <2>5. m' = k
    BY <2>3
  <2>6. EntryPath(m)' = EntryPath(k)'
    BY <2>5
  <2> QED
    BY <2>1, <2>3, <2>4, <2>6
<1> QED
  BY <1>1, <1>2 DEF TreeIsBuilt, Dir, File, Root

\* The directories created for a file are those on the way to it.
LEMMA DirPathsAbove ==
    ASSUME ContextInv, NEW r \in RecordsOf(MaxIndexes), NEW q \in DirPaths(r)
    PROVE  /\ q \in Seq(Names) /\ q # << >> /\ IsStrictPrefix(q, FilePath(r))
           /\ \E n \in 1 .. Len(FilePath(r)) - 1 : q = SubSeq(FilePath(r), 1, n)
<1> DEFINE D == Depth(r)
           p == FilePath(r)
<1>1. metadata_map \in [Ids -> {NoRecord} \cup RecordsOf(MaxIndexes)]
  BY DEF ContextInv, TypeOK, RecordsOf
<1>2. D \in Nat
  BY DepthType
<1>3. PICK d \in 1 .. D : q = DirPath(r, d)
  BY DEF DirPaths
<1>4. d \in 0 .. D /\ D \in 0 .. D
  BY <1>2
<1>5. /\ q \in Seq(Names) /\ Len(q) = d
      /\ DirPath(r, D) \in Seq(Names) /\ Len(DirPath(r, D)) = D
  BY <1>1, <1>3, <1>4, DirPathType
<1>6. \A j \in 1 .. d : q[j] = DirPath(r, D)[j]
  BY <1>2, <1>3 DEF DirPath
<1>7. p = Append(DirPath(r, D), r.name) /\ r.name \in Names
  BY DEF FilePath, RecordsOf
<1> HIDE DEF p, D
<1>8. /\ p \in Seq(Names) /\ Len(p) = D + 1
      /\ \A j \in 1 .. D : p[j] = DirPath(r, D)[j]
  <2> DEFINE s == DirPath(r, D)
  <2>1. s \in Seq(Names) /\ Len(s) = D /\ p = Append(s, r.name)
    BY <1>5, <1>7
  <2> HIDE DEF s
  <2>2. /\ p \in Seq(Names) /\ Len(p) = Len(s) + 1
        /\ \A j \in 1 .. Len(s) : p[j] = s[j]
    BY <1>7, <2>1, AppendType
  <2> QED
    BY <2>1, <2>2 DEF s
<1>9. \A j \in 1 .. d : q[j] = p[j]
  BY <1>2, <1>6, <1>8
<1>10. d \in 1 .. Len(p) - 1 /\ d \in 0 .. Len(p)
  BY <1>2, <1>8
<1>11. /\ SubSeq(p, 1, d) \in Seq(Names) /\ Len(SubSeq(p, 1, d)) = d
       /\ \A j \in 1 .. d : SubSeq(p, 1, d)[j] = p[j]
  BY <1>8, <1>10, PrefixShape
<1>12. q = SubSeq(p, 1, d)
  BY <1>5, <1>9, <1>11
<1>13. IsStrictPrefix(q, p)
  <2>1. d \in 0 .. Len(p) - 1
    BY <1>10
  <2> QED
    BY <1>5, <1>8, <1>12, <2>1, StrictPrefixIs
<1>14. q # << >>
  BY <1>5, <1>10
<1> QED
  BY <1>5, <1>10, <1>12, <1>13, <1>14 DEF p

\* No entry of index files that agree is refused.
LEMMA NeverRefused ==
    ASSUME ContextInv, MapsComplete, Agreeing, TreeIsBuilt
    PROVE  ~ BuildMissesMetadata /\ ~ BuildCollides
<1> SUFFICES ASSUME Building PROVE Record # NoRecord /\ ~ Collides(Record)
  BY DEF BuildMissesMetadata, BuildCollides
<1> DEFINE m == Entries[file][entry]
<1>1. EntriesLead
  BY AgreeingEntries
<1>2. m \in Coming
  BY DEF Building, Coming, ContextInv, TypeOK
<1>3. m \in AllListed
  BY <1>2, BuiltListed
<1>4. Record = metadata_map[m]
  BY DEF Record
<1> HIDE DEF m
<1>5. /\ Record \in RecordsOf(MaxIndexes) /\ FilePath(Record) = EntryPath(m)
      /\ EntryPath(m) \in FilePaths
  BY <1>1, <1>3, <1>4 DEF EntriesLead, EntryPath
<1>6. Record # NoRecord
  BY <1>5, NoRecordApart
<1>7. ASSUME NEW q \in DirPaths(Record) \cap DOMAIN tree, tree[q].type # Dir
      PROVE  FALSE
  <2>1. q \in FolderPaths
    BY <1>5, <1>7, DirPathsAbove DEF FolderPaths
  <2>2. tree[q].type = File
    BY <1>7 DEF ContextInv, TypeOK, Inodes
  <2>3. tree[q].id \in Built /\ q = EntryPath(tree[q].id)
    BY <2>2 DEF TreeIsBuilt
  <2>4. q \in FilePaths
    BY <1>1, <2>3, BuiltListed DEF EntriesLead
  <2> QED
    BY <2>1, <2>4 DEF Agreeing
<1> QED
  BY <1>6, <1>7 DEF Collides


LEMMA CompleteInit == Init => CompleteInv
<1> SUFFICES ASSUME Init PROVE CompleteInv
  OBVIOUS
<1>1. AllListed = {} /\ Built = {}
  BY DEF Init, AllListed, Built, Registered, Range
<1>2. DOMAIN tree = {Root} /\ tree[Root].type = Dir
  BY DEF Init
<1>3. TreeIsBuilt
  BY <1>1, <1>2 DEF TreeIsBuilt, Dir, File
<1> QED
  BY <1>3, MapsInit DEF CompleteInv

\* An index that is registered leaves the tree to the entries of those before.
LEMMA CompleteRegister ==
    ASSUME ContextInv, CompleteInv, Register, ContextInv', MapsComplete', Agreeing'
    PROVE  TreeIsBuilt'
<1>1. /\ file \in IndexFiles /\ indexes \in Seq(IndexFiles)
      /\ pc = "parse" /\ pc' = "build" /\ entry' = 1 /\ file' = file /\ tree' = tree
      /\ indexes' = Append(indexes, file) /\ file_map' = PutEntries(file, NewIndex)
  BY DEF ContextInv, TypeOK, Register
<1>2. /\ Registered = {indexes[n] : n \in 1 .. Len(indexes)}
      /\ Registered \subseteq Registered'
  BY <1>1 DEF Registered, Range
<1>3. Agreeing /\ \A m \in AllListed : EntryPath(m)' = EntryPath(m)
  BY <1>2, AgreedBefore DEF CompleteInv
<1>4. Built' = Built
  <2>1. /\ Len(indexes) \in Nat /\ Len(indexes') - 1 = Len(indexes)
        /\ \A n \in 1 .. Len(indexes) : indexes'[n] = indexes[n]
    BY <1>1
  <2>2. Built' = UNION {Listed(indexes'[n]) : n \in 1 .. Len(indexes)}
    <3>1. 1 .. 1 - 1 = {}
      OBVIOUS
    <3>2. Built' = (UNION {Listed(indexes'[n]) : n \in 1 .. Len(indexes') - 1})
                     \cup {Entries[file'][j] : j \in 1 .. 1 - 1}
      BY <1>1 DEF Built, Listed
    <3> QED
      BY <2>1, <3>1, <3>2
  <2>3. Built = UNION {Listed(f) : f \in Registered}
    BY <1>1 DEF Built, AllListed
  <2>4. {Listed(indexes'[n]) : n \in 1 .. Len(indexes)} = {Listed(f) : f \in Registered}
    BY <1>2, <2>1
  <2> QED
    BY <2>2, <2>3, <2>4
<1>5. Coming \subseteq Coming'
  BY <1>1 DEF Coming
<1>6. \A m \in AllListed : file_map'[m] = file_map[m] \/ m \in Coming'
  <2> SUFFICES ASSUME NEW m \in AllListed PROVE file_map'[m] = file_map[m] \/ m \in Coming'
    OBVIOUS
  <2>1. m \in Ids
    BY <1>3, AgreeingEntries DEF CompleteInv, EntriesLead
  <2>2. Entries[file] \in Seq(Ids)
    BY <1>1, ContextAssumption
  <2>3. CASE m \in ToSet(Entries[file])
    <3>1. PICK j \in 1 .. Len(Entries[file]) : m = Entries[file][j]
      BY <2>2, <2>3 DEF ToSet
    <3>2. Coming' = {Entries[file][i] : i \in 1 .. Len(Entries[file])}
      BY <1>1 DEF Coming
    <3> QED
      BY <3>1, <3>2
  <2>4. CASE m \notin ToSet(Entries[file])
    BY <1>1, <2>1, <2>4 DEF PutEntries
  <2> QED
    BY <2>3, <2>4
<1> QED
  BY <1>1, <1>3, <1>4, <1>5, <1>6, TreeKept DEF CompleteInv

\* The directories of index files that agree are those above their entries.
LEMMA FoldersLead ==
    ASSUME EntriesLead
    PROVE  FolderPaths = {q \in Seq(Names) : /\ q # << >>
                                             /\ \E m \in AllListed : IsStrictPrefix(q, EntryPath(m))}
<1>1. ASSUME NEW q \in FolderPaths
      PROVE  /\ q \in Seq(Names) /\ q # << >>
             /\ \E m \in AllListed : IsStrictPrefix(q, EntryPath(m))
  <2>1. PICK p \in FilePaths : \E n \in 1 .. Len(p) - 1 : q = SubSeq(p, 1, n)
    BY <1>1 DEF FolderPaths
  <2>2. PICK m \in AllListed : p = EntryPath(m)
    BY DEF EntriesLead
  <2>3. p \in Seq(Names)
    BY <2>2 DEF EntriesLead
  <2>4. PICK n \in 1 .. Len(p) - 1 : q = SubSeq(p, 1, n)
    BY <2>1
  <2>5. n \in 0 .. Len(p) /\ n \in 0 .. Len(p) - 1 /\ n > 0
    BY <2>3
  <2>6. q \in Seq(Names) /\ Len(q) = n
    BY <2>3, <2>4, <2>5, PrefixShape
  <2>7. IsStrictPrefix(q, p)
    BY <2>3, <2>4, <2>5, <2>6, StrictPrefixIs
  <2> QED
    BY <2>2, <2>5, <2>6, <2>7
<1>2. ASSUME NEW q \in Seq(Names), q # << >>, NEW m \in AllListed,
             IsStrictPrefix(q, EntryPath(m))
      PROVE  q \in FolderPaths
  <2> DEFINE p == EntryPath(m)
  <2>1. p \in Seq(Names) /\ p \in FilePaths
    BY DEF EntriesLead
  <2> HIDE DEF p
  <2>2. PICK n \in 0 .. Len(p) - 1 : q = SubSeq(p, 1, n)
    BY <1>2, <2>1, StrictPrefixIs DEF p
  <2>3. n # 0
    BY <1>2, <2>1, <2>2
  <2>4. n \in 1 .. Len(p) - 1
    BY <2>1, <2>3
  <2> QED
    BY <2>1, <2>2, <2>4 DEF FolderPaths
<1> QED
  BY <1>1, <1>2

\* Nothing of the tree is below a file's path, nor is a directory there.
LEMMA NothingBelow ==
    ASSUME ContextInv, EntriesLead, Agreeing, TreeIsBuilt, NEW p \in FilePaths
    PROVE  Below(p) = {}
<1>1. p \in Seq(Names) /\ p # << >>
  BY DEF EntriesLead
<1>2. ASSUME NEW m \in AllListed, IsStrictPrefix(p, EntryPath(m))
      PROVE  FALSE
  <2>1. p \in FolderPaths
    BY <1>1, <1>2, FoldersLead
  <2> QED
    BY <2>1 DEF Agreeing
<1>3. ASSUME NEW q \in DOMAIN tree, IsStrictPrefix(p, q)
      PROVE  FALSE
  <2>1. q \in Seq(Names) /\ tree[q].type \in {Dir, File}
    BY DEF ContextInv, TypeOK, Inodes
  <2>2. CASE tree[q].type = File
    <3>1. tree[q].id \in AllListed /\ q = EntryPath(tree[q].id)
      BY <2>2, BuiltListed DEF TreeIsBuilt
    <3> QED
      BY <1>2, <1>3, <3>1
  <2>3. CASE tree[q].type = Dir
    <3>1. q # Root
      BY <1>1, <1>3 DEF IsStrictPrefix, IsPrefix, Root
    <3>2. PICK m \in AllListed : IsStrictPrefix(q, EntryPath(m))
      BY <2>3, <3>1, BuiltListed DEF TreeIsBuilt
    <3>3. EntryPath(m) \in Seq(Names)
      BY DEF EntriesLead
    <3>4. IsStrictPrefix(p, EntryPath(m))
      BY <1>1, <1>3, <2>1, <3>2, <3>3 DEF IsStrictPrefix, IsPrefix
    <3> QED
      BY <1>2, <3>4
  <2> QED
    BY <2>1, <2>2, <2>3
<1> QED
  BY <1>3 DEF Below

\* A file put in the tree adds its entry to those the tree is built of.
LEMMA CompleteBuildFile ==
    ASSUME ContextInv, CompleteInv, BuildFile, ContextInv', MapsComplete', Agreeing'
    PROVE  TreeIsBuilt'
<1> DEFINE m == Entries[file][entry]
           p == EntryPath(m)
           T == DirPaths(Record)
           kept == DOMAIN tree \ {p}
<1>1. /\ pc = "build" /\ entry' = entry + 1 /\ entry \in 1 .. Len(Entries[file])
      /\ Len(Entries[file]) \in Nat
      /\ UNCHANGED <<metadata_map, file_map, indexes, pc, file>>
  <2>1. Entries[file] \in Seq(Ids)
    BY ContextAssumption DEF ContextInv, TypeOK, BuildFile, Building
  <2> QED
    BY <2>1 DEF ContextInv, TypeOK, BuildFile, Building
<1>2. Registered' = Registered /\ AllListed' = AllListed
  BY <1>1 DEF Registered, AllListed, Listed
<1>3. /\ Agreeing /\ MapsComplete /\ TreeIsBuilt /\ EntriesLead
      /\ \A k \in AllListed : EntryPath(k)' = EntryPath(k)
  BY <1>2, AgreedBefore, AgreeingEntries DEF CompleteInv
<1>4. m \in Coming /\ m \in Listed(file)
  BY <1>1 DEF Coming, Listed, Range
<1>5. m \in AllListed
  BY <1>4, BuiltListed
<1>6. /\ Record \in RecordsOf(MaxIndexes) /\ Record.id = m /\ FilePath(Record) = p
      /\ p \in FilePaths /\ p \in Seq(Names) /\ p # << >>
  BY <1>3, <1>5 DEF EntriesLead, EntryPath, Record
<1>7. Built \subseteq AllListed /\ Built' = Built \cup {m} /\ Coming \subseteq Coming' \cup {m}
  <2> DEFINE E(j) == Entries[file][j]
             U == UNION {Listed(indexes[n]) : n \in 1 .. Len(indexes) - 1}
  <2>1. Built = U \cup {E(j) : j \in 1 .. entry - 1} /\ Built' = U \cup {E(j) : j \in 1 .. entry}
    <3>1. (entry + 1) - 1 = entry
      BY <1>1
    <3>2. Built' = U \cup {E(j) : j \in 1 .. (entry + 1) - 1}
      BY <1>1 DEF Built, Listed
    <3> QED
      BY <1>1, <3>1, <3>2 DEF Built
  <2>2. /\ Coming = {E(j) : j \in entry .. Len(Entries[file])}
        /\ Coming' = {E(j) : j \in entry + 1 .. Len(Entries[file])}
    BY <1>1 DEF Coming
  <2>3. m = E(entry)
    OBVIOUS
  <2> HIDE DEF E, U, m
  <2>4. 1 .. entry = (1 .. entry - 1) \cup {entry}
    BY <1>1
  <2>5. entry .. Len(Entries[file]) = {entry} \cup (entry + 1 .. Len(Entries[file]))
    BY <1>1
  <2> QED
    BY <2>1, <2>2, <2>3, <2>4, <2>5, BuiltListed
<1>8. /\ T \subseteq Seq(Names)
      /\ \A q \in T : q # << >> /\ IsStrictPrefix(q, p) /\ q # p
  <2> SUFFICES ASSUME NEW q \in T
               PROVE  q \in Seq(Names) /\ q # << >> /\ IsStrictPrefix(q, p) /\ q # p
    OBVIOUS
  <2>1. q \in Seq(Names) /\ q # << >> /\ IsStrictPrefix(q, p)
    BY <1>6, DirPathsAbove
  <2>2. q # p
    BY <1>6, <2>1 DEF IsStrictPrefix
  <2> QED
    BY <2>1, <2>2
<1>9. tree' = [q \in kept \cup T \cup {p} |->
         IF q = p THEN [type |-> File, id |-> m, index |-> Len(indexes)]
         ELSE IF q \in kept THEN tree[q]
         ELSE [type |-> Dir, id |-> DirRecord(Record, Len(q)).id, index |-> Len(indexes)]]
  <2>1. Below(p) = {}
    BY <1>3, <1>6, NothingBelow
  <2>2. DOMAIN tree \ ({p} \cup Below(p)) = kept
    BY <2>1
  <2> HIDE DEF kept, p, m
  <2> QED
    BY <1>6, <2>2 DEF BuildFile
<1>10. file_map[m] = Len(indexes)
  BY <1>1, <1>3, <1>4 DEF MapsComplete
<1> HIDE DEF m, p, T, kept
<1>11. \A q \in DOMAIN tree' : tree'[q].type = File =>
         /\ tree'[q].id \in Built' /\ q = EntryPath(tree'[q].id)
         /\ tree'[q].index = file_map[tree'[q].id] \/ tree'[q].id \in Coming'
  <2> SUFFICES ASSUME NEW q \in DOMAIN tree', tree'[q].type = File
               PROVE  /\ tree'[q].id \in Built' /\ q = EntryPath(tree'[q].id)
                      /\ tree'[q].index = file_map[tree'[q].id] \/ tree'[q].id \in Coming'
    OBVIOUS
  <2>1. CASE q = p
    BY <1>7, <1>9, <1>10, <2>1 DEF p
  <2>2. CASE q # p
    <3>1. q \in kept /\ tree'[q] = tree[q]
      <4>1. q \in kept \cup T \cup {p}
        BY <1>9
      <4> QED
        BY <1>9, <2>2, <4>1 DEF Dir, File
    <3>2. /\ tree[q].id \in Built /\ q = EntryPath(tree[q].id)
          /\ tree[q].index = file_map[tree[q].id] \/ tree[q].id \in Coming
      BY <1>3, <3>1 DEF TreeIsBuilt, kept
    <3>3. tree[q].id # m
      BY <2>2, <3>2 DEF p
    <3> QED
      BY <1>7, <3>1, <3>2, <3>3
  <2> QED
    BY <2>1, <2>2
<1>12. \A k \in Built' : EntryPath(k) \in DOMAIN tree' /\ tree'[EntryPath(k)].type = File
  <2> SUFFICES ASSUME NEW k \in Built'
               PROVE  EntryPath(k) \in DOMAIN tree' /\ tree'[EntryPath(k)].type = File
    OBVIOUS
  <2>1. CASE EntryPath(k) = p
    BY <1>9, <2>1
  <2>2. CASE EntryPath(k) # p
    <3>1. k \in Built
      BY <1>7, <2>2 DEF p
    <3>2. EntryPath(k) \in kept /\ tree[EntryPath(k)].type = File
      BY <1>3, <2>2, <3>1 DEF TreeIsBuilt, kept
    <3> QED
      BY <1>9, <2>2, <3>2
  <2> QED
    BY <2>1, <2>2
<1>13. \A q \in DOMAIN tree' \ {Root} : tree'[q].type = Dir =>
         \E k \in Built' : IsStrictPrefix(q, EntryPath(k))
  <2> SUFFICES ASSUME NEW q \in DOMAIN tree' \ {Root}, tree'[q].type = Dir
               PROVE  \E k \in Built' : IsStrictPrefix(q, EntryPath(k))
    OBVIOUS
  <2>1. q # p
    BY <1>9 DEF Dir, File
  <2>2. CASE q \in kept
    <3>1. q \in DOMAIN tree \ {Root} /\ tree[q].type = Dir
      BY <1>9, <2>1, <2>2 DEF kept
    <3> QED
      BY <1>3, <1>7, <3>1 DEF TreeIsBuilt
  <2>3. CASE q \in T
    <3>1. m \in Built' /\ IsStrictPrefix(q, EntryPath(m))
      BY <1>7, <1>8, <2>3 DEF p
    <3> QED
      BY <3>1
  <2> QED
    BY <1>9, <2>1, <2>2, <2>3
<1>14. Built' \subseteq AllListed
  BY <1>5, <1>7
\* The paths are the same in the new state.
<1>15. \A q \in DOMAIN tree' : tree'[q].type = File => q = EntryPath(tree[q].id)'
  <2> SUFFICES ASSUME NEW q \in DOMAIN tree', tree'[q].type = File
               PROVE  q = EntryPath(tree[q].id)'
    OBVIOUS
  <2> DEFINE i == tree[q].id
  <2>1. i' \in AllListed /\ q = EntryPath(i')
    BY <1>11, <1>14
  <2>2. PICK k \in AllListed : k = i'
    BY <2>1
  <2>3. EntryPath(i)' = EntryPath(k)'
    BY <2>2
  <2>4. EntryPath(k)' = EntryPath(k)
    BY <1>3
  <2>5. q = EntryPath(k)
    BY <2>1, <2>2
  <2> QED
    BY <2>3, <2>4, <2>5
<1> QED
  <2>1. \A k \in Built' : EntryPath(k)' = EntryPath(k)
    BY <1>3, <1>14
  <2>2. \A k \in Built' : /\ EntryPath(k)' \in DOMAIN tree'
                          /\ tree'[EntryPath(k)'].type = File
    BY <1>12, <2>1
  <2>3. \A q \in DOMAIN tree' \ {Root} : tree'[q].type = Dir =>
          \E k \in Built' : IsStrictPrefix(q, EntryPath(k)')
    BY <1>13, <2>1
  <2> QED
    BY <1>1, <1>11, <1>15, <2>2, <2>3 DEF TreeIsBuilt, Dir, File, Root

LEMMA CompleteBuildDone ==
    ASSUME ContextInv, CompleteInv, BuildDone, ContextInv', MapsComplete', Agreeing'
    PROVE  TreeIsBuilt'
<1>1. /\ pc = "build" /\ pc' # "build" /\ entry = Len(Entries[file]) + 1
      /\ Len(Entries[file]) \in Nat /\ file \in IndexFiles
      /\ file = Last(indexes) /\ indexes # << >> /\ indexes \in Seq(IndexFiles)
      /\ UNCHANGED <<metadata_map, file_map, indexes, tree>>
  <2>1. file \in IndexFiles
    BY DEF ContextInv, TypeOK, BuildDone
  <2>2. Entries[file] \in Seq(Ids)
    BY <2>1, ContextAssumption
  <2> QED
    BY <2>1, <2>2 DEF ContextInv, TypeOK, BuildDone, FileParsed, context
<1>2. Registered \subseteq Registered' /\ AllListed' = AllListed
  BY <1>1 DEF Registered, AllListed, Listed
<1>3. Agreeing /\ TreeIsBuilt /\ \A k \in AllListed : EntryPath(k)' = EntryPath(k)
  BY <1>2, AgreedBefore DEF CompleteInv
<1>4. Coming = {}
  <2>1. entry .. Len(Entries[file]) = {}
    BY <1>1
  <2> QED
    BY <1>1, <2>1 DEF Coming
<1>5. Built' = Built
  <2> DEFINE E(j) == Entries[file][j]
             n == Len(indexes)
  <2>1. Listed(file) = {E(j) : j \in 1 .. entry - 1}
    <3>1. entry - 1 = Len(Entries[file]) /\ DOMAIN Entries[file] = 1 .. Len(Entries[file])
      BY <1>1, ContextAssumption
    <3> QED
      BY <3>1 DEF Listed, Range
  <2>2. /\ Registered = {indexes[i] : i \in 1 .. n} /\ n \in Nat
        /\ indexes[n] = file /\ 1 .. n = (1 .. n - 1) \cup {n}
    BY <1>1, BuiltListed DEF Last
  <2>3. AllListed = (UNION {Listed(indexes[i]) : i \in 1 .. n - 1}) \cup Listed(file)
    <3>1. Registered = {indexes[i] : i \in 1 .. n - 1} \cup {file}
      BY <2>2
    <3>2. \A x : x \in AllListed <=> \/ \E i \in 1 .. n - 1 : x \in Listed(indexes[i])
                                     \/ x \in Listed(file)
      BY <3>1 DEF AllListed
    <3> HIDE DEF n
    <3> QED
      BY <3>2
  <2>4. Built = AllListed
    BY <1>1, <2>1, <2>3 DEF Built
  <2> QED
    BY <1>1, <1>2, <2>4 DEF Built
<1> QED
  BY <1>1, <1>3, <1>4, <1>5, TreeKept

\* The steps outside of the building of a tree leave it, and what it is of.
LEMMA CompleteFrame ==
    ASSUME ContextInv, CompleteInv, ContextInv', MapsComplete', Agreeing',
           UNCHANGED context,
           (pc # "build" /\ pc' # "build") \/ UNCHANGED <<pc, file, entry>>
    PROVE  TreeIsBuilt'
<1>1. UNCHANGED <<metadata_map, file_map, indexes, tree>>
  BY DEF context
<1>2. Registered \subseteq Registered' /\ AllListed' = AllListed
  BY <1>1 DEF Registered, AllListed, Listed
<1>3. Agreeing /\ TreeIsBuilt /\ \A k \in AllListed : EntryPath(k)' = EntryPath(k)
  BY <1>2, AgreedBefore DEF CompleteInv
<1>4. Built' = Built /\ Coming' = Coming
  BY <1>1, <1>2 DEF Built, Coming, Listed
<1> QED
  BY <1>1, <1>3, <1>4, TreeKept

LEMMA CompleteNext ==
    ContextInv /\ CompleteInv /\ ContextInv' /\ Next => CompleteInv'
<1> SUFFICES ASSUME ContextInv, CompleteInv, ContextInv', Next PROVE CompleteInv'
  OBVIOUS
<1>1. MapsComplete'
  BY MapsNext DEF CompleteInv
<1> SUFFICES ASSUME Agreeing' PROVE TreeIsBuilt'
  BY <1>1 DEF CompleteInv
<1>2. CASE BuildMissesMetadata \/ BuildCollides
  <2>1. Registered \subseteq Registered'
    BY <1>2 DEF BuildMissesMetadata, BuildCollides, context, Registered
  <2>2. Agreeing
    BY <1>1, <2>1, AgreedBefore DEF CompleteInv
  <2> QED
    BY <1>2, <2>2, NeverRefused DEF CompleteInv
<1> QED
  BY <1>1, <1>2, OtherSteps, CompleteRegister, CompleteBuildFile, CompleteBuildDone, CompleteFrame

LEMMA CompleteInductive == ArchiveSpec => [](ContextInv /\ TreeInv /\ CompleteInv)
<1>1. ArchiveInit => CompleteInv
  BY CompleteInit DEF ArchiveInit
<1>2. ContextInv /\ CompleteInv /\ ContextInv' /\ [ArchiveNext]_<<vars, qvars>> => CompleteInv'
  <2> SUFFICES ASSUME ContextInv, CompleteInv, ContextInv', UNCHANGED vars PROVE CompleteInv'
    BY CompleteNext
    DEF ArchiveNext, Parse, Stat, ReadDir, Search, SearchBadPattern, PrintFlat, Answered
  <2>1. UNCHANGED context /\ UNCHANGED <<pc, file, entry>>
    BY DEF vars
  <2>2. MapsComplete'
    BY <2>1 DEF CompleteInv, MapsComplete, context, Registered, Records, Listed
  <2> QED
    BY <2>1, <2>2, CompleteFrame DEF CompleteInv
<1>3. ArchiveInv => TreeInv
  BY DEF ArchiveInv
<1> QED
  BY <1>1, <1>2, <1>3, ContextInductive, ArchiveInductive, PTL DEF ArchiveSpec

-----------------------------------------------------------------------------

\* Every prefix of a path of the tree is in it.
LEMMA PrefixReached ==
    ASSUME ContextInv, TreeInv, NEW p \in DOMAIN tree, NEW n \in 0 .. Len(p)
    PROVE  SubSeq(p, 1, n) \in DOMAIN tree /\ (n < Len(p) => tree[SubSeq(p, 1, n)].type = Dir)
<1>1. \A q \in DOMAIN tree : q # NoInode /\ (IsFolder(tree, q) <=> tree[q].type = Dir)
  BY ArchiveAssumption DEF ContextInv, TypeOK, IsFolder, Dir
<1>2. IsTree(tree, Names)
  BY <1>1 DEF IsTree, TreeInv, TreeShape, Root, ContextInv, TypeOK
<1>3. /\ SubSeq(p, 1, n) \in DOMAIN tree
      /\ n < Len(p) => IsFolder(tree, SubSeq(p, 1, n))
  BY <1>2, PrefixInTree
<1> QED
  BY <1>1, <1>3

LEMMA TreeStated == ContextInv /\ TreeInv /\ CompleteInv => TreeComplete
<1> SUFFICES ASSUME ContextInv, TreeInv, CompleteInv, pc = "idle", Agreeing
             PROVE  /\ {p \in DOMAIN tree : tree[p].type = File} = FilePaths
                    /\ {p \in DOMAIN tree : tree[p].type = Dir} = FolderPaths \cup {Root}
  BY DEF TreeComplete
<1>1. EntriesLead /\ TreeIsBuilt /\ Built = AllListed
  BY AgreeingEntries DEF CompleteInv, Built
<1>2. {p \in DOMAIN tree : tree[p].type = File} = FilePaths
  BY <1>1 DEF TreeIsBuilt, EntriesLead
<1>3. ASSUME NEW p \in DOMAIN tree, tree[p].type = Dir
      PROVE  p \in FolderPaths \cup {Root}
  <2> SUFFICES ASSUME p # Root PROVE p \in FolderPaths
    OBVIOUS
  <2>1. PICK m \in AllListed : IsStrictPrefix(p, EntryPath(m))
    BY <1>1, <1>3 DEF TreeIsBuilt
  <2>2. p \in Seq(Names) /\ p # << >>
    BY DEF ContextInv, TypeOK, Root
  <2> QED
    BY <1>1, <2>1, <2>2, FoldersLead
<1>4. ASSUME NEW q \in FolderPaths
      PROVE  q \in DOMAIN tree /\ tree[q].type = Dir
  <2>1. PICK p \in FilePaths : \E n \in 1 .. Len(p) - 1 : q = SubSeq(p, 1, n)
    BY DEF FolderPaths
  <2>2. PICK n \in 1 .. Len(p) - 1 : q = SubSeq(p, 1, n)
    BY <2>1
  <2>3. p \in DOMAIN tree /\ p \in Seq(Names)
    BY <1>1, <1>2 DEF EntriesLead
  <2>4. n \in 0 .. Len(p) /\ n < Len(p)
    BY <2>3
  <2> QED
    BY <2>2, <2>3, <2>4, PrefixReached
<1>5. Root \in DOMAIN tree /\ tree[Root].type = Dir
  BY DEF TreeInv, TreeShape
<1> QED
  BY <1>2, <1>3, <1>4, <1>5

\* Whatever index files agree, and in whatever order and however often they
\* were parsed: between two calls the tree holds the file of each of their
\* entries, the directories above them and nothing else
\* (build_inode_tree, inode.c:10-66).
THEOREM TreeAlwaysComplete == ArchiveSpec => []TreeComplete
BY TreeStated, CompleteInductive, PTL

\* Whatever index files agree: the index of a file's inode and that of its
\* data entry are one, so that the offset is that of the package it is looked
\* for in (extract_file_inode, inflate.c:119-142).
THEOREM PackagesAlwaysAgree == ArchiveSpec => []PkgConsistent
<1>1. CompleteInv => PkgConsistent
  BY DEF CompleteInv, TreeIsBuilt, PkgConsistent, Coming
<1> QED
  BY <1>1, CompleteInductive, PTL
=============================================================================
