--------------------------- MODULE ExtractionProofs ---------------------------
(***************************************************************************)
(* Whatever the archive, the packages, the file system and its failures,   *)
(* and however many calls are made: what an extraction writes, where, and  *)
(* what it has done when it returns.                                       *)
(***************************************************************************)
EXTENDS Extraction, LookupProofs

-----------------------------------------------------------------------------
(* Sequences joined to one                                                 *)

\* f[k] is the first k sequences of x joined.
Flattens(x, f) == f = [i \in 1 .. Len(x) |-> IF i = 1 THEN x[i] ELSE f[i-1] \o x[i]]

LEMMA FlattenDef ==
    ASSUME NEW S, NEW x \in Seq(Seq(S)), x # << >>
    PROVE  \E f : Flattens(x, f) /\ FlattenSeq(x) = f[Len(x)]
<1> DEFINE N == Len(x)
           V == Seq(S)
           H == [c \in (1 .. N - 1) \X V |-> c[2] \o x[c[1] + 1]]
<1>1. N \in Nat \ {0} /\ \A k \in 1 .. N : x[k] \in V
  OBVIOUS
<1>2. H \in [(1 .. N - 1) \X V -> V]
  <2>1. ASSUME NEW k \in 1 .. N - 1, NEW v \in V PROVE v \o x[k + 1] \in V
    <3>1. x[k + 1] \in Seq(S)
      BY <1>1
    <3> QED
      BY <3>1
  <2> QED
    BY <2>1
<1>3. PICK g : Recursion(N - 1, V, x[1], H, g)
  <2> DEFINE M == N - 1
             b == x[1]
  <2>1. b \in V /\ M \in Nat /\ H \in [(1 .. M) \X V -> V]
    BY <1>1, <1>2
  <2> HIDE DEF H, V, N, M, b
  <2>2. \E g : Recursion(M, V, b, H, g)
    BY <2>1, RecursionExists
  <2> QED
    BY <2>2 DEF M, b
<1> DEFINE f == [i \in 1 .. N |-> g[i-1]]
<1>4. \A k \in 1 .. N - 1 : g[k] = g[k-1] \o x[k + 1]
  <2> SUFFICES ASSUME NEW k \in 1 .. N - 1 PROVE g[k] = g[k-1] \o x[k + 1]
    OBVIOUS
  <2>1. g[k-1] \in V
    <3>1. k - 1 \in 0 .. N - 1
      BY <1>1
    <3> HIDE DEF V, N, H
    <3> QED
      BY <1>3, <3>1 DEF Recursion
  <2>2. <<k, g[k-1]>> \in (1 .. N - 1) \X V
    BY <2>1
  <2> HIDE DEF V
  <2>3. g[k] = H[<<k, g[k-1]>>]
    BY <1>3 DEF Recursion
  <2> QED
    BY <2>2, <2>3
<1>5. g[0] = x[1]
  BY <1>3 DEF Recursion
<1> HIDE DEF N
<1>6. \A i \in 1 .. N : f[i] = IF i = 1 THEN x[i] ELSE f[i-1] \o x[i]
  <2> SUFFICES ASSUME NEW i \in 1 .. N PROVE f[i] = IF i = 1 THEN x[i] ELSE f[i-1] \o x[i]
    OBVIOUS
  <2>1. CASE i = 1
    BY <1>5, <2>1
  <2>2. CASE i # 1
    <3>1. i - 1 \in 1 .. N - 1 /\ i - 1 \in 1 .. N /\ (i - 1) + 1 = i
      BY <1>1, <2>2
    <3>2. g[i - 1] = g[(i - 1) - 1] \o x[i]
      BY <1>4, <3>1
    <3>3. f[i] = g[i - 1] /\ f[i - 1] = g[(i - 1) - 1]
      BY <3>1
    <3> QED
      BY <2>2, <3>2, <3>3
  <2> QED
    BY <2>1, <2>2
<1>7. f = [i \in 1 .. N |-> f[i]]
  OBVIOUS
<1> HIDE DEF f
<1>8. Flattens(x, f)
  BY <1>6, <1>7 DEF Flattens, N
<1> DEFINE h == CHOOSE e : Flattens(x, e)
<1>9. Flattens(x, h)
  BY <1>8
<1>10. FlattenSeq(x) = h[Len(x)]
  BY <1>1 DEF FlattenSeq, Flattens, N
<1> HIDE DEF h
<1> QED
  BY <1>9, <1>10

LEMMA FlattenShape ==
    ASSUME NEW S, NEW x \in Seq(Seq(S) \ {<< >>}), x # << >>
    PROVE  FlattenSeq(x) \in Seq(S) /\ FlattenSeq(x) # << >>
<1> DEFINE N == Len(x)
<1>1. /\ N \in Nat \ {0} /\ x \in Seq(Seq(S))
      /\ \A k \in 1 .. N : x[k] \in Seq(S) /\ x[k] # << >>
  OBVIOUS
<1>2. PICK f : Flattens(x, f) /\ FlattenSeq(x) = f[N]
  BY <1>1, FlattenDef
<1> HIDE DEF N
<1>3. \A i \in 1 .. N : f[i] = IF i = 1 THEN x[i] ELSE f[i-1] \o x[i]
  BY <1>2 DEF Flattens, N
<1> DEFINE Good(i) == f[i + 1] \in Seq(S) /\ f[i + 1] # << >>
           G == {i \in 0 .. N - 1 : Good(i)}
<1>4. 0 \in G
  BY <1>1, <1>3
<1>5. \A i \in 0 .. (N - 1) - 1 : i \in G => i + 1 \in G
  <2> SUFFICES ASSUME NEW i \in 0 .. (N - 1) - 1, Good(i) PROVE i + 1 \in G
    OBVIOUS
  <2>1. i + 2 \in 1 .. N /\ i + 2 # 1 /\ (i + 2) - 1 = i + 1 /\ (i + 1) + 1 = i + 2
        /\ i + 1 \in 0 .. N - 1
    BY <1>1
  <2>2. f[i + 2] = f[i + 1] \o x[i + 2]
    BY <1>3, <2>1
  <2> DEFINE u == f[i + 1]
             v == x[i + 2]
  <2>3. u \in Seq(S) /\ u # << >> /\ v \in Seq(S)
    BY <1>1, <2>1
  <2> HIDE DEF u, v
  <2>4. u \o v \in Seq(S) /\ Len(u \o v) = Len(u) + Len(v) /\ Len(u) > 0 /\ Len(v) >= 0
    BY <2>3
  <2>5. u \o v # << >>
    BY <2>4
  <2> QED
    BY <2>1, <2>2, <2>4, <2>5 DEF u, v
<1>6. G = 0 .. N - 1
  <2> HIDE DEF G
  <2>1. G \in SUBSET (0 .. N - 1) /\ N - 1 \in Nat
    BY <1>1 DEF G
  <2> QED
    BY <1>4, <1>5, <2>1, BoundedInduction
<1>7. N - 1 \in G /\ (N - 1) + 1 = N
  <2> HIDE DEF G
  <2> QED
    BY <1>1, <1>6
<1>8. Good(N - 1)
  BY <1>7
<1> QED
  BY <1>2, <1>7, <1>8

\* Sequences of one.
LEMMA FlattenOnes ==
    ASSUME NEW S, NEW p \in Seq(S), p # << >>
    PROVE  FlattenSeq([k \in DOMAIN p |-> <<p[k]>>]) = p
<1> DEFINE x == [k \in DOMAIN p |-> <<p[k]>>]
           N == Len(p)
<1>1. N \in Nat \ {0} /\ DOMAIN p = 1 .. N
  OBVIOUS
<1>2. x \in Seq(Seq(S)) /\ Len(x) = N /\ x # << >> /\ \A k \in 1 .. N : x[k] = <<p[k]>>
  <2>1. \A k \in 1 .. N : <<p[k]>> \in Seq(S)
    OBVIOUS
  <2>2. x \in [1 .. N -> Seq(S)]
    BY <1>1, <2>1
  <2>3. \A k \in 1 .. N : x[k] = <<p[k]>>
    BY <1>1
  <2> HIDE DEF x, N
  <2>4. x \in Seq(Seq(S)) /\ Len(x) = N
    BY <1>1, <2>2
  <2> QED
    BY <1>1, <2>3, <2>4
<1> HIDE DEF x
<1>3. PICK f : Flattens(x, f) /\ FlattenSeq(x) = f[N]
  BY <1>2, FlattenDef
<1>4. \A i \in 1 .. N : f[i] = IF i = 1 THEN <<p[1]>> ELSE f[i-1] \o <<p[i]>>
  BY <1>2, <1>3 DEF Flattens
<1> HIDE DEF N
<1> DEFINE G == {i \in 0 .. N - 1 : f[i + 1] = SubSeq(p, 1, i + 1)}
<1>5. 0 \in G
  <2>1. SubSeq(p, 1, 1) = <<p[1]>>
    <3> DEFINE q == SubSeq(p, 1, 1)
    <3>1. 1 \in 0 .. Len(p) /\ 1 \in 1 .. 1
      BY <1>1 DEF N
    <3>2. q \in Seq(S) /\ Len(q) = 1 /\ q[1] = p[1]
      BY <3>1, PrefixShape
    <3> HIDE DEF q
    <3>3. q = <<p[1]>>
      BY <3>2
    <3> QED
      BY <3>3 DEF q
  <2>2. f[1] = <<p[1]>> /\ 0 \in 0 .. N - 1
    BY <1>1, <1>4
  <2>3. f[0 + 1] = SubSeq(p, 1, 0 + 1)
    BY <2>1, <2>2
  <2> QED
    BY <2>2, <2>3
<1>6. \A i \in 0 .. (N - 1) - 1 : i \in G => i + 1 \in G
  <2> SUFFICES ASSUME NEW i \in 0 .. (N - 1) - 1, f[i + 1] = SubSeq(p, 1, i + 1) PROVE i + 1 \in G
    OBVIOUS
  <2>1. i + 2 \in 1 .. N /\ i + 2 # 1 /\ (i + 2) - 1 = i + 1 /\ (i + 1) + 1 = i + 2
        /\ i + 1 \in 0 .. N - 1
    BY <1>1
  <2>2. f[i + 2] = SubSeq(p, 1, i + 1) \o <<p[i + 2]>>
    BY <1>4, <2>1
  <2>3. SubSeq(p, 1, i + 1) \o <<p[i + 2]>> = SubSeq(p, 1, i + 2)
    BY <2>1 DEF N
  <2> QED
    BY <2>1, <2>2, <2>3
<1>7. G = 0 .. N - 1
  <2> HIDE DEF G
  <2>1. G \in SUBSET (0 .. N - 1) /\ N - 1 \in Nat
    BY <1>1 DEF G
  <2> QED
    BY <1>5, <1>6, <2>1, BoundedInduction
<1>8. f[N] = SubSeq(p, 1, N)
  <2>1. N - 1 \in G /\ (N - 1) + 1 = N
    <3> HIDE DEF G
    <3> QED
      BY <1>1, <1>7
  <2>2. f[(N - 1) + 1] = SubSeq(p, 1, (N - 1) + 1)
    BY <2>1
  <2> QED
    BY <2>1, <2>2
<1>9. SubSeq(p, 1, N) = p
  BY DEF N
<1> QED
  BY <1>3, <1>8, <1>9 DEF x

-----------------------------------------------------------------------------
(* The archive and the file system                                         *)

LEMMA FilesShape ==
    ASSUME NEW p \in Files
    PROVE  p \in DOMAIN Tree \ {<< >>} /\ p \in Seq(Names) /\ ~ IsFolder(Tree, p)
BY ExtractionAssumption DEF Files, IsTree, IsFolder

\* Where a file goes; by ordinary names, to its own path.
LEMMA OutPathShape ==
    ASSUME NEW p \in Files
    PROVE  /\ OutPath[p] \in Seq(Names) /\ OutPath[p] # << >>
           /\ OutPath[p] \in Sinks
           /\ RootIdOnce(Tree) /\ Plain(p) => OutPath[p] = OutDir \o p
<1> DEFINE x == NamesIn(PathString(Tree, p))
           y == [k \in DOMAIN x |-> Split[x[k]]]
<1>1. /\ x \in Seq(Names) /\ x # << >>
      /\ RootIdOnce(Tree) => x = p
  BY FilesShape, ExtractionAssumption, PathStringNames
<1>2. OutPath[p] = OutDir \o FlattenSeq(y)
  BY DEF OutPath
<1> HIDE DEF x
<1>3. y \in Seq(Seq(Names) \ {<< >>}) /\ y # << >>
  <2> DEFINE V == Seq(Names) \ {<< >>}
  <2>1. /\ Len(x) \in Nat /\ DOMAIN x = 1 .. Len(x) /\ Len(x) # 0
        /\ \A k \in 1 .. Len(x) : x[k] \in Names
    BY <1>1
  <2>2. \A k \in 1 .. Len(x) : Split[x[k]] \in V
    BY <2>1, ExtractionAssumption
  <2> HIDE DEF V
  <2>3. y \in [1 .. Len(x) -> V]
    BY <2>1, <2>2
  <2> HIDE DEF y
  <2>4. y \in Seq(V) /\ Len(y) = Len(x)
    BY <2>1, <2>3
  <2>5. y # << >>
    BY <2>1, <2>4
  <2> QED
    BY <2>4, <2>5 DEF V
<1> HIDE DEF y
<1>4. FlattenSeq(y) \in Seq(Names) /\ FlattenSeq(y) # << >>
  BY <1>3, FlattenShape
<1>5. OutPath[p] \in Seq(Names) /\ OutPath[p] # << >>
  <2> DEFINE z == FlattenSeq(y)
  <2>1. OutDir \in Seq(Names) /\ z \in Seq(Names) /\ z # << >>
    BY <1>4, FileSystemAssumption
  <2> HIDE DEF z
  <2>2. OutDir \o z \in Seq(Names) /\ Len(OutDir \o z) = Len(OutDir) + Len(z)
        /\ Len(z) > 0 /\ Len(OutDir) >= 0
    BY <2>1
  <2>3. OutDir \o z # << >>
    BY <2>2
  <2> QED
    BY <1>2, <2>2, <2>3 DEF z
<1>6. OutPath[p] \in Sinks
  BY DEF Sinks
<1>7. ASSUME RootIdOnce(Tree), Plain(p) PROVE OutPath[p] = OutDir \o p
  <2>1. y = [k \in DOMAIN p |-> <<p[k]>>]
    BY <1>1, <1>7 DEF y, Plain, Ordinary
  <2>2. p \in Seq(Names) /\ p # << >>
    BY FilesShape
  <2>3. FlattenSeq(y) = p
    BY <2>1, <2>2, FlattenOnes
  <2> QED
    BY <1>2, <2>3
<1> QED
  BY <1>5, <1>6, <1>7

\* What an output path, and each directory on its way, leads to the file
\* system has a place for.
LEMMA SinksShape ==
    ASSUME NEW x \in Sinks
    PROVE  /\ x \in Seq(Names) /\ x # << >> /\ Len(x) \in Nat /\ Len(x) \in 1 .. Len(x)
           /\ \A n \in 1 .. Len(x) : Place(SubSeq(x, 1, n)) \in OutPaths
           /\ SubSeq(x, 1, Len(x)) = x
           /\ Place(x) \in OutPaths
           /\ x \in OutFiles => Place(x) = x
<1>1. x \in Seq(Names) /\ x # << >>
  <2>1. CASE x \in OutFiles
    BY <2>1, FileSystemAssumption
  <2>2. CASE x \notin OutFiles
    <3>1. PICK p \in Files : x = OutPath[p]
      BY <2>2 DEF Sinks
    <3> QED
      BY <3>1, OutPathShape
  <2> QED
    BY <2>1, <2>2
<1>2. Len(x) \in Nat /\ Len(x) \in 1 .. Len(x) /\ SubSeq(x, 1, Len(x)) = x
  BY <1>1
<1>3. \A n \in 1 .. Len(x) : Place(SubSeq(x, 1, n)) \in OutPaths
  BY DEF OutPaths
<1>4. Place(x) \in OutPaths
  BY <1>2, <1>3
<1> QED
  BY <1>1, <1>2, <1>3, <1>4, FileSystemAssumption

\* A file belongs where its output path leads.
LEMMA HomeIs ==
    ASSUME RootIdOnce(Tree), NEW p \in Files
    PROVE  Home(p) = Place(OutPath[p])
<1>1. CASE Plain(p)
  <2> DEFINE x == OutDir \o p
  <2>1. OutPath[p] = x /\ x \in Sinks
    BY <1>1, OutPathShape
  <2>2. \A n \in 1 .. Len(x) : Place(SubSeq(x, 1, n)) = SubSeq(x, 1, n)
    BY <1>1, FileSystemAssumption
  <2> HIDE DEF x
  <2>3. Place(x) = x
    BY <2>1, <2>2, SinksShape
  <2> QED
    BY <1>1, <2>1, <2>3 DEF Home, x
<1>2. CASE ~ Plain(p)
  BY <1>2 DEF Home
<1> QED
  BY <1>1, <1>2

LEMMA AskedType ==
    ASSUME NEW s \in Strings
    PROVE  /\ GetInode(Tree, s).inode \in DOMAIN Tree \cup {NoInode}
           /\ GetInode(Tree, s).ret = "ok" => GetInode(Tree, s).inode \in DOMAIN Tree
<1>1. s \in Seq(Names \cup {Sep})
  <2>1. Strings \subseteq Seq({n \in Names : Split[n] = <<n>>} \cup {Sep})
    BY ExtractionAssumption
  <2>2. Seq({n \in Names : Split[n] = <<n>>} \cup {Sep}) \subseteq Seq(Names \cup {Sep})
    OBVIOUS
  <2> QED
    BY <2>1, <2>2
<1>2. << >> \in DOMAIN Tree /\ NoInode \notin DOMAIN Tree
  BY ExtractionAssumption DEF IsTree
<1> QED
  BY <1>1, <1>2, GetInodeType

\* What the file system may hold: a directory has no data.
OutputOK(out) ==
    /\ DOMAIN out = OutPaths
    /\ \A o \in OutPaths : /\ out[o].kind \in {"none", "dir", "file"}
                           /\ out[o].blocks \in Nat
                           /\ out[o].kind = "dir" => out[o] = Directory

LEMMA OutputPut ==
    ASSUME NEW out, OutputOK(out), NEW o, NEW v,
           v = Directory \/ \E p : \E n \in Nat : v = Data(p, n)
    PROVE  OutputOK([out EXCEPT ![o] = v])
<1>1. /\ v.kind \in {"none", "dir", "file"} /\ v.blocks \in Nat
      /\ v.kind = "dir" => v = Directory
  BY DEF Data, Directory
<1> QED
  BY <1>1 DEF OutputOK

LEMMA OldOutputOK ==
    ASSUME NEW out \in OldOutputs
    PROVE  OutputOK(out)
BY FileSystemAssumption DEF OutputOK, Absent, Directory

LEMMA ReadableType ==
    ASSUME NEW p \in Files
    PROVE  Readable(p) \in Nat /\ Blocks[p] \in Nat /\ Readable(p) <= Blocks[p]
<1>1. Blocks[p] \in Nat
  BY ExtractionAssumption
<1> QED
  BY <1>1 DEF Readable

-----------------------------------------------------------------------------
(* The course of a call                                                    *)

\* The output file is open.
Writing == {"extract", "copy", "inflate"}

\* What is true at each point of a call, of either kind.
CallInv ==
    /\ TypeOK
    /\ OutputOK(output)
    /\ todo \in Seq(SUBSET (DOMAIN Tree \ {<< >>}))
    /\ pc # "idle" => call.name \in {"file", "dir"}
    /\ pc \in {"scan", "parents"} => call.name = "dir"
    /\ pc \in {"parents", "extract"} => written = 0
    /\ pc \in Writing \cup {"parents"} => sink \in Sinks /\ inode \in DOMAIN Tree
    /\ pc \in Writing => output[Place(sink)].kind = "file"
    /\ pc \in {"copy", "inflate"} => /\ inode \in Files /\ (inode \in Stored <=> pc = "copy")
                                    /\ written <= Blocks[inode]
    /\ StoredIsCopied

\* The children still to scan and the file at hand are below the directory
\* asked for, and the output file is the file's own.
ScopeInv ==
    pc # "idle" =>
      /\ call.name = "file" => sink = call.out /\ call.out \in OutFiles
      /\ call.name = "dir" =>
           /\ Asked \in DOMAIN Tree
           /\ \A n \in DOMAIN todo : \A q \in todo[n] : IsStrictPrefix(Asked, q)
           /\ pc # "scan" => inode \in FilesBelow(Asked) /\ sink = OutPath[inode]

\* File p is the one at hand, or the scan will come to it.
Waiting(p) ==
    /\ pc # "idle"
    /\ \/ \E n \in DOMAIN todo : \E q \in todo[n] : q = p \/ IsStrictPrefix(q, p)
       \/ pc # "scan" /\ inode = p

\* As long as nothing has failed, each file is waiting or is complete, unless
\* another one belongs at its place.
DirInv ==
    call.name = "dir" /\ ~ trouble =>
      /\ pc = "idle" => ret = "ok"
      /\ \A p \in FilesBelow(Asked) :
           Alone(p) => Waiting(p) \/ output[Place(OutPath[p])] = Data(p, Blocks[p])

LEMMA CallInit == Init => CallInv
<1> SUFFICES ASSUME Init PROVE CallInv
  OBVIOUS
<1>1. OutputOK(output)
  BY OldOutputOK DEF Init
<1>2. \A o \in DOMAIN output : output[o].kind \in {"none", "dir", "file"} /\ output[o].blocks \in Nat
  BY <1>1 DEF OutputOK
<1>3. file_map \subseteq Files
  BY ExtractionAssumption DEF Init
<1>4. todo \in Seq(SUBSET (DOMAIN Tree \ {<< >>})) /\ \A n \in DOMAIN todo : todo[n] \subseteq DOMAIN Tree
  BY DEF Init
<1>5. 0 \in 0 .. Len(sink)
  BY DEF Init
<1>6. TypeOK
  BY <1>2, <1>3, <1>4, <1>5 DEF Init, TypeOK
<1>7. StoredIsCopied
  BY DEF Init, StoredIsCopied, Returned
<1> QED
  BY <1>1, <1>4, <1>6, <1>7 DEF Init, CallInv, Writing

LEMMA CallBegins ==
    ASSUME CallInv, NEW s \in Strings,
           \/ ExtractDir(s) \/ ExtractDirFails(s)
           \/ \E o \in OutFiles : ExtractFile(s, o) \/ ExtractFileUnopened(s, o)
    PROVE  CallInv'
<1> DEFINE found == GetInode(Tree, s)
<1>1. /\ found.inode \in DOMAIN Tree \cup {NoInode}
      /\ found.ret = "ok" => found.inode \in DOMAIN Tree
  BY AskedType
<1>2. CASE ExtractDirFails(s)
  <2>1. TypeOK'
    BY <1>2 DEF CallInv, TypeOK, ExtractDirFails, Begin, Return, archive
  <2>2. StoredIsCopied'
    BY <1>2 DEF ExtractDirFails, Begin, Return, StoredIsCopied, Returned
  <2> QED
    BY <1>2, <2>1, <2>2 DEF CallInv, ExtractDirFails, Begin, Return, Writing
<1>3. ASSUME NEW o \in OutFiles, ExtractFileUnopened(s, o) PROVE CallInv'
  <2>1. TypeOK'
    BY <1>3 DEF CallInv, TypeOK, ExtractFileUnopened, Begin, Return, archive
  <2>2. StoredIsCopied'
    BY <1>3 DEF ExtractFileUnopened, Begin, Return, StoredIsCopied, Returned
  <2> QED
    BY <1>3, <2>1, <2>2 DEF CallInv, ExtractFileUnopened, Begin, Return, Writing
<1>4. CASE ExtractDir(s)
  <2> DEFINE C == Children(found.inode)
  <2>1. C \in SUBSET (DOMAIN Tree \ {<< >>})
    BY DEF Children
  <2>2. todo' = <<C>>
    BY <1>4 DEF ExtractDir
  <2> HIDE DEF C
  <2>3. /\ todo' \in Seq(SUBSET (DOMAIN Tree \ {<< >>}))
        /\ \A n \in DOMAIN todo' : todo'[n] \subseteq DOMAIN Tree
    BY <2>1, <2>2
  <2>4. TypeOK'
    BY <1>4, <2>3 DEF CallInv, TypeOK, ExtractDir, Begin, archive
  <2>5. StoredIsCopied'
    BY <1>4 DEF ExtractDir, Begin, StoredIsCopied, Returned
  <2> QED
    BY <1>4, <2>3, <2>4, <2>5 DEF CallInv, ExtractDir, Begin, Writing
<1>5. ASSUME NEW o \in OutFiles, ExtractFile(s, o) PROVE CallInv'
  <2>1. o \in OutPaths /\ o \in Sinks /\ Place(o) = o /\ Len(o) \in Nat
    <3>1. o \in Sinks
      BY DEF Sinks
    <3> QED
      BY <3>1, SinksShape
  <2>2. /\ output' = [output EXCEPT ![o] = Data(<< >>, 0)]
        /\ sink' = o /\ inode' = found.inode /\ made' = 0 /\ written' = 0
        /\ call' = [name |-> "file", path |-> s, out |-> o]
        /\ trouble' = (found.ret # "ok")
        /\ \/ found.ret = "ok" /\ pc' = "extract"
           \/ found.ret # "ok" /\ pc' = "idle" /\ ret' = found.ret
        /\ UNCHANGED <<archive, todo>>
    BY <1>5 DEF ExtractFile, Begin, Return, Truncated
  <2>3. OutputOK(output')
    BY <2>2, OutputPut DEF CallInv
  <2>4. output'[o].kind = "file"
    BY <2>1, <2>2 DEF CallInv, OutputOK, Data
  <2>5. TypeOK'
    <3>1. \A x \in DOMAIN output' : /\ output'[x].kind \in {"none", "dir", "file"}
                                    /\ output'[x].blocks \in Nat
      BY <2>3 DEF OutputOK
    <3>2. o \in DOMAIN output' /\ 0 \in 0 .. Len(o)
      BY <2>1, <2>3 DEF OutputOK
    <3> HIDE DEF found
    <3> QED
      BY <1>1, <2>1, <2>2, <3>1, <3>2 DEF CallInv, TypeOK, archive
  <2>6. StoredIsCopied'
    BY <2>2 DEF StoredIsCopied, Returned
  <2> HIDE DEF found
  <2> QED
    BY <1>1, <2>1, <2>2, <2>3, <2>4, <2>5, <2>6 DEF CallInv, Writing
<1> QED
  BY <1>2, <1>3, <1>4, <1>5

\* A file is left with nothing written, and the call ends or the scan goes on.
LEMMA CallFileFails ==
    ASSUME CallInv, NEW e, e # "ok", FileFails(e), pc \in {"parents", "extract"}
    PROVE  CallInv'
<1>1. /\ trouble' = TRUE
      /\ \/ call.name = "file" /\ pc' = "idle" /\ ret' = e
         \/ call.name # "file" /\ pc' = "scan" /\ ret' = ret
      /\ UNCHANGED <<archive, output, call, todo, inode, sink, made, written, calls>>
  BY DEF FileFails, Return, scanning
<1>2. TypeOK'
  BY <1>1 DEF CallInv, TypeOK, archive
<1>3. StoredIsCopied'
  BY <1>1 DEF StoredIsCopied, Returned
<1> QED
  BY <1>1, <1>2, <1>3 DEF CallInv, Writing

\* The output file is closed: of a stored file all blocks were given to it, if
\* the file is reported as extracted.
LEMMA CallFileDone ==
    ASSUME CallInv, NEW e, FileDone(e), pc \in {"copy", "inflate"},
           pc = "copy" /\ e = "ok" => written = Blocks[inode]
    PROVE  CallInv'
<1>1. PICK n \in 0 .. written :
        /\ output' = [output EXCEPT ![Place(sink)] = Data(inode, n)]
        /\ trouble' = (trouble \/ e # "ok" \/ written < Blocks[inode] \/ n < written)
  BY DEF FileDone
<1>2. /\ \/ call.name = "file" /\ pc' = "idle" /\ ret' = e
         \/ call.name # "file" /\ pc' = "scan" /\ ret' = ret
      /\ UNCHANGED <<archive, call, todo, inode, sink, made, written, calls>>
  BY DEF FileDone, Return, scanning
<1>3. OutputOK(output')
  <2>1. n \in Nat
    BY DEF CallInv, TypeOK
  <2> QED
    BY <1>1, <2>1, OutputPut DEF CallInv
<1>4. TypeOK'
  <2>1. \A x \in DOMAIN output' : /\ output'[x].kind \in {"none", "dir", "file"}
                                  /\ output'[x].blocks \in Nat
    BY <1>3 DEF OutputOK
  <2>2. DOMAIN output' = DOMAIN output
    BY <1>1
  <2>3. trouble' \in BOOLEAN
    BY <1>1 DEF CallInv, TypeOK
  <2> QED
    BY <1>2, <2>1, <2>2, <2>3 DEF CallInv, TypeOK, archive
<1>5. StoredIsCopied'
  BY <1>2 DEF CallInv, StoredIsCopied, Returned
<1> QED
  BY <1>2, <1>3, <1>4, <1>5 DEF CallInv, Writing

LEMMA RestShape ==
    ASSUME CallInv, NEW p, Scanning(p)
    PROVE  /\ p \in DOMAIN Tree \ {<< >>}
           /\ Rest(p) \in Seq(SUBSET (DOMAIN Tree \ {<< >>}))
           /\ Len(Rest(p)) = Len(todo)
           /\ \A n \in 1 .. Len(todo) : Rest(p)[n] = IF n = Len(todo) THEN todo[n] \ {p} ELSE todo[n]
<1> DEFINE V == SUBSET (DOMAIN Tree \ {<< >>})
           x == Last(todo) \ {p}
<1>1. todo \in Seq(V) /\ todo # << >> /\ p \in Last(todo) /\ Len(todo) \in 1 .. Len(todo)
  BY DEF CallInv, Scanning
<1>2. Last(todo) = todo[Len(todo)] /\ Last(todo) \in V
  BY <1>1 DEF Last
<1>3. p \in DOMAIN Tree \ {<< >>} /\ x \in V
  BY <1>1, <1>2
<1> HIDE DEF V
<1>4. /\ Front(todo) \in Seq(V) /\ Len(Front(todo)) = Len(todo) - 1
      /\ \A j \in 1 .. Len(todo) - 1 : Front(todo)[j] = todo[j]
  BY <1>1, FrontShape
<1> HIDE DEF x
<1> DEFINE r == Append(Front(todo), x)
<1>5. /\ r \in Seq(V) /\ Len(r) = Len(todo) - 1 + 1 /\ r[Len(todo) - 1 + 1] = x
      /\ \A j \in 1 .. Len(todo) - 1 : r[j] = Front(todo)[j]
  BY <1>3, <1>4, AppendType
<1> HIDE DEF r
<1>6. Len(r) = Len(todo) /\ r[Len(todo)] = x /\ \A j \in 1 .. Len(todo) - 1 : r[j] = todo[j]
  BY <1>1, <1>4, <1>5
<1>7. \A n \in 1 .. Len(todo) : n = Len(todo) \/ n \in 1 .. Len(todo) - 1
  BY <1>1
<1>8. \A n \in 1 .. Len(todo) : r[n] = IF n = Len(todo) THEN todo[n] \ {p} ELSE todo[n]
  BY <1>1, <1>2, <1>6, <1>7 DEF x
<1>9. Rest(p) = r
  BY DEF Rest, r, x
<1> QED
  BY <1>3, <1>5, <1>6, <1>8, <1>9 DEF V

\* What ScanDir leaves to scan.
LEMMA DeeperShape ==
    ASSUME CallInv, NEW p, Scanning(p), NEW deeper, deeper = Append(Rest(p), Children(p))
    PROVE  /\ deeper \in Seq(SUBSET (DOMAIN Tree \ {<< >>}))
           /\ Len(deeper) = Len(todo) + 1
           /\ deeper[Len(todo) + 1] = Children(p)
           /\ \A n \in 1 .. Len(todo) : deeper[n] = Rest(p)[n]
<1> DEFINE V == SUBSET (DOMAIN Tree \ {<< >>})
<1>1. Children(p) \in V
  BY DEF Children
<1>2. Rest(p) \in Seq(V) /\ Len(Rest(p)) = Len(todo)
  BY RestShape
<1> HIDE DEF V
<1>3. /\ deeper \in Seq(V) /\ Len(deeper) = Len(todo) + 1
      /\ deeper[Len(todo) + 1] = Children(p)
      /\ \A n \in 1 .. Len(todo) : deeper[n] = Rest(p)[n]
  BY <1>1, <1>2, AppendType
<1> QED
  BY <1>3 DEF V

LEMMA UpShape ==
    ASSUME CallInv, todo # << >>
    PROVE  /\ Front(todo) \in Seq(SUBSET (DOMAIN Tree \ {<< >>}))
           /\ Len(Front(todo)) = Len(todo) - 1 /\ Len(todo) \in Nat
           /\ \A n \in 1 .. Len(todo) - 1 : Front(todo)[n] = todo[n]
<1> DEFINE V == SUBSET (DOMAIN Tree \ {<< >>})
<1>1. todo \in Seq(V)
  BY DEF CallInv
<1> HIDE DEF V
<1>2. /\ Front(todo) \in Seq(V) /\ Len(Front(todo)) = Len(todo) - 1
      /\ \A n \in 1 .. Len(todo) - 1 : Front(todo)[n] = todo[n]
  BY <1>1, FrontShape
<1> QED
  BY <1>1, <1>2 DEF V

LEMMA CallScans ==
    ASSUME CallInv, ScanUp \/ \E p \in DOMAIN Tree : ScanFile(p) \/ ScanDir(p)
    PROVE  CallInv'
<1> DEFINE V == SUBSET (DOMAIN Tree \ {<< >>})
<1>1. \A x \in Seq(V) : \A n \in DOMAIN x : x[n] \subseteq DOMAIN Tree
  OBVIOUS
<1>2. CASE ScanUp
  <2>1. todo' \in Seq(V)
    BY <1>2, UpShape DEF ScanUp
  <2>2. TypeOK'
    BY <1>1, <1>2, <2>1 DEF CallInv, TypeOK, ScanUp, Return, archive
  <2>3. StoredIsCopied'
    BY <1>2 DEF CallInv, StoredIsCopied, Returned, ScanUp, Return
  <2> QED
    BY <1>2, <2>1, <2>2, <2>3 DEF CallInv, ScanUp, Return, Writing
<1>3. ASSUME NEW p \in DOMAIN Tree, ScanDir(p) PROVE CallInv'
  <2>1. todo' \in Seq(V)
    BY <1>3, DeeperShape DEF ScanDir
  <2>2. TypeOK'
    BY <1>1, <1>3, <2>1 DEF CallInv, TypeOK, ScanDir, archive
  <2>3. StoredIsCopied'
    BY <1>3 DEF StoredIsCopied, Returned, ScanDir, Scanning
  <2> QED
    BY <1>3, <2>1, <2>2, <2>3 DEF CallInv, ScanDir, Writing
<1>4. ASSUME NEW p \in DOMAIN Tree, ScanFile(p) PROVE CallInv'
  <2>1. todo' \in Seq(V)
    BY <1>4, RestShape DEF ScanFile
  <2>2. /\ p \in Files
        /\ OutPath[p] \in Sinks
        /\ 0 \in 0 .. Len(OutPath[p])
    BY <1>4, OutPathShape, SinksShape DEF ScanFile
  <2>3. /\ inode' = p /\ sink' = OutPath[p] /\ made' = 0 /\ written' = 0 /\ pc' = "parents"
        /\ UNCHANGED <<archive, output, call, ret, trouble, calls>>
        /\ pc = "scan"
    BY <1>4 DEF ScanFile, Scanning
  <2>4. TypeOK'
    BY <1>1, <2>1, <2>2, <2>3 DEF CallInv, TypeOK, archive
  <2>5. StoredIsCopied'
    BY <2>3 DEF StoredIsCopied, Returned
  <2> QED
    BY <2>1, <2>2, <2>3, <2>4, <2>5 DEF CallInv, Writing
<1> QED
  BY <1>2, <1>3, <1>4

LEMMA CallOpens ==
    ASSUME CallInv, PassParent \/ OpenOutput
    PROVE  CallInv'
<1>1. sink \in Sinks /\ pc = "parents" /\ call.name = "dir"
  BY DEF CallInv, PassParent, AtParent, OpenOutput
<1>2. Len(sink) \in Nat /\ Place(sink) \in OutPaths
  BY <1>1, SinksShape
<1>3. CASE PassParent
  <2>1. /\ output' = [output EXCEPT ![Parent] = Directory]
        /\ made' = made + 1 /\ made < Len(sink) - 1
        /\ UNCHANGED <<archive, call, todo, inode, sink, written, pc, ret, trouble, calls>>
    BY <1>3 DEF PassParent, AtParent, scanning
  <2>2. OutputOK(output')
    BY <2>1, OutputPut DEF CallInv
  <2>3. \A x \in DOMAIN output' : /\ output'[x].kind \in {"none", "dir", "file"}
                                  /\ output'[x].blocks \in Nat
    BY <2>2 DEF OutputOK
  <2>4. made' \in 0 .. Len(sink)
    BY <1>2, <2>1 DEF CallInv, TypeOK
  <2>5. DOMAIN output' = DOMAIN output
    BY <2>1
  <2>6. TypeOK'
    BY <2>1, <2>3, <2>4, <2>5 DEF CallInv, TypeOK, archive
  <2>7. StoredIsCopied'
    BY <1>1, <2>1 DEF StoredIsCopied, Returned
  <2> QED
    BY <1>1, <2>1, <2>2, <2>6, <2>7 DEF CallInv, Writing
<1>4. CASE OpenOutput
  <2>1. /\ output' = [output EXCEPT ![Place(sink)] = Data(<< >>, 0)]
        /\ pc' = "extract"
        /\ UNCHANGED <<archive, call, todo, inode, sink, made, written, ret, trouble, calls>>
    BY <1>4 DEF OpenOutput, Truncated, scanning
  <2>2. OutputOK(output')
    BY <2>1, OutputPut DEF CallInv
  <2>3. \A x \in DOMAIN output' : /\ output'[x].kind \in {"none", "dir", "file"}
                                  /\ output'[x].blocks \in Nat
    BY <2>2 DEF OutputOK
  <2>4. DOMAIN output' = DOMAIN output
    BY <2>1
  <2>5. output'[Place(sink)].kind = "file"
    BY <1>2, <2>1 DEF CallInv, OutputOK, Data
  <2>6. TypeOK'
    BY <2>1, <2>3, <2>4 DEF CallInv, TypeOK, archive
  <2>7. StoredIsCopied'
    BY <2>1 DEF StoredIsCopied, Returned
  <2> QED
    BY <1>1, <2>1, <2>2, <2>5, <2>6, <2>7 DEF CallInv, Writing
<1> QED
  BY <1>3, <1>4

LEMMA CallCopies ==
    ASSUME CallInv, StartCopy \/ WriteBlock
    PROVE  CallInv'
<1>1. CASE StartCopy
  <2>1. inode \in Files /\ written = 0 /\ pc = "extract"
    BY <1>1 DEF CallInv, StartCopy, Refused
  <2>2. Blocks[inode] \in Nat
    BY <2>1, ReadableType
  <2>3. /\ pc' = IF inode \in Stored THEN "copy" ELSE "inflate"
        /\ UNCHANGED <<archive, output, call, todo, inode, sink, made, written, ret, trouble, calls>>
    BY <1>1 DEF StartCopy, scanning
  <2>4. TypeOK'
    BY <2>1, <2>2, <2>3 DEF CallInv, TypeOK, archive
  <2>5. StoredIsCopied'
    BY <2>3 DEF StoredIsCopied, Returned
  <2> QED
    BY <2>1, <2>2, <2>3, <2>4, <2>5 DEF CallInv, Writing
<1>2. CASE WriteBlock
  <2>1. inode \in Files /\ pc \in {"copy", "inflate"}
    BY <1>2 DEF CallInv, WriteBlock
  <2>2. /\ written' = written + 1 /\ written < Readable(inode)
        /\ UNCHANGED <<archive, output, call, todo, inode, sink, made, pc, ret, trouble, calls>>
    BY <1>2 DEF WriteBlock, scanning
  <2>3. written' \in Nat /\ written' <= Blocks[inode]
    BY <2>1, <2>2, ReadableType DEF CallInv, TypeOK
  <2>4. TypeOK'
    BY <2>2, <2>3 DEF CallInv, TypeOK, archive
  <2>5. StoredIsCopied'
    BY <2>1, <2>2 DEF StoredIsCopied, Returned
  <2> QED
    BY <2>1, <2>2, <2>3, <2>4, <2>5 DEF CallInv, Writing
<1> QED
  BY <1>1, <1>2

\* The ways a call goes on.
FileLeft ==
    /\ pc \in {"parents", "extract"}
    /\ \E e : e # "ok" /\ FileFails(e)

FileClosed ==
    /\ pc \in {"copy", "inflate"}
    /\ \E e : FileDone(e) /\ (pc = "copy" /\ e = "ok" => written = Blocks[inode])

LEMMA StepCases ==
    ASSUME Step
    PROVE  \/ ScanUp \/ \E p \in DOMAIN Tree : ScanFile(p) \/ ScanDir(p)
           \/ PassParent \/ OpenOutput \/ StartCopy \/ WriteBlock
           \/ FileLeft \/ FileClosed
<1>1. ASSUME ParentFails \/ OutputFails \/ Refuse PROVE FileLeft
  <2>1. ParentFails => FileLeft
    BY DEF ParentFails, AtParent, FileLeft
  <2>2. OutputFails => FileLeft
    BY DEF OutputFails, FileLeft
  <2>3. Refuse => FileLeft
    BY DEF Refuse, FileLeft
  <2> QED
    BY <1>1, <2>1, <2>2, <2>3
<1>2. ASSUME CopyEnds \/ CopyWriteFails \/ InflateEnds PROVE FileClosed
  <2>1. CopyEnds => FileClosed
    BY DEF CopyEnds, FileClosed
  <2>2. CopyWriteFails => FileClosed
    BY DEF CopyWriteFails, FileClosed
  <2>3. InflateEnds => FileClosed
    BY DEF InflateEnds, FileClosed
  <2> QED
    BY <1>2, <2>1, <2>2, <2>3
<1> QED
  BY <1>1, <1>2 DEF Step

LEMMA CallNext == CallInv /\ [Next]_vars => CallInv'
<1> SUFFICES ASSUME CallInv, [Next]_vars PROVE CallInv'
  OBVIOUS
<1>1. CASE Step
  BY <1>1, StepCases, CallScans, CallOpens, CallCopies, CallFileFails, CallFileDone
  DEF FileLeft, FileClosed
<1>2. CASE UNCHANGED vars
  <2>1. TypeOK'
    BY <1>2 DEF CallInv, TypeOK, vars, archive, scanning
  <2>2. StoredIsCopied'
    BY <1>2 DEF CallInv, StoredIsCopied, Returned, vars, scanning
  <2> QED
    BY <1>2, <2>1, <2>2 DEF CallInv, vars, scanning
<1> QED
  BY <1>1, <1>2, CallBegins DEF Next

LEMMA CallInductive == Spec => []CallInv
BY CallInit, CallNext, PTL DEF Spec

\* The file system keeps its places, and the positions of the loops over
\* directories and blocks stay inside of the path and of the data
\* (inflate.c:85-117, 212-243).
THEOREM ExtractionTyped == Spec => []TypeOK
<1>1. CallInv => TypeOK
  BY DEF CallInv
<1> QED
  BY <1>1, CallInductive, PTL

\* A stored file of any number of blocks is reported as extracted only if all
\* of them were read and given to the output (copy_data, inflate.c:85-117).
THEOREM StoredAlwaysCopied == Spec => []StoredIsCopied
<1>1. CallInv => StoredIsCopied
  BY DEF CallInv
<1> QED
  BY <1>1, CallInductive, PTL

-----------------------------------------------------------------------------
(* Where a call writes                                                     *)

LEMMA ChildBelow ==
    ASSUME NEW p, NEW q \in Children(p)
    PROVE  q \in DOMAIN Tree \ {<< >>} /\ IsStrictPrefix(p, q)
<1>1. q \in DOMAIN Tree \ {<< >>} /\ Front(q) = p
  BY DEF Children
<1>2. q \in Seq(Names) /\ q # << >>
  BY <1>1, ExtractionAssumption DEF IsTree
<1>3. p \in Seq(Names)
  BY <1>1, <1>2, FrontShape
<1> QED
  BY <1>1, <1>2, <1>3, PrefixOfFront

LEMMA BelowBelow ==
    ASSUME NEW x \in Seq(Names), NEW y \in Seq(Names), NEW z \in Seq(Names),
           x = y \/ IsStrictPrefix(x, y), IsStrictPrefix(y, z)
    PROVE  IsStrictPrefix(x, z)
<1>1. Len(x) <= Len(y) /\ SubSeq(x, 1, Len(x)) = SubSeq(y, 1, Len(x))
  BY DEF IsStrictPrefix, IsPrefix
<1>2. Len(y) <= Len(z) /\ SubSeq(y, 1, Len(y)) = SubSeq(z, 1, Len(y)) /\ y # z
  BY DEF IsStrictPrefix, IsPrefix
<1>3. Len(x) \in Nat /\ Len(y) \in Nat /\ Len(z) \in Nat
  OBVIOUS
<1>4. \A i \in 1 .. Len(y) : y[i] = z[i]
  <2> SUFFICES ASSUME NEW i \in 1 .. Len(y) PROVE y[i] = z[i]
    OBVIOUS
  <2>1. SubSeq(y, 1, Len(y))[i] = y[i] /\ SubSeq(z, 1, Len(y))[i] = z[i]
    BY <1>2, <1>3
  <2> QED
    BY <1>2, <2>1
<1>5. SubSeq(y, 1, Len(x)) = SubSeq(z, 1, Len(x))
  BY <1>1, <1>2, <1>3, <1>4
<1>6. Len(y) # Len(z)
  <2> SUFFICES ASSUME Len(y) = Len(z) PROVE FALSE
    OBVIOUS
  <2>1. y = z
    BY <1>3, <1>4
  <2> QED
    BY <1>2, <2>1
<1>7. x # z
  BY <1>1, <1>2, <1>3, <1>6
<1> QED
  BY <1>1, <1>2, <1>3, <1>5, <1>7 DEF IsStrictPrefix, IsPrefix

LEMMA TreeNames == DOMAIN Tree \subseteq Seq(Names)
BY ExtractionAssumption DEF IsTree

LEMMA AskedDir ==
    ASSUME NEW s \in Strings, IsFolder(Tree, GetInode(Tree, s).inode)
    PROVE  GetInode(Tree, s).inode \in DOMAIN Tree
<1>1. GetInode(Tree, s).inode # NoInode
  BY DEF IsFolder
<1> QED
  BY <1>1, AskedType

LEMMA ScopeBegins ==
    ASSUME NEW s \in Strings,
           \/ ExtractDir(s) \/ ExtractDirFails(s)
           \/ \E o \in OutFiles : ExtractFile(s, o) \/ ExtractFileUnopened(s, o)
    PROVE  ScopeInv'
<1>1. CASE ExtractDirFails(s) \/ \E o \in OutFiles : ExtractFileUnopened(s, o)
  BY <1>1 DEF ExtractDirFails, ExtractFileUnopened, Return, ScopeInv
<1>2. ASSUME NEW o \in OutFiles, ExtractFile(s, o) PROVE ScopeInv'
  <2>1. call' = [name |-> "file", path |-> s, out |-> o] /\ sink' = o
    BY <1>2 DEF ExtractFile, Begin
  <2> QED
    BY <2>1 DEF ScopeInv
<1>3. CASE ExtractDir(s)
  <2> DEFINE a == GetInode(Tree, s).inode
             C == Children(a)
  <2>1. /\ call' = [name |-> "dir", path |-> s, out |-> OutDir]
        /\ IsFolder(Tree, a) /\ todo' = <<C>> /\ pc' = "scan"
    BY <1>3 DEF ExtractDir, Begin
  <2>2. Asked' = a
    BY <2>1 DEF Asked
  <2>3. a \in DOMAIN Tree
    BY <2>1, AskedDir
  <2>4. \A q \in C : IsStrictPrefix(a, q)
    BY ChildBelow
  <2> HIDE DEF a, C
  <2>5. \A n \in DOMAIN todo' : todo'[n] = C
    BY <2>1
  <2> QED
    BY <2>1, <2>2, <2>3, <2>4, <2>5 DEF ScopeInv
<1> QED
  BY <1>1, <1>2, <1>3

LEMMA ScopeScans ==
    ASSUME CallInv, ScopeInv, ScanUp \/ \E p \in DOMAIN Tree : ScanFile(p) \/ ScanDir(p)
    PROVE  ScopeInv'
<1>1. pc = "scan" /\ call.name = "dir" /\ call' = call /\ todo # << >>
  BY DEF CallInv, ScanUp, ScanFile, ScanDir, Scanning
<1>2. Asked \in DOMAIN Tree /\ Asked' = Asked
  BY <1>1 DEF ScopeInv, Asked
<1> DEFINE Deeper(q) == IsStrictPrefix(Asked, q)
<1>3. Len(todo) \in Nat \ {0} /\ DOMAIN todo = 1 .. Len(todo)
  BY <1>1 DEF CallInv
<1>4. \A n \in 1 .. Len(todo) : \A q \in todo[n] : Deeper(q)
  BY <1>1, <1>3 DEF ScopeInv
<1>5. CASE ScanUp
  <2>1. DOMAIN todo' = 1 .. Len(todo) - 1 /\ \A n \in 1 .. Len(todo) - 1 : todo'[n] = todo[n]
    BY <1>1, <1>5, UpShape DEF ScanUp
  <2>2. \A n \in DOMAIN todo' : \A q \in todo'[n] : Deeper(q)
    BY <1>3, <1>4, <2>1
  <2>3. pc' # "idle" => pc' = "scan"
    BY <1>1, <1>5 DEF ScanUp, Return
  <2> QED
    BY <1>1, <1>2, <2>2, <2>3 DEF ScopeInv
<1>6. ASSUME NEW p \in DOMAIN Tree, ScanFile(p) \/ ScanDir(p)
      PROVE  /\ Deeper(p)
             /\ DOMAIN Rest(p) = 1 .. Len(todo)
             /\ \A n \in 1 .. Len(todo) : \A q \in Rest(p)[n] : Deeper(q)
  <2>1. Scanning(p)
    BY <1>6 DEF ScanFile, ScanDir
  <2>2. /\ DOMAIN Rest(p) = 1 .. Len(todo)
        /\ \A n \in 1 .. Len(todo) : Rest(p)[n] \subseteq todo[n]
    <3>1. /\ Rest(p) \in Seq(SUBSET (DOMAIN Tree \ {<< >>})) /\ Len(Rest(p)) = Len(todo)
          /\ \A n \in 1 .. Len(todo) :
               Rest(p)[n] = IF n = Len(todo) THEN todo[n] \ {p} ELSE todo[n]
      BY <2>1, RestShape
    <3> HIDE DEF Rest
    <3>2. DOMAIN Rest(p) = 1 .. Len(todo)
      BY <3>1
    <3> QED
      BY <3>1, <3>2
  <2>3. p \in todo[Len(todo)]
    BY <2>1 DEF Scanning, Last
  <2> QED
    BY <1>3, <1>4, <2>2, <2>3
<1>7. ASSUME NEW p \in DOMAIN Tree, ScanFile(p) PROVE ScopeInv'
  <2>1. /\ todo' = Rest(p) /\ inode' = p /\ sink' = OutPath[p] /\ p \in Files
    BY <1>7 DEF ScanFile
  <2>2. p \in FilesBelow(Asked)
    BY <1>6, <1>7, <2>1 DEF FilesBelow
  <2>3. \A n \in DOMAIN todo' : \A q \in todo'[n] : Deeper(q)
    BY <1>6, <1>7, <2>1
  <2>4. FilesBelow(Asked)' = FilesBelow(Asked) /\ OutPath[inode]' = OutPath[p]
    BY <1>2, <2>1 DEF FilesBelow
  <2> QED
    BY <1>1, <1>2, <2>1, <2>2, <2>3, <2>4 DEF ScopeInv
<1>8. ASSUME NEW p \in DOMAIN Tree, ScanDir(p) PROVE ScopeInv'
  <2>1. todo' = Append(Rest(p), Children(p)) /\ pc' = "scan" /\ Scanning(p)
    BY <1>1, <1>8 DEF ScanDir
  <2>2. /\ DOMAIN todo' = 1 .. Len(todo) + 1
        /\ todo'[Len(todo) + 1] = Children(p)
        /\ \A n \in 1 .. Len(todo) : todo'[n] = Rest(p)[n]
    BY <1>3, <2>1, DeeperShape
  <2>3. \A q \in Children(p) : Deeper(q)
    BY <1>2, <1>6, <1>8, ChildBelow, BelowBelow, TreeNames
  <2>4. \A n \in DOMAIN todo' : n = Len(todo) + 1 \/ n \in 1 .. Len(todo)
    BY <1>3, <2>2
  <2>5. \A n \in DOMAIN todo' : \A q \in todo'[n] : Deeper(q)
    BY <1>6, <1>8, <2>2, <2>3, <2>4
  <2> QED
    BY <1>1, <1>2, <2>1, <2>5 DEF ScopeInv
<1> QED
  BY <1>5, <1>7, <1>8

\* The other steps leave the call, the scan and the file at hand alone.
LEMMA FileSteps ==
    ASSUME CallInv,
           PassParent \/ OpenOutput \/ StartCopy \/ WriteBlock \/ FileLeft \/ FileClosed
    PROVE  /\ UNCHANGED <<call, todo, inode, sink>> /\ pc \notin {"idle", "scan"}
           /\ call.name = "dir" => pc' # "idle"
<1>1. CASE PassParent \/ OpenOutput \/ StartCopy \/ WriteBlock
  BY <1>1 DEF PassParent, AtParent, OpenOutput, StartCopy, WriteBlock, scanning
<1>2. CASE FileLeft \/ FileClosed
  BY <1>2 DEF FileLeft, FileFails, FileClosed, FileDone, Return, scanning
<1> QED
  BY <1>1, <1>2

LEMMA ScopeNext == CallInv /\ ScopeInv /\ [Next]_vars => ScopeInv'
<1> SUFFICES ASSUME CallInv, ScopeInv, [Next]_vars PROVE ScopeInv'
  OBVIOUS
<1>1. ASSUME PassParent \/ OpenOutput \/ StartCopy \/ WriteBlock \/ FileLeft \/ FileClosed
      PROVE  ScopeInv'
  <2>1. UNCHANGED <<call, todo, inode, sink>> /\ pc \notin {"idle", "scan"}
    BY <1>1, FileSteps
  <2>2. Asked' = Asked
    BY <2>1 DEF Asked
  <2> QED
    BY <2>1, <2>2 DEF ScopeInv, FilesBelow
<1>2. CASE Step
  BY <1>1, <1>2, StepCases, ScopeScans
<1>3. CASE UNCHANGED vars
  <2>1. Asked' = Asked
    BY <1>3 DEF Asked, vars, scanning
  <2> QED
    BY <1>3, <2>1 DEF ScopeInv, FilesBelow, vars, scanning
<1> QED
  BY <1>2, <1>3, ScopeBegins DEF Next

LEMMA ScopeInductive == Spec => [](CallInv /\ ScopeInv)
<1>1. Init => ScopeInv
  BY DEF Init, ScopeInv
<1> QED
  BY <1>1, CallInit, CallNext, ScopeNext, PTL DEF Spec

LEMMA PrefixIsPrefix ==
    ASSUME NEW p \in Seq(Names), NEW n \in 0 .. Len(p)
    PROVE  IsPrefix(SubSeq(p, 1, n), p)
<1> DEFINE q == SubSeq(p, 1, n)
<1>1. q \in Seq(Names) /\ Len(q) = n /\ \A j \in 1 .. n : q[j] = p[j]
  BY PrefixShape
<1>2. SubSeq(q, 1, n) = q
  BY <1>1
<1> QED
  BY <1>1, <1>2 DEF IsPrefix

\* The output file of the file at hand and the directories on the way to it
\* are places the call may write.
LEMMA WritesOwn ==
    ASSUME CallInv, ScopeInv, RootIdOnce(Tree), pc \notin {"idle", "scan"}, call' = call,
           NEW n \in 1 .. Len(sink),
           call.name = "dir" \/ n = Len(sink)
    PROVE  MayWrite(Place(SubSeq(sink, 1, n)))
<1>1. pc \in Writing \cup {"parents"} /\ sink \in Sinks /\ call.name \in {"file", "dir"}
  BY DEF CallInv, TypeOK, Writing
<1>2. sink \in Seq(Names)
  BY <1>1, SinksShape
<1>3. CASE call.name = "file"
  <2>1. SubSeq(sink, 1, n) = sink /\ sink = call.out /\ Place(sink) = sink
    BY <1>1, <1>2, <1>3, SinksShape DEF ScopeInv
  <2> QED
    BY <1>3, <2>1 DEF MayWrite
<1>4. CASE call.name = "dir"
  <2>1. inode \in FilesBelow(Asked) /\ sink = OutPath[inode]
    BY <1>4 DEF ScopeInv
  <2>2. inode \in Files
    BY <2>1 DEF FilesBelow
  <2>3. call'.name # "file" /\ GetInode(Tree, call'.path).inode = Asked
    BY <1>4 DEF Asked
  <2>4. CASE Plain(inode)
    <3> DEFINE o == SubSeq(OutDir \o inode, 1, n)
    <3>1. sink = OutDir \o inode
      BY <2>1, <2>2, <2>4, OutPathShape
    <3>2. n \in 0 .. Len(sink)
      BY <1>2
    <3>3. IsPrefix(o, OutDir \o inode)
      BY <1>2, <3>1, <3>2, PrefixIsPrefix
    <3>4. Place(o) = o
      BY <2>2, <2>4, <3>1, FileSystemAssumption
    <3> HIDE DEF o
    <3>5. MayWrite(o)
      BY <2>1, <2>3, <2>4, <3>3 DEF MayWrite
    <3> QED
      BY <3>1, <3>4, <3>5 DEF o
  <2>5. CASE ~ Plain(inode)
    BY <2>1, <2>3, <2>5 DEF MayWrite
  <2> QED
    BY <2>4, <2>5
<1> QED
  BY <1>1, <1>3, <1>4

LEMMA WritesWhere ==
    ASSUME CallInv, ScopeInv, RootIdOnce(Tree), [Next]_vars,
           NEW o \in DOMAIN output, output'[o] # output[o]
    PROVE  MayWrite(o) /\ output[o].kind # "dir"
<1>1. ASSUME NEW s \in Strings, NEW x \in OutFiles, ExtractFile(s, x)
      PROVE  MayWrite(o) /\ output[o].kind # "dir"
  <2>1. /\ output' = [output EXCEPT ![x] = Data(<< >>, 0)] /\ CanOpen(x)
        /\ call' = [name |-> "file", path |-> s, out |-> x]
    BY <1>1 DEF ExtractFile, Begin, Truncated
  <2>2. o = x
    BY <2>1
  <2> QED
    BY <2>1, <2>2 DEF MayWrite, CanOpen, Directories
<1>2. ASSUME pc \in Writing \cup {"parents"}, call' = call,
             NEW v, output' = [output EXCEPT ![Place(sink)] = v]
      PROVE  MayWrite(o) /\ o = Place(sink)
  <2>1. o = Place(sink)
    BY <1>2
  <2>2. sink \in Sinks
    BY <1>2 DEF CallInv
  <2>3. Len(sink) \in 1 .. Len(sink) /\ SubSeq(sink, 1, Len(sink)) = sink
    BY <2>2, SinksShape
  <2>4. pc \notin {"idle", "scan"}
    BY <1>2 DEF Writing
  <2> QED
    BY <1>2, <2>1, <2>3, <2>4, WritesOwn
<1>3. CASE PassParent
  <2>1. /\ output' = [output EXCEPT ![Parent] = Directory]
        /\ pc = "parents" /\ made < Len(sink) - 1 /\ call' = call
    BY <1>3 DEF PassParent, AtParent, scanning
  <2>2. o = Parent
    BY <2>1
  <2>3. output[o].kind # "dir"
    <3>1. output'[o] = Directory
      BY <2>1, <2>2
    <3>2. output[o].kind = "dir" => output[o] = Directory
      BY DEF CallInv, OutputOK
    <3> QED
      BY <3>1, <3>2
  <2>4. made + 1 \in 1 .. Len(sink)
    <3>1. Len(sink) \in Nat
      BY <2>1, SinksShape DEF CallInv
    <3> QED
      BY <2>1, <3>1 DEF CallInv, TypeOK
  <2>5. call.name = "dir"
    BY <2>1 DEF CallInv
  <2> QED
    BY <2>1, <2>2, <2>3, <2>4, <2>5, WritesOwn DEF Parent
<1>4. CASE OpenOutput
  <2>1. /\ output' = [output EXCEPT ![Place(sink)] = Data(<< >>, 0)]
        /\ pc = "parents" /\ call' = call /\ Place(sink) \notin Directories
    BY <1>4 DEF OpenOutput, Truncated, CanOpen, scanning
  <2>2. MayWrite(o) /\ o = Place(sink)
    BY <1>2, <2>1
  <2> QED
    BY <2>1, <2>2 DEF Directories
<1>5. CASE FileClosed
  <2>1. pc \in Writing /\ call' = call
    BY <1>5 DEF FileClosed, FileDone, Writing, scanning
  <2>2. \E n : output' = [output EXCEPT ![Place(sink)] = Data(inode, n)]
    BY <1>5 DEF FileClosed, FileDone
  <2>3. MayWrite(o) /\ o = Place(sink)
    BY <1>2, <2>1, <2>2
  <2>4. output[Place(sink)].kind = "file"
    BY <2>1 DEF CallInv
  <2> QED
    BY <2>3, <2>4
<1>6. ASSUME ScanUp \/ \E p \in DOMAIN Tree : ScanFile(p) \/ ScanDir(p) PROVE output' = output
  BY <1>6 DEF ScanUp, ScanFile, ScanDir
<1>7. ASSUME StartCopy \/ WriteBlock \/ FileLeft PROVE output' = output
  BY <1>7 DEF StartCopy, WriteBlock, FileLeft, FileFails
<1>8. CASE Step
  BY <1>3, <1>4, <1>5, <1>6, <1>7, <1>8, StepCases
<1>9. ASSUME NEW s \in Strings,
             \/ ExtractDir(s) \/ ExtractDirFails(s)
             \/ \E x \in OutFiles : ExtractFileUnopened(s, x)
      PROVE  output' = output
  BY <1>9 DEF ExtractDir, ExtractDirFails, ExtractFileUnopened
<1>10. CASE UNCHANGED vars
  BY <1>10 DEF vars
<1> QED
  BY <1>1, <1>8, <1>9, <1>10 DEF Next

\* Where no directory but the root has the id of the root, which is where
\* get_path_inode stops, no file system object changes but the output file
\* asked for, or what the output paths of the files below the directory asked
\* for lead to, and the directories on the way to them.  A file of ordinary
\* names has its own path below the output directory; what another one leads
\* to may be anywhere.  A directory stays one, and no step of any call is an
\* exception (inflate.c:212-314, 325-334).
THEOREM OthersAlwaysUntouched ==
    ASSUME RootIdOnce(Tree)
    PROVE  Spec => OthersUntouched
<1> DEFINE Kept == \A o \in DOMAIN output :
                     output'[o] # output[o] => MayWrite(o) /\ output[o].kind # "dir"
<1>1. CallInv /\ ScopeInv /\ [Next]_vars => Kept
  BY WritesWhere
<1>2. [][Kept]_vars <=> OthersUntouched
  BY DEF OthersUntouched
<1> HIDE DEF Kept
<1> QED
  BY <1>1, <1>2, ScopeInductive, PTL DEF Spec

-----------------------------------------------------------------------------
(* What a call has done when it returns                                    *)

LEMMA AloneMeans ==
    ASSUME RootIdOnce(Tree), NEW p \in FilesBelow(Asked), Alone(p), NEW q \in FilesBelow(Asked),
           Place(OutPath[q]) = Place(OutPath[p])
    PROVE  q = p
<1>1. p \in Files /\ q \in Files
  BY DEF FilesBelow
<1>2. Home(q) = Home(p)
  BY <1>1, HomeIs
<1> QED
  BY <1>2 DEF Alone

\* What is below a directory is below one of its children, or is one.
LEMMA BelowAChild ==
    ASSUME NEW a \in DOMAIN Tree, NEW p \in FilesBelow(a)
    PROVE  \E c \in Children(a) : c = p \/ IsStrictPrefix(c, p)
<1>1. p \in DOMAIN Tree /\ IsStrictPrefix(a, p)
  BY DEF FilesBelow, Files
<1>2. PICK c \in DOMAIN Tree \ {<< >>} : Front(c) = a /\ (c = p \/ IsStrictPrefix(c, p))
  BY <1>1, ExtractionAssumption, ChildTowards
<1> QED
  BY <1>2 DEF Children

LEMMA NothingBelowFile ==
    ASSUME NEW x \in Files, NEW p \in Files
    PROVE  ~ IsStrictPrefix(x, p)
<1> SUFFICES ASSUME IsStrictPrefix(x, p) PROVE FALSE
  OBVIOUS
<1>1. IsFolder(Tree, x)
  BY ExtractionAssumption, ChildTowards DEF Files
<1> QED
  BY <1>1, FilesShape

\* What the scan may still find.
OnTheWay(p, q) == q = p \/ IsStrictPrefix(q, p)

LEMMA WaitingDef ==
    ASSUME NEW p
    PROVE  Waiting(p) <=> /\ pc # "idle"
                          /\ \/ \E n \in DOMAIN todo : \E q \in todo[n] : OnTheWay(p, q)
                             \/ pc # "scan" /\ inode = p
BY DEF Waiting, OnTheWay

\* A child the scan comes to leaves no file out.
LEMMA WaitingScans ==
    ASSUME CallInv, ScanUp \/ \E x \in DOMAIN Tree : ScanFile(x) \/ ScanDir(x),
           NEW p \in Files, Waiting(p)
    PROVE  Waiting(p)'
<1>1. pc = "scan" /\ todo # << >>
  BY DEF ScanUp, ScanFile, ScanDir, Scanning
<1>2. Len(todo) \in Nat \ {0} /\ DOMAIN todo = 1 .. Len(todo)
  BY <1>1 DEF CallInv
<1>3. PICK n \in 1 .. Len(todo) : \E q \in todo[n] : OnTheWay(p, q)
  BY <1>1, <1>2, WaitingDef
<1>4. PICK q \in todo[n] : OnTheWay(p, q)
  BY <1>3
<1>5. ASSUME pc' # "idle", NEW m \in DOMAIN todo', NEW r \in todo'[m], OnTheWay(p, r)
      PROVE  Waiting(p)'
  BY <1>5 DEF Waiting, OnTheWay
<1>6. CASE ScanUp
  <2>1. Last(todo) = todo[Len(todo)] /\ Last(todo) = {}
    BY <1>6 DEF ScanUp, Last
  <2>2. n \in 1 .. Len(todo) - 1
    <3>1. n # Len(todo)
      BY <1>4, <2>1
    <3>2. \A m \in Nat : \A k \in 1 .. m : k # m => k \in 1 .. m - 1
      OBVIOUS
    <3>3. Len(todo) \in Nat /\ n \in 1 .. Len(todo)
      BY <1>2, <1>3
    <3> QED
      BY <3>1, <3>2, <3>3
  <2>3. todo' = Front(todo) /\ pc' = pc
    BY <1>2, <1>6, <2>2 DEF ScanUp
  <2>4. n \in DOMAIN todo' /\ todo'[n] = todo[n]
    BY <1>1, <2>2, <2>3, UpShape
  <2> QED
    BY <1>1, <1>4, <1>5, <2>3, <2>4
<1>7. ASSUME NEW x \in DOMAIN Tree, Scanning(x)
      PROVE  /\ DOMAIN Rest(x) = 1 .. Len(todo)
             /\ q = x \/ q \in Rest(x)[n]
  <2>1. /\ Rest(x) \in Seq(SUBSET (DOMAIN Tree \ {<< >>})) /\ Len(Rest(x)) = Len(todo)
        /\ Rest(x)[n] = IF n = Len(todo) THEN todo[n] \ {x} ELSE todo[n]
    BY <1>7, RestShape
  <2> HIDE DEF Rest
  <2> QED
    BY <1>4, <2>1
<1>8. ASSUME NEW x \in DOMAIN Tree, ScanFile(x) PROVE Waiting(p)'
  <2>1. Scanning(x) /\ x \in Files /\ todo' = Rest(x) /\ inode' = x /\ pc' = "parents"
    BY <1>8 DEF ScanFile
  <2>2. CASE q = x
    <3>1. p = x
      BY <1>4, <2>1, <2>2, NothingBelowFile DEF OnTheWay
    <3> QED
      BY <2>1, <3>1 DEF Waiting
  <2>3. CASE q # x
    BY <1>2, <1>4, <1>5, <1>7, <2>1, <2>3
  <2> QED
    BY <2>2, <2>3
<1>9. ASSUME NEW x \in DOMAIN Tree, ScanDir(x) PROVE Waiting(p)'
  <2>1. Scanning(x) /\ x \notin Files /\ todo' = Append(Rest(x), Children(x)) /\ pc' = pc
    BY <1>9 DEF ScanDir
  <2>2. /\ DOMAIN todo' = 1 .. Len(todo) + 1
        /\ todo'[Len(todo) + 1] = Children(x)
        /\ todo'[n] = Rest(x)[n]
    BY <1>2, <2>1, DeeperShape
  <2>3. CASE q = x
    <3>1. p \in FilesBelow(x)
      BY <1>4, <2>1, <2>3 DEF OnTheWay, FilesBelow
    <3>2. PICK c \in Children(x) : OnTheWay(p, c)
      BY <3>1, BelowAChild DEF OnTheWay
    <3>3. Len(todo) + 1 \in DOMAIN todo'
      BY <1>2, <2>2
    <3> QED
      BY <1>1, <1>5, <2>1, <2>2, <3>2, <3>3
  <2>4. CASE q # x
    <3>1. n \in DOMAIN todo' /\ q \in todo'[n]
      BY <1>2, <1>7, <2>1, <2>2, <2>4
    <3> QED
      BY <1>1, <1>4, <1>5, <2>1, <3>1
  <2> QED
    BY <2>3, <2>4
<1> QED
  BY <1>6, <1>8, <1>9

\* While a file is extracted, what waits goes on waiting but that file.
LEMMA WaitingFile ==
    ASSUME UNCHANGED <<todo, inode>>, pc \notin {"idle", "scan"}, pc' # "idle",
           NEW p, Waiting(p)
    PROVE  Waiting(p)' \/ (p = inode /\ pc' = "scan")
BY DEF Waiting

Complete(out, p) == out[Place(OutPath[p])] = Data(p, Blocks[p])

LEMMA CompletePut ==
    ASSUME NEW out, OutputOK(out), NEW x, NEW v, NEW p \in Files,
           Complete(out, p), x # Place(OutPath[p])
    PROVE  Complete([out EXCEPT ![x] = v], p)
<1>1. Place(OutPath[p]) \in DOMAIN out
  BY OutPathShape, SinksShape DEF OutputOK
<1> QED
  BY <1>1 DEF Complete

\* The state of a file below the directory asked for, as long as nothing has
\* failed.
Served(p) == Waiting(p) \/ Complete(output, p)

LEMMA ServedDir ==
    DirInv <=> (call.name = "dir" /\ ~ trouble =>
                  /\ pc = "idle" => ret = "ok"
                  /\ \A p \in FilesBelow(Asked) : Alone(p) => Served(p))
BY DEF DirInv, Served, Complete

LEMMA DirBegins ==
    ASSUME NEW s \in Strings,
           \/ ExtractDir(s) \/ ExtractDirFails(s)
           \/ \E o \in OutFiles : ExtractFile(s, o) \/ ExtractFileUnopened(s, o)
    PROVE  DirInv'
<1>1. CASE ExtractDirFails(s)
  BY <1>1 DEF ExtractDirFails, DirInv
<1>2. ASSUME NEW o \in OutFiles, ExtractFile(s, o) \/ ExtractFileUnopened(s, o)
      PROVE  call'.name = "file"
  BY <1>2 DEF ExtractFile, ExtractFileUnopened, Begin
<1>3. CASE ExtractDir(s)
  <2> DEFINE a == GetInode(Tree, s).inode
             C == Children(a)
  <2>1. /\ call' = [name |-> "dir", path |-> s, out |-> OutDir]
        /\ IsFolder(Tree, a) /\ todo' = <<C>> /\ pc' = "scan"
    BY <1>3 DEF ExtractDir, Begin
  <2>2. Asked' = a
    BY <2>1 DEF Asked
  <2>3. a \in DOMAIN Tree
    BY <2>1, AskedDir
  <2>4. \A p \in FilesBelow(a) : \E q \in C : q = p \/ IsStrictPrefix(q, p)
    BY <2>3, BelowAChild
  <2> HIDE DEF a, C
  <2>5. 1 \in DOMAIN todo' /\ todo'[1] = C
    BY <2>1
  <2>6. \A p \in FilesBelow(a) : Waiting(p)'
    BY <2>1, <2>4, <2>5 DEF Waiting
  <2>7. FilesBelow(Asked)' = FilesBelow(a)
    BY <2>2 DEF FilesBelow
  <2> QED
    BY <2>1, <2>6, <2>7 DEF DirInv
<1> QED
  BY <1>1, <1>2, <1>3 DEF DirInv

\* The scan ends where nothing is left to wait for.
LEMMA DirScans ==
    ASSUME CallInv, ScanUp \/ \E x \in DOMAIN Tree : ScanFile(x) \/ ScanDir(x),
           NEW p \in Files, Served(p)
    PROVE  Served(p)'
<1>1. output' = output
  BY DEF ScanUp, ScanFile, ScanDir
<1> QED
  BY <1>1, WaitingScans DEF Served, Complete

\* A file is complete when its output is closed and nothing has failed; what
\* another file has got is not touched again.
LEMMA DirFiles ==
    ASSUME CallInv, ScopeInv, RootIdOnce(Tree), call.name = "dir", ~ trouble',
           PassParent \/ OpenOutput \/ StartCopy \/ WriteBlock \/ FileLeft \/ FileClosed,
           NEW p \in FilesBelow(Asked), Alone(p), Served(p)
    PROVE  Served(p)'
<1>1. UNCHANGED <<call, todo, inode, sink>> /\ pc \notin {"idle", "scan"} /\ pc' # "idle"
  BY FileSteps
<1>2. inode \in FilesBelow(Asked) /\ inode \in Files /\ p \in Files /\ sink = OutPath[inode]
  BY <1>1 DEF ScopeInv, FilesBelow
<1>3. OutputOK(output)
  BY DEF CallInv
<1>4. p # inode => Place(OutPath[p]) # Place(sink)
  BY <1>2, AloneMeans
<1>5. CASE PassParent \/ OpenOutput \/ StartCopy \/ WriteBlock
  <2>1. pc' # "scan"
    BY <1>1, <1>5 DEF PassParent, OpenOutput, StartCopy, WriteBlock
  <2>2. Waiting(p) => Waiting(p)'
    BY <1>1, <2>1, WaitingFile
  <2>3. p = inode => Waiting(p)'
    BY <1>1, <2>1 DEF Waiting
  <2>4. ASSUME p # inode, Complete(output, p) PROVE Complete(output, p)'
    <3>1. CASE PassParent
      <4>1. output[Parent].kind # "file" /\ output' = [output EXCEPT ![Parent] = Directory]
        BY <3>1 DEF PassParent
      <4>2. Place(OutPath[p]) # Parent
        BY <2>4, <4>1 DEF Complete, Data
      <4> QED
        BY <1>2, <1>3, <2>4, <4>1, <4>2, CompletePut DEF Complete
    <3>2. CASE OpenOutput
      <4>1. output' = [output EXCEPT ![Place(sink)] = Data(<< >>, 0)]
        BY <3>2 DEF OpenOutput, Truncated
      <4> QED
        BY <1>2, <1>3, <1>4, <2>4, <4>1, CompletePut DEF Complete
    <3>3. CASE StartCopy \/ WriteBlock
      BY <2>4, <3>3 DEF StartCopy, WriteBlock, Complete
    <3> QED
      BY <1>5, <3>1, <3>2, <3>3
  <2> QED
    BY <2>2, <2>3, <2>4 DEF Served
<1>6. CASE FileLeft
  BY <1>6 DEF FileLeft, FileFails
<1>7. CASE FileClosed
  <2>1. PICK n \in 0 .. written :
          /\ output' = [output EXCEPT ![Place(sink)] = Data(inode, n)]
          /\ ~ (written < Blocks[inode] \/ n < written)
    BY <1>7 DEF FileClosed, FileDone
  <2>2. written <= Blocks[inode] /\ written \in Nat /\ Blocks[inode] \in Nat
    BY <1>2, <1>7, ReadableType DEF CallInv, TypeOK, FileClosed
  <2>3. n = Blocks[inode]
    BY <2>1, <2>2
  <2>4. Complete(output, inode)'
    <3>1. Place(sink) \in DOMAIN output
      BY <1>2, <1>3, OutPathShape, SinksShape DEF OutputOK
    <3> QED
      BY <1>1, <1>2, <2>1, <2>3, <3>1 DEF Complete
  <2>5. CASE p = inode
    BY <1>1, <2>4, <2>5 DEF Served
  <2>6. CASE p # inode
    <3>1. Waiting(p) => Waiting(p)'
      BY <1>1, <2>6, WaitingFile
    <3>2. Complete(output, p) => Complete(output, p)'
      BY <1>2, <1>3, <1>4, <2>1, <2>6, CompletePut DEF Complete
    <3> QED
      BY <3>1, <3>2 DEF Served
  <2> QED
    BY <2>5, <2>6
<1> QED
  BY <1>5, <1>6, <1>7

LEMMA DirNext ==
    ASSUME RootIdOnce(Tree), CallInv, ScopeInv, DirInv, [Next]_vars
    PROVE  DirInv'
<1>1. CASE Step
  <2> SUFFICES ASSUME call'.name = "dir", ~ trouble'
               PROVE  /\ pc' = "idle" => ret' = "ok"
                      /\ \A p \in FilesBelow(Asked)' : Alone(p)' => Served(p)'
    BY DEF DirInv, Served, Complete
  <2>1. call' = call /\ ~ trouble
    <3>1. ASSUME ScanUp \/ \E p \in DOMAIN Tree : ScanFile(p) \/ ScanDir(p)
          PROVE  call' = call /\ trouble' = trouble
      BY <3>1 DEF ScanUp, ScanFile, ScanDir
    <3>2. ASSUME PassParent \/ OpenOutput \/ StartCopy \/ WriteBlock
          PROVE  call' = call /\ trouble' = trouble
      BY <3>2 DEF PassParent, OpenOutput, StartCopy, WriteBlock, scanning
    <3>3. ASSUME FileLeft \/ FileClosed PROVE call' = call /\ ~ trouble
      BY <3>3 DEF FileLeft, FileFails, FileClosed, FileDone, scanning
    <3> QED
      BY <1>1, <3>1, <3>2, <3>3, StepCases
  <2>2. \A p \in FilesBelow(Asked) : p \in Files /\ (Alone(p) => Served(p))
    BY <2>1, ServedDir DEF FilesBelow
  <2>3. /\ FilesBelow(Asked)' = FilesBelow(Asked)
        /\ \A p : Alone(p)' <=> Alone(p)
    BY <2>1 DEF FilesBelow, Asked, Alone, Home
  <2>4. \A p \in FilesBelow(Asked) : Alone(p) => Served(p)'
    BY <1>1, <2>1, <2>2, StepCases, DirScans, DirFiles
  <2>5. pc' = "idle" => ret' = "ok"
    <3>1. ASSUME ScanUp \/ \E p \in DOMAIN Tree : ScanFile(p) \/ ScanDir(p)
          PROVE  pc' = "idle" => ret' = "ok"
      BY <3>1 DEF ScanUp, ScanFile, ScanDir, Scanning, Return
    <3>2. ASSUME PassParent \/ OpenOutput \/ StartCopy \/ WriteBlock \/ FileLeft \/ FileClosed
          PROVE  pc' # "idle"
      BY <2>1, <3>2, FileSteps
    <3> QED
      BY <1>1, <3>1, <3>2, StepCases
  <2> QED
    BY <2>3, <2>4, <2>5
<1>2. CASE UNCHANGED vars
  <2>1. /\ FilesBelow(Asked)' = FilesBelow(Asked)
        /\ \A p : (Waiting(p)' <=> Waiting(p)) /\ (Alone(p)' <=> Alone(p))
    BY <1>2 DEF FilesBelow, Asked, Waiting, Alone, Home, vars, scanning
  <2> QED
    BY <1>2, <2>1 DEF DirInv, vars, scanning
<1> QED
  BY <1>1, <1>2, DirBegins DEF Next

\* Where no directory but the root has the id of the root: if nothing failed
\* when wows_extract_dir returns, every file below the directory asked for has
\* all its blocks where it belongs, which is its own path below the output
\* directory if its names are ordinary, unless another of these files belongs
\* there too; whatever the tree, the order its directories are scanned in and
\* what was there before (inflate.c:212-314).
THEOREM DirAlwaysComplete ==
    ASSUME RootIdOnce(Tree)
    PROVE  Spec => []DirComplete
<1>1. Init => DirInv
  BY DEF Init, DirInv
<1>2. CallInv /\ ScopeInv /\ DirInv /\ [Next]_vars => DirInv'
  BY DirNext
<1>3. DirInv => DirComplete
  <2> SUFFICES ASSUME DirInv, Returned("dir"), ~ trouble
               PROVE  /\ ret = "ok"
                      /\ \A p \in FilesBelow(Asked) :
                           Alone(p) => output[Home(p)] = Data(p, Blocks[p])
    BY DEF DirComplete
  <2>1. call.name = "dir" /\ pc = "idle"
    BY DEF Returned
  <2>2. /\ ret = "ok"
        /\ \A p \in FilesBelow(Asked) :
             Alone(p) => output[Place(OutPath[p])] = Data(p, Blocks[p])
    BY <2>1 DEF DirInv, Waiting
  <2>3. \A p \in FilesBelow(Asked) : Home(p) = Place(OutPath[p])
    BY HomeIs DEF FilesBelow
  <2> QED
    BY <2>2, <2>3
<1> QED
  BY <1>1, <1>2, <1>3, ScopeInductive, PTL DEF Spec


-----------------------------------------------------------------------------
(* The end of a call                                                       *)

LEMMA PrefixMeans ==
    ASSUME NEW p \in Seq(Names), NEW q \in Seq(Names)
    PROVE  /\ IsPrefix(p, q) <=> Len(p) <= Len(q) /\ \A j \in 1 .. Len(p) : p[j] = q[j]
           /\ Len(p) \in Nat /\ Len(q) \in Nat
<1>1. SubSeq(p, 1, Len(p)) = p
  OBVIOUS
<1>2. ASSUME Len(p) <= Len(q), NEW r, r = SubSeq(q, 1, Len(p))
      PROVE  r = p <=> \A j \in 1 .. Len(p) : p[j] = q[j]
  <2>1. r \in Seq(Names) /\ Len(r) = Len(p) /\ \A j \in 1 .. Len(p) : r[j] = q[j]
    BY <1>2
  <2> QED
    BY <2>1
<1> QED
  BY <1>1, <1>2 DEF IsPrefix

LEMMA PrefixOrder ==
    ASSUME NEW p \in Seq(Names), NEW q \in Seq(Names)
    PROVE  /\ IsPrefix(p, p)
           /\ IsPrefix(p, q) /\ IsPrefix(q, p) => p = q
           /\ \A x \in Seq(Names) : IsPrefix(p, q) /\ IsPrefix(q, x) => IsPrefix(p, x)
           /\ \A x \in Seq(Names) : IsPrefix(p, x) /\ IsPrefix(q, x) => IsPrefix(p, q) \/ IsPrefix(q, p)
<1>1. IsPrefix(p, p)
  BY PrefixMeans
<1>2. ASSUME IsPrefix(p, q), IsPrefix(q, p) PROVE p = q
  <2>1. Len(p) = Len(q) /\ \A j \in 1 .. Len(p) : p[j] = q[j]
    BY <1>2, PrefixMeans
  <2> QED
    BY <2>1
<1>3. ASSUME NEW x \in Seq(Names)
      PROVE  /\ IsPrefix(p, q) /\ IsPrefix(q, x) => IsPrefix(p, x)
             /\ IsPrefix(p, x) /\ IsPrefix(q, x) => IsPrefix(p, q) \/ IsPrefix(q, p)
  BY PrefixMeans
<1> QED
  BY <1>1, <1>2, <1>3

\* A child is below its directory, and what begins a child begins that or is
\* the child.
LEMMA ChildPrefix ==
    ASSUME NEW p, NEW q \in Children(p)
    PROVE  /\ q \in DOMAIN Tree \ {<< >>} /\ q \in Seq(Names) /\ p \in Seq(Names)
           /\ IsPrefix(p, q) /\ ~ IsPrefix(q, p)
           /\ \A x \in Seq(Names) : IsPrefix(x, q) => x = q \/ IsPrefix(x, p)
<1>1. q \in DOMAIN Tree \ {<< >>} /\ q \in Seq(Names) /\ q # << >> /\ Front(q) = p
  BY TreeNames DEF Children
<1>2. /\ p \in Seq(Names) /\ Len(p) = Len(q) - 1
      /\ \A j \in 1 .. Len(q) - 1 : p[j] = q[j]
      /\ Len(q) \in Nat
  BY <1>1, FrontShape
<1>3. IsPrefix(p, q) /\ ~ IsPrefix(q, p)
  BY <1>1, <1>2, PrefixMeans
<1>4. ASSUME NEW x \in Seq(Names), IsPrefix(x, q), x # q
      PROVE  IsPrefix(x, p)
  <2>1. Len(x) <= Len(q) /\ \A j \in 1 .. Len(x) : x[j] = q[j]
    BY <1>1, <1>4, PrefixMeans
  <2>2. Len(x) \in Nat /\ Len(x) # Len(q)
    BY <1>1, <1>4, <2>1
  <2>3. Len(x) <= Len(q) - 1 /\ \A j \in 1 .. Len(x) : j \in 1 .. Len(q) - 1
    BY <1>2, <2>1, <2>2
  <2>4. Len(x) <= Len(p) /\ \A j \in 1 .. Len(x) : x[j] = p[j]
    BY <1>2, <2>1, <2>3
  <2> QED
    BY <1>2, <2>4, PrefixMeans
<1> QED
  BY <1>1, <1>2, <1>3, <1>4

\* No two children still to scan are one below the other.
Apart(td) ==
    \A m, n \in DOMAIN td : \A q \in td[m], r \in td[n] : IsPrefix(q, r) => m = n /\ q = r

LEMMA TodoNames ==
    ASSUME CallInv
    PROVE  /\ Len(todo) \in Nat /\ DOMAIN todo = 1 .. Len(todo)
           /\ \A n \in DOMAIN todo : \A q \in todo[n] : q \in DOMAIN Tree /\ q \in Seq(Names)
BY TreeNames DEF CallInv

\* A child that is scanned is not pending any more, nor what is below it.
LEMMA RestPending ==
    ASSUME CallInv, Apart(todo), NEW p, Scanning(p)
    PROVE  /\ p \in DOMAIN Tree /\ p \in Seq(Names)
           /\ DOMAIN Rest(p) = 1 .. Len(todo)
           /\ Apart(Rest(p))
           /\ \A n \in DOMAIN Rest(p) : \A q \in Rest(p)[n] :
                q \in Seq(Names) /\ ~ IsPrefix(q, p) /\ ~ IsPrefix(p, q)
           /\ p \in PendingOf(todo) /\ p \notin PendingOf(Rest(p))
           /\ PendingOf(Rest(p)) \subseteq PendingOf(todo)
<1> DEFINE r == Rest(p)
           N == Len(todo)
<1>1. /\ p \in DOMAIN Tree \ {<< >>} /\ r \in Seq(SUBSET (DOMAIN Tree \ {<< >>})) /\ Len(r) = N
      /\ \A n \in 1 .. N : r[n] = IF n = N THEN todo[n] \ {p} ELSE todo[n]
  BY RestShape
<1> HIDE DEF r
<1>2. DOMAIN r = 1 .. N
  BY <1>1
<1>3. /\ N \in DOMAIN todo /\ p \in todo[N] /\ DOMAIN todo = 1 .. N
      /\ \A n \in DOMAIN todo : \A q \in todo[n] : q \in DOMAIN Tree /\ q \in Seq(Names)
  <2>1. todo # << >> /\ p \in Last(todo) /\ Last(todo) = todo[N]
    BY DEF Scanning, Last
  <2> QED
    BY <2>1, TodoNames DEF CallInv
<1>4. p \in Seq(Names)
  BY <1>3
<1> HIDE DEF N
<1>5. \A n \in DOMAIN r : \A q \in r[n] : q \in todo[n] /\ n \in DOMAIN todo /\ ~ (n = N /\ q = p)
  BY <1>1, <1>2, <1>3
<1>6. \A n \in DOMAIN r : \A q \in r[n] : q \in Seq(Names) /\ ~ IsPrefix(q, p) /\ ~ IsPrefix(p, q)
  BY <1>3, <1>5 DEF Apart
<1>7. Apart(r)
  BY <1>5 DEF Apart
<1>8. p \in PendingOf(todo)
  BY <1>3, <1>4, PrefixOrder DEF PendingOf
<1>9. p \notin PendingOf(r)
  BY <1>6 DEF PendingOf
<1>10. PendingOf(r) \subseteq PendingOf(todo)
  BY <1>5 DEF PendingOf
<1> QED
  BY <1>1, <1>2, <1>4, <1>6, <1>7, <1>8, <1>9, <1>10 DEF r, N

\* A directory's children become pending, which were so with it.
LEMMA DeeperPending ==
    ASSUME CallInv, Apart(todo), NEW p, Scanning(p),
           NEW deeper, deeper = Append(Rest(p), Children(p))
    PROVE  /\ Apart(deeper)
           /\ p \notin PendingOf(deeper)
           /\ PendingOf(deeper) \subseteq PendingOf(todo)
<1> DEFINE r == Rest(p)
           N == Len(todo)
<1>1. /\ p \in DOMAIN Tree /\ p \in Seq(Names)
      /\ DOMAIN r = 1 .. N
      /\ Apart(r)
      /\ \A n \in DOMAIN r : \A q \in r[n] : q \in Seq(Names) /\ ~ IsPrefix(q, p) /\ ~ IsPrefix(p, q)
      /\ p \in PendingOf(todo) /\ p \notin PendingOf(r)
      /\ PendingOf(r) \subseteq PendingOf(todo)
  BY RestPending
<1>2. /\ deeper \in Seq(SUBSET (DOMAIN Tree \ {<< >>}))
      /\ Len(deeper) = N + 1
      /\ deeper[N + 1] = Children(p)
      /\ \A n \in 1 .. N : deeper[n] = r[n]
      /\ N \in Nat
  BY DeeperShape, TodoNames
<1> HIDE DEF r, N
<1>3. /\ DOMAIN deeper = 1 .. N + 1
      /\ \A n \in DOMAIN deeper : n \in 1 .. N \/ n = N + 1
      /\ N + 1 \notin 1 .. N
  BY <1>2
<1>4. \A q \in Children(p) : /\ q \in Seq(Names) /\ IsPrefix(p, q) /\ ~ IsPrefix(q, p)
                             /\ \A x \in Seq(Names) : IsPrefix(x, q) => x = q \/ IsPrefix(x, p)
  BY ChildPrefix
<1>5. ASSUME NEW q \in Children(p), NEW n \in 1 .. N, NEW x \in r[n]
      PROVE  ~ IsPrefix(q, x) /\ ~ IsPrefix(x, q)
  <2>1. x \in Seq(Names) /\ ~ IsPrefix(x, p) /\ ~ IsPrefix(p, x)
    BY <1>1
  <2>2. ~ IsPrefix(q, x)
    BY <1>1, <1>4, <2>1, PrefixOrder
  <2>3. ~ IsPrefix(x, q)
    BY <1>1, <1>4, <2>1
  <2> QED
    BY <2>2, <2>3
<1>6. ASSUME NEW q \in Children(p), NEW x \in Children(p), IsPrefix(q, x)
      PROVE  q = x
  BY <1>4, <1>6
<1>7. Apart(deeper)
  <2> SUFFICES ASSUME NEW m \in DOMAIN deeper, NEW n \in DOMAIN deeper,
                      NEW q \in deeper[m], NEW x \in deeper[n], IsPrefix(q, x)
               PROVE  m = n /\ q = x
    BY DEF Apart
  <2>1. CASE m \in 1 .. N /\ n \in 1 .. N
    BY <1>1, <1>2, <2>1 DEF Apart
  <2>2. CASE m \in 1 .. N /\ n = N + 1
    BY <1>2, <1>5, <2>2
  <2>3. CASE m = N + 1 /\ n \in 1 .. N
    BY <1>2, <1>5, <2>3
  <2>4. CASE m = N + 1 /\ n = N + 1
    BY <1>2, <1>6, <2>4
  <2> QED
    BY <1>3, <2>1, <2>2, <2>3, <2>4
<1>8. ASSUME NEW x \in PendingOf(deeper)
      PROVE  x # p /\ x \in PendingOf(todo)
  <2>1. x \in DOMAIN Tree /\ x \in Seq(Names)
    BY TreeNames DEF PendingOf
  <2>2. PICK n \in DOMAIN deeper : \E q \in deeper[n] : IsPrefix(q, x)
    BY DEF PendingOf
  <2>3. PICK q \in deeper[n] : IsPrefix(q, x)
    BY <2>2
  <2>4. CASE n \in 1 .. N
    <3>1. x \in PendingOf(r)
      BY <1>1, <1>2, <2>1, <2>3, <2>4 DEF PendingOf
    <3> QED
      BY <1>1, <3>1
  <2>5. CASE n = N + 1
    <3>1. q \in Children(p)
      BY <1>2, <2>5
    <3>2. IsPrefix(p, x) /\ x # p
      BY <1>1, <1>4, <2>1, <2>3, <3>1, PrefixOrder
    <3>3. PICK m \in DOMAIN todo : \E y \in todo[m] : IsPrefix(y, p)
      BY <1>1 DEF PendingOf
    <3>4. PICK y \in todo[m] : IsPrefix(y, p)
      BY <3>3
    <3>5. y \in Seq(Names)
      BY TodoNames
    <3>6. IsPrefix(y, x)
      BY <1>1, <2>1, <3>2, <3>4, <3>5, PrefixOrder
    <3> QED
      BY <2>1, <3>2, <3>6 DEF PendingOf
  <2> QED
    BY <1>3, <2>4, <2>5
<1> QED
  BY <1>7, <1>8

LEMMA UpPending ==
    ASSUME CallInv, Apart(todo), todo # << >>
    PROVE  Apart(Front(todo)) /\ PendingOf(Front(todo)) \subseteq PendingOf(todo)
<1>1. /\ Front(todo) \in Seq(SUBSET (DOMAIN Tree \ {<< >>}))
      /\ Len(Front(todo)) = Len(todo) - 1 /\ Len(todo) \in Nat
      /\ \A n \in 1 .. Len(todo) - 1 : Front(todo)[n] = todo[n]
  BY UpShape
<1>2. \A n \in DOMAIN Front(todo) : n \in DOMAIN todo /\ Front(todo)[n] = todo[n]
  <2>1. DOMAIN Front(todo) = 1 .. Len(todo) - 1 /\ DOMAIN todo = 1 .. Len(todo)
    BY <1>1, TodoNames
  <2> QED
    BY <1>1, <2>1
<1> QED
  BY <1>2 DEF Apart, PendingOf

LEMMA ApartNext == CallInv /\ Apart(todo) /\ [Next]_vars => Apart(todo')
<1> SUFFICES ASSUME CallInv, Apart(todo), [Next]_vars PROVE Apart(todo')
  OBVIOUS
<1>1. ASSUME NEW s \in Strings, ExtractDir(s) PROVE Apart(todo')
  <2> DEFINE C == Children(GetInode(Tree, s).inode)
  <2>1. todo' = <<C>>
    BY <1>1 DEF ExtractDir
  <2>2. \A q \in C : \A x \in C : IsPrefix(q, x) => q = x
    BY ChildPrefix
  <2> HIDE DEF C
  <2>3. DOMAIN todo' = {1} /\ todo'[1] = C
    BY <2>1
  <2> QED
    BY <2>2, <2>3 DEF Apart
<1>2. ASSUME NEW p \in DOMAIN Tree, ScanFile(p) \/ ScanDir(p) PROVE Apart(todo')
  BY <1>2, RestPending, DeeperPending DEF ScanFile, ScanDir
<1>3. CASE ScanUp
  BY <1>3, UpPending DEF ScanUp
<1>4. ASSUME NEW s \in Strings,
             ExtractDirFails(s) \/ \E o \in OutFiles : ExtractFile(s, o) \/ ExtractFileUnopened(s, o)
      PROVE  Apart(todo')
  BY <1>4 DEF ExtractDirFails, ExtractFile, ExtractFileUnopened
<1>5. CASE PassParent \/ OpenOutput \/ StartCopy \/ WriteBlock \/ FileLeft \/ FileClosed
  BY <1>5, FileSteps
<1>6. CASE UNCHANGED vars
  BY <1>6 DEF vars, scanning
<1>7. CASE Step
  BY <1>2, <1>3, <1>5, <1>7, StepCases
<1> QED
  BY <1>1, <1>4, <1>6, <1>7 DEF Next

LEMMA PendingFinite ==
    ASSUME NEW td
    PROVE  IsFiniteSet(PendingOf(td)) /\ Cardinality(PendingOf(td)) \in Nat
<1>1. IsFiniteSet(DOMAIN Tree) /\ PendingOf(td) \in SUBSET DOMAIN Tree
  BY ExtractionAssumption DEF PendingOf
<1>2. IsFiniteSet(PendingOf(td))
  BY <1>1, FS_Subset
<1> QED
  BY <1>2, FS_CardinalityType

\* The measure is one at every point of a call.
LEMMA VariantType == CallInv => Variant \in Measures
<1> SUFFICES ASSUME CallInv PROVE Variant \in Measures
  OBVIOUS
<1>1. ScansAhead \in Nat
  BY PendingFinite, TodoNames DEF ScansAhead
<1>2. StagesAhead \in Nat
  BY DEF StagesAhead
<1>3. RoundsAhead \in Nat
  <2>1. CASE pc = "parents"
    <3>1. Len(sink) \in Nat /\ made \in 0 .. Len(sink)
      <4>1. Len(sink) \in Nat
        BY <2>1, SinksShape DEF CallInv
      <4> QED
        BY <4>1 DEF CallInv, TypeOK
    <3> QED
      BY <2>1, <3>1 DEF RoundsAhead
  <2>2. CASE pc \in {"copy", "inflate"}
    <3>1. inode \in Files /\ written <= Blocks[inode] /\ written \in Nat
      BY <2>2 DEF CallInv, TypeOK
    <3> QED
      BY <2>2, <3>1, ReadableType DEF RoundsAhead
  <2>3. CASE pc \notin {"parents", "copy", "inflate"}
    BY <2>3 DEF RoundsAhead
  <2> QED
    BY <2>1, <2>2, <2>3
<1> QED
  BY <1>1, <1>2, <1>3 DEF Variant, Measures

\* A step to less to scan, to a later stage of a file, or to a later round.
LEMMA LowerVariant ==
    ASSUME \/ ScansAhead' < ScansAhead
           \/ ScansAhead' = ScansAhead /\ StagesAhead' < StagesAhead
           \/ ScansAhead' = ScansAhead /\ StagesAhead' = StagesAhead /\ RoundsAhead' < RoundsAhead
    PROVE  Lower(Variant', Variant)
BY DEF Lower, Variant

LEMMA ScansEnd ==
    ASSUME CallInv, Apart(todo),
           ScanUp \/ \E p \in DOMAIN Tree : ScanFile(p) \/ ScanDir(p)
    PROVE  Lower(Variant', Variant)
<1> DEFINE C(td) == Cardinality(PendingOf(td))
<1>1. /\ ScansAhead = 2 * C(todo) + Len(todo)
      /\ ScansAhead' = 2 * C(todo') + Len(todo')
  BY DEF ScansAhead, PendingOf
<1>2. C(todo) \in Nat /\ Len(todo) \in Nat /\ IsFiniteSet(PendingOf(todo))
  BY PendingFinite, TodoNames
<1>3. ASSUME NEW td, PendingOf(td) \subseteq PendingOf(todo)
      PROVE  /\ C(td) \in Nat /\ C(td) <= C(todo)
             /\ \A p \in PendingOf(todo) : p \notin PendingOf(td) => C(td) < C(todo)
  <2>1. PendingOf(td) \in SUBSET PendingOf(todo)
    BY <1>3
  <2>2. /\ C(td) <= C(todo)
        /\ C(todo) = C(td) => PendingOf(todo) = PendingOf(td)
    BY <1>2, <2>1, FS_Subset
  <2>3. C(td) \in Nat
    BY PendingFinite
  <2> HIDE DEF C
  <2> QED
    BY <1>2, <2>2, <2>3
<1> HIDE DEF C
<1>4. CASE ScanUp
  <2>1. todo' = Front(todo) /\ todo # << >>
    BY <1>4 DEF ScanUp
  <2>2. Len(todo') = Len(todo) - 1 /\ PendingOf(todo') \subseteq PendingOf(todo)
    BY <2>1, UpShape, UpPending
  <2>3. C(todo') \in Nat /\ C(todo') <= C(todo)
    BY <1>3, <2>2
  <2>4. ScansAhead' < ScansAhead
    BY <1>1, <1>2, <2>2, <2>3
  <2> QED
    BY <2>4, LowerVariant
<1>5. ASSUME NEW p \in DOMAIN Tree, ScanFile(p) \/ ScanDir(p)
      PROVE  Lower(Variant', Variant)
  <2>1. Scanning(p)
    BY <1>5 DEF ScanFile, ScanDir
  <2>2. p \in PendingOf(todo)
    BY <2>1, RestPending
  <2>3. /\ PendingOf(todo') \subseteq PendingOf(todo) /\ p \notin PendingOf(todo')
        /\ Len(todo') \in {Len(todo), Len(todo) + 1}
    <3>1. CASE ScanFile(p)
      BY <2>1, <3>1, RestShape, RestPending DEF ScanFile
    <3>2. CASE ScanDir(p)
      BY <2>1, <3>2, DeeperShape, DeeperPending DEF ScanDir
    <3> QED
      BY <1>5, <3>1, <3>2
  <2>4. C(todo') \in Nat /\ C(todo') < C(todo)
    BY <1>3, <2>2, <2>3
  <2>5. ScansAhead' < ScansAhead
    BY <1>1, <1>2, <2>3, <2>4
  <2> QED
    BY <2>5, LowerVariant
<1> QED
  BY <1>4, <1>5

LEMMA FileEnds ==
    ASSUME CallInv,
           PassParent \/ OpenOutput \/ StartCopy \/ WriteBlock \/ FileLeft \/ FileClosed
    PROVE  Lower(Variant', Variant)
<1>1. UNCHANGED <<todo, inode, sink>>
  BY FileSteps
<1>2. ScansAhead' = ScansAhead
  BY <1>1 DEF ScansAhead, PendingOf
<1>3. CASE FileLeft \/ FileClosed
  <2>1. pc \in {"parents", "extract", "copy", "inflate"} /\ pc' \in {"scan", "idle"}
    BY <1>3 DEF FileLeft, FileFails, FileClosed, FileDone, Return
  <2>2. StagesAhead' < StagesAhead
    BY <2>1 DEF StagesAhead
  <2> QED
    BY <1>2, <2>2, LowerVariant
<1>4. CASE OpenOutput \/ StartCopy
  <2>1. StagesAhead' < StagesAhead
    BY <1>4 DEF OpenOutput, StartCopy, StagesAhead
  <2> QED
    BY <1>2, <2>1, LowerVariant
<1>5. CASE PassParent
  <2>1. pc = "parents" /\ pc' = pc /\ made' = made + 1 /\ made \in Int /\ Len(sink) \in Nat
    BY <1>5, SinksShape DEF PassParent, AtParent, CallInv, TypeOK
  <2>2. RoundsAhead' < RoundsAhead
    BY <1>1, <2>1 DEF RoundsAhead
  <2>3. StagesAhead' = StagesAhead
    BY <2>1 DEF StagesAhead
  <2> QED
    BY <1>2, <2>2, <2>3, LowerVariant
<1>6. CASE WriteBlock
  <2>1. /\ pc \in {"copy", "inflate"} /\ pc' = pc /\ written' = written + 1
        /\ written \in Nat /\ inode \in Files
    BY <1>6 DEF WriteBlock, CallInv, TypeOK
  <2>2. Blocks[inode] \in Nat
    BY <2>1, ReadableType
  <2>3. RoundsAhead' < RoundsAhead
    BY <1>1, <2>1, <2>2 DEF RoundsAhead
  <2>4. StagesAhead' = StagesAhead
    BY <2>1 DEF StagesAhead
  <2> QED
    BY <1>2, <2>3, <2>4, LowerVariant
<1> QED
  BY <1>3, <1>4, <1>5, <1>6

\* A call comes to its end whatever the archive, the packages and the file
\* system: each of its steps lowers what it has still to do.
THEOREM CallsAlwaysEnd == Spec => CallsEnd
<1>1. CallInv => Variant \in Measures
  BY VariantType
<1>2. (CallInv => Variant \in Measures)'
  BY <1>1, PTL
<1>3. ASSUME CallInv, CallInv', Apart(todo), [Next]_vars
      PROVE  [pc # "idle" => Variant' \in Measures /\ Lower(Variant', Variant)]_vars
  <2>1. SUFFICES ASSUME pc # "idle", Next
                 PROVE  Variant' \in Measures /\ Lower(Variant', Variant)
    BY <1>3
  <2>2. Variant' \in Measures
    BY <1>2, <1>3
  <2>3. Step
    <3>1. ASSUME NEW s \in Strings,
                 \/ ExtractDir(s) \/ ExtractDirFails(s)
                 \/ \E o \in OutFiles : ExtractFile(s, o) \/ ExtractFileUnopened(s, o)
          PROVE  FALSE
      BY <2>1, <3>1 DEF ExtractDir, ExtractDirFails, ExtractFile, ExtractFileUnopened, Begin
    <3> QED
      BY <2>1, <3>1 DEF Next
  <2>4. Lower(Variant', Variant)
    BY <1>3, <2>3, StepCases, ScansEnd, FileEnds
  <2> QED
    BY <2>2, <2>4
<1>4. Init => Apart(todo)
  BY DEF Init, Apart
<1>5. CallInv /\ Apart(todo) /\ [Next]_vars => Apart(todo)'
  BY ApartNext DEF Apart
<1> QED
  BY <1>3, <1>4, <1>5, CallInductive, PTL DEF Spec, CallsEnd
=============================================================================
