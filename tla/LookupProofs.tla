----------------------------- MODULE LookupProofs -----------------------------
(***************************************************************************)
(* Facts about the operators of PathLookup, for every tree and string: the *)
(* paths of a tree, the walk of get_inode, and what it answers.            *)
(***************************************************************************)
EXTENDS PathLookup, FunctionTheorems, FiniteSetTheorems, WellFoundedInduction, TLAPS

-----------------------------------------------------------------------------
(* Bounded sets of naturals                                                *)

\* A set of naturals with a bound has a greatest member.
LEMMA GreatestExists ==
    ASSUME NEW n \in Nat, NEW S \in SUBSET (0 .. n), S # {}
    PROVE  Greatest(S) \in S /\ \A k \in S : k <= Greatest(S)
<1> DEFINE Over(k) == {j \in S : j > k}
           F == {Over(k) : k \in S}
<1>1. IsFiniteSet(S)
  <2>1. IsFiniteSet(0 .. n)
    BY FS_Interval
  <2> QED
    BY <2>1, FS_Subset
<1>2. F \subseteq FiniteSubsetsOf(S)
  BY <1>1, FS_Subset DEF FiniteSubsetsOf
<1>3. F # {}
  OBVIOUS
<1>4. PICK x \in F : \A y \in F : ~ (<<y, x>> \in StrictSubsetOrdering(S))
  <2> HIDE DEF F
  <2> QED
    BY <1>1, <1>2, <1>3, FS_StrictSubsetOrderingWellFounded, WFMin
<1>5. PICK k \in S : x = Over(k)
  BY <1>4
<1>6. \A j \in S : j <= k
  <2> SUFFICES ASSUME NEW j \in S, j > k PROVE FALSE
    OBVIOUS
  <2>0. j \in Int /\ k \in Int /\ \A i \in S : i \in Int
    OBVIOUS
  <2>1. /\ Over(j) \in F
        /\ Over(j) \in SUBSET S /\ Over(k) \in SUBSET S
    OBVIOUS
  <2>3. Over(j) \subseteq Over(k) /\ j \in Over(k) /\ j \notin Over(j)
    <3>1. \A i \in S : i > j => i > k
      BY <2>0
    <3>2. ~ (j > j)
      BY <2>0
    <3> QED
      BY <3>1, <3>2
  <2>2. <<Over(j), Over(k)>> \in StrictSubsetOrdering(S)
    BY <2>1, <2>3 DEF StrictSubsetOrdering
  <2> QED
    BY <1>4, <1>5, <2>1, <2>2
<1> QED
  BY <1>6 DEF Greatest

\* Induction up to a bound, over the set of numbers that have a property.
LEMMA BoundedInduction ==
    ASSUME NEW n \in Nat, NEW G \in SUBSET (0 .. n), 0 \in G,
           \A k \in 0 .. n-1 : k \in G => k + 1 \in G
    PROVE  G = 0 .. n
<1> DEFINE D == {k \in 0 .. n : \A j \in 0 .. k : j \in G}
<1>1. D \in SUBSET (0 .. n) /\ 0 \in D
  OBVIOUS
<1>2. Greatest(D) \in D /\ \A k \in D : k <= Greatest(D)
  BY <1>1, GreatestExists
<1> DEFINE m == Greatest(D)
<1>3. m \in 0 .. n /\ m \in G /\ \A j \in 0 .. m : j \in G
  BY <1>2
<1>4. ~ (m + 1 \in D)
  BY <1>2, <1>3
<1> HIDE DEF m
<1>5. m = n
  <2> SUFFICES ASSUME m # n PROVE FALSE
    OBVIOUS
  <2>1. m \in 0 .. n-1
    BY <1>3
  <2>2. m + 1 \in G
    BY <1>3, <2>1
  <2>3. m + 1 \in D
    BY <1>3, <2>1, <2>2
  <2> QED
    BY <1>4, <2>3
<1> QED
  BY <1>3, <1>5

\* An image of a finite set is finite.
LEMMA ImageFinite ==
    ASSUME NEW S, IsFiniteSet(S), NEW f, f = [x \in S |-> f[x]]
    PROVE  IsFiniteSet({f[x] : x \in S}) /\ Cardinality({f[x] : x \in S}) \in Nat
<1> DEFINE T == {f[x] : x \in S}
<1>1. f \in Surjection(S, T)
  BY DEF Surjection
<1> HIDE DEF T
<1>2. IsFiniteSet(T)
  BY <1>1, FS_Surjection
<1>3. Cardinality(T) \in Nat
  BY <1>2, FS_CardinalityType
<1> QED
  BY <1>2, <1>3 DEF T

-----------------------------------------------------------------------------
(* Sequences                                                               *)

IsSequence(q) == q \in Seq({q[j] : j \in DOMAIN q})

LEMMA SequenceWhenever ==
    ASSUME NEW S, NEW q \in Seq(S)
    PROVE  IsSequence(q)
<1>1. Len(q) \in Nat /\ DOMAIN q = 1 .. Len(q) /\ q = [j \in 1 .. Len(q) |-> q[j]]
  OBVIOUS
<1>2. q \in [1 .. Len(q) -> {q[j] : j \in DOMAIN q}]
  BY <1>1
<1> QED
  BY <1>1, <1>2 DEF IsSequence

LEMMA FrontShape ==
    ASSUME NEW S, NEW q \in Seq(S), q # << >>
    PROVE  /\ Front(q) \in Seq(S)
           /\ Len(Front(q)) = Len(q) - 1
           /\ \A j \in 1 .. Len(q) - 1 : Front(q)[j] = q[j]
BY DEF Front

LEMMA AppendType ==
    ASSUME NEW S, NEW s \in Seq(S), NEW x \in S
    PROVE  /\ Append(s, x) \in Seq(S)
           /\ Len(Append(s, x)) = Len(s) + 1
           /\ Append(s, x)[Len(s) + 1] = x
           /\ \A j \in 1 .. Len(s) : Append(s, x)[j] = s[j]
           /\ Append(s, x) # << >>
OBVIOUS

LEMMA FrontOfAppend ==
    ASSUME NEW S, NEW s \in Seq(S), NEW x \in S
    PROVE  Front(Append(s, x)) = s
<1>1. /\ Append(s, x) \in Seq(S)
      /\ Len(Append(s, x)) = Len(s) + 1
      /\ Append(s, x) # << >>
      /\ \A j \in 1 .. Len(s) : Append(s, x)[j] = s[j]
  BY AppendType
<1>2. Len(s) \in Nat /\ Len(Append(s, x)) - 1 = Len(s)
  BY <1>1
<1>3. /\ Front(Append(s, x)) \in Seq(S)
      /\ Len(Front(Append(s, x))) = Len(s)
      /\ \A j \in 1 .. Len(s) : Front(Append(s, x))[j] = s[j]
  BY <1>1, <1>2, FrontShape
<1> QED
  BY <1>3

\* What is below the directory of q is not above q.
LEMMA PrefixOfFront ==
    ASSUME NEW S, NEW q \in Seq(S), q # << >>,
           NEW p \in Seq(S), p = Front(q) \/ IsStrictPrefix(p, Front(q))
    PROVE  IsStrictPrefix(p, q)
<1>1. Len(p) <= Len(Front(q)) /\ SubSeq(p, 1, Len(p)) = SubSeq(Front(q), 1, Len(p))
  BY FrontShape DEF IsStrictPrefix, IsPrefix
<1>2. Len(p) \in Nat /\ Len(q) \in Nat /\ Len(p) < Len(q)
  BY <1>1, FrontShape
<1>3. SubSeq(Front(q), 1, Len(p)) = SubSeq(q, 1, Len(p))
  BY <1>1, <1>2, FrontShape
<1>4. p # q
  BY <1>2
<1> QED
  BY <1>1, <1>2, <1>3, <1>4 DEF IsStrictPrefix, IsPrefix

-----------------------------------------------------------------------------
(* Recursion up to a bound                                                 *)

\* f has a value for each number up to m, each from the one before by H.
Recursion(m, V, base, H, f) ==
    /\ f \in [0 .. m -> V]
    /\ f[0] = base
    /\ \A k \in 1 .. m : f[k] = H[<<k, f[k-1]>>]

LEMMA RecursionExists ==
    ASSUME NEW n \in Nat, NEW V, NEW base \in V, NEW H \in [(1 .. n) \X V -> V]
    PROVE  \E f : Recursion(n, V, base, H, f)
<1> DEFINE Recurs(m, f) == /\ f \in [0 .. m -> V] /\ f[0] = base
                           /\ \A k \in 1 .. m : f[k] = H[<<k, f[k-1]>>]
           G == {m \in 0 .. n : \E f : Recurs(m, f)}
<1>1. 0 \in G
  <2> DEFINE f == [k \in 0 .. 0 |-> base]
  <2>1. Recurs(0, f)
    OBVIOUS
  <2>2. \E h : Recurs(0, h)
    BY <2>1
  <2> HIDE DEF Recurs
  <2> QED
    BY <2>2
<1>2. \A m \in 0 .. n - 1 : m \in G => m + 1 \in G
  <2> SUFFICES ASSUME NEW m \in 0 .. n - 1, NEW f, Recurs(m, f)
               PROVE  \E g : Recurs(m + 1, g)
    OBVIOUS
  <2> DEFINE x == H[<<m + 1, f[m]>>]
             g == [k \in 0 .. m + 1 |-> IF k <= m THEN f[k] ELSE x]
  <2>1. x \in V
    <3>1. f[m] \in V /\ m + 1 \in 1 .. n
      OBVIOUS
    <3> QED
      BY <3>1
  <2> HIDE DEF x
  <2>2. g \in [0 .. m + 1 -> V] /\ g[0] = base
    BY <2>1
  <2>3. \A k \in 1 .. m + 1 : g[k-1] = f[k-1]
    OBVIOUS
  <2>4. \A k \in 1 .. m : g[k] = f[k] /\ f[k] = H[<<k, f[k-1]>>]
    OBVIOUS
  <2>5. g[m + 1] = H[<<m + 1, f[m]>>]
    BY DEF x
  <2>6. \A k \in 1 .. m + 1 : k \in 1 .. m \/ (k = m + 1 /\ k - 1 = m)
    OBVIOUS
  <2> HIDE DEF g
  <2>7. \A k \in 1 .. m + 1 : g[k] = H[<<k, g[k-1]>>]
    BY <2>3, <2>4, <2>5, <2>6
  <2> QED
    BY <2>2, <2>7
<1>3. G = 0 .. n
  <2> HIDE DEF G
  <2>1. G \in SUBSET (0 .. n)
    BY DEF G
  <2> QED
    BY <1>1, <1>2, <2>1, BoundedInduction
<1> HIDE DEF Recurs
<1>4. n \in G
  BY <1>3
<1>5. PICK f : Recurs(n, f)
  BY <1>4
<1> QED
  BY <1>5 DEF Recurs, Recursion

-----------------------------------------------------------------------------
(* The walk and what get_inode answers                                     *)

\* One step of the walk.
Onward(t, p, n) == IF IsFolder(t, p) THEN Child(t, p, n) ELSE p

LEMMA OnwardType ==
    ASSUME NEW t, NEW p \in DOMAIN t \cup {NoInode}, NEW n
    PROVE  Onward(t, p, n) \in DOMAIN t \cup {NoInode}
BY DEF Onward, Child

\* The walk has a place after each directory of the string, and ends at the
\* last.
LEMMA WalkDef ==
    ASSUME NEW t, << >> \in DOMAIN t, NEW dirs, Len(dirs) \in Nat
    PROVE  \E at \in [0 .. Len(dirs) -> DOMAIN t \cup {NoInode}] :
              /\ at[0] = << >>
              /\ \A n \in 1 .. Len(dirs) : at[n] = Onward(t, at[n-1], dirs[n])
              /\ Walk(t, dirs) = at[Len(dirs)]
<1> DEFINE N == Len(dirs)
           V == DOMAIN t \cup {NoInode}
           H == [c \in (1 .. N) \X V |-> Onward(t, c[2], dirs[c[1]])]
           Walks(at) == at = [n \in 0 .. N |->
                                IF n = 0 THEN << >>
                                ELSE IF IsFolder(t, at[n-1]) THEN Child(t, at[n-1], dirs[n])
                                ELSE at[n-1]]
<1>1. H \in [(1 .. N) \X V -> V]
  <2>1. \A c \in (1 .. N) \X V : Onward(t, c[2], dirs[c[1]]) \in V
    BY OnwardType
  <2> QED
    BY <2>1
<1>2. PICK f : Recursion(N, V, << >>, H, f)
  <2>1. << >> \in V /\ N \in Nat
    OBVIOUS
  <2> HIDE DEF H, V, N
  <2> QED
    BY <1>1, <2>1, RecursionExists
<1>3. \A k \in 1 .. N : f[k] = Onward(t, f[k-1], dirs[k])
  <2> SUFFICES ASSUME NEW k \in 1 .. N PROVE f[k] = Onward(t, f[k-1], dirs[k])
    OBVIOUS
  <2>1. f[k-1] \in V
    BY <1>2 DEF Recursion
  <2>2. <<k, f[k-1]>> \in (1 .. N) \X V
    BY <2>1
  <2> HIDE DEF V
  <2>3. f[k] = H[<<k, f[k-1]>>]
    BY <1>2 DEF Recursion
  <2> QED
    BY <2>2, <2>3
<1> HIDE DEF V, N
<1>4. Walks(f)
  <2>1. \A n \in 0 .. N : f[n] = IF n = 0 THEN << >>
                                 ELSE IF IsFolder(t, f[n-1]) THEN Child(t, f[n-1], dirs[n])
                                 ELSE f[n-1]
    <3>1. \A n \in 0 .. N : n = 0 \/ n \in 1 .. N
      BY DEF N
    <3> QED
      BY <1>2, <1>3, <3>1 DEF Onward, Recursion
  <2>2. f = [n \in 0 .. N |-> f[n]]
    BY <1>2 DEF Recursion
  <2> QED
    BY <2>1, <2>2
<1> DEFINE at == CHOOSE g : Walks(g)
<1>5. Walks(at)
  BY <1>4
<1>6. Walk(t, dirs) = at[N]
  BY DEF Walk, N
<1> HIDE DEF at
<1>7. /\ DOMAIN at = 0 .. N
      /\ at[0] = << >>
      /\ \A n \in 1 .. N : at[n] = Onward(t, at[n-1], dirs[n])
  <2>1. N \in Nat
    BY DEF N
  <2> QED
    BY <1>5, <2>1 DEF Onward
<1>8. \A n \in 0 .. N : at[n] \in V
  <2> DEFINE G == {n \in 0 .. N : at[n] \in V}
  <2>0. N \in Nat
    BY DEF N
  <2>1. 0 \in G
    BY <1>7, <2>0 DEF V
  <2>2. \A n \in 0 .. N - 1 : n \in G => n + 1 \in G
    <3> SUFFICES ASSUME NEW n \in 0 .. N - 1, at[n] \in V PROVE at[n + 1] \in V
      BY <2>0
    <3>1. n + 1 \in 1 .. N /\ (n + 1) - 1 = n
      BY <2>0
    <3>2. at[n + 1] = Onward(t, at[n], dirs[n + 1])
      BY <1>7, <3>1
    <3> QED
      BY <3>2, OnwardType DEF V
  <2>3. G = 0 .. N
    <3> HIDE DEF G
    <3>1. G \in SUBSET (0 .. N)
      BY DEF G
    <3> QED
      BY <2>0, <2>1, <2>2, <3>1, BoundedInduction
  <2> QED
    BY <2>3
<1>9. at \in [0 .. N -> V]
  <2>1. at = [n \in 0 .. N |-> at[n]]
    BY <1>5
  <2> QED
    BY <1>8, <2>1
<1> QED
  BY <1>6, <1>7, <1>9 DEF V, N

\* get_inode answers with an inode of the tree, or with none and an error.
LEMMA GetInodeType ==
    ASSUME NEW t, << >> \in DOMAIN t, NoInode \notin DOMAIN t, NEW S, NEW s \in Seq(S)
    PROVE  /\ GetInode(t, s).inode \in DOMAIN t \cup {NoInode}
           /\ GetInode(t, s).ret = "ok" => GetInode(t, s).inode \in DOMAIN t
<1> DEFINE dirs == Decompose(s).dirs
           file == Decompose(s).file
           at   == Walk(t, dirs)
           p    == IF Len(file) = 1 THEN Child(t, at, file[1]) ELSE NoInode
<1>1. Len(dirs) \in Nat
  <2> DEFINE D == Firsts(DirsIn(s), MaxDirs)
  <2>1. IsFiniteSet(DOMAIN s)
    <3>1. DOMAIN s = 1 .. Len(s) /\ Len(s) \in Nat
      OBVIOUS
    <3> QED
      BY <3>1, FS_Interval
  <2>2. D \in SUBSET (DOMAIN s)
    BY DEF Firsts, DirsIn
  <2>3. Cardinality(D) \in Nat
    BY <2>1, <2>2, FS_Subset, FS_CardinalityType
  <2>4. dirs = [n \in 1 .. Cardinality(D) |-> s[Greatest(Firsts(D, n))]]
    BY DEF Decompose, InOrder
  <2> HIDE DEF D
  <2> QED
    BY <2>3, <2>4
<1>2. at \in DOMAIN t \cup {NoInode}
  <2>1. 0 \in 0 .. Len(dirs) /\ Len(dirs) \in 0 .. Len(dirs)
    BY <1>1
  <2> HIDE DEF dirs
  <2> QED
    BY <1>1, <2>1, WalkDef
<1>3. p \in DOMAIN t \cup {NoInode}
  BY DEF Child
<1>4. GetInode(t, s) = IF at = NoInode THEN Fails("not_found")
                       ELSE IF ~ HasFile(s) THEN Found(at)
                       ELSE IF ~ IsFolder(t, at) THEN Fails("not_a_dir")
                       ELSE IF p = NoInode THEN Fails("not_found")
                       ELSE Found(p)
  BY DEF GetInode
<1> HIDE DEF p, at
<1> QED
  BY <1>2, <1>3, <1>4 DEF Found, Fails

-----------------------------------------------------------------------------
(* Paths of a tree                                                         *)

LEMMA PrefixShape ==
    ASSUME NEW S, NEW p \in Seq(S), NEW n \in 0 .. Len(p)
    PROVE  /\ SubSeq(p, 1, n) \in Seq(S)
           /\ Len(SubSeq(p, 1, n)) = n
           /\ \A j \in 1 .. n : SubSeq(p, 1, n)[j] = p[j]
OBVIOUS

LEMMA FrontOfPrefix ==
    ASSUME NEW S, NEW p \in Seq(S), NEW n \in 1 .. Len(p)
    PROVE  Front(SubSeq(p, 1, n)) = SubSeq(p, 1, n - 1) /\ SubSeq(p, 1, n) # << >>
<1> DEFINE q == SubSeq(p, 1, n)
<1>1. q \in Seq(S) /\ Len(q) = n /\ \A j \in 1 .. n : q[j] = p[j]
  BY PrefixShape
<1>2. n - 1 \in 0 .. Len(p)
  OBVIOUS
<1> DEFINE r == SubSeq(p, 1, n - 1)
<1>3. r \in Seq(S) /\ Len(r) = n - 1 /\ \A j \in 1 .. n - 1 : r[j] = p[j]
  BY <1>2, PrefixShape
<1> HIDE DEF q, r
<1>4. q # << >>
  BY <1>1
<1>5. /\ Front(q) \in Seq(S) /\ Len(Front(q)) = n - 1
      /\ \A j \in 1 .. n - 1 : Front(q)[j] = q[j]
  BY <1>1, <1>4, FrontShape
<1>6. Front(q) = r
  BY <1>1, <1>3, <1>5
<1> QED
  BY <1>4, <1>6 DEF q, r

\* What is above an inode is in the tree, and is a directory.
LEMMA PrefixInTree ==
    ASSUME NEW t, NEW names, IsTree(t, names), NEW p \in DOMAIN t, NEW n \in 0 .. Len(p)
    PROVE  SubSeq(p, 1, n) \in DOMAIN t /\ (n < Len(p) => IsFolder(t, SubSeq(p, 1, n)))
<1> DEFINE N == Len(p)
           G == {k \in 0 .. N : /\ SubSeq(p, 1, N - k) \in DOMAIN t
                                /\ k > 0 => IsFolder(t, SubSeq(p, 1, N - k))}
<1>1. p \in Seq(names) /\ N \in Nat
  BY DEF IsTree
<1>2. 0 \in G
  <2>1. SubSeq(p, 1, N) = p
    BY <1>1
  <2>2. N - 0 = N /\ 0 \in 0 .. N
    BY <1>1
  <2> DEFINE q == SubSeq(p, 1, N - 0)
  <2>3. q = p
    BY <2>1, <2>2
  <2> HIDE DEF q, N
  <2>4. q \in DOMAIN t
    BY <2>3
  <2>5. ~ (0 > 0)
    OBVIOUS
  <2> QED
    BY <2>2, <2>4, <2>5 DEF q
<1>3. \A k \in 0 .. N - 1 : k \in G => k + 1 \in G
  <2> SUFFICES ASSUME NEW k \in 0 .. N - 1, SubSeq(p, 1, N - k) \in DOMAIN t
               PROVE  /\ SubSeq(p, 1, N - (k + 1)) \in DOMAIN t
                      /\ IsFolder(t, SubSeq(p, 1, N - (k + 1)))
    BY <1>1
  <2>1. N - k \in 1 .. N /\ (N - k) - 1 = N - (k + 1)
    BY <1>1
  <2> DEFINE q == SubSeq(p, 1, N - k)
  <2>2. Front(q) = SubSeq(p, 1, N - (k + 1)) /\ q # << >>
    BY <1>1, <2>1, FrontOfPrefix
  <2>3. q \in DOMAIN t
    OBVIOUS
  <2> HIDE DEF q, N
  <2> QED
    BY <2>2, <2>3 DEF IsTree
<1>4. G = 0 .. N
  <2> HIDE DEF G
  <2>1. G \in SUBSET (0 .. N)
    BY DEF G
  <2> QED
    BY <1>1, <1>2, <1>3, <2>1, BoundedInduction
<1>5. N - n \in 0 .. N /\ N - (N - n) = n
  BY <1>1
<1>6. N - n \in G
  BY <1>4, <1>5
<1> QED
  BY <1>1, <1>5, <1>6

\* The child through which p leads to what is below it.
LEMMA ChildTowards ==
    ASSUME NEW t, NEW names, IsTree(t, names), NEW p \in DOMAIN t, NEW q \in DOMAIN t,
           IsStrictPrefix(p, q)
    PROVE  \E c \in DOMAIN t \ {<< >>} : /\ Front(c) = p
                                         /\ c = q \/ IsStrictPrefix(c, q)
                                         /\ IsFolder(t, p)
<1> DEFINE n == Len(p) + 1
           c == SubSeq(q, 1, n)
<1>1. p \in Seq(names) /\ q \in Seq(names)
  BY DEF IsTree
<1>2. Len(p) <= Len(q) /\ SubSeq(p, 1, Len(p)) = SubSeq(q, 1, Len(p)) /\ p # q
  BY DEF IsStrictPrefix, IsPrefix
<1>3. p = SubSeq(q, 1, Len(p)) /\ Len(p) \in Nat /\ Len(q) \in Nat
  BY <1>1, <1>2
<1>4. Len(p) # Len(q)
  <2> SUFFICES ASSUME Len(p) = Len(q) PROVE FALSE
    OBVIOUS
  <2>1. SubSeq(q, 1, Len(q)) = q
    BY <1>1
  <2> QED
    BY <1>2, <1>3, <2>1
<1>5. n \in 1 .. Len(q) /\ n \in 0 .. Len(q) /\ n - 1 = Len(p) /\ Len(p) \in 0 .. Len(q)
  BY <1>2, <1>3, <1>4
<1>6. c \in DOMAIN t
  BY <1>5, PrefixInTree
<1>7. Front(c) = p /\ c # << >>
  <2> HIDE DEF n
  <2> QED
    BY <1>1, <1>3, <1>5, FrontOfPrefix
<1>8. IsFolder(t, p)
  <2>1. Len(p) < Len(q)
    BY <1>2, <1>3, <1>4
  <2> QED
    BY <1>3, <1>5, <2>1, PrefixInTree
<1>9. IsPrefix(c, q)
  <2> HIDE DEF n
  <2>1. c \in Seq(names) /\ Len(c) = n
    BY <1>1, <1>5, PrefixShape
  <2>2. SubSeq(c, 1, Len(c)) = c /\ n <= Len(q)
    BY <1>5, <2>1
  <2> QED
    BY <2>1, <2>2 DEF IsPrefix
<1> HIDE DEF c
<1> QED
  BY <1>6, <1>7, <1>8, <1>9 DEF IsStrictPrefix

-----------------------------------------------------------------------------
(* The string of a path                                                    *)

LEMMA MaxExists ==
    ASSUME NEW n \in Nat, NEW T \in SUBSET (1 .. n), T # {}
    PROVE  Max(T) \in T /\ \A k \in T : k <= Max(T)
<1>1. T \in SUBSET (0 .. n)
  OBVIOUS
<1>2. Greatest(T) \in T /\ \A k \in T : k <= Greatest(T)
  BY <1>1, GreatestExists
<1>3. \A y \in T : y \in Int
  OBVIOUS
<1>4. \E x \in T : \A y \in T : x >= y
  BY <1>2, <1>3
<1>5. Max(T) \in T /\ \A y \in T : Max(T) >= y
  BY <1>4 DEF Max
<1> QED
  BY <1>3, <1>5

\* What join_path has made of the directories T, by what it made of the others.
Joined(parents, name, f, T) ==
    IF T = {} THEN <<name>> ELSE <<parents[Max(T)], Sep>> \o f[T \ {Max(T)}]

Joining(parents, name, n, f) == f = [T \in SUBSET (1 .. n) |-> Joined(parents, name, f, T)]

LEMMA JoiningExists ==
    ASSUME NEW parents, NEW name, NEW n \in Nat
    PROVE  \E f : Joining(parents, name, n, f)
<1> DEFINE G == {m \in 0 .. n : \E f : Joining(parents, name, m, f)}
<1>1. 0 \in G
  <2> DEFINE f == [T \in SUBSET (1 .. 0) |-> <<name>>]
  <2>1. \A T \in SUBSET (1 .. 0) : T = {}
    OBVIOUS
  <2>2. Joining(parents, name, 0, f)
    BY <2>1 DEF Joining, Joined
  <2> HIDE DEF f
  <2> QED
    BY <2>2
<1>2. \A m \in 0 .. n - 1 : m \in G => m + 1 \in G
  <2> SUFFICES ASSUME NEW m \in 0 .. n - 1, NEW f, Joining(parents, name, m, f)
               PROVE  \E g : Joining(parents, name, m + 1, g)
    OBVIOUS
  <2> DEFINE old == SUBSET (1 .. m)
             new == SUBSET (1 .. m + 1)
             g == [T \in new |-> IF T \in old THEN f[T] ELSE Joined(parents, name, f, T)]
  <2>1. m \in Nat /\ m + 1 \in Nat
    OBVIOUS
  <2>2. \A T \in new : T # {} => T \ {Max(T)} \in old
    <3> SUFFICES ASSUME NEW T \in new, T # {}, NEW k \in T, k # Max(T) PROVE k \in 1 .. m
      OBVIOUS
    <3>1. Max(T) \in T /\ k <= Max(T)
      BY <2>1, MaxExists
    <3>2. Max(T) \in 1 .. m + 1 /\ k \in 1 .. m + 1
      BY <3>1
    <3> HIDE DEF new
    <3> QED
      BY <3>1, <3>2
  <2>3. \A T \in old : T \in new /\ f[T] = Joined(parents, name, f, T)
    BY DEF Joining
  <2>4. \A T \in new : g[T] = IF T \in old THEN f[T] ELSE Joined(parents, name, f, T)
    OBVIOUS
  <2>5. g = [T \in new |-> g[T]]
    OBVIOUS
  <2> HIDE DEF g, old
  <2>6. \A T \in new : T # {} => g[T \ {Max(T)}] = f[T \ {Max(T)}]
    <3> SUFFICES ASSUME NEW T \in new, T # {} PROVE g[T \ {Max(T)}] = f[T \ {Max(T)}]
      OBVIOUS
    <3>1. T \ {Max(T)} \in old
      BY <2>2
    <3>2. T \ {Max(T)} \in new
      BY <2>3, <3>1
    <3> HIDE DEF new
    <3> QED
      BY <2>4, <3>1, <3>2
  <2> HIDE DEF new
  <2>7. \A T \in new : g[T] = Joined(parents, name, g, T)
    <3> SUFFICES ASSUME NEW T \in new PROVE g[T] = Joined(parents, name, g, T)
      OBVIOUS
    <3>1. g[T] = Joined(parents, name, f, T)
      BY <2>3, <2>4
    <3> QED
      BY <2>6, <3>1 DEF Joined
  <2>8. Joining(parents, name, m + 1, g)
    BY <2>5, <2>7 DEF Joining, new
  <2> QED
    BY <2>8
<1>3. G = 0 .. n
  <2> HIDE DEF G
  <2>1. G \in SUBSET (0 .. n)
    BY DEF G
  <2> QED
    BY <1>1, <1>2, <2>1, BoundedInduction
<1>4. n \in G
  BY <1>3
<1> QED
  BY <1>4

LEMMA JoinPathDef ==
    ASSUME NEW S, NEW parents \in Seq(S), NEW name
    PROVE  \E f : /\ Joining(parents, name, Len(parents), f)
                  /\ JoinPath(parents, name) = f[1 .. Len(parents)]
<1> DEFINE n == Len(parents)
           f == CHOOSE g : Joining(parents, name, n, g)
<1>1. n \in Nat /\ DOMAIN parents = 1 .. n
  OBVIOUS
<1>2. Joining(parents, name, n, f)
  <2> HIDE DEF n
  <2> QED
    BY <1>1, JoiningExists
<1>3. JoinPath(parents, name) = f[1 .. n]
  BY <1>1 DEF JoinPath, FoldLeft, MapThenFoldSet, Joining, Joined
<1> QED
  BY <1>2, <1>3

\* s is the last k + 1 names of p with a separator between two of them.
JoinsLast(s, p, k, S) ==
    /\ s \in Seq(S \cup {Sep})
    /\ Len(s) = 2 * k + 1
    /\ \A i \in 0 .. k : s[2 * i + 1] = p[Len(p) - k + i]
    /\ \A i \in 1 .. k : s[2 * i] = Sep

Joins(s, p, S) == JoinsLast(s, p, Len(p) - 1, S)

LEMMA JoinsOne ==
    ASSUME NEW S, NEW p \in Seq(S), p # << >>
    PROVE  JoinsLast(<<Last(p)>>, p, 0, S)
<1>1. Len(p) \in 1 .. Len(p) /\ Len(p) \in Nat
  OBVIOUS
<1>2. Last(p) = p[Len(p)] /\ Last(p) \in S
  BY <1>1 DEF Last
<1>3. Len(p) - 0 + 0 = Len(p)
  BY <1>1
<1> DEFINE s == <<Last(p)>>
<1>4. s \in Seq(S \cup {Sep}) /\ Len(s) = 1 /\ s[1] = Last(p)
  BY <1>2
<1> HIDE DEF s
<1>5. \A i \in 0 .. 0 : i = 0 /\ 2 * i + 1 = 1
  OBVIOUS
<1> QED
  BY <1>1, <1>2, <1>3, <1>4, <1>5 DEF JoinsLast, s

LEMMA JoinsMore ==
    ASSUME NEW S, NEW p \in Seq(S), NEW k \in 0 .. Len(p) - 2, NEW s, JoinsLast(s, p, k, S)
    PROVE  JoinsLast(<<p[Len(p) - (k + 1)], Sep>> \o s, p, k + 1, S)
<1> DEFINE n == Len(p)
           x == p[n - (k + 1)]
           r == <<x, Sep>> \o s
<1>1. n \in Nat /\ n - (k + 1) \in 1 .. n /\ k \in Nat
  OBVIOUS
<1>2. x \in S \cup {Sep}
  BY <1>1
<1>3. /\ s \in Seq(S \cup {Sep}) /\ Len(s) = 2 * k + 1
      /\ \A i \in 0 .. k : s[2 * i + 1] = p[n - k + i]
      /\ \A i \in 1 .. k : s[2 * i] = Sep
  BY DEF JoinsLast
<1> HIDE DEF x, n
<1>4. r \in Seq(S \cup {Sep}) /\ Len(r) = 2 * k + 3 /\ r[1] = x /\ r[2] = Sep
  BY <1>1, <1>2, <1>3
<1>5. \A j \in 1 .. 2 * k + 1 : r[j + 2] = s[j]
  BY <1>1, <1>2, <1>3
<1> HIDE DEF r
<1>6. \A i \in 0 .. k + 1 : r[2 * i + 1] = p[n - (k + 1) + i]
  <2> SUFFICES ASSUME NEW i \in 0 .. k + 1 PROVE r[2 * i + 1] = p[n - (k + 1) + i]
    OBVIOUS
  <2>1. CASE i = 0
    <3>1. 2 * i + 1 = 1 /\ n - (k + 1) + i = n - (k + 1)
      BY <1>1, <2>1
    <3> QED
      BY <1>4, <3>1 DEF x
  <2>2. CASE i # 0
    <3> DEFINE h == i - 1
    <3>1. h \in 0 .. k /\ 2 * h + 1 \in 1 .. 2 * k + 1
      BY <1>1, <2>2
    <3>2. (2 * h + 1) + 2 = 2 * i + 1 /\ n - k + h = n - (k + 1) + i
      BY <1>1
    <3> HIDE DEF h
    <3>3. r[(2 * h + 1) + 2] = s[2 * h + 1]
      BY <1>5, <3>1
    <3> QED
      BY <1>3, <3>1, <3>2, <3>3
  <2> QED
    BY <2>1, <2>2
<1>7. \A i \in 1 .. k + 1 : r[2 * i] = Sep
  <2> SUFFICES ASSUME NEW i \in 1 .. k + 1 PROVE r[2 * i] = Sep
    OBVIOUS
  <2>1. CASE i = 1
    <3>1. 2 * i = 2
      BY <2>1
    <3> QED
      BY <1>4, <3>1
  <2>2. CASE i # 1
    <3> DEFINE h == i - 1
    <3>1. h \in 1 .. k /\ 2 * h \in 1 .. 2 * k + 1
      BY <1>1, <2>2
    <3>2. 2 * h + 2 = 2 * i
      BY <1>1
    <3> HIDE DEF h
    <3>3. r[2 * h + 2] = s[2 * h]
      BY <1>5, <3>1
    <3> QED
      BY <1>3, <3>1, <3>2, <3>3
  <2> QED
    BY <2>1, <2>2
<1>8. 2 * (k + 1) + 1 = 2 * k + 3
  BY <1>1
<1>9. JoinsLast(r, p, k + 1, S)
  BY <1>4, <1>6, <1>7, <1>8 DEF JoinsLast, n
<1> QED
  BY <1>9 DEF r, x, n

\* join_path gives the names of a path, with a separator between two of them.
LEMMA JoinPathJoins ==
    ASSUME NEW S, NEW p \in Seq(S), p # << >>
    PROVE  Joins(JoinPath(Reverse(Front(p)), Last(p)), p, S)
<1> DEFINE n == Len(p)
           parents == Reverse(Front(p))
           name == Last(p)
<1>1. n \in Nat \ {0} /\ n - 1 \in Nat
  OBVIOUS
<1>2. /\ parents \in Seq(S) /\ Len(parents) = n - 1
      /\ \A i \in 1 .. n - 1 : parents[i] = p[n - i]
  <2>1. /\ Front(p) \in Seq(S) /\ Len(Front(p)) = n - 1
        /\ \A j \in 1 .. n - 1 : Front(p)[j] = p[j]
    BY FrontShape
  <2> DEFINE q == Front(p)
  <2> HIDE DEF q
  <2>2. q \in Seq(S) /\ Len(q) = n - 1 /\ \A j \in 1 .. n - 1 : q[j] = p[j]
    BY <2>1 DEF q
  <2>3. /\ Reverse(q) \in Seq(S) /\ Len(Reverse(q)) = Len(q)
        /\ \A i \in 1 .. Len(q) : Reverse(q)[i] = q[(Len(q) - i) + 1]
    BY <2>2 DEF Reverse
  <2>4. \A i \in 1 .. n - 1 : (n - 1 - i) + 1 = n - i /\ n - i \in 1 .. n - 1
    BY <1>1
  <2>5. parents = Reverse(q)
    BY DEF q
  <2> HIDE DEF n, parents
  <2> QED
    BY <1>1, <2>2, <2>3, <2>4, <2>5
<1>3. PICK f : /\ Joining(parents, name, Len(parents), f)
               /\ JoinPath(parents, name) = f[1 .. Len(parents)]
  <2> HIDE DEF parents, name, n
  <2> QED
    BY <1>2, JoinPathDef
<1> DEFINE G == {k \in 0 .. n - 1 : JoinsLast(f[1 .. k], p, k, S)}
<1>4. \A T \in SUBSET (1 .. n - 1) : f[T] = Joined(parents, name, f, T)
  BY <1>2, <1>3 DEF Joining
<1> HIDE DEF parents
<1>5. 0 \in G
  <2>1. 1 .. 0 = {} /\ {} \in SUBSET (1 .. n - 1)
    OBVIOUS
  <2>2. f[1 .. 0] = <<name>>
    BY <1>4, <2>1 DEF Joined
  <2>3. JoinsLast(f[1 .. 0], p, 0, S)
    BY <2>2, JoinsOne
  <2> QED
    BY <1>1, <2>3
<1>6. \A k \in 0 .. (n - 1) - 1 : k \in G => k + 1 \in G
  <2> SUFFICES ASSUME NEW k \in 0 .. (n - 1) - 1, JoinsLast(f[1 .. k], p, k, S)
               PROVE  JoinsLast(f[1 .. k + 1], p, k + 1, S)
    BY <1>1
  <2> DEFINE T == 1 .. k + 1
  <2>0. k + 1 \in Nat /\ k + 1 \in T /\ k + 1 <= n - 1
    BY <1>1
  <2>1. T \in SUBSET (1 .. n - 1) /\ T # {} /\ k + 1 \in Nat
    <3> HIDE DEF n
    <3>1. \A j \in T : j \in 1 .. n - 1
      BY <1>1, <2>0
    <3> QED
      BY <2>0, <3>1
  <2>2. Max(T) = k + 1
    <3>1. Max(T) \in T /\ \A j \in T : j <= Max(T)
      BY <2>1, MaxExists
    <3>2. k + 1 \in T
      OBVIOUS
    <3> QED
      BY <3>1, <3>2
  <2>3. T \ {k + 1} = 1 .. k
    BY <1>1
  <2> HIDE DEF T
  <2>4. f[T] = <<parents[k + 1], Sep>> \o f[1 .. k]
    BY <1>4, <2>1, <2>2, <2>3 DEF Joined
  <2>5. parents[k + 1] = p[Len(p) - (k + 1)]
    BY <1>1, <1>2
  <2>6. k \in 0 .. Len(p) - 2
    BY <1>1
  <2>7. JoinsLast(<<p[Len(p) - (k + 1)], Sep>> \o f[1 .. k], p, k + 1, S)
    BY <2>6, JoinsMore
  <2> QED
    BY <2>4, <2>5, <2>7 DEF T
<1>7. G = 0 .. n - 1
  <2> HIDE DEF G
  <2>1. G \in SUBSET (0 .. n - 1)
    BY DEF G
  <2> QED
    BY <1>1, <1>5, <1>6, <2>1, BoundedInduction
<1>8. n - 1 \in G
  BY <1>1, <1>7
<1>9. JoinPath(parents, name) = f[1 .. n - 1]
  BY <1>2, <1>3
<1> QED
  BY <1>8, <1>9 DEF Joins, parents

-----------------------------------------------------------------------------
(* Positions in their order                                                *)

Increasing(e, m) == \A i, j \in 1 .. m : i < j => e[i] < e[j]

\* The positions e[1] < ... < e[m] are the first, ..., m-th of their set.
LEMMA RankOf ==
    ASSUME NEW m \in Nat, NEW e \in [1 .. m -> Nat], Increasing(e, m), NEW i \in 0 .. m
    PROVE  Cardinality({e[j] : j \in 1 .. i}) = i
<1> DEFINE T == {e[j] : j \in 1 .. i}
           f == [j \in 1 .. i |-> e[j]]
<1>1. f \in Bijection(1 .. i, T)
  <2>1. f \in [1 .. i -> T]
    OBVIOUS
  <2>2. \A x, y \in 1 .. i : f[x] = f[y] => x = y
    <3> SUFFICES ASSUME NEW x \in 1 .. i, NEW y \in 1 .. i, e[x] = e[y], x # y PROVE FALSE
      OBVIOUS
    <3>1. x \in 1 .. m /\ y \in 1 .. m /\ (x < y \/ y < x)
      OBVIOUS
    <3>2. e[x] < e[y] \/ e[y] < e[x]
      BY <3>1 DEF Increasing
    <3>3. e[x] \in Nat
      BY <3>1
    <3> QED
      BY <3>2, <3>3
  <2>3. \A z \in T : \E x \in 1 .. i : f[x] = z
    OBVIOUS
  <2> HIDE DEF f, T
  <2>4. f \in Injection(1 .. i, T)
    BY <2>1, <2>2 DEF Injection, IsInjective
  <2>5. f \in Surjection(1 .. i, T)
    BY <2>1, <2>3 DEF Surjection
  <2> QED
    BY <2>4, <2>5 DEF Bijection
<1> HIDE DEF f, T
<1>2. IsFiniteSet(1 .. i) /\ Cardinality(1 .. i) = i
  <2>1. i \in Nat
    OBVIOUS
  <2>2. IsFiniteSet(1 .. i) /\ Cardinality(1 .. i) = IF 1 > i THEN 0 ELSE i - 1 + 1
    BY <2>1, FS_Interval
  <2> QED
    BY <2>1, <2>2
<1>3. Cardinality(T) = Cardinality(1 .. i)
  BY <1>1, <1>2, FS_Bijection DEF ExistsBijection
<1> QED
  BY <1>2, <1>3 DEF T

LEMMA FirstsOf ==
    ASSUME NEW m \in Nat, NEW e \in [1 .. m -> Nat], Increasing(e, m), NEW n \in Nat
    PROVE  Firsts({e[i] : i \in 1 .. m}, n) = {e[i] : i \in {j \in 1 .. m : j <= n}}
<1> DEFINE T == {e[i] : i \in 1 .. m}
<1>1. \A i \in 1 .. m : Cardinality({k \in T : k <= e[i]}) = i
  <2> SUFFICES ASSUME NEW i \in 1 .. m PROVE Cardinality({k \in T : k <= e[i]}) = i
    OBVIOUS
  <2>1. \A j \in 1 .. m : e[j] <= e[i] <=> j <= i
    <3> SUFFICES ASSUME NEW j \in 1 .. m PROVE e[j] <= e[i] <=> j <= i
      OBVIOUS
    <3>1. j < i \/ j = i \/ i < j
      OBVIOUS
    <3>2. e[i] \in Nat /\ e[j] \in Nat
      OBVIOUS
    <3>3. (j < i => e[j] < e[i]) /\ (i < j => e[i] < e[j])
      BY DEF Increasing
    <3> QED
      BY <3>1, <3>2, <3>3
  <2>2. {k \in T : k <= e[i]} = {e[j] : j \in 1 .. i}
    BY <2>1
  <2>3. i \in 0 .. m
    OBVIOUS
  <2> QED
    BY <2>2, <2>3, RankOf
<1>2. \A i \in 1 .. m : e[i] \in Firsts(T, n) <=> i <= n
  BY <1>1 DEF Firsts
<1>3. \A x \in Firsts(T, n) : \E i \in 1 .. m : x = e[i]
  BY DEF Firsts
<1> QED
  BY <1>2, <1>3

LEMMA InOrderOf ==
    ASSUME NEW s, NEW m \in Nat, NEW e \in [1 .. m -> Nat], Increasing(e, m)
    PROVE  InOrder(s, {e[i] : i \in 1 .. m}) = [n \in 1 .. m |-> s[e[n]]]
<1> DEFINE T == {e[i] : i \in 1 .. m}
<1>1. Cardinality(T) = m
  <2>1. m \in 0 .. m
    OBVIOUS
  <2> QED
    BY <2>1, RankOf
<1>2. \A n \in 1 .. m : Greatest(Firsts(T, n)) = e[n]
  <2> SUFFICES ASSUME NEW n \in 1 .. m PROVE Greatest(Firsts(T, n)) = e[n]
    OBVIOUS
  <2> DEFINE U == Firsts(T, n)
  <2>1. U = {e[i] : i \in {j \in 1 .. m : j <= n}}
    BY FirstsOf
  <2>2. e[n] \in U
    BY <2>1
  <2>3. \A x \in U : x \in Nat /\ x <= e[n]
    <3> SUFFICES ASSUME NEW i \in 1 .. m, i <= n PROVE e[i] \in Nat /\ e[i] <= e[n]
      BY <2>1
    <3>1. i = n \/ e[i] < e[n]
      BY DEF Increasing
    <3>2. e[i] \in Nat /\ e[n] \in Nat
      OBVIOUS
    <3> QED
      BY <3>1, <3>2
  <2> HIDE DEF U
  <2>4. U \in SUBSET (0 .. e[n]) /\ U # {} /\ e[n] \in Nat
    BY <2>2, <2>3
  <2>5. Greatest(U) \in U /\ \A k \in U : k <= Greatest(U)
    BY <2>4, GreatestExists
  <2> DEFINE g == Greatest(U)
  <2>6. g \in Nat /\ g <= e[n] /\ e[n] <= g
    BY <2>2, <2>3, <2>5
  <2> HIDE DEF g
  <2>7. g = e[n]
    BY <2>4, <2>6
  <2> QED
    BY <2>7 DEF U, g
<1> HIDE DEF T
<1>3. InOrder(s, T) = [n \in 1 .. m |-> s[e[n]]]
  BY <1>1, <1>2 DEF InOrder
<1> QED
  BY <1>3 DEF T

LEMMA EvenOrOdd ==
    ASSUME NEW j \in Nat
    PROVE  \E h \in Nat : j = 2 * h \/ j = 2 * h + 1
<1>1. j \div 2 \in Nat /\ (j = 2 * (j \div 2) \/ j = 2 * (j \div 2) + 1)
  OBVIOUS
<1> QED
  BY <1>1

\* The names of a string that joins the names of a path are those of the path.
LEMMA NamesOfJoined ==
    ASSUME NEW S, Sep \notin S, NEW p \in Seq(S), p # << >>, NEW s, Joins(s, p, S)
    PROVE  NamesIn(s) = p
<1> DEFINE m == Len(p)
           e == [i \in 1 .. m |-> 2 * i - 1]
           T == {j \in DOMAIN s : s[j] # Sep}
<1>1. m \in Nat /\ m - 1 \in Nat
  OBVIOUS
<1>2. /\ s \in Seq(S \cup {Sep}) /\ Len(s) = 2 * m - 1
      /\ \A i \in 1 .. m : s[2 * i - 1] = p[i]
      /\ \A i \in 1 .. m - 1 : s[2 * i] = Sep
  <2>1. /\ s \in Seq(S \cup {Sep}) /\ Len(s) = 2 * (m - 1) + 1
        /\ \A i \in 0 .. m - 1 : s[2 * i + 1] = p[m - (m - 1) + i]
        /\ \A i \in 1 .. m - 1 : s[2 * i] = Sep
    BY DEF Joins, JoinsLast
  <2>2. \A i \in 1 .. m : s[2 * i - 1] = p[i]
    <3> SUFFICES ASSUME NEW i \in 1 .. m PROVE s[2 * i - 1] = p[i]
      OBVIOUS
    <3>1. i - 1 \in 0 .. m - 1 /\ 2 * (i - 1) + 1 = 2 * i - 1 /\ m - (m - 1) + (i - 1) = i
      BY <1>1
    <3> HIDE DEF m
    <3> QED
      BY <2>1, <3>1
  <2>3. 2 * (m - 1) + 1 = 2 * m - 1
    BY <1>1
  <2> QED
    BY <2>1, <2>2, <2>3
<1>3. \A i \in 1 .. m : p[i] # Sep
  OBVIOUS
<1>4. e \in [1 .. m -> Nat] /\ Increasing(e, m)
  BY <1>1 DEF Increasing
<1>5. \A i \in 1 .. m : e[i] = 2 * i - 1
  OBVIOUS
<1> HIDE DEF m, e
<1>6. T = {e[i] : i \in 1 .. m}
  <2>1. \A i \in 1 .. m : e[i] \in T
    <3> SUFFICES ASSUME NEW i \in 1 .. m PROVE e[i] \in T
      OBVIOUS
    <3>1. 2 * i - 1 \in 1 .. 2 * m - 1
      BY <1>1
    <3>2. DOMAIN s = 1 .. 2 * m - 1
      BY <1>2
    <3> QED
      BY <1>2, <1>3, <1>5, <3>1, <3>2
  <2>2. \A j \in T : \E i \in 1 .. m : j = e[i]
    <3> SUFFICES ASSUME NEW j \in 1 .. 2 * m - 1, s[j] # Sep
                 PROVE  \E i \in 1 .. m : j = e[i]
      BY <1>2
    <3>1. \E i \in 1 .. m : j = 2 * i - 1 \/ (j = 2 * i /\ i <= m - 1)
      <4>0. j \in Nat
        BY <1>1
      <4>1. PICK h \in Nat : j = 2 * h \/ j = 2 * h + 1
        BY <4>0, EvenOrOdd
      <4>2. CASE j = 2 * h
        <5>1. h \in 1 .. m /\ j = 2 * h /\ h <= m - 1
          BY <1>1, <4>1, <4>2
        <5> QED
          BY <5>1
      <4>3. CASE j = 2 * h + 1
        <5>1. h + 1 \in 1 .. m /\ j = 2 * (h + 1) - 1
          BY <1>1, <4>1, <4>3
        <5> QED
          BY <5>1
      <4> QED
        BY <4>1, <4>2, <4>3
    <3>2. PICK i \in 1 .. m : j = 2 * i - 1 \/ (j = 2 * i /\ i <= m - 1)
      BY <3>1
    <3>3. CASE j = 2 * i /\ i <= m - 1
      <4>1. i \in 1 .. m - 1
        BY <3>3, <1>1
      <4> QED
        BY <1>2, <3>3, <4>1
    <3> QED
      BY <1>5, <3>2, <3>3
  <2> QED
    BY <2>1, <2>2
<1>7. NamesIn(s) = InOrder(s, T)
  BY DEF NamesIn
<1> HIDE DEF T
<1>8. NamesIn(s) = [n \in 1 .. m |-> s[e[n]]]
  BY <1>1, <1>4, <1>6, <1>7, InOrderOf
<1>9. \A n \in 1 .. m : s[e[n]] = p[n]
  BY <1>2, <1>5
<1>10. p = [n \in 1 .. m |-> p[n]]
  BY DEF m
<1> QED
  BY <1>8, <1>9, <1>10

-----------------------------------------------------------------------------
(* The string of an inode                                                  *)

\* No directory but the root has the id at which get_path_inode stops.
RootIdOnce(t) == \A p \in DOMAIN t \ {<< >>} : IsFolder(t, p) => t[p].id # t[<< >>].id

\* The names above an inode are those of its path, down from a directory that
\* has the id of the root.
LEMMA ParentNamesShape ==
    ASSUME NEW t, NEW names, IsTree(t, names), NEW p \in DOMAIN t, p # << >>
    PROVE  \E q \in Seq(names) : /\ q # << >> /\ Last(q) = Last(p)
                                 /\ ParentNames(t, p) = Reverse(Front(q))
                                 /\ RootIdOnce(t) => q = p
<1> DEFINE n == Len(p)
           roots == {i \in 0 .. n - 1 : t[SubSeq(p, 1, i)].id = t[<< >>].id}
           k == Greatest(roots)
           q == SubSeq(p, k + 1, n)
<1>1. p \in Seq(names) /\ n \in Nat \ {0}
  BY DEF IsTree
<1>2. 0 \in roots
  <2>1. SubSeq(p, 1, 0) = << >>
    BY <1>1
  <2>2. 0 \in 0 .. n - 1
    BY <1>1
  <2> QED
    BY <2>1, <2>2
<1>3. k \in roots /\ \A i \in roots : i <= k
  <2>1. roots \in SUBSET (0 .. n) /\ roots # {} /\ n \in Nat
    BY <1>1, <1>2
  <2> HIDE DEF roots, n
  <2> QED
    BY <2>1, GreatestExists
<1>4. k \in 0 .. n - 1
  BY <1>3
<1>5. RootIdOnce(t) => k = 0
  <2> SUFFICES ASSUME RootIdOnce(t), k # 0 PROVE FALSE
    OBVIOUS
  <2> DEFINE d == SubSeq(p, 1, k)
  <2>1. k \in 0 .. Len(p) /\ k < Len(p)
    BY <1>1, <1>4
  <2>2. d \in DOMAIN t /\ IsFolder(t, d)
    <3> HIDE DEF k
    <3> QED
      BY <2>1, PrefixInTree
  <2>3. Len(d) = k
    <3> HIDE DEF k
    <3> QED
      BY <1>1, <2>1, PrefixShape
  <2>4. d # << >>
    <3> HIDE DEF k, d
    <3> QED
      BY <2>3
  <2>5. t[d].id = t[<< >>].id
    BY <1>3
  <2> HIDE DEF d, k
  <2> QED
    BY <2>2, <2>4, <2>5 DEF RootIdOnce
<1>6. ParentNames(t, p) = Reverse(SubSeq(p, k + 1, n - 1))
  BY DEF ParentNames
<1> HIDE DEF k, roots
<1>7. q \in Seq(names) /\ Len(q) = n - k /\ \A i \in 1 .. n - k : q[i] = p[k + i]
  BY <1>1, <1>4
<1>8. q # << >>
  <2>1. n - k > 0
    BY <1>1, <1>4
  <2> HIDE DEF q
  <2> QED
    BY <1>7, <2>1
<1>9. Last(q) = Last(p)
  <2>1. n - k \in 1 .. n - k /\ k + (n - k) = n
    BY <1>1, <1>4
  <2> HIDE DEF q
  <2> QED
    BY <1>7, <2>1 DEF Last
<1>10. SubSeq(p, k + 1, n - 1) = Front(q)
  <2> DEFINE u == SubSeq(p, k + 1, n - 1)
  <2>1. u \in Seq(names) /\ Len(u) = n - k - 1 /\ \A i \in 1 .. n - k - 1 : u[i] = p[k + i]
    BY <1>1, <1>4
  <2> HIDE DEF q, u
  <2>2. /\ Front(q) \in Seq(names) /\ Len(Front(q)) = n - k - 1
        /\ \A i \in 1 .. n - k - 1 : Front(q)[i] = q[i]
    BY <1>7, <1>8, FrontShape
  <2>3. \A i \in 1 .. n - k - 1 : i \in 1 .. n - k
    BY <1>1, <1>4
  <2>4. \A i \in 1 .. n - k - 1 : u[i] = Front(q)[i]
    BY <1>7, <2>1, <2>2, <2>3
  <2>5. u = Front(q)
    BY <2>1, <2>2, <2>4
  <2> QED
    BY <2>5 DEF u
<1>11. RootIdOnce(t) => q = p
  <2> SUFFICES ASSUME k = 0 PROVE q = p
    BY <1>5
  <2> QED
    BY <1>1
<1> HIDE DEF q
<1> QED
  BY <1>6, <1>7, <1>8, <1>9, <1>10, <1>11

\* What a file system reads in the string of an inode: its path, from the root
\* or from a directory that has the id of the root.
LEMMA PathStringNames ==
    ASSUME NEW t, NEW names, Sep \notin names, IsTree(t, names), NEW p \in DOMAIN t, p # << >>
    PROVE  /\ NamesIn(PathString(t, p)) \in Seq(names)
           /\ NamesIn(PathString(t, p)) # << >>
           /\ RootIdOnce(t) => NamesIn(PathString(t, p)) = p
<1>1. PICK q \in Seq(names) : /\ q # << >> /\ Last(q) = Last(p)
                              /\ ParentNames(t, p) = Reverse(Front(q))
                              /\ RootIdOnce(t) => q = p
  BY ParentNamesShape
<1>2. PathString(t, p) = JoinPath(Reverse(Front(q)), Last(q))
  BY <1>1 DEF PathString
<1>3. Joins(PathString(t, p), q, names)
  BY <1>1, <1>2, JoinPathJoins
<1>4. NamesIn(PathString(t, p)) = q
  BY <1>1, <1>3, NamesOfJoined
<1> QED
  BY <1>1, <1>4

-----------------------------------------------------------------------------
(* How a string is taken apart                                             *)

Enumerates(e, m, T) ==
    /\ m \in Nat /\ e \in [1 .. m -> Nat]
    /\ Increasing(e, m)
    /\ T = {e[i] : i \in 1 .. m}

LEMMA EnumeratesMore ==
    ASSUME NEW T, NEW m, NEW e, Enumerates(e, m, T), NEW x \in Nat, \A j \in T : j < x
    PROVE  Enumerates([i \in 1 .. m + 1 |-> IF i <= m THEN e[i] ELSE x], m + 1, T \cup {x})
<1> DEFINE f == [i \in 1 .. m + 1 |-> IF i <= m THEN e[i] ELSE x]
<1>1. m \in Nat /\ \A i \in 1 .. m : e[i] \in Nat /\ e[i] \in T
  BY DEF Enumerates
<1>2. \A i \in 1 .. m : i \in 1 .. m + 1 /\ f[i] = e[i]
  BY <1>1
<1>3. f[m + 1] = x /\ m + 1 \in 1 .. m + 1
  BY <1>1
<1>4. \A i \in 1 .. m + 1 : i = m + 1 \/ i \in 1 .. m
  BY <1>1
<1>5. f \in [1 .. m + 1 -> Nat]
  BY <1>1
<1> HIDE DEF f
<1>6. Increasing(f, m + 1)
  <2> SUFFICES ASSUME NEW i \in 1 .. m + 1, NEW j \in 1 .. m + 1, i < j PROVE f[i] < f[j]
    BY DEF Increasing
  <2>1. i \in 1 .. m
    BY <1>1, <1>4
  <2>2. CASE j = m + 1
    BY <1>1, <1>2, <1>3, <2>1, <2>2
  <2>3. CASE j \in 1 .. m
    BY <1>2, <2>1, <2>3 DEF Enumerates, Increasing
  <2> QED
    BY <1>4, <2>2, <2>3
<1>7. T \cup {x} = {f[i] : i \in 1 .. m + 1}
  <2>1. T = {e[i] : i \in 1 .. m}
    BY DEF Enumerates
  <2> QED
    BY <1>2, <1>3, <1>4, <2>1
<1>8. m + 1 \in Nat
  BY <1>1
<1>9. Enumerates(f, m + 1, T \cup {x})
  BY <1>5, <1>6, <1>7, <1>8 DEF Enumerates
<1> QED
  BY <1>9 DEF f

Upto(D, k) == {j \in D : j <= k}

\* Every set of positions has its order.
LEMMA EnumeratesExists ==
    ASSUME NEW n \in Nat, NEW D \in SUBSET (1 .. n)
    PROVE  \E m, e : Enumerates(e, m, D)
<1> DEFINE G == {k \in 0 .. n : \E m, e : Enumerates(e, m, Upto(D, k))}
<1>0. \A j \in D : j \in Nat /\ 1 <= j /\ j <= n
  OBVIOUS
<1>1. 0 \in G
  <2>1. Upto(D, 0) = {}
    <3>1. \A j \in D : ~ (j <= 0)
      BY <1>0
    <3> QED
      BY <3>1, Zenon DEF Upto
  <2>2. Enumerates([i \in 1 .. 0 |-> 0], 0, {})
    <3>1. 1 .. 0 = {}
      OBVIOUS
    <3> QED
      BY <3>1 DEF Enumerates, Increasing
  <2>3. \E m, e : Enumerates(e, m, Upto(D, 0))
    BY <2>1, <2>2
  <2>4. 0 \in 0 .. n
    OBVIOUS
  <2> QED
    BY <2>3, <2>4
<1>2. \A k \in 0 .. n - 1 : k \in G => k + 1 \in G
  <2> SUFFICES ASSUME NEW k \in 0 .. n - 1, k \in G PROVE k + 1 \in G
    OBVIOUS
  <2>1. k + 1 \in 0 .. n /\ k + 1 \in Nat
    OBVIOUS
  <2>2. PICK m, e : Enumerates(e, m, Upto(D, k))
    OBVIOUS
  <2>3. CASE k + 1 \in D
    <3>0. \A j \in D : j <= k + 1 <=> j <= k \/ j = k + 1
      BY <1>0, <2>1
    <3>1. Upto(D, k + 1) = Upto(D, k) \cup {k + 1}
      <4>1. k + 1 <= k + 1
        BY <2>1
      <4> QED
        BY <2>3, <3>0, <4>1, Zenon DEF Upto
    <3>4. \A j \in Upto(D, k) : j < k + 1
      <4>1. \A j \in D : j <= k => j < k + 1
        BY <1>0, <2>1
      <4> QED
        BY <4>1, Zenon DEF Upto
    <3>2. \E ee : Enumerates(ee, m + 1, Upto(D, k) \cup {k + 1})
      BY <2>1, <2>2, <3>4, EnumeratesMore
    <3> QED
      BY <2>1, <3>1, <3>2
  <2>4. CASE k + 1 \notin D
    <3>1. Upto(D, k + 1) = Upto(D, k)
      <4>1. \A j \in D : j <= k + 1 <=> j <= k
        BY <1>0, <2>1, <2>4
      <4> QED
        BY <4>1, Zenon DEF Upto
    <3> QED
      BY <2>1, <2>2, <3>1
  <2> QED
    BY <2>3, <2>4
<1>3. G = 0 .. n
  <2> HIDE DEF G
  <2>1. G \in SUBSET (0 .. n)
    BY DEF G
  <2> QED
    BY <1>1, <1>2, <2>1, BoundedInduction
<1>4. n \in G
  BY <1>3
<1>5. Upto(D, n) = D
  <2>1. \A j \in D : j <= n
    BY <1>0
  <2> QED
    BY <2>1, Zenon DEF Upto
<1> QED
  BY <1>4, <1>5

\* What a sequence has at its positions D and one after them.
OrderGrows(s, D) ==
    \A x \in Nat : (\A j \in D : j < x) =>
      InOrder(s, D \cup {x}) = Append(InOrder(s, D), s[x])

LEMMA InOrderMore ==
    ASSUME NEW V, NEW n \in Nat, NEW D \in SUBSET (1 .. n), NEW s,
           \A j \in D : s[j] \in V
    PROVE  InOrder(s, D) \in Seq(V) /\ OrderGrows(s, D)
<1>1. PICK m, e : Enumerates(e, m, D)
  BY EnumeratesExists
<1>2. m \in Nat /\ e \in [1 .. m -> Nat] /\ Increasing(e, m) /\ D = {e[i] : i \in 1 .. m}
  BY <1>1 DEF Enumerates
<1>3. InOrder(s, D) = [k \in 1 .. m |-> s[e[k]]]
  BY <1>2, InOrderOf
<1>4. \A k \in 1 .. m : s[e[k]] \in V
  BY <1>2
<1>5. InOrder(s, D) \in Seq(V) /\ Len(InOrder(s, D)) = m
  BY <1>2, <1>3, <1>4
<1>6. ASSUME NEW x \in Nat, \A j \in D : j < x
      PROVE  InOrder(s, D \cup {x}) = Append(InOrder(s, D), s[x])
  <2> DEFINE f == [i \in 1 .. m + 1 |-> IF i <= m THEN e[i] ELSE x]
             t == InOrder(s, D \cup {x})
             u == InOrder(s, D)
             W == V \cup {s[x]}
  <2>1. Enumerates(f, m + 1, D \cup {x})
    BY <1>1, <1>6, EnumeratesMore
  <2>2. /\ m + 1 \in Nat /\ f \in [1 .. m + 1 -> Nat] /\ Increasing(f, m + 1)
        /\ D \cup {x} = {f[i] : i \in 1 .. m + 1}
    BY <2>1 DEF Enumerates
  <2>3. /\ \A i \in 1 .. m : i \in 1 .. m + 1 /\ f[i] = e[i]
        /\ f[m + 1] = x /\ m + 1 \in 1 .. m + 1
        /\ \A i \in 1 .. m + 1 : i = m + 1 \/ i \in 1 .. m
    BY <1>2
  <2> HIDE DEF f
  <2>4. t = [k \in 1 .. m + 1 |-> s[f[k]]]
    <3> DEFINE S == D \cup {x}
    <3>1. S = {f[i] : i \in 1 .. m + 1} /\ t = InOrder(s, S)
      BY <2>2
    <3> HIDE DEF S, t, u, W
    <3>2. InOrder(s, {f[j] : j \in 1 .. m + 1}) = [k \in 1 .. m + 1 |-> s[f[k]]]
      BY <2>2, InOrderOf, SMTT(30)
    <3> QED
      BY <3>1, <3>2
  <2>5. /\ Append(u, s[x]) \in Seq(W) /\ Len(Append(u, s[x])) = m + 1
        /\ Append(u, s[x])[m + 1] = s[x]
        /\ \A j \in 1 .. m : Append(u, s[x])[j] = u[j]
    <3>1. u \in Seq(W) /\ s[x] \in W
      BY <1>5
    <3> HIDE DEF u, W
    <3>2. Len(u) = m
      BY <1>5 DEF u
    <3> QED
      BY <3>1, <3>2, AppendType
  <2> DEFINE a == Append(u, s[x])
  <2>6. \A k \in 1 .. m : u[k] = s[e[k]]
    BY <1>3
  <2> HIDE DEF t, u, W
  <2>7. a = [k \in 1 .. m + 1 |-> a[k]]
    <3>1. a \in Seq(W) /\ Len(a) = m + 1
      BY <2>5
    <3> HIDE DEF a
    <3> QED
      BY <3>1
  <2>9. \A k \in 1 .. m + 1 : a[k] = s[f[k]]
    BY <2>3, <2>5, <2>6
  <2> HIDE DEF a
  <2>8. t = a
    BY <2>4, <2>7, <2>9
  <2> QED
    BY <2>8 DEF t, u, a
<1> QED
  BY <1>5, <1>6 DEF OrderGrows

\* A set of positions no larger than the limit is not cut.
LEMMA FirstsAll ==
    ASSUME NEW n \in Nat, NEW D \in SUBSET (1 .. n), NEW limit \in Nat, Cardinality(D) <= limit
    PROVE  Firsts(D, limit) = D
<1>1. IsFiniteSet(D) /\ Cardinality(D) \in Nat
  <2>1. IsFiniteSet(1 .. n)
    BY FS_Interval
  <2>2. IsFiniteSet(D)
    BY <2>1, FS_Subset
  <2> QED
    BY <2>2, FS_CardinalityType
<1>2. ASSUME NEW j \in D PROVE Cardinality({k \in D : k <= j}) <= limit
  <2> DEFINE T == {k \in D : k <= j}
  <2>1. T \in SUBSET D
    OBVIOUS
  <2> HIDE DEF T
  <2>2. Cardinality(T) <= Cardinality(D) /\ IsFiniteSet(T)
    BY <1>1, <2>1, FS_Subset
  <2>3. Cardinality(T) \in Nat
    BY <2>2, FS_CardinalityType
  <2> QED
    BY <1>1, <2>2, <2>3 DEF T
<1> QED
  BY <1>2 DEF Firsts

\* What follows the separators a string begins with.
LEMMA FileAfter ==
    ASSUME NEW V, NEW r \in Seq(V), NEW k \in 0 .. Len(r), k <= MaxDirs,
           \A j \in 1 .. Len(r) : r[j] = Sep <=> j <= k
    PROVE  FileIn(r) = SubSeq(r, k + 1, Len(r))
<1>1. SepsIn(r) = 1 .. k /\ k \in Nat
  BY DEF SepsIn
<1>2. IsFiniteSet(1 .. k) /\ Cardinality(1 .. k) = k
  BY <1>1, FS_Interval
<1>3. Firsts(SepsIn(r), MaxDirs) = 1 .. k
  BY <1>1, <1>2, LookupAssumption, FirstsAll
<1> DEFINE U == (1 .. k) \cup {0}
<1>4. U \in SUBSET (0 .. k) /\ U # {} /\ k \in U
  BY <1>1
<1> HIDE DEF U
<1>5. Greatest(U) \in U /\ \A j \in U : j <= Greatest(U)
  BY <1>1, <1>4, GreatestExists
<1> DEFINE g == Greatest(U)
<1>6. g \in 0 .. k /\ k <= g
  BY <1>4, <1>5
<1> HIDE DEF g
<1>7. g = k
  BY <1>1, <1>6
<1> QED
  BY <1>3, <1>7 DEF FileIn, U, g

LEMMA OneOfSeq ==
    ASSUME NEW V, NEW r \in Seq(V), NEW n \in 1 .. Len(r)
    PROVE  SubSeq(r, n, n) = <<r[n]>>
<1>1. /\ SubSeq(r, n, n) \in Seq(V) /\ Len(SubSeq(r, n, n)) = 1
      /\ SubSeq(r, n, n)[1] = r[n]
  OBVIOUS
<1>2. <<r[n]>> \in Seq(V) /\ Len(<<r[n]>>) = 1 /\ <<r[n]>>[1] = r[n]
  OBVIOUS
<1>3. \A i \in 1 .. 1 : i = 1
  OBVIOUS
<1>4. \A q \in Seq(V), p \in Seq(V) : Len(q) = 1 /\ Len(p) = 1 /\ q[1] = p[1] => q = p
  BY <1>3
<1> QED
  BY <1>1, <1>2, <1>4

\* A string that is not too deep is taken apart whole: its names are those of
\* its directories, and of its file unless it ends with a separator.
LEMMA DecomposeShape ==
    ASSUME NEW names, Sep \notin names, NEW s, IsString(s, names), s # << >>, Shallow(s)
    PROVE  /\ Decompose(s).dirs \in Seq(names)
           /\ Last(s) = Sep => /\ ~ HasFile(s)
                               /\ NamesIn(s) = Decompose(s).dirs
           /\ Last(s) # Sep => /\ HasFile(s) /\ Last(s) \in names
                               /\ Decompose(s).file = <<Last(s)>>
                               /\ NamesIn(s) = Append(Decompose(s).dirs, Last(s))
<1> DEFINE N == Len(s)
           D == DirsIn(s)
           b == IF D = {} THEN 1 ELSE Greatest(D) + 2
           r == SubSeq(s, b, N)
           k == IF s[N] = Sep THEN N - b + 1 ELSE N - b
<1>1. /\ s \in Seq(names \cup {Sep}) /\ N \in Nat /\ N # 0
      /\ \A j \in 1 .. N - 1 : s[j] = Sep \/ s[j+1] = Sep
      /\ DOMAIN s = 1 .. N /\ \A j \in 1 .. N : s[j] \in names \cup {Sep}
      /\ N \in 1 .. N
  BY DEF IsString
<1>2. Last(s) = s[N]
  BY DEF Last
<1>3. /\ D \in SUBSET (1 .. N - 1)
      /\ \A j \in D : s[j] \in names /\ j \in Nat
      /\ \A j \in 1 .. N - 1 : s[j] # Sep => j \in D
  BY <1>1 DEF DirsIn
<1>4. MaxDirs \in Nat /\ Cardinality(D) <= MaxDirs
  BY LookupAssumption DEF Shallow
<1>5. Firsts(D, MaxDirs) = D
  <2> HIDE DEF D, N
  <2>1. N - 1 \in Nat
    BY <1>1
  <2> QED
    BY <1>3, <1>4, <2>1, FirstsAll
<1>6. Decompose(s).dirs = InOrder(s, D) /\ Decompose(s).file = FileIn(r)
  BY <1>5 DEF Decompose
<1> HIDE DEF D, N
<1>7. InOrder(s, D) \in Seq(names) /\ InOrder(s, D \cup {N}) = Append(InOrder(s, D), s[N])
  <2> DEFINE n == N - 1
  <2>1. n \in Nat /\ D \in SUBSET (1 .. n) /\ \A j \in D : j < N
    BY <1>1, <1>3
  <2>2. \A j \in D : s[j] \in names
    BY <1>3
  <2> HIDE DEF n
  <2>3. InOrder(s, D) \in Seq(names) /\ OrderGrows(s, D)
    BY <2>1, <2>2, InOrderMore
  <2> QED
    BY <1>1, <2>1, <2>3 DEF OrderGrows
<1>8. NamesIn(s) = InOrder(s, IF s[N] = Sep THEN D ELSE D \cup {N})
  <2>1. {j \in DOMAIN s : s[j] # Sep} = IF s[N] = Sep THEN D ELSE D \cup {N}
    <3>1. \A j \in 1 .. N : j = N \/ j \in 1 .. N - 1
      BY <1>1
    <3>2. \A j \in D : j \in 1 .. N /\ s[j] # Sep
      BY <1>1, <1>3
    <3> QED
      BY <1>1, <1>3, <3>1, <3>2
  <2> QED
    BY <2>1 DEF NamesIn
<1>9. b \in 1 .. N + 1 /\ (s[N] # Sep => b <= N) /\ \A j \in b .. N - 1 : s[j] = Sep
  <2>1. CASE D = {}
    BY <1>1, <1>3, <2>1
  <2>2. CASE D # {}
    <3> DEFINE g == Greatest(D)
    <3>1. g \in D /\ \A j \in D : j <= g
      <4>1. D \in SUBSET (0 .. N) /\ N \in Nat
        BY <1>1, <1>3
      <4> QED
        BY <2>2, <4>1, GreatestExists
    <3> HIDE DEF g
    <3>2. g \in 1 .. N - 1 /\ s[g] # Sep
      BY <1>3, <3>1
    <3>3. s[g + 1] = Sep
      BY <1>1, <3>2
    <3>4. b = g + 2
      BY <2>2 DEF g
    <3>5. s[N] # Sep => g + 1 # N
      BY <3>3
    <3>6. \A j \in b .. N - 1 : j \in 1 .. N - 1 /\ ~ (j <= g)
      BY <1>1, <3>2, <3>4
    <3> QED
      BY <1>1, <1>3, <3>1, <3>2, <3>4, <3>5, <3>6
  <2> QED
    BY <2>1, <2>2
<1> HIDE DEF b
<1>10. /\ r \in Seq(names \cup {Sep}) /\ Len(r) = N - b + 1
       /\ \A i \in 1 .. N - b + 1 : r[i] = s[b + i - 1]
  <2>1. b \in 1 .. Len(s) + 1 /\ N = Len(s)
    BY <1>9 DEF N
  <2> QED
    BY <1>1, <2>1
<1> HIDE DEF r
<1>11. k \in 0 .. Len(r) /\ k \in Nat /\ b + k - 1 <= N /\ b \in Nat
  BY <1>1, <1>9, <1>10
<1>12. \A j \in 1 .. Len(r) : r[j] = Sep <=> j <= k
  <2> SUFFICES ASSUME NEW j \in 1 .. N - b + 1 PROVE s[b + j - 1] = Sep <=> j <= k
    BY <1>10
  <2>1. b + j - 1 = N \/ b + j - 1 \in b .. N - 1
    BY <1>1, <1>11
  <2>2. CASE b + j - 1 = N
    <3>1. j = N - b + 1
      BY <1>1, <1>11, <2>2
    <3> QED
      BY <1>1, <1>11, <2>2, <3>1
  <2>3. CASE b + j - 1 \in b .. N - 1
    <3>1. j <= N - b /\ s[b + j - 1] = Sep
      BY <1>1, <1>9, <1>11, <2>3
    <3> QED
      BY <1>1, <1>11, <3>1
  <2> QED
    BY <2>1, <2>2, <2>3
<1> HIDE DEF k
<1>13. k <= MaxDirs
  <2> SUFFICES ASSUME k > MaxDirs PROVE FALSE
    BY <1>4, <1>11
  <2>1. b \in 1 .. Len(s) - MaxDirs
    BY <1>1, <1>4, <1>9, <1>11 DEF N
  <2>2. PICK x \in b .. b + MaxDirs : s[x] # Sep
    BY <2>1 DEF Shallow
  <2>3. x - b + 1 \in 1 .. Len(r) /\ x - b + 1 <= k /\ b + (x - b + 1) - 1 = x
    BY <1>1, <1>4, <1>10, <1>11
  <2>4. r[x - b + 1] = Sep
    BY <1>12, <2>3
  <2>5. r[x - b + 1] = s[x]
    BY <1>10, <2>3
  <2> QED
    BY <2>2, <2>4, <2>5
<1>14. Decompose(s).file = SubSeq(r, k + 1, Len(r))
  BY <1>6, <1>10, <1>11, <1>12, <1>13, FileAfter
<1>15. CASE s[N] = Sep
  <2>1. k = Len(r)
    BY <1>10, <1>15 DEF k
  <2>2. Decompose(s).file = << >>
    BY <1>10, <1>14, <2>1
  <2>3. N \in SepsIn(s)
    BY <1>1, <1>15 DEF SepsIn
  <2> QED
    BY <1>2, <1>6, <1>7, <1>8, <1>15, <2>2, <2>3 DEF HasFile
<1>16. CASE s[N] # Sep
  <2>1. k + 1 = Len(r) /\ b + Len(r) - 1 = N /\ Len(r) \in 1 .. N - b + 1
    BY <1>1, <1>9, <1>10, <1>11, <1>16 DEF k
  <2>2. r[Len(r)] = s[N]
    BY <1>10, <2>1
  <2>3. Decompose(s).file = <<s[N]>>
    <3>1. SubSeq(r, Len(r), Len(r)) = <<r[Len(r)]>>
      <4>1. Len(r) \in 1 .. Len(r)
        BY <1>10, <2>1
      <4> QED
        BY <1>10, <4>1, OneOfSeq
    <3> QED
      BY <1>14, <2>1, <2>2, <3>1
  <2>4. <<s[N]>> # << >> /\ s[N] \in names
    BY <1>1, <1>16
  <2> QED
    BY <1>2, <1>6, <1>7, <1>8, <1>16, <2>3, <2>4 DEF HasFile
<1> QED
  BY <1>15, <1>16

-----------------------------------------------------------------------------
(* What get_inode answers                                                  *)

\* A file is on the way to the first n names of a path.
Blocked(t, p, n) ==
    \E k \in 0 .. n - 1 : SubSeq(p, 1, k) \in DOMAIN t /\ ~ IsFolder(t, SubSeq(p, 1, k))

LEMMA PrefixOfPrefix ==
    ASSUME NEW S, NEW p \in Seq(S), NEW n \in 0 .. Len(p), NEW k \in 0 .. n
    PROVE  SubSeq(SubSeq(p, 1, n), 1, k) = SubSeq(p, 1, k)
<1> DEFINE q == SubSeq(p, 1, n)
<1>1. q \in Seq(S) /\ Len(q) = n /\ \A j \in 1 .. n : q[j] = p[j]
  BY PrefixShape
<1>2. k \in 0 .. Len(p) /\ k \in 0 .. Len(q) /\ \A j \in 1 .. k : j \in 1 .. n
  BY <1>1
<1> HIDE DEF q
<1>3. /\ SubSeq(q, 1, k) \in Seq(S) /\ Len(SubSeq(q, 1, k)) = k
      /\ \A j \in 1 .. k : SubSeq(q, 1, k)[j] = q[j]
  BY <1>1, <1>2, PrefixShape
<1>4. /\ SubSeq(p, 1, k) \in Seq(S) /\ Len(SubSeq(p, 1, k)) = k
      /\ \A j \in 1 .. k : SubSeq(p, 1, k)[j] = p[j]
  BY <1>2, PrefixShape
<1>5. \A j \in 1 .. k : SubSeq(q, 1, k)[j] = SubSeq(p, 1, k)[j]
  BY <1>1, <1>2, <1>3, <1>4
<1>6. SubSeq(q, 1, k) = SubSeq(p, 1, k)
  BY <1>3, <1>4, <1>5
<1> QED
  BY <1>6 DEF q

LEMMA PrefixMore ==
    ASSUME NEW S, NEW p \in Seq(S), NEW n \in 1 .. Len(p)
    PROVE  Append(SubSeq(p, 1, n - 1), p[n]) = SubSeq(p, 1, n)
OBVIOUS

LEMMA NotBlocked ==
    ASSUME NEW t, NEW names, IsTree(t, names), NEW p \in Seq(names), NEW n \in 0 .. Len(p),
           SubSeq(p, 1, n) \in DOMAIN t
    PROVE  ~ Blocked(t, p, n)
<1> SUFFICES ASSUME NEW k \in 0 .. n - 1, ~ IsFolder(t, SubSeq(p, 1, k)) PROVE FALSE
  BY DEF Blocked
<1> DEFINE q == SubSeq(p, 1, n)
<1>1. q \in DOMAIN t /\ Len(q) = n /\ k \in 0 .. n /\ k < n
  BY PrefixShape
<1>2. SubSeq(q, 1, k) = SubSeq(p, 1, k)
  BY <1>1, PrefixOfPrefix
<1> HIDE DEF q
<1>3. IsFolder(t, SubSeq(q, 1, k))
  BY <1>1, PrefixInTree
<1> QED
  BY <1>2, <1>3

LEMMA OutOfTree ==
    ASSUME NEW t, NEW names, IsTree(t, names), NEW p \in Seq(names), NEW n \in 1 .. Len(p),
           ~ (SubSeq(p, 1, n - 1) \in DOMAIN t /\ IsFolder(t, SubSeq(p, 1, n - 1)))
    PROVE  SubSeq(p, 1, n) \notin DOMAIN t
<1>1. Front(SubSeq(p, 1, n)) = SubSeq(p, 1, n - 1) /\ SubSeq(p, 1, n) # << >>
  BY FrontOfPrefix
<1> QED
  BY <1>1 DEF IsTree

\* Where the walk is after n directories.
WalksTo(t, p, n, x) ==
    IF SubSeq(p, 1, n) \in DOMAIN t THEN x = SubSeq(p, 1, n)
    ELSE IF Blocked(t, p, n) THEN x \in DOMAIN t /\ ~ IsFolder(t, x)
    ELSE x = NoInode

LEMMA WalksOn ==
    ASSUME NEW t, NEW names, IsTree(t, names), NEW p \in Seq(names), NEW n \in 1 .. Len(p),
           NEW x, WalksTo(t, p, n - 1, x)
    PROVE  WalksTo(t, p, n, Onward(t, x, p[n]))
<1> DEFINE q == SubSeq(p, 1, n - 1)
           r == SubSeq(p, 1, n)
<1>1. n - 1 \in 0 .. Len(p) /\ n - 1 \in 0 .. n - 1 /\ n \in Nat
  OBVIOUS
<1>2. \A k \in 0 .. n - 1 : k = n - 1 \/ k \in 0 .. (n - 1) - 1
  OBVIOUS
<1>3. \A k \in 0 .. (n - 1) - 1 : k \in 0 .. n - 1
  OBVIOUS
<1>4. Append(q, p[n]) = r
  BY PrefixMore
<1>5. Blocked(t, p, n) <=> Blocked(t, p, n - 1) \/ (q \in DOMAIN t /\ ~ IsFolder(t, q))
  BY <1>1, <1>2, <1>3 DEF Blocked
<1>6. q \in DOMAIN t => ~ Blocked(t, p, n - 1)
  BY <1>1, NotBlocked
<1>7. ~ (q \in DOMAIN t /\ IsFolder(t, q)) => r \notin DOMAIN t
  BY OutOfTree
<1> HIDE DEF q, r
<1>8. CASE q \in DOMAIN t /\ IsFolder(t, q)
  <2>1. x = q
    BY <1>8 DEF WalksTo, q
  <2>2. Onward(t, x, p[n]) = IF r \in DOMAIN t THEN r ELSE NoInode
    BY <1>4, <1>8, <2>1 DEF Onward, Child
  <2> QED
    BY <1>5, <1>6, <1>8, <2>2 DEF WalksTo, r
<1>9. CASE q \in DOMAIN t /\ ~ IsFolder(t, q)
  <2>1. x = q
    BY <1>9 DEF WalksTo, q
  <2>2. Onward(t, x, p[n]) = q
    BY <1>9, <2>1 DEF Onward
  <2> QED
    BY <1>5, <1>7, <1>9, <2>2 DEF WalksTo, r
<1>10. CASE q \notin DOMAIN t
  <2>1. IF Blocked(t, p, n - 1) THEN x \in DOMAIN t /\ ~ IsFolder(t, x) ELSE x = NoInode
    BY <1>10 DEF WalksTo, q
  <2>2. Onward(t, x, p[n]) = x
    BY <2>1 DEF Onward, IsFolder
  <2> QED
    BY <1>5, <1>7, <1>10, <2>1, <2>2 DEF WalksTo, r
<1> QED
  BY <1>8, <1>9, <1>10

LEMMA WalkExact ==
    ASSUME NEW t, NEW names, IsTree(t, names), NEW p \in Seq(names)
    PROVE  WalksTo(t, p, Len(p), Walk(t, p))
<1> DEFINE N == Len(p)
<1>1. N \in Nat /\ << >> \in DOMAIN t
  BY DEF IsTree
<1>2. PICK at \in [0 .. N -> DOMAIN t \cup {NoInode}] :
        /\ at[0] = << >>
        /\ \A n \in 1 .. N : at[n] = Onward(t, at[n-1], p[n])
        /\ Walk(t, p) = at[N]
  BY <1>1, WalkDef
<1> DEFINE G == {n \in 0 .. N : WalksTo(t, p, n, at[n])}
<1>3. 0 \in G
  <2>1. SubSeq(p, 1, 0) = << >>
    OBVIOUS
  <2>2. WalksTo(t, p, 0, at[0])
    BY <1>1, <1>2, <2>1 DEF WalksTo
  <2> QED
    BY <1>1, <2>2
<1>4. \A n \in 0 .. N - 1 : n \in G => n + 1 \in G
  <2> SUFFICES ASSUME NEW n \in 0 .. N - 1, WalksTo(t, p, n, at[n])
               PROVE  n + 1 \in G
    OBVIOUS
  <2> DEFINE m == n + 1
  <2>1. m \in 1 .. N /\ m \in 0 .. N /\ m - 1 = n
    BY <1>1
  <2> HIDE DEF m
  <2>2. at[m] = Onward(t, at[m - 1], p[m]) /\ WalksTo(t, p, m - 1, at[m - 1])
    BY <1>2, <2>1
  <2>3. WalksTo(t, p, m, at[m])
    BY <2>1, <2>2, WalksOn
  <2>4. m \in G
    BY <2>1, <2>3
  <2> HIDE DEF G
  <2> QED
    BY <2>4 DEF m
<1>5. G = 0 .. N
  <2> HIDE DEF G
  <2>1. G \in SUBSET (0 .. N)
    BY DEF G
  <2> QED
    BY <1>1, <1>3, <1>4, <2>1, BoundedInduction
<1>6. N \in G
  BY <1>1, <1>5
<1> QED
  BY <1>2, <1>6

\* What is right for get_inode to answer: the inode of the names of the
\* string; where there is none, that there is none, or that a file is in the
\* way, or that file when the string ends with a separator.
Answers(t, s, found) ==
    LET p == NamesIn(s) IN
    IF p \in DOMAIN t THEN found = Found(p)
    ELSE IF ~ Blocked(t, p, Len(p)) THEN found = Fails("not_found")
    ELSE IF Last(s) # Sep THEN found = Fails("not_a_dir")
    ELSE \E q \in DOMAIN t : found = Found(q) /\ ~ IsFolder(t, q)

LEMMA GetInodeExact ==
    ASSUME NEW t, NEW names, Sep \notin names, IsTree(t, names),
           NEW s, IsString(s, names), s # << >>, Shallow(s)
    PROVE  NamesIn(s) \in Seq(names) /\ Answers(t, s, GetInode(t, s))
<1> DEFINE dirs == Decompose(s).dirs
           at == Walk(t, dirs)
           p == NamesIn(s)
<1>1. dirs \in Seq(names) /\ NoInode \notin DOMAIN t
  BY DecomposeShape DEF IsTree
<1>2. WalksTo(t, dirs, Len(dirs), at)
  <2> HIDE DEF dirs
  <2> QED
    BY <1>1, WalkExact
<1>3. SubSeq(dirs, 1, Len(dirs)) = dirs
  BY <1>1
<1>4. CASE Last(s) = Sep
  <2>1. p = dirs /\ ~ HasFile(s)
    BY <1>4, DecomposeShape
  <2>2. GetInode(t, s) = IF at = NoInode THEN Fails("not_found") ELSE Found(at)
    BY <2>1 DEF GetInode
  <2> HIDE DEF dirs, at, p
  <2>3. IF p \in DOMAIN t THEN at = p
        ELSE IF Blocked(t, p, Len(p)) THEN at \in DOMAIN t /\ ~ IsFolder(t, at)
        ELSE at = NoInode
    BY <1>2, <1>3, <2>1 DEF WalksTo
  <2>4. Answers(t, s, GetInode(t, s))
    BY <1>1, <1>4, <2>2, <2>3 DEF Answers, p
  <2> QED
    BY <1>1, <2>1, <2>4 DEF p
<1>5. CASE Last(s) # Sep
  <2> DEFINE x == Last(s)
             n == Len(p)
  <2>1. /\ p = Append(dirs, x) /\ HasFile(s) /\ x \in names
        /\ Decompose(s).file = <<x>>
    BY <1>5, DecomposeShape
  <2>2. GetInode(t, s) =
          IF at = NoInode THEN Fails("not_found")
          ELSE IF ~ IsFolder(t, at) THEN Fails("not_a_dir")
          ELSE IF Child(t, at, x) = NoInode THEN Fails("not_found")
          ELSE Found(Child(t, at, x))
    <3>1. Len(<<x>>) = 1 /\ <<x>>[1] = x
      OBVIOUS
    <3> QED
      BY <2>1, <3>1 DEF GetInode
  <2> HIDE DEF dirs, at
  <2>3. p \in Seq(names) /\ n = Len(dirs) + 1 /\ p[n] = x /\ n \in 1 .. Len(p) /\ n - 1 = Len(dirs)
    BY <1>1, <2>1
  <2>4. SubSeq(p, 1, n - 1) = dirs /\ SubSeq(p, 1, n) = p
    BY <1>1, <2>1
  <2> HIDE DEF p
  <2>5. Blocked(t, p, n - 1) <=> Blocked(t, dirs, Len(dirs))
    <3>1. \A k \in 0 .. n - 2 : SubSeq(dirs, 1, k) = SubSeq(p, 1, k)
      <4>1. \A k \in 0 .. n - 2 : k \in 0 .. n - 1 /\ n - 1 \in 0 .. Len(p)
        BY <2>3
      <4> QED
        BY <2>3, <2>4, <4>1, PrefixOfPrefix
    <3>2. 0 .. n - 1 - 1 = 0 .. n - 2 /\ 0 .. Len(dirs) - 1 = 0 .. n - 2
      BY <1>1, <2>3
    <3> HIDE DEF n
    <3> QED
      BY <3>1, <3>2 DEF Blocked
  <2>6. WalksTo(t, p, n - 1, at)
    BY <1>2, <1>3, <2>4, <2>5 DEF WalksTo
  <2>7. WalksTo(t, p, n, Onward(t, at, x))
    BY <2>3, <2>6, WalksOn
  <2> HIDE DEF x, n
  <2>8. IF p \in DOMAIN t THEN Onward(t, at, x) = p
        ELSE IF Blocked(t, p, n) THEN Onward(t, at, x) \in DOMAIN t /\ ~ IsFolder(t, Onward(t, at, x))
        ELSE Onward(t, at, x) = NoInode
    BY <2>4, <2>7 DEF WalksTo
  <2>9. Answers(t, s, GetInode(t, s))
    <3>1. CASE IsFolder(t, at)
      <4>1. Onward(t, at, x) = Child(t, at, x) /\ at # NoInode
        BY <3>1 DEF Onward, IsFolder
      <4>2. ~ Blocked(t, p, n)
        <5>1. Child(t, at, x) = NoInode \/ Child(t, at, x) = p
          <6>1. at = dirs
            BY <1>2, <1>3, <3>1, <4>1 DEF WalksTo
          <6> QED
            BY <2>1, <6>1 DEF Child
        <5>2. p \in DOMAIN t => ~ Blocked(t, p, n)
          <6>1. n \in 0 .. Len(p)
            BY <2>3
          <6> QED
            BY <2>3, <2>4, <6>1, NotBlocked
        <5> QED
          BY <1>1, <2>8, <4>1, <5>1, <5>2
      <4> QED
        BY <1>1, <1>5, <2>2, <2>8, <3>1, <4>1, <4>2 DEF Answers, p, n
    <3>2. CASE ~ IsFolder(t, at)
      <4>1. Onward(t, at, x) = at
        BY <3>2 DEF Onward
      <4>2. p \notin DOMAIN t
        <5>1. ~ (dirs \in DOMAIN t /\ IsFolder(t, dirs))
          BY <1>2, <1>3, <3>2 DEF WalksTo
        <5> QED
          BY <2>3, <2>4, <5>1, OutOfTree
      <4> QED
        BY <1>1, <1>5, <2>2, <2>8, <3>2, <4>1, <4>2 DEF Answers, p, n
    <3> QED
      BY <3>1, <3>2
  <2> QED
    BY <2>3, <2>9 DEF p
<1> QED
  BY <1>4, <1>5

LEMMA BlockedMeans ==
    ASSUME NEW t, NEW names, IsTree(t, names), NEW p \in Seq(names)
    PROVE  Blocked(t, p, Len(p)) <=>
             \E q \in DOMAIN t : IsStrictPrefix(q, p) /\ ~ IsFolder(t, q)
<1>1. ASSUME NEW k \in 0 .. Len(p) - 1
      PROVE  IsStrictPrefix(SubSeq(p, 1, k), p)
  <2> DEFINE q == SubSeq(p, 1, k)
  <2>1. k \in 0 .. Len(p) /\ k < Len(p) /\ Len(p) \in Nat
    OBVIOUS
  <2>2. q \in Seq(names) /\ Len(q) = k
    BY <2>1, PrefixShape
  <2>3. SubSeq(q, 1, k) = SubSeq(p, 1, k)
    BY <2>1, PrefixOfPrefix
  <2>4. q # p
    BY <2>1, <2>2
  <2>5. Len(q) <= Len(p)
    BY <2>1, <2>2
  <2> HIDE DEF q
  <2>6. IsPrefix(q, p)
    BY <2>2, <2>3, <2>5 DEF IsPrefix, q
  <2>7. IsStrictPrefix(q, p)
    BY <2>4, <2>6 DEF IsStrictPrefix
  <2> QED
    BY <2>7 DEF q
<1>2. ASSUME NEW q \in DOMAIN t, IsStrictPrefix(q, p)
      PROVE  \E k \in 0 .. Len(p) - 1 : q = SubSeq(p, 1, k)
  <2>1. q \in Seq(names) /\ Len(q) \in Nat
    BY DEF IsTree
  <2>2. Len(q) <= Len(p) /\ SubSeq(q, 1, Len(q)) = SubSeq(p, 1, Len(q)) /\ q # p
    BY <1>2 DEF IsStrictPrefix, IsPrefix
  <2>3. SubSeq(q, 1, Len(q)) = q /\ SubSeq(p, 1, Len(p)) = p
    BY <2>1
  <2>4. Len(q) \in 0 .. Len(p) - 1
    BY <2>1, <2>2, <2>3
  <2> QED
    BY <2>2, <2>3, <2>4
<1> QED
  BY <1>1, <1>2 DEF Blocked

\* What a sequence has at its positions is what another one has there, or
\* further on.
Moved(D, c) == {j + c : j \in D}

LEMMA InOrderMoved ==
    ASSUME NEW n \in Nat, NEW D \in SUBSET (1 .. n), NEW c \in Nat, NEW s, NEW u,
           \A j \in D : u[j + c] = s[j]
    PROVE  InOrder(u, Moved(D, c)) = InOrder(s, D)
<1>1. PICK m, e : Enumerates(e, m, D)
  BY EnumeratesExists
<1>2. m \in Nat /\ e \in [1 .. m -> Nat] /\ Increasing(e, m) /\ D = {e[i] : i \in 1 .. m}
  BY <1>1 DEF Enumerates
<1> DEFINE f == [i \in 1 .. m |-> e[i] + c]
<1>3. f \in [1 .. m -> Nat] /\ \A i \in 1 .. m : f[i] = e[i] + c
  BY <1>2
<1> HIDE DEF f
<1>4. Increasing(f, m)
  <2> SUFFICES ASSUME NEW i \in 1 .. m, NEW j \in 1 .. m, i < j PROVE f[i] < f[j]
    BY DEF Increasing
  <2>1. e[i] < e[j] /\ e[i] \in Nat /\ e[j] \in Nat
    BY <1>2 DEF Increasing
  <2> QED
    BY <1>3, <2>1
<1>5. Moved(D, c) = {f[i] : i \in 1 .. m}
  <2>1. \A x : x \in D <=> \E i \in 1 .. m : x = e[i]
    BY <1>2
  <2>2. \A y : y \in Moved(D, c) <=> \E x \in D : y = x + c
    BY DEF Moved
  <2>3. \A y : y \in Moved(D, c) <=> \E i \in 1 .. m : y = f[i]
    <3>1. ASSUME NEW y, y \in Moved(D, c) PROVE \E i \in 1 .. m : y = f[i]
      <4>1. PICK x \in D : y = x + c
        BY <2>2, <3>1
      <4>2. PICK i \in 1 .. m : x = e[i]
        BY <2>1
      <4> QED
        BY <1>3, <4>1, <4>2
    <3>2. ASSUME NEW i \in 1 .. m PROVE f[i] \in Moved(D, c)
      <4>1. e[i] \in D
        BY <2>1
      <4> QED
        BY <1>3, <2>2, <4>1
    <3> QED
      BY <3>1, <3>2
  <2> QED
    BY <2>3
<1>6. InOrder(s, D) = [k \in 1 .. m |-> s[e[k]]]
  BY <1>2, InOrderOf
<1>7. InOrder(u, {f[i] : i \in 1 .. m}) = [k \in 1 .. m |-> u[f[k]]]
  BY <1>2, <1>3, <1>4, InOrderOf
<1>8. \A k \in 1 .. m : u[f[k]] = s[e[k]]
  BY <1>2, <1>3
<1> QED
  BY <1>5, <1>6, <1>7, <1>8

NamePlaces(s) == {j \in DOMAIN s : s[j] # Sep}

LEMMA NamesInDef == \A s : NamesIn(s) = InOrder(s, NamePlaces(s))
BY DEF NamesIn, NamePlaces

\* A separator before a string changes nothing for who reads the names.
LEMMA LeadingSeparator ==
    ASSUME NEW names, NEW s, IsString(s, names), s # << >>
    PROVE  /\ IsString(<<Sep>> \o s, names) /\ <<Sep>> \o s # << >>
           /\ Last(<<Sep>> \o s) = Last(s)
           /\ NamesIn(<<Sep>> \o s) = NamesIn(s)
<1> DEFINE u == <<Sep>> \o s
           N == Len(s)
           V == names \cup {Sep}
<1>1. s \in Seq(V) /\ N \in Nat /\ N # 0
  BY DEF IsString
<1>2. <<Sep>> \in Seq(V) /\ Len(<<Sep>>) = 1 /\ <<Sep>>[1] = Sep
  OBVIOUS
<1>3. /\ u \in Seq(V) /\ Len(u) = N + 1 /\ u[1] = Sep
      /\ \A j \in 1 .. N : u[j + 1] = s[j]
  <2> HIDE DEF V
  <2> QED
    BY <1>1, <1>2
<1> HIDE DEF u
<1>4. \A j \in 1 .. N + 1 : j = 1 \/ (j - 1 \in 1 .. N /\ (j - 1) + 1 = j)
  BY <1>1
<1>5. IsString(u, names)
  <2> SUFFICES ASSUME NEW j \in 1 .. N, j # 1 PROVE u[j] = Sep \/ u[j + 1] = Sep
    BY <1>1, <1>3 DEF IsString
  <2>1. j - 1 \in 1 .. N - 1 /\ j - 1 \in 1 .. N /\ (j - 1) + 1 = j
    BY <1>1
  <2>2. s[j - 1] = Sep \/ s[(j - 1) + 1] = Sep
    BY <2>1 DEF IsString
  <2>3. u[j] = s[j - 1] /\ u[j + 1] = s[j]
    BY <1>3, <2>1
  <2> QED
    BY <2>1, <2>2, <2>3
<1>6. u # << >>
  BY <1>1, <1>3
<1>7. Last(u) = Last(s)
  <2>1. N \in 1 .. N /\ u[N + 1] = s[N]
    BY <1>1, <1>3
  <2> QED
    BY <1>3, <2>1 DEF Last
<1>8. NamesIn(u) = NamesIn(s)
  <2> DEFINE D == NamePlaces(s)
  <2>1. D \in SUBSET (1 .. N) /\ \A j \in D : u[j + 1] = s[j]
    <3>1. D \in SUBSET (1 .. N)
      BY <1>1 DEF NamePlaces
    <3> QED
      BY <1>3, <3>1
  <2>2. NamePlaces(u) = Moved(D, 1)
    <3>1. ASSUME NEW i \in 1 .. N + 1, u[i] # Sep
          PROVE  i - 1 \in D /\ (i - 1) + 1 = i
      <4>1. i - 1 \in 1 .. N /\ (i - 1) + 1 = i
        BY <1>3, <1>4, <3>1
      <4>2. s[i - 1] # Sep
        BY <1>3, <3>1, <4>1
      <4> QED
        BY <1>1, <4>1, <4>2 DEF NamePlaces
    <3>2. \A j \in D : j + 1 \in 1 .. N + 1 /\ u[j + 1] # Sep
      BY <1>1, <1>3 DEF NamePlaces
    <3>3. DOMAIN u = 1 .. N + 1
      BY <1>1, <1>3
    <3> HIDE DEF D
    <3>4. \A i \in NamePlaces(u) : \E j \in D : i = j + 1
      BY <3>1, <3>3 DEF NamePlaces
    <3>5. \A j \in D : j + 1 \in NamePlaces(u)
      BY <3>2, <3>3 DEF NamePlaces
    <3> QED
      BY <3>4, <3>5 DEF Moved
  <2> HIDE DEF D
  <2>3. InOrder(u, Moved(D, 1)) = InOrder(s, D)
    BY <1>1, <2>1, InOrderMoved
  <2> QED
    BY <2>2, <2>3, NamesInDef DEF D
<1> QED
  BY <1>5, <1>6, <1>7, <1>8 DEF u

\* A name after a string and a separator is one more name.
LEMMA NameAfter ==
    ASSUME NEW names, Sep \notin names, NEW s, IsString(s, names), NEW x \in names
    PROVE  LET u == s \o <<Sep, x>> IN
           /\ IsString(u, names) /\ u # << >> /\ Last(u) = x
           /\ NamesIn(u) = Append(NamesIn(s), x)
<1> DEFINE u == s \o <<Sep, x>>
           N == Len(s)
           V == names \cup {Sep}
<1>1. s \in Seq(V) /\ N \in Nat
  BY DEF IsString
<1>2. <<Sep, x>> \in Seq(V) /\ Len(<<Sep, x>>) = 2 /\ <<Sep, x>>[1] = Sep /\ <<Sep, x>>[2] = x
  OBVIOUS
<1>3. /\ u \in Seq(V) /\ Len(u) = N + 2 /\ u[N + 1] = Sep /\ u[N + 2] = x
      /\ \A j \in 1 .. N : u[j] = s[j]
  <2> HIDE DEF V
  <2> QED
    BY <1>1, <1>2
<1> HIDE DEF u
<1>4. IsString(u, names)
  <2> SUFFICES ASSUME NEW j \in 1 .. N + 1 PROVE u[j] = Sep \/ u[j + 1] = Sep
    BY <1>1, <1>3 DEF IsString
  <2>1. j \in 1 .. N - 1 \/ j = N \/ j = N + 1
    BY <1>1
  <2>2. CASE j \in 1 .. N - 1
    <3>1. s[j] = Sep \/ s[j + 1] = Sep
      BY <2>2 DEF IsString
    <3>2. u[j] = s[j] /\ u[j + 1] = s[j + 1]
      BY <1>1, <1>3, <2>2
    <3> QED
      BY <3>1, <3>2
  <2> QED
    BY <1>3, <2>1, <2>2
<1>5. u # << >> /\ Last(u) = x
  BY <1>1, <1>3 DEF Last
<1>6. NamesIn(u) = Append(NamesIn(s), x)
  <2> DEFINE D == NamePlaces(s)
  <2>1. D \in SUBSET (1 .. N) /\ \A j \in D : u[j] = s[j] /\ u[j] \in names
    BY <1>1, <1>3 DEF NamePlaces
  <2>2. NamePlaces(u) = D \cup {N + 2}
    <3>1. \A i \in 1 .. N + 2 : i \in 1 .. N \/ i = N + 1 \/ i = N + 2
      BY <1>1
    <3>2. DOMAIN u = 1 .. N + 2 /\ DOMAIN s = 1 .. N
      BY <1>1, <1>3
    <3>3. \A i \in 1 .. N : i \in 1 .. N + 2
      BY <1>1
    <3>4. N + 2 \in 1 .. N + 2 /\ x # Sep
      BY <1>1
    <3>5. \A i \in NamePlaces(u) : i \in D \cup {N + 2}
      BY <1>3, <3>1, <3>2 DEF NamePlaces
    <3>6. \A i \in D \cup {N + 2} : i \in NamePlaces(u)
      BY <1>3, <3>2, <3>3, <3>4 DEF NamePlaces
    <3> QED
      BY <3>5, <3>6
  <2> HIDE DEF D
  <2>3. InOrder(u, D) = InOrder(s, D)
    <3>1. \A j \in D : u[j + 0] = s[j] /\ j + 0 = j
      BY <2>1
    <3>2. Moved(D, 0) = D
      BY <3>1 DEF Moved
    <3>3. InOrder(u, Moved(D, 0)) = InOrder(s, D)
      BY <1>1, <2>1, <3>1, InOrderMoved
    <3> QED
      BY <3>2, <3>3
  <2>4. OrderGrows(u, D)
    BY <1>1, <2>1, InOrderMore
  <2>5. N + 2 \in Nat /\ \A j \in D : j < N + 2
    BY <1>1, <2>1
  <2>6. InOrder(u, D \cup {N + 2}) = Append(InOrder(u, D), u[N + 2])
    BY <2>4, <2>5 DEF OrderGrows
  <2> QED
    BY <1>3, <2>2, <2>3, <2>6, NamesInDef DEF D
<1> QED
  BY <1>4, <1>5, <1>6 DEF u

\* The string of an inode is one, and ends with a name.
LEMMA PathStringIsString ==
    ASSUME NEW t, NEW names, Sep \notin names, IsTree(t, names), NEW p \in DOMAIN t, p # << >>
    PROVE  /\ IsString(PathString(t, p), names) /\ PathString(t, p) # << >>
           /\ Last(PathString(t, p)) # Sep
<1> DEFINE s == PathString(t, p)
<1>1. PICK q \in Seq(names) : /\ q # << >> /\ Last(q) = Last(p)
                              /\ ParentNames(t, p) = Reverse(Front(q))
                              /\ RootIdOnce(t) => q = p
  BY ParentNamesShape
<1>2. s = JoinPath(Reverse(Front(q)), Last(q))
  BY <1>1 DEF PathString
<1>3. Joins(s, q, names)
  BY <1>1, <1>2, JoinPathJoins
<1> DEFINE k == Len(q) - 1
<1>4. k \in Nat /\ Len(q) - k + k = Len(q) /\ Len(q) \in 1 .. Len(q)
  BY <1>1
<1>5. /\ s \in Seq(names \cup {Sep}) /\ Len(s) = 2 * k + 1
      /\ \A i \in 0 .. k : s[2 * i + 1] = q[Len(q) - k + i]
      /\ \A i \in 1 .. k : s[2 * i] = Sep
  BY <1>3 DEF Joins, JoinsLast
<1> HIDE DEF s, k
<1>6. s # << >> /\ Last(s) = s[2 * k + 1]
  BY <1>4, <1>5 DEF Last
<1>7. s[2 * k + 1] = q[Len(q)]
  BY <1>4, <1>5
<1>8. q[Len(q)] \in names
  BY <1>1, <1>4
<1>9. \A j \in 1 .. Len(s) - 1 : s[j] = Sep \/ s[j + 1] = Sep
  <2> SUFFICES ASSUME NEW j \in 1 .. 2 * k PROVE s[j] = Sep \/ s[j + 1] = Sep
    BY <1>4, <1>5
  <2>0. j \in Nat
    BY <1>4
  <2>1. PICK h \in Nat : j = 2 * h \/ j = 2 * h + 1
    BY <2>0, EvenOrOdd
  <2>2. CASE j = 2 * h
    <3>1. h \in 1 .. k
      BY <1>4, <2>2
    <3> QED
      BY <1>5, <2>2, <3>1
  <2>3. CASE j = 2 * h + 1
    <3>1. h + 1 \in 1 .. k /\ j + 1 = 2 * (h + 1)
      BY <1>4, <2>3
    <3> QED
      BY <1>5, <3>1
  <2> QED
    BY <2>1, <2>2, <2>3
<1>10. IsString(s, names)
  BY <1>5, <1>9 DEF IsString
<1> QED
  BY <1>6, <1>7, <1>8, <1>10 DEF s

\* Whoever asks for the string of an inode finds the inode, with a separator
\* before it or not.
LEMMA PathStringResolves ==
    ASSUME NEW t, NEW names, Sep \notin names, IsTree(t, names), RootIdOnce(t),
           NEW p \in DOMAIN t, p # << >>,
           NEW s, s = PathString(t, p) \/ s = <<Sep>> \o PathString(t, p), Shallow(s)
    PROVE  GetInode(t, s) = Found(p)
<1>1. IsString(s, names) /\ s # << >> /\ NamesIn(s) = NamesIn(PathString(t, p))
  BY PathStringIsString, LeadingSeparator
<1>2. NamesIn(s) = p
  BY <1>1, PathStringNames
<1> QED
  BY <1>1, <1>2, GetInodeExact DEF Answers

-----------------------------------------------------------------------------
(* Small facts of the queries                                              *)

\* The empty string is never found: it has no name to look for.
LEMMA EmptyNotFound ==
    ASSUME NEW t, NEW names, IsTree(t, names)
    PROVE  GetInode(t, << >>).ret # "ok"
<1> DEFINE s == << >>
           none == {j \in DOMAIN s : FALSE}
<1>1. \A n : Firsts({}, n) = {}
  BY DEF Firsts
<1>2. DirsIn(s) = {} /\ SepsIn(s) = {}
  <2>1. DOMAIN s = {}
    OBVIOUS
  <2> QED
    BY <2>1 DEF DirsIn, SepsIn
<1>3. Greatest({0}) = 0
  <2>1. 0 \in Nat /\ {0} \in SUBSET (0 .. 0) /\ {0} # {}
    OBVIOUS
  <2>2. Greatest({0}) \in {0}
    BY <2>1, GreatestExists
  <2> QED
    BY <2>2
<1>4. SubSeq(s, 1, Len(s)) = << >>
  OBVIOUS
<1>5. FileIn(s) = << >>
  <2>1. Firsts(SepsIn(s), MaxDirs) \cup {0} = {0}
    BY <1>1, <1>2
  <2> QED
    BY <1>3, <1>4, <2>1 DEF FileIn
<1>6. Decompose(s).file = << >>
  <2>1. Firsts(DirsIn(s), MaxDirs) = {}
    BY <1>1, <1>2
  <2>2. Decompose(s).file = FileIn(SubSeq(s, 1, Len(s)))
    BY <2>1 DEF Decompose
  <2> QED
    BY <1>4, <1>5, <2>2
<1> DEFINE at == Walk(t, Decompose(s).dirs)
<1>7. HasFile(s)
  BY <1>2 DEF HasFile
<1>8. Len(Decompose(s).file) # 1
  <2>1. Len(s) = 0
    OBVIOUS
  <2> QED
    BY <1>6, <2>1
<1>9. GetInode(t, s) = IF at = NoInode THEN Fails("not_found")
                       ELSE IF ~ IsFolder(t, at) THEN Fails("not_a_dir")
                       ELSE Fails("not_found")
  <2> HIDE DEF s
  <2> QED
    BY <1>7, <1>8 DEF GetInode
<1> HIDE DEF s, at
<1>10. GetInode(t, s).ret # "ok"
  BY <1>9 DEF Fails
<1> QED
  BY <1>10 DEF s

\* A string is taken apart whole if it is with another name after it.
LEMMA ShallowBefore ==
    ASSUME NEW names, NEW s, IsString(s, names), NEW x, x \in names,
           Shallow(s \o <<Sep, x>>)
    PROVE  Shallow(s)
<1> DEFINE N == Len(s)
           V == names \cup {Sep}
           u == s \o <<Sep, x>>
<1>1. s \in Seq(V) /\ N \in Nat /\ DOMAIN s = 1 .. N
  BY DEF IsString
<1>2. MaxDirs \in Nat
  BY LookupAssumption
<1>3. u \in Seq(V) /\ Len(u) = N + 2 /\ DOMAIN u = 1 .. N + 2 /\ \A j \in 1 .. N : u[j] = s[j]
  BY <1>1
<1> HIDE DEF u
<1>4. Cardinality(DirsIn(u)) <= MaxDirs
  BY DEF Shallow, u
<1>5. \A j \in 1 .. Len(u) - MaxDirs : \E k \in j .. j + MaxDirs : u[k] # Sep
  BY DEF Shallow, u
<1>6. DirsIn(s) \subseteq DirsIn(u)
  BY <1>1, <1>3 DEF DirsIn
<1>7. IsFiniteSet(DirsIn(u))
  <2>1. DirsIn(u) \subseteq 1 .. N + 2
    BY <1>3 DEF DirsIn
  <2>2. IsFiniteSet(1 .. N + 2)
    BY <1>1, FS_Interval
  <2> QED
    BY <2>1, <2>2, FS_Subset
<1>8. Cardinality(DirsIn(s)) <= MaxDirs
  <2>1. /\ Cardinality(DirsIn(s)) <= Cardinality(DirsIn(u))
        /\ IsFiniteSet(DirsIn(s))
    BY <1>6, <1>7, FS_Subset
  <2>2. Cardinality(DirsIn(s)) \in Nat /\ Cardinality(DirsIn(u)) \in Nat
    BY <2>1, <1>7, FS_CardinalityType
  <2> QED
    BY <1>2, <1>4, <2>1, <2>2
<1>9. \A j \in 1 .. N - MaxDirs : \E k \in j .. j + MaxDirs : s[k] # Sep
  <2> SUFFICES ASSUME NEW j \in 1 .. N - MaxDirs PROVE \E k \in j .. j + MaxDirs : s[k] # Sep
    OBVIOUS
  <2>1. PICK k \in j .. j + MaxDirs : u[k] # Sep
    <3>1. j \in 1 .. Len(u) - MaxDirs
      BY <1>1, <1>2, <1>3
    <3> QED
      BY <1>5, <3>1
  <2>2. k \in 1 .. N
    BY <1>1, <1>2
  <2> QED
    BY <1>3, <2>1, <2>2
<1> QED
  BY <1>8, <1>9 DEF Shallow

LEMMA FrontAndLast ==
    ASSUME NEW S, NEW q \in Seq(S), q # << >>
    PROVE  q = Append(Front(q), Last(q))
<1>1. /\ Front(q) \in Seq(S) /\ Len(Front(q)) = Len(q) - 1
      /\ \A j \in 1 .. Len(q) - 1 : Front(q)[j] = q[j]
  BY FrontShape
<1>2. Last(q) = q[Len(q)] /\ Last(q) \in S /\ Len(q) \in Nat /\ Len(q) > 0
  BY DEF Last
<1> DEFINE r == Append(Front(q), Last(q))
<1>3. /\ r \in Seq(S) /\ Len(r) = Len(Front(q)) + 1
      /\ r[Len(Front(q)) + 1] = Last(q)
      /\ \A j \in 1 .. Len(Front(q)) : r[j] = Front(q)[j]
  BY <1>1, <1>2, AppendType
<1> HIDE DEF r
<1>4. Len(r) = Len(q)
  BY <1>1, <1>2, <1>3
<1>5. \A j \in 1 .. Len(q) : r[j] = q[j]
  <2> SUFFICES ASSUME NEW j \in 1 .. Len(q) PROVE r[j] = q[j]
    OBVIOUS
  <2>1. CASE j = Len(q)
    BY <1>1, <1>2, <1>3, <2>1
  <2>2. CASE j # Len(q)
    <3>1. j \in 1 .. Len(q) - 1
      BY <1>2, <2>2
    <3> QED
      BY <1>1, <1>3, <3>1
  <2> QED
    BY <2>1, <2>2
<1>6. r = q
  BY <1>3, <1>4, <1>5
<1> QED
  BY <1>6 DEF r
=============================================================================
