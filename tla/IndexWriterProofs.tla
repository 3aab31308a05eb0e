-------------------------- MODULE IndexWriterProofs --------------------------
(***************************************************************************)
(* Proofs about IndexWriter: for any directory, any sizes of files, names  *)
(* and structures, and whatever fails.                                     *)
(***************************************************************************)
EXTENDS IndexWriter, FiniteSetTheorems, TLAPS

Frames == [dir : Spelled, id : Nat, todo : SUBSET Packed]

-----------------------------------------------------------------------------
(* Sequences                                                               *)

LEMMA LastType ==
    ASSUME NEW S, NEW s \in Seq(S), s # << >>
    PROVE  Last(s) \in S
BY DEF Last

LEMMA FrontType ==
    ASSUME NEW S, NEW s \in Seq(S), s # << >>
    PROVE  Front(s) \in Seq(S)
BY DEF Front

LEMMA ElementType ==
    ASSUME NEW S, NEW s \in Seq(S), NEW n \in 1 .. Len(s)
    PROVE  s[n] \in S
OBVIOUS

LEMMA AppendType ==
    ASSUME NEW S, NEW s \in Seq(S), NEW x \in S
    PROVE  /\ Append(s, x) \in Seq(S)
           /\ Len(Append(s, x)) = Len(s) + 1
           /\ Append(s, x)[Len(s) + 1] = x
           /\ \A i \in 1 .. Len(s) : Append(s, x)[i] = s[i]
           /\ Append(s, x) # << >>
OBVIOUS

-----------------------------------------------------------------------------
(* Paths of a directory tree                                               *)

LEMMA LeastExists ==
    ASSUME NEW n \in Nat, NEW S \in SUBSET (0 .. n), S # {}
    PROVE  \E k \in S : \A j \in S : k <= j
<1> DEFINE Under(k) == {j \in S : j < k}
           F == {Under(k) : k \in S}
<1>1. IsFiniteSet(S)
  <2>1. IsFiniteSet(0 .. n)
    BY FS_Interval
  <2> QED
    BY <2>1, FS_Subset
<1>2. F \subseteq FiniteSubsetsOf(S)
  BY <1>1, FS_Subset DEF FiniteSubsetsOf
<1>3. F # {}
  OBVIOUS
<1>4. PICK x \in F : \A y \in F : ~ (<<y, x>> \in StrictSubsetOrdering(S))
  <2> HIDE DEF F
  <2> QED
    BY <1>1, <1>2, <1>3, FS_StrictSubsetOrderingWellFounded, WFMin
<1>5. PICK k \in S : x = Under(k)
  BY <1>4
<1>6. \A j \in S : k <= j
  <2> SUFFICES ASSUME NEW j \in S, j < k PROVE FALSE
    OBVIOUS
  <2>1. \A i \in S : i \in Int
    OBVIOUS
  <2>2. Under(j) \in F /\ Under(j) \in SUBSET S /\ Under(k) \in SUBSET S
    OBVIOUS
  <2>3. Under(j) \subseteq Under(k) /\ j \in Under(k) /\ j \notin Under(j)
    <3>1. \A i \in S : i < j => i < k
      BY <2>1
    <3>2. ~ (j < j)
      BY <2>1
    <3> QED
      BY <3>1, <3>2
  <2>4. <<Under(j), Under(k)>> \in StrictSubsetOrdering(S)
    BY <2>2, <2>3 DEF StrictSubsetOrdering
  <2> QED
    BY <1>4, <1>5, <2>2, <2>4
<1> QED
  BY <1>6

LEMMA FrontShape ==
    ASSUME NEW S, NEW q \in Seq(S), q # << >>
    PROVE  /\ Front(q) \in Seq(S)
           /\ Len(Front(q)) = Len(q) - 1
           /\ \A j \in 1 .. Len(q) - 1 : Front(q)[j] = q[j]
           /\ Len(q) \in Nat /\ Len(q) > 0
<1>1. Len(q) \in Nat /\ Len(q) > 0
  OBVIOUS
<1>2. ASSUME NEW m \in Nat, m + 1 = Len(q)
      PROVE  /\ SubSeq(q, 1, m) \in Seq(S) /\ Len(SubSeq(q, 1, m)) = m
             /\ \A j \in 1 .. m : SubSeq(q, 1, m)[j] = q[j]
  BY <1>2
<1>3. Len(q) - 1 \in Nat /\ (Len(q) - 1) + 1 = Len(q)
  BY <1>1
<1> QED
  BY <1>1, <1>2, <1>3 DEF Front

LEMMA PrefixMeans ==
    ASSUME NEW S, NEW p \in Seq(S), NEW q \in Seq(S)
    PROVE  /\ IsPrefix(p, q) <=> Len(p) <= Len(q) /\ \A j \in 1 .. Len(p) : p[j] = q[j]
           /\ Len(p) \in Nat /\ Len(q) \in Nat
<1>1. SubSeq(p, 1, Len(p)) = p
  OBVIOUS
<1>2. ASSUME Len(p) <= Len(q), NEW r, r = SubSeq(q, 1, Len(p))
      PROVE  r = p <=> \A j \in 1 .. Len(p) : p[j] = q[j]
  <2>1. r \in Seq(S) /\ Len(r) = Len(p) /\ \A j \in 1 .. Len(p) : r[j] = q[j]
    BY <1>2
  <2> QED
    BY <2>1
<1> QED
  BY <1>1, <1>2 DEF IsPrefix

LEMMA SameSequence ==
    ASSUME NEW S, NEW p \in Seq(S), NEW q \in Seq(S), Len(p) = Len(q),
           \A j \in 1 .. Len(p) : p[j] = q[j]
    PROVE  p = q
OBVIOUS

LEMMA FrontAndLast ==
    ASSUME NEW S, NEW q \in Seq(S), q # << >>
    PROVE  q = Append(Front(q), Last(q))
<1>1. /\ Front(q) \in Seq(S) /\ Len(Front(q)) = Len(q) - 1
      /\ \A j \in 1 .. Len(q) - 1 : Front(q)[j] = q[j]
      /\ Len(q) \in Nat /\ Len(q) > 0
  BY FrontShape
<1>2. Last(q) = q[Len(q)] /\ Last(q) \in S
  BY LastType DEF Last
<1> DEFINE r == Append(Front(q), Last(q))
<1>3. /\ r \in Seq(S) /\ Len(r) = Len(Front(q)) + 1
      /\ r[Len(Front(q)) + 1] = Last(q)
      /\ \A j \in 1 .. Len(Front(q)) : r[j] = Front(q)[j]
  BY <1>1, <1>2, AppendType
<1> HIDE DEF r
<1>4. Len(r) = Len(q)
  BY <1>1, <1>3
<1>5. \A j \in 1 .. Len(q) : r[j] = q[j]
  <2> SUFFICES ASSUME NEW j \in 1 .. Len(q) PROVE r[j] = q[j]
    OBVIOUS
  <2>1. CASE j = Len(q)
    BY <1>1, <1>2, <1>3, <2>1
  <2>2. CASE j # Len(q)
    <3>1. j \in 1 .. Len(q) - 1
      BY <1>1, <2>2
    <3> QED
      BY <1>1, <1>3, <3>1
  <2> QED
    BY <2>1, <2>2
<1>6. r = q
  BY <1>3, <1>4, <1>5, SameSequence
<1> QED
  BY <1>6 DEF r

LEMMA PrefixOfAll ==
    ASSUME NEW S, NEW p \in Seq(S), Len(p) = 0, NEW q \in Seq(S)
    PROVE  IsPrefix(p, q)
<1>1. Len(p) \in Nat /\ Len(q) \in Nat
  OBVIOUS
<1>2. Len(p) <= Len(q)
  BY <1>1
<1>3. \A j : j \notin 1 .. Len(p)
  BY <1>1
<1>4. SubSeq(p, 1, Len(p)) = SubSeq(q, 1, Len(p))
  BY <1>3
<1> QED
  BY <1>2, <1>4 DEF IsPrefix

\* Of two beginnings of a path one begins the other.
LEMMA PrefixesCompare ==
    ASSUME NEW S, NEW p \in Seq(S), NEW q \in Seq(S), NEW x \in Seq(S),
           IsPrefix(p, x), IsPrefix(q, x)
    PROVE  IsPrefix(p, q) \/ IsPrefix(q, p)
BY PrefixMeans

LEMMA PrefixChain ==
    ASSUME NEW S, NEW p \in Seq(S), NEW q \in Seq(S), NEW x \in Seq(S),
           IsPrefix(p, q), IsPrefix(q, x)
    PROVE  IsPrefix(p, x)
BY PrefixMeans

LEMMA PrefixBoth ==
    ASSUME NEW S, NEW p \in Seq(S), NEW q \in Seq(S), IsPrefix(p, q), IsPrefix(q, p)
    PROVE  p = q
BY PrefixMeans, SameSequence

LEMMA PrefixSelf ==
    ASSUME NEW S, NEW p \in Seq(S)
    PROVE  IsPrefix(p, p)
BY PrefixMeans

\* What begins a path begins its front, or is the path.
LEMMA PrefixOrFront ==
    ASSUME NEW S, NEW p \in Seq(S), NEW x \in Seq(S), x # << >>
    PROVE  /\ IsPrefix(p, x) => p = x \/ IsPrefix(p, Front(x))
           /\ IsPrefix(Front(x), x) /\ ~ IsPrefix(x, Front(x))
<1>1. /\ Front(x) \in Seq(S) /\ Len(Front(x)) = Len(x) - 1
      /\ \A j \in 1 .. Len(x) - 1 : Front(x)[j] = x[j]
      /\ Len(x) \in Nat /\ Len(x) > 0
  BY FrontShape
<1>2. IsPrefix(Front(x), x) /\ ~ IsPrefix(x, Front(x))
  BY <1>1, PrefixMeans, SMTT(30)
<1>3. ASSUME IsPrefix(p, x), p # x
      PROVE  IsPrefix(p, Front(x))
  <2>1. Len(p) <= Len(x) /\ \A j \in 1 .. Len(p) : p[j] = x[j]
    BY <1>3, PrefixMeans
  <2>2. Len(p) \in Nat /\ Len(p) # Len(x)
    BY <1>3, <2>1, SameSequence
  <2>3. Len(p) <= Len(x) - 1 /\ \A j \in 1 .. Len(p) : j \in 1 .. Len(x) - 1
    BY <1>1, <2>1, <2>2
  <2>4. \A j \in 1 .. Len(p) : p[j] = Front(x)[j]
    BY <1>1, <2>1, <2>3
  <2> QED
    BY <1>1, <2>3, <2>4, PrefixMeans
<1> QED
  BY <1>2, <1>3

\* The beginnings of a path.
LEMMA Beginning ==
    ASSUME NEW S, NEW q \in Seq(S), NEW k \in 0 .. Len(q)
    PROVE  /\ SubSeq(q, 1, k) \in Seq(S) /\ Len(SubSeq(q, 1, k)) = k
           /\ \A j \in 1 .. k : SubSeq(q, 1, k)[j] = q[j]
           /\ IsPrefix(SubSeq(q, 1, k), q)
           /\ k = Len(q) => SubSeq(q, 1, k) = q
           /\ k = 0 => SubSeq(q, 1, k) = << >>
           /\ k # 0 => /\ SubSeq(q, 1, k) # << >>
                       /\ Front(SubSeq(q, 1, k)) = SubSeq(q, 1, k - 1)
                       /\ Last(SubSeq(q, 1, k)) = q[k]
                       /\ Append(SubSeq(q, 1, k - 1), q[k]) = SubSeq(q, 1, k)
<1>0. Len(q) \in Nat /\ k \in Nat /\ k <= Len(q)
  OBVIOUS
<1>1. ASSUME NEW m \in Nat, m <= Len(q)
      PROVE  /\ SubSeq(q, 1, m) \in Seq(S) /\ Len(SubSeq(q, 1, m)) = m
             /\ \A j \in 1 .. m : SubSeq(q, 1, m)[j] = q[j]
  BY <1>1
<1> DEFINE p == SubSeq(q, 1, k)
<1>2. p \in Seq(S) /\ Len(p) = k /\ \A j \in 1 .. k : p[j] = q[j]
  BY <1>0, <1>1
<1>3. IsPrefix(p, q)
  <2> HIDE DEF p
  <2> QED
    BY <1>0, <1>2, PrefixMeans
<1>4. k = Len(q) => p = q
  <2> HIDE DEF p
  <2> QED
    BY <1>2, SameSequence
<1>5. k = 0 => p = << >>
  <2> HIDE DEF p
  <2> QED
    BY <1>2
<1>6. ASSUME k # 0
      PROVE  /\ p # << >> /\ Front(p) = SubSeq(q, 1, k - 1) /\ Last(p) = q[k]
             /\ Append(SubSeq(q, 1, k - 1), q[k]) = p
  <2> DEFINE r == SubSeq(q, 1, k - 1)
  <2>1. k - 1 \in Nat /\ k - 1 <= Len(q)
    BY <1>0, <1>6
  <2>2. r \in Seq(S) /\ Len(r) = k - 1 /\ \A j \in 1 .. k - 1 : r[j] = q[j]
    BY <1>1, <2>1
  <2> HIDE DEF p, r
  <2>3. p # << >> /\ k \in 1 .. k
    BY <1>0, <1>2, <1>6
  <2>4. Last(p) = q[k]
    BY <1>2, <2>3 DEF Last
  <2>5. Front(p) = r
    <3>1. /\ Front(p) \in Seq(S) /\ Len(Front(p)) = k - 1
          /\ \A j \in 1 .. k - 1 : Front(p)[j] = p[j]
      BY <1>2, <2>3, FrontShape
    <3>2. \A j \in 1 .. k - 1 : Front(p)[j] = r[j]
      BY <1>0, <1>2, <2>2, <3>1
    <3> QED
      BY <2>2, <3>1, <3>2, SameSequence
  <2>6. p = Append(Front(p), Last(p))
    BY <1>2, <2>3, FrontAndLast
  <2> QED
    BY <2>3, <2>4, <2>5, <2>6 DEF r
<1> QED
  BY <1>2, <1>3, <1>4, <1>5, <1>6

\* What a path of the recursion leads to is on the disk, or nowhere: its first
\* PathRoom bytes are those of one of its beginnings that is cut.
LEMMA LeadsType ==
    ASSUME NEW q \in Seq(Names),
           \A k \in DOMAIN q : LET dir == Leads(SubSeq(q, 1, k - 1))
                              IN  dir # Nowhere /\ Append(dir, q[k]) \in OnDisk
    PROVE  Leads(q) \in DOMAIN Source \cup {Nowhere}
<1> DEFINE P(k) == SubSeq(q, 1, k)
           T == {k \in 0 .. Len(q) : P(k) \notin Whole}
<1>0. Len(q) \in Nat
  OBVIOUS
<1>a. ASSUME NEW k \in 0 .. Len(q), k # 0
      PROVE  /\ P(k) # << >> /\ Front(P(k)) = P(k - 1)
             /\ Append(P(k - 1), q[k]) = P(k) /\ IsPrefix(P(k), q)
  <2>1. Front(P(k)) = P(k - 1)
    BY <1>0, <1>a, Beginning, ZenonT(40)
  <2>2. Append(P(k - 1), q[k]) = P(k)
    BY <1>0, <1>a, Beginning, ZenonT(40)
  <2>3. IsPrefix(P(k), q)
    BY <1>0, <1>a, Beginning, ZenonT(40)
  <2>4. P(k) \in Seq(Names) /\ Len(P(k)) = k
    BY <1>0, Beginning, ZenonT(40)
  <2> HIDE DEF P
  <2> QED
    BY <1>a, <2>1, <2>2, <2>3, <2>4
<1>1. CASE q \in Whole
  BY <1>1 DEF Leads, Whole
<1>2. CASE q \notin Whole
  <2>1. Len(q) \in T
    <3>1. P(Len(q)) = q /\ Len(q) \in 0 .. Len(q)
      BY <1>0, Beginning
    <3> HIDE DEF P
    <3> QED
      BY <1>2, <3>1
  <2>2. PICK k \in T : \A j \in T : k <= j
    <3>1. T \in SUBSET (0 .. Len(q))
      OBVIOUS
    <3> HIDE DEF T
    <3> QED
      BY <1>0, <2>1, <3>1, LeastExists
  <2>3. << >> \in Whole
    BY WriterAssumption, PathAssumption DEF Whole
  <2>4. k # 0
    <3>1. P(0) = << >>
      BY <1>0, Beginning
    <3> QED
      BY <2>2, <2>3, <3>1
  <2>5. k \in 0 .. Len(q) /\ k \in 1 .. Len(q) /\ k - 1 \in 0 .. Len(q) /\ k - 1 \notin T
    BY <2>2, <2>4
  <2>6. P(k - 1) \in Whole
    BY <2>5
  <2>7. /\ Append(P(k - 1), q[k]) = P(k) /\ Front(P(k)) = P(k - 1)
        /\ IsPrefix(P(k), q)
    BY <2>4, <2>5, <1>a
  <2>8. P(k) \in OnDisk
    <3>1. Leads(P(k - 1)) = P(k - 1)
      BY <2>6 DEF Leads
    <3>2. k \in DOMAIN q
      BY <2>5
    <3>3. Append(Leads(P(k - 1)), q[k]) \in OnDisk
      BY <3>2
    <3> QED
      BY <2>7, <3>1, <3>3
  <2>9. P(k) \in Cuts
    BY <2>2, <2>6, <2>7, <2>8 DEF Cuts
  <2>10. \E p \in Cuts : IsPrefix(p, q)
    BY <2>7, <2>9
  <2> QED
    BY <1>2, <2>10, PathAssumption DEF Leads
<1> QED
  BY <1>1, <1>2

\* The recursion comes by a path from the path of a directory.
LEMMA SpelledFacts ==
    /\ << >> \in Spelled
    /\ \A q \in Spelled : q \in Seq(Names) /\ Leads(q) \in DOMAIN Source \cup {Nowhere}
    /\ \A q \in Packed : q # << >> /\ Front(q) \in Spelled /\ Kind(Front(q)) = "dir"
<1>1. << >> \in Spelled
  <2>1. << >> \in [1 .. 0 -> Names] /\ 0 \in 0 .. MaxOpen
    BY WriterAssumption
  <2> QED
    BY <2>1 DEF Spelled, BoundedSeq, SeqOf
<1>2. ASSUME NEW q \in Spelled
      PROVE  /\ q \in Seq(Names) /\ Len(q) \in 0 .. MaxOpen
             /\ Leads(q) \in DOMAIN Source \cup {Nowhere}
             /\ \A k \in DOMAIN q : LET dir == Leads(SubSeq(q, 1, k - 1))
                                 IN  dir # Nowhere /\ Append(dir, q[k]) \in OnDisk
  <2>1. PICK m \in 0 .. MaxOpen : q \in [1 .. m -> Names]
    BY DEF Spelled, BoundedSeq, SeqOf
  <2>2. q \in Seq(Names) /\ Len(q) = m
    BY <2>1, WriterAssumption
  <2>3. \A k \in DOMAIN q : LET dir == Leads(SubSeq(q, 1, k - 1))
                           IN  dir # Nowhere /\ Append(dir, q[k]) \in OnDisk
    BY DEF Spelled
  <2> QED
    BY <2>2, <2>3, LeadsType
<1>3. ASSUME NEW q \in Packed
      PROVE  q # << >> /\ Front(q) \in Spelled /\ Kind(Front(q)) = "dir"
  <2> DEFINE n == Len(q)
             f == Front(q)
  <2>1. q \in Seq(Names) /\ q # << >> /\ n \in 1 .. MaxOpen
    BY <1>2 DEF Packed
  <2>2. /\ f \in Seq(Names) /\ Len(f) = n - 1
        /\ \A j \in 1 .. n - 1 : f[j] = q[j]
    BY <2>1, FrontShape
  <2>3. f \in [1 .. n - 1 -> Names] /\ n - 1 \in 0 .. MaxOpen
    BY <2>1, <2>2, WriterAssumption
  <2>4. ASSUME NEW k \in DOMAIN f
        PROVE  SubSeq(f, 1, k - 1) = SubSeq(q, 1, k - 1) /\ f[k] = q[k] /\ k \in DOMAIN q
    BY <2>1, <2>2, <2>4
  <2>5. f \in Spelled
    <3>1. \A k \in DOMAIN f : LET dir == Leads(SubSeq(f, 1, k - 1))
                             IN  dir # Nowhere /\ Append(dir, f[k]) \in OnDisk
      <4> SUFFICES ASSUME NEW k \in DOMAIN f
                   PROVE  LET dir == Leads(SubSeq(f, 1, k - 1))
                          IN  dir # Nowhere /\ Append(dir, f[k]) \in OnDisk
        OBVIOUS
      <4> QED
        BY <1>2, <2>4 DEF Packed
    <3>2. f \in BoundedSeq(Names, MaxOpen)
      BY <2>3 DEF BoundedSeq, SeqOf
    <3> QED
      BY <3>1, <3>2 DEF Spelled
  <2>6. Leads(f) # Nowhere /\ Append(Leads(f), q[n]) \in OnDisk
    BY <1>2, <2>1 DEF Packed, Front
  <2>7. Leads(f) \in DOMAIN Source /\ Leads(f) \in Seq(Names) /\ q[n] \in Names
    BY <1>2, <2>1, <2>5, <2>6, WriterAssumption
  <2> DEFINE x == Append(Leads(f), q[n])
  <2>8. x \in Seq(Names) /\ Front(x) = Leads(f)
    BY <2>7 DEF Front
  <2>9. Source[Leads(f)] = "dir"
    BY <2>6, <2>8, WriterAssumption
  <2> QED
    BY <2>1, <2>5, <2>6, <2>9 DEF Kind
<1> QED
  BY <1>1, <1>2, <1>3

LEMMA PathFacts ==
    /\ << >> \in Seq(Names)
    /\ \A p \in Spelled : p \in Seq(Names)
    /\ \A p \in Packed : /\ p \in Seq(Names) /\ p # << >>
                         /\ Front(p) \in Spelled /\ Kind(Front(p)) = "dir"
    /\ \A p \in Spelled : Children(p) \subseteq Packed
BY SpelledFacts DEF Packed, Children

\* A file the recursion comes by is on the disk.
LEMMA FileFacts ==
    ASSUME NEW p \in Files
    PROVE  p \in Packed /\ Leads(p) \in DOMAIN Source /\ Bytes[Leads(p)] \in Nat
<1>1. p \in Packed /\ p \in Spelled /\ Kind(p) = "file"
  BY DEF Files, Packed
<1>2. Leads(p) # Nowhere /\ Source[Leads(p)] = "file"
  BY <1>1 DEF Kind
<1>3. Leads(p) \in DOMAIN Source
  BY <1>1, <1>2, SpelledFacts
<1> QED
  BY <1>1, <1>2, <1>3, WriterAssumption

\* What is on the disk under a path that is not cut, the recursion comes by.
LEMMA WholeSpelled ==
    ASSUME NEW p \in Whole, Len(p) <= MaxOpen
    PROVE  p \in Spelled
<1> DEFINE N == Len(p)
           P(k) == SubSeq(p, 1, k)
           T == {j \in 0 .. N : P(N - j) \notin Whole}
<1>1. p \in Seq(Names) /\ N \in Nat /\ N \in 0 .. N /\ DOMAIN p = 1 .. N
  BY WriterAssumption DEF Whole
<1>a. ASSUME NEW k \in 0 .. Len(p), k # 0
      PROVE  /\ P(k) # << >> /\ Front(P(k)) = P(k - 1)
             /\ Append(P(k - 1), p[k]) = P(k) /\ IsPrefix(P(k), p)
  <2>1. Front(P(k)) = P(k - 1)
    BY <1>1, <1>a, Beginning, ZenonT(40)
  <2>2. Append(P(k - 1), p[k]) = P(k)
    BY <1>1, <1>a, Beginning, ZenonT(40)
  <2>3. IsPrefix(P(k), p)
    BY <1>1, <1>a, Beginning, ZenonT(40)
  <2>4. P(k) \in Seq(Names) /\ Len(P(k)) = k
    BY <1>1, Beginning, ZenonT(40)
  <2> HIDE DEF P
  <2> QED
    BY <1>a, <2>1, <2>2, <2>3, <2>4
<1>2. \A k \in 0 .. N : P(k) \in Whole
  <2>1. T = {}
    <3> SUFFICES ASSUME T # {} PROVE FALSE
      OBVIOUS
    <3>1. PICK j \in T : \A i \in T : j <= i
      <4>1. T \in SUBSET (0 .. N)
        OBVIOUS
      <4> HIDE DEF T
      <4> QED
        BY <1>1, <4>1, LeastExists
    <3>2. j # 0
      <4>1. P(N) = p /\ N - 0 = N
        BY <1>1, Beginning
      <4> HIDE DEF P
      <4> QED
        BY <3>1, <4>1
    <3> DEFINE k == N - (j - 1)
    <3>3. /\ j - 1 \in 0 .. N /\ k \in 0 .. N /\ k # 0 /\ k - 1 = N - j
          /\ j - 1 \notin T
      BY <1>1, <3>1, <3>2
    <3>4. P(k) \in Whole
      BY <3>3
    <3>5. P(k) # << >> /\ Front(P(k)) = P(k - 1)
      BY <1>1, <3>3, <1>a
    <3>6. P(k) \in OnDisk /\ P(k - 1) \in DOMAIN Source
      BY <3>4, <3>5, WriterAssumption DEF OnDisk, Whole
    <3>7. NameSize[Last(P(k))] \in Nat
      BY <3>5, <3>6, LastType, WriterAssumption, PathAssumption DEF OnDisk
    <3>8. PathSize[P(k - 1)] <= PathRoom
      <4>1. /\ PathSize[P(k)] = PathSize[P(k - 1)] + 1 + NameSize[Last(P(k))]
            /\ PathSize[P(k)] \in Nat /\ PathSize[P(k - 1)] \in Nat /\ PathRoom \in Nat
            /\ PathSize[P(k)] <= PathRoom
        BY <3>4, <3>5, <3>6, PathAssumption DEF OnDisk, Whole
      <4> QED
        BY <3>7, <4>1
    <3>9. P(N - j) \in Whole
      BY <3>3, <3>6, <3>8 DEF Whole
    <3> QED
      BY <3>1, <3>9
  <2>2. ASSUME NEW k \in 0 .. N
        PROVE  P(k) \in Whole
    <3>1. N - k \in 0 .. N /\ N - (N - k) = k
      BY <1>1
    <3>2. N - k \notin T
      BY <2>1
    <3> HIDE DEF P
    <3> QED
      BY <3>1, <3>2
  <2> QED
    BY <2>2
<1>3. ASSUME NEW k \in 1 .. N
      PROVE  Leads(P(k - 1)) # Nowhere /\ Append(Leads(P(k - 1)), p[k]) \in OnDisk
  <2>1. k \in 0 .. N /\ k - 1 \in 0 .. N /\ k # 0
    BY <1>1
  <2>2. P(k) \in Whole /\ P(k - 1) \in Whole
    BY <1>2, <2>1
  <2>3. P(k) # << >> /\ Append(P(k - 1), p[k]) = P(k)
    BY <1>1, <2>1, <1>a
  <2>4. Leads(P(k - 1)) = P(k - 1)
    BY <2>2 DEF Leads
  <2> QED
    BY <2>2, <2>3, <2>4, PathAssumption DEF OnDisk, Whole
<1>4. p \in BoundedSeq(Names, MaxOpen)
  <2>1. p \in [1 .. N -> Names] /\ N \in 0 .. MaxOpen
    BY <1>1, WriterAssumption
  <2> QED
    BY <2>1 DEF BoundedSeq, SeqOf
<1> QED
  BY <1>1, <1>3, <1>4 DEF Spelled

\* Between a directory and what is below it there is a child of the directory.
LEMMA ChildOnTheWay ==
    ASSUME NEW p \in Spelled, NEW x \in Packed, IsPrefix(p, x), p # x
    PROVE  /\ \E c \in Children(p) : IsPrefix(c, x)
           /\ Kind(p) = "dir"
<1>1. p \in Seq(Names) /\ x \in Seq(Names) /\ x # << >>
  BY PathFacts
<1>2. /\ Len(p) \in Nat /\ Len(x) \in Nat
      /\ Len(p) <= Len(x) /\ \A j \in 1 .. Len(p) : p[j] = x[j]
  BY <1>1, PrefixMeans
<1>3. Len(p) < Len(x)
  BY <1>1, <1>2, SameSequence
<1> DEFINE T == {n \in 0 .. Len(x) : n > Len(p) /\ \E c \in Packed : Len(c) = n /\ IsPrefix(c, x)}
<1>4. PICK k \in T : \A j \in T : k <= j
  <2>1. IsPrefix(x, x)
    BY <1>1, PrefixSelf
  <2>2. Len(x) \in T
    BY <1>2, <1>3, <2>1
  <2>3. T \in SUBSET (0 .. Len(x))
    OBVIOUS
  <2> HIDE DEF T
  <2> QED
    BY <1>2, <2>2, <2>3, LeastExists
<1>5. PICK c \in Packed : Len(c) = k /\ IsPrefix(c, x)
  BY <1>4
<1>6. k > Len(p) /\ k \in 0 .. Len(x) /\ k \in Nat
  BY <1>2, <1>4
<1>7. c \in Seq(Names) /\ c # << >> /\ Front(c) \in Spelled /\ Kind(Front(c)) = "dir"
  BY PathFacts
<1>8. Front(c) \in Seq(Names) /\ Len(Front(c)) = k - 1 /\ IsPrefix(Front(c), x)
  <2>1. Front(c) \in Seq(Names) /\ Len(Front(c)) = k - 1 /\ IsPrefix(Front(c), c)
    BY <1>5, <1>7, FrontShape, PrefixOrFront
  <2> QED
    BY <1>1, <1>5, <1>7, <2>1, PrefixChain
<1>9. ~ (k - 1 > Len(p))
  <2> SUFFICES ASSUME k - 1 > Len(p) PROVE FALSE
    OBVIOUS
  <2>1. Front(c) # << >>
    <3>1. Len(Front(c)) # 0
      BY <1>2, <1>6, <1>8
    <3>2. Len(<< >>) = 0
      OBVIOUS
    <3> QED
      BY <3>1, <3>2
  <2>2. Front(c) \in Packed
    BY <1>7, <2>1 DEF Packed
  <2>3. k - 1 \in 0 .. Len(x)
    BY <1>2, <1>6
  <2>4. k - 1 \in T
    BY <1>8, <2>2, <2>3
  <2>5. ~ (k <= k - 1)
    BY <1>6
  <2> HIDE DEF T
  <2> QED
    BY <1>4, <2>4, <2>5
<1>10. Front(c) = p
  <2>1. Len(Front(c)) = Len(p)
    BY <1>2, <1>6, <1>8, <1>9
  <2>2. \A j \in 1 .. Len(p) : Front(c)[j] = x[j]
    BY <1>1, <1>8, <2>1, PrefixMeans
  <2>3. \A j \in 1 .. Len(Front(c)) : Front(c)[j] = p[j]
    BY <1>2, <2>1, <2>2
  <2> QED
    BY <1>1, <1>8, <2>1, <2>3, SameSequence
<1>11. c \in Children(p)
  BY <1>10 DEF Children
<1> QED
  BY <1>5, <1>7, <1>10, <1>11

-----------------------------------------------------------------------------
(* Type correctness                                                        *)

LEMMA Constants ==
    /\ SizeMod \in Nat /\ SizeMod > 0 /\ Chunk \in Nat
    /\ HeaderSize \in Nat /\ MetadataSize \in Nat /\ DataSize \in Nat /\ MagicOffset \in Nat
    /\ MagicOffset <= HeaderSize
    /\ ReadMetadataSize \in Nat /\ ReadDataSize \in Nat
BY WriterAssumption

LEMMA RoomType ==
    ASSUME NEW room \in Nat, NEW count \in Nat
    PROVE  RoomFor(room, count) \in Nat
BY Constants DEF RoomFor

LEMMA ModBelow ==
    ASSUME NEW n \in Nat, NEW m \in Nat, m > 0
    PROVE  n % m \in 0 .. m - 1
OBVIOUS

LEMMA ModSmaller ==
    ASSUME NEW n \in Nat, NEW m \in Nat, m > 0
    PROVE  n % m <= n
OBVIOUS

LEMMA ModIdentity ==
    ASSUME NEW n \in Nat, NEW m \in Nat, n < m
    PROVE  n % m = n
OBVIOUS

\* The size of a file is cut to what the entry can hold.
LEMMA SizeCut ==
    ASSUME NEW n \in Nat
    PROVE  /\ n % SizeMod \in 0 .. SizeMod - 1
           /\ n % SizeMod <= n
           /\ n < SizeMod => n % SizeMod = n
BY Constants, ModBelow, ModSmaller, ModIdentity

LEMMA SourceType ==
    /\ << >> \in Spelled
    /\ Packed \subseteq Spelled /\ Files \subseteq Packed
    /\ \A p \in Spelled : Children(p) \subseteq Packed
BY SpelledFacts DEF Packed, Files, Children

LEMMA TypeInit == Init => TypeOK
BY SourceType DEF Init, TypeOK, WalkType, TablesType, DumpType, NoBlob

\* What a step leaves alone keeps its type.
LEMMA TablesKept ==
    ASSUME TypeOK, UNCHANGED pkg, UNCHANGED tables, UNCHANGED outcome
    PROVE  TablesType'
BY DEF TypeOK, TablesType, pkg, tables

LEMMA DumpKept ==
    ASSUME TypeOK, UNCHANGED dump,
           Len(metadata') \in Nat, Len(metadata) <= Len(metadata'),
           Len(entries') \in Nat, Len(entries) <= Len(entries')
    PROVE  DumpType'
<1>1. Len(metadata) \in Nat /\ Len(entries) \in Nat
  BY DEF TypeOK, TablesType
<1> QED
  BY <1>1 DEF TypeOK, DumpType, dump

LEMMA DumpKeptToo ==
    ASSUME TypeOK, UNCHANGED dump, UNCHANGED tables
    PROVE  DumpType'
BY DEF TypeOK, DumpType, dump, tables

LEMMA StackType ==
    ASSUME TypeOK, Walking
    PROVE  /\ Top \in Frames /\ Front(stack) \in Seq(Frames)
           /\ \A p : Left(p) \in Frames
           /\ \A p \in Top.todo : p \in Packed
<1>1. Top \in Frames /\ Front(stack) \in Seq(Frames)
  BY LastType, FrontType DEF TypeOK, WalkType, Walking, Top, Frames
<1> QED
  BY <1>1 DEF Left, Frames

\* What is read of the directory on top leaves the stack a stack.
LEMMA GoOnType ==
    ASSUME TypeOK, NEW p, Take(p), GoOn(p)
    PROVE  stack' \in Seq(Frames) /\ stack' # << >> /\ p \in Packed /\ Top.id \in Nat
<1>1. Top \in Frames /\ Front(stack) \in Seq(Frames) /\ Left(p) \in Frames /\ p \in Packed
  BY StackType DEF Take
<1>2. Top.id \in Nat
  BY <1>1 DEF Frames
<1> QED
  BY <1>1, <1>2, AppendType DEF GoOn

\* A record more in the table, an entry more, and both.
LEMMA MetadataType ==
    ASSUME TypeOK, NEW p \in Packed, NEW parent \in Nat, PutMetadata(p, parent)
    PROVE  /\ metadata' \in Seq([id : Nat, parent : Nat, path : Packed])
           /\ Len(metadata) \in Nat /\ Len(metadata') = Len(metadata) + 1
           /\ metadata'[NewId].path = p
           /\ \A i \in 1 .. Len(metadata) : metadata'[i] = metadata[i]
           /\ metadata_room' \in Nat
<1> DEFINE r == [id |-> NewId, parent |-> parent, path |-> p]
<1>1. /\ metadata \in Seq([id : Nat, parent : Nat, path : Packed]) /\ metadata_room \in Nat
      /\ Len(metadata) \in Nat
  BY DEF TypeOK, TablesType
<1>2. r \in [id : Nat, parent : Nat, path : Packed] /\ r.path = p /\ NewId = Len(metadata) + 1
  BY <1>1 DEF NewId
<1>3. metadata' = Append(metadata, r) /\ metadata_room' = RoomFor(metadata_room, Len(metadata))
  BY DEF PutMetadata
<1> HIDE DEF r
<1>4. metadata_room' \in Nat
  BY <1>1, <1>3, RoomType
<1> QED
  BY <1>1, <1>2, <1>3, <1>4, AppendType

LEMMA EntryType ==
    ASSUME TypeOK, NEW offset \in Nat, NEW size \in 0 .. SizeMod - 1, PutEntry(offset, size)
    PROVE  /\ entries' \in Seq([id : Nat, offset : Nat, size : 0 .. SizeMod - 1])
           /\ Len(entries) \in Nat /\ Len(entries') = Len(entries) + 1
           /\ entries'[Len(entries) + 1] = [id |-> NewId, offset |-> offset, size |-> size]
           /\ \A i \in 1 .. Len(entries) : entries'[i] = entries[i]
           /\ entries_room' \in Nat
<1> DEFINE e == [id |-> NewId, offset |-> offset, size |-> size]
<1>1. /\ entries \in Seq([id : Nat, offset : Nat, size : 0 .. SizeMod - 1])
      /\ entries_room \in Nat /\ Len(entries) \in Nat /\ Len(metadata) \in Nat
  BY DEF TypeOK, TablesType
<1>2. e \in [id : Nat, offset : Nat, size : 0 .. SizeMod - 1]
  BY <1>1 DEF NewId
<1>3. entries' = Append(entries, e) /\ entries_room' = RoomFor(entries_room, Len(entries))
  BY DEF PutEntry
<1>4. entries_room' \in Nat
  BY <1>1, <1>3, RoomType
<1>5. e = [id |-> NewId, offset |-> offset, size |-> size]
  OBVIOUS
<1> HIDE DEF e
<1> QED
  BY <1>1, <1>2, <1>3, <1>4, <1>5, AppendType

LEMMA PutFileType ==
    ASSUME TypeOK, NEW p \in Packed, NEW offset \in Nat, NEW size \in 0 .. SizeMod - 1,
           NEW how \in {"whole", "partly", "unopened"}, Top.id \in Nat,
           PutFile(p, offset, size, how),
           package' \in Seq(DOMAIN Source \cup {Marker}), pkg_cur_offset' \in Nat
    PROVE  /\ TablesType'
           /\ UNCHANGED missed
           /\ UNCHANGED dump => DumpType'
<1>1. outcome \in Seq({"whole", "partly", "unopened"}) /\ Len(outcome) = Len(entries)
  BY DEF TypeOK, TablesType
<1>2. /\ outcome' = Append(outcome, how) /\ UNCHANGED missed
      /\ PutMetadata(p, Top.id) /\ PutEntry(offset, size)
  BY DEF PutFile
<1>3. outcome' \in Seq({"whole", "partly", "unopened"}) /\ Len(outcome') = Len(entries) + 1
  BY <1>1, <1>2, AppendType
<1>4. /\ metadata' \in Seq([id : Nat, parent : Nat, path : Packed]) /\ metadata_room' \in Nat
      /\ Len(metadata) \in Nat /\ Len(metadata') = Len(metadata) + 1
  BY <1>2, MetadataType
<1>5. /\ entries' \in Seq([id : Nat, offset : Nat, size : 0 .. SizeMod - 1])
      /\ entries_room' \in Nat
      /\ Len(entries) \in Nat /\ Len(entries') = Len(entries) + 1
  BY <1>2, EntryType
<1>6. TablesType'
  BY <1>3, <1>4, <1>5 DEF TablesType
<1>7. ASSUME UNCHANGED dump
      PROVE  DumpType'
  <2>1. /\ Len(metadata') \in Nat /\ Len(metadata) <= Len(metadata')
        /\ Len(entries') \in Nat /\ Len(entries) <= Len(entries')
    <3>1. ASSUME NEW m \in Nat, NEW n, n = m + 1
          PROVE  n \in Nat /\ m <= n
      BY <3>1
    <3> QED
      BY <1>4, <1>5, <3>1
  <2> QED
    BY <1>7, <2>1, DumpKept
<1> QED
  BY <1>2, <1>6, <1>7

LEMMA TypeWalk ==
    ASSUME TypeOK,
           \/ WritePkg \/ WritePkgUnopened \/ CloseDir
           \/ \E p \in Packed : SkipEntry(p) \/ EnterDir(p) \/ EnterDirUnopened(p) \/ OpenBlob(p)
    PROVE  TypeOK'
<1> USE SourceType
<1>1. CASE WritePkg
  <2>1. stack' \in Seq(Frames)
    BY <1>1 DEF WritePkg, Enter, Frames
  <2>2. WalkType'
    BY <1>1, <2>1 DEF WritePkg, TypeOK, WalkType, Frames, history
  <2> QED
    BY <1>1, <2>2, TablesKept, DumpKeptToo DEF WritePkg, TypeOK, history
<1>2. CASE WritePkgUnopened
  <2>1. WalkType'
    BY <1>2 DEF WritePkgUnopened, TypeOK, WalkType, walk
  <2> QED
    BY <1>2, <2>1, TablesKept, DumpKeptToo DEF WritePkgUnopened, TypeOK
<1>3. CASE CloseDir
  <2>1. stack' \in Seq(Frames) /\ pc' = "walk"
    BY <1>3, StackType DEF CloseDir, Walking
  <2>2. WalkType'
    BY <1>3, <2>1 DEF CloseDir, TypeOK, WalkType, Frames, history
  <2> QED
    BY <1>3, <2>2, TablesKept, DumpKeptToo DEF CloseDir, TypeOK, history
<1>4. ASSUME NEW p \in Packed, SkipEntry(p)
      PROVE  TypeOK'
  <2>1. stack' \in Seq(Frames) /\ pc' = "walk"
    BY <1>4, GoOnType DEF SkipEntry, Take, Walking
  <2>2. WalkType'
    BY <1>4, <2>1 DEF SkipEntry, TypeOK, WalkType, Frames
  <2> QED
    BY <1>4, <2>2, TablesKept, DumpKeptToo DEF SkipEntry, TypeOK
<1>5. ASSUME NEW p \in Packed, EnterDir(p) \/ EnterDirUnopened(p),
             stack' \in Seq(Frames), missed' \subseteq Packed
      PROVE  TypeOK'
  <2>1. /\ PutMetadata(p, Top.id) /\ Walking /\ Top.id \in Nat
        /\ UNCHANGED <<blob, pkg, entries, entries_room, dump, pc, outcome>>
    BY <1>5, StackType DEF EnterDir, EnterDirUnopened, Take, Frames, history
  <2>2. /\ metadata' \in Seq([id : Nat, parent : Nat, path : Packed]) /\ metadata_room' \in Nat
        /\ Len(metadata) \in Nat /\ Len(metadata') = Len(metadata) + 1
    BY <2>1, MetadataType
  <2>3. WalkType'
    BY <1>5, <2>1 DEF TypeOK, WalkType, Frames, Walking
  <2>4. TablesType'
    BY <2>1, <2>2 DEF TypeOK, TablesType, pkg
  <2>5. DumpType'
    <3>1. Len(entries) \in Nat
      BY DEF TypeOK, TablesType
    <3> QED
      BY <2>1, <2>2, <3>1, DumpKept
  <2> QED
    BY <2>3, <2>4, <2>5 DEF TypeOK
<1>6. ASSUME NEW p \in Packed, EnterDir(p)
      PROVE  stack' \in Seq(Frames) /\ missed' \subseteq Packed
  <2>1. Front(stack) \in Seq(Frames) /\ Left(p) \in Frames
    BY <1>6, StackType DEF EnterDir, Take
  <2>2. Enter(p, NewId) \in Frames
    BY DEF Enter, Frames, NewId, TypeOK, TablesType
  <2> QED
    BY <1>6, <2>1, <2>2, AppendType DEF EnterDir, TypeOK, WalkType, history
<1>7. ASSUME NEW p \in Packed, EnterDirUnopened(p)
      PROVE  stack' \in Seq(Frames) /\ missed' \subseteq Packed
  BY <1>7, GoOnType DEF EnterDirUnopened, TypeOK, WalkType
<1>8. ASSUME NEW p \in Packed, OpenBlob(p)
      PROVE  TypeOK'
  <2>1. stack' \in Seq(Frames) /\ stack' # << >>
    BY <1>8, GoOnType DEF OpenBlob
  <2>2. p \in Files
    BY <1>8 DEF OpenBlob, Files
  <2>3. /\ blob' \in [path : Spelled, offset : Nat, start : Nat]
        /\ blob'.path = p /\ blob'.start = Len(package) /\ Len(package) \in Nat
    BY <1>8 DEF OpenBlob, TypeOK, TablesType
  <2>4. WalkType'
    BY <1>8, <2>1, <2>2, <2>3 DEF OpenBlob, TypeOK, WalkType, Frames, history, pkg
  <2> QED
    BY <1>8, <2>4, TablesKept, DumpKeptToo DEF OpenBlob, TypeOK, history
<1> QED
  BY <1>1, <1>2, <1>3, <1>4, <1>5, <1>6, <1>7, <1>8

LEMMA TypeBlob ==
    ASSUME TypeOK,
           \/ WriteByte \/ BlobFails \/ BlobDone
           \/ \E p \in Packed : BlobUnopened(p)
    PROVE  TypeOK'
<1> USE SourceType
<1>0. /\ 0 \in 0 .. SizeMod - 1
      /\ package \in Seq(DOMAIN Source \cup {Marker}) /\ pkg_cur_offset \in Nat
  BY Constants DEF TypeOK, TablesType
<1>1. CASE WriteByte
  <2>1. /\ blob.path \in Packed /\ pc = "blob"
        /\ Leads(blob.path) \in DOMAIN Source \cup {Marker}
    BY <1>1, FileFacts DEF WriteByte, TypeOK, WalkType
  <2>2. /\ package' \in Seq(DOMAIN Source \cup {Marker}) /\ Len(package') = Len(package) + 1
        /\ Len(package) \in Nat
    BY <1>0, <1>1, <2>1, AppendType DEF WriteByte
  <2>3. TablesType'
    BY <1>1, <2>2 DEF WriteByte, TypeOK, TablesType, tables, history
  <2>4. WalkType'
    BY <1>1, <2>1, <2>2 DEF WriteByte, TypeOK, WalkType, walk, history
  <2> QED
    BY <1>1, <2>3, <2>4, DumpKeptToo DEF WriteByte, TypeOK
<1>2. ASSUME pc = "blob"
      PROVE  blob.path \in Packed /\ blob.offset \in Nat /\ Top.id \in Nat
  BY <1>2, LastType DEF TypeOK, WalkType, Top
<1>3. CASE BlobFails
  <2>1. /\ blob.path \in Packed /\ blob.offset \in Nat /\ Top.id \in Nat
        /\ PutFile(blob.path, blob.offset, 0, "partly") /\ UNCHANGED pkg /\ UNCHANGED dump
    BY <1>2, <1>3 DEF BlobFails
  <2>2. TablesType' /\ DumpType' /\ UNCHANGED missed
    BY <1>0, <2>1, PutFileType DEF pkg
  <2>3. WalkType'
    BY <1>3, <2>2 DEF BlobFails, TypeOK, WalkType, walk
  <2> QED
    BY <2>2, <2>3 DEF TypeOK
<1>4. CASE BlobDone
  <2>1. BytesDone \in Nat
    BY <1>4 DEF BlobDone, TypeOK, WalkType, TablesType, BytesDone
  <2>2. BytesDone % SizeMod \in 0 .. SizeMod - 1
    BY <2>1, SizeCut
  <2>3. /\ blob.path \in Packed /\ blob.offset \in Nat /\ Top.id \in Nat
        /\ PutFile(blob.path, blob.offset, BytesDone % SizeMod, "whole") /\ UNCHANGED dump
    BY <1>2, <1>4 DEF BlobDone
  <2>4. package' \in Seq(DOMAIN Source \cup {Marker}) /\ pkg_cur_offset' \in Nat
    BY <1>0, <1>4, AppendType DEF BlobDone
  <2>5. TablesType' /\ DumpType' /\ UNCHANGED missed
    BY <2>2, <2>3, <2>4, PutFileType
  <2>6. WalkType'
    BY <1>4, <2>5 DEF BlobDone, TypeOK, WalkType, walk
  <2> QED
    BY <2>5, <2>6 DEF TypeOK
<1>5. ASSUME NEW p \in Packed, BlobUnopened(p)
      PROVE  TypeOK'
  <2>1. stack' \in Seq(Frames) /\ Top.id \in Nat /\ pc' = "walk"
    BY <1>5, GoOnType DEF BlobUnopened, Take, Walking
  <2>2. PutFile(p, pkg_cur_offset, 0, "unopened") /\ UNCHANGED pkg /\ UNCHANGED dump
    BY <1>5 DEF BlobUnopened
  <2>3. TablesType' /\ DumpType' /\ UNCHANGED missed
    BY <1>0, <2>1, <2>2, PutFileType DEF pkg
  <2>4. WalkType'
    BY <1>5, <2>1, <2>3 DEF BlobUnopened, TypeOK, WalkType, Frames
  <2> QED
    BY <2>3, <2>4 DEF TypeOK
<1> QED
  BY <1>1, <1>3, <1>4, <1>5

LEMMA NameSizeType ==
    ASSUME NEW s \in Seq([id : Nat, parent : Nat, path : Packed]), NEW n \in 1 .. Len(s)
    PROVE  NameSize[Last(s[n].path)] \in Nat
<1>1. s[n] \in [id : Nat, parent : Nat, path : Packed]
  BY ElementType
<1>2. s[n].path \in Packed
  BY <1>1
<1> QED
  BY <1>2, PathFacts, LastType, PathAssumption

LEMMA TypeDump ==
    ASSUME TypeOK,
           DumpHeader \/ DumpMetadata \/ DumpName \/ StartData \/ DumpData \/ DumpFooter
    PROVE  TypeOK'
<1>1. WalkType' /\ TablesType'
  BY TablesKept DEF DumpHeader, DumpMetadata, DumpName, StartData, DumpData, DumpFooter,
                    TypeOK, WalkType, walk, pkg, history
<1>2. UNCHANGED metadata /\ UNCHANGED entries /\ Len(metadata) \in Nat /\ Len(entries) \in Nat
  BY DEF DumpHeader, DumpMetadata, DumpName, StartData, DumpData, DumpFooter,
         TypeOK, TablesType, tables
<1>3. \A n \in 1 .. Len(metadata) : NameSize[Last(metadata[n].path)] \in Nat
  BY NameSizeType DEF TypeOK, TablesType
<1>4. /\ general_offset \in Nat /\ position \in Nat /\ string_start \in Int
      /\ out_metadata \in Seq([at : Nat, offset : Int]) /\ Len(out_metadata) <= Len(metadata)
      /\ out_names \in Seq([at : Nat, size : Nat]) /\ Len(out_names) <= Len(metadata)
      /\ out_data \in Seq(Nat) /\ Len(out_data) <= Len(entries)
      /\ out_header \in [data : Int, footer : Int, footer_at : Nat]
      /\ Len(out_metadata) \in Nat /\ Len(out_names) \in Nat
  BY DEF TypeOK, DumpType
<1>5. HeaderSize \in Nat /\ MetadataSize \in Nat /\ DataSize \in Nat /\ MagicOffset \in Nat
  BY Constants
<1>6. CASE DumpHeader
  <2>1. MetadataSize * Len(metadata) \in Int
    BY <1>2, <1>5
  <2>2. DumpType'
    BY <1>2, <1>4, <1>5, <1>6, <2>1 DEF DumpHeader, DumpType
  <2> QED
    BY <1>1, <2>2 DEF TypeOK
<1>7. CASE DumpMetadata
  <2>1. Len(out_metadata) + 1 \in 1 .. Len(metadata)
    BY <1>2, <1>4, <1>7 DEF DumpMetadata
  <2>2. string_start' \in Int /\ position' \in Nat /\ general_offset' \in Nat
    BY <1>3, <1>4, <1>5, <1>7, <2>1 DEF DumpMetadata, NextString
  <2>3. [at |-> position, offset |-> string_start] \in [at : Nat, offset : Int]
    BY <1>4
  <2>4. /\ out_metadata' \in Seq([at : Nat, offset : Int])
        /\ Len(out_metadata') = Len(out_metadata) + 1
    BY <1>4, <1>7, <2>3, AppendType DEF DumpMetadata
  <2>5. DumpType'
    BY <1>2, <1>4, <1>7, <2>1, <2>2, <2>4 DEF DumpMetadata, DumpType
  <2> QED
    BY <1>1, <2>5 DEF TypeOK
<1>8. CASE DumpName
  <2>1. Len(out_names) + 1 \in 1 .. Len(metadata)
    BY <1>2, <1>4, <1>8 DEF DumpName
  <2> DEFINE size == NameSize[Last(metadata[Len(out_names) + 1].path)]
  <2>2. size \in Nat
    BY <1>3, <2>1
  <2>3. /\ out_names' = Append(out_names, [at |-> position, size |-> size])
        /\ position' = position + size /\ general_offset' = general_offset + size
    BY <1>8 DEF DumpName
  <2> HIDE DEF size
  <2>4. [at |-> position, size |-> size] \in [at : Nat, size : Nat]
    BY <1>4, <2>2
  <2>5. /\ out_names' \in Seq([at : Nat, size : Nat])
        /\ Len(out_names') = Len(out_names) + 1
    BY <1>4, <2>3, <2>4, AppendType
  <2>6. position' \in Nat /\ general_offset' \in Nat
    BY <1>4, <2>2, <2>3
  <2>7. UNCHANGED <<string_start, out_metadata, out_data, out_header>>
    BY <1>8 DEF DumpName
  <2>8. DumpType'
    BY <1>2, <1>4, <2>1, <2>5, <2>6, <2>7 DEF DumpType
  <2> QED
    BY <1>1, <2>8 DEF TypeOK
<1>9. CASE StartData
  <2>1. general_offset - MagicOffset \in Int
    BY <1>4, <1>5
  <2>2. out_header' \in [data : Int, footer : Int, footer_at : Nat]
    BY <1>4, <1>9, <2>1 DEF StartData
  <2>3. DumpType'
    BY <1>2, <1>4, <1>9, <2>2 DEF StartData, DumpType
  <2> QED
    BY <1>1, <2>3 DEF TypeOK
<1>10. CASE DumpData
  <2>1. out_data' \in Seq(Nat) /\ Len(out_data') = Len(out_data) + 1
    BY <1>4, <1>10, AppendType DEF DumpData
  <2>2. DumpType'
    BY <1>2, <1>4, <1>5, <1>10, <2>1 DEF DumpData, DumpType
  <2> QED
    BY <1>1, <2>2 DEF TypeOK
<1>11. CASE DumpFooter
  <2>1. general_offset - MagicOffset \in Int
    BY <1>4, <1>5
  <2>2. out_header' \in [data : Int, footer : Int, footer_at : Nat]
    BY <1>4, <1>11, <2>1 DEF DumpFooter
  <2>3. DumpType'
    BY <1>2, <1>4, <1>11, <2>2 DEF DumpFooter, DumpType
  <2> QED
    BY <1>1, <2>3 DEF TypeOK
<1> QED
  BY <1>6, <1>7, <1>8, <1>9, <1>10, <1>11

\* Every reachable state of wows_write_pkg has its type.
THEOREM TypeCorrect == Spec => []TypeOK
<1>1. TypeOK /\ [Next]_vars => TypeOK'
  <2> SUFFICES ASSUME TypeOK, [Next]_vars PROVE TypeOK'
    OBVIOUS
  <2>1. CASE Next
    BY <2>1, TypeWalk, TypeBlob, TypeDump DEF Next, Step, Fault, PassOver, EnterDirTooDeep
  <2>2. CASE UNCHANGED vars
    BY <2>2, TablesKept, DumpKeptToo DEF vars, walk, pkg, history, TypeOK, WalkType
  <2> QED
    BY <2>1, <2>2
<1> QED
  BY TypeInit, <1>1, PTL DEF Spec

-----------------------------------------------------------------------------
(* The arrays                                                              *)

\* There is room for what is counted, and then for one more.
LEMMA RoomGrows ==
    ASSUME NEW room \in Nat, NEW count \in Nat, count <= room
    PROVE  count + 1 <= RoomFor(room, count)
<1>1. Chunk \in Nat /\ Chunk >= 1
  BY WriterAssumption
<1> QED
  BY <1>1 DEF RoomFor

\* No record or entry is ever put past the end of its array.
THEOREM ArraysAlwaysFit == Spec => []ArraysFit
<1>1. Init => ArraysFit
  BY DEF Init, ArraysFit
<1>2. TypeOK /\ ArraysFit /\ [Next]_vars => ArraysFit'
  <2> SUFFICES ASSUME TypeOK, ArraysFit, [Next]_vars
               PROVE  ArraysFit'
    OBVIOUS
  <2>1. /\ Len(metadata) \in Nat /\ Len(entries) \in Nat
        /\ metadata_room \in Nat /\ entries_room \in Nat
    BY DEF TypeOK, TablesType
  <2>2. ASSUME NEW p \in Packed, NEW parent \in Nat, PutMetadata(p, parent)
        PROVE  Len(metadata') <= metadata_room'
    <3>1. Len(metadata') = Len(metadata) + 1
      BY <2>2, MetadataType
    <3> QED
      BY <2>1, <2>2, <3>1, RoomGrows DEF PutMetadata, ArraysFit
  <2>3. ASSUME NEW offset \in Nat, NEW size \in 0 .. SizeMod - 1, PutEntry(offset, size)
        PROVE  Len(entries') <= entries_room'
    <3>1. Len(entries') = Len(entries) + 1
      BY <2>3, EntryType
    <3> QED
      BY <2>1, <2>3, <3>1, RoomGrows DEF PutEntry, ArraysFit
  <2>4. ASSUME NEW p \in Packed, EnterDir(p) \/ EnterDirUnopened(p)
        PROVE  ArraysFit'
    <3>1. Top.id \in Nat /\ PutMetadata(p, Top.id) /\ UNCHANGED <<entries, entries_room>>
      BY <2>4, StackType DEF EnterDir, EnterDirUnopened, Take, Frames
    <3> QED
      BY <2>2, <3>1 DEF ArraysFit
  <2>5. ASSUME NEW p \in Packed, NEW offset \in Nat, NEW size \in 0 .. SizeMod - 1, NEW how,
               Top.id \in Nat, PutFile(p, offset, size, how)
        PROVE  ArraysFit'
    BY <2>2, <2>3, <2>5 DEF PutFile, ArraysFit
  <2>6. 0 \in 0 .. SizeMod - 1
    BY Constants
  <2>7. ASSUME pc = "blob"
        PROVE  blob.path \in Packed /\ blob.offset \in Nat /\ Top.id \in Nat
    BY <2>7, SourceType, LastType DEF TypeOK, WalkType, Top
  <2>8. CASE BlobFails
    BY <2>5, <2>6, <2>7, <2>8 DEF BlobFails
  <2>9. CASE BlobDone
    <3>1. BytesDone \in Nat
      BY <2>9 DEF BlobDone, TypeOK, WalkType, TablesType, BytesDone
    <3>2. BytesDone % SizeMod \in 0 .. SizeMod - 1
      BY <3>1, SizeCut
    <3> QED
      BY <2>5, <2>7, <2>9, <3>2 DEF BlobDone
  <2>10. ASSUME NEW p \in Packed, BlobUnopened(p)
         PROVE  ArraysFit'
    <3>1. Top.id \in Nat /\ pkg_cur_offset \in Nat
      BY <2>10, GoOnType DEF BlobUnopened, TypeOK, TablesType
    <3> QED
      BY <2>5, <2>6, <2>10, <3>1 DEF BlobUnopened
  <2>11. CASE UNCHANGED tables
    BY <2>11 DEF ArraysFit, tables
  <2>12. ASSUME Next, ~ UNCHANGED tables
         PROVE  \/ BlobFails \/ BlobDone
                \/ \E p \in Packed : EnterDir(p) \/ EnterDirUnopened(p) \/ BlobUnopened(p)
    BY <2>12 DEF Next, Step, Fault, PassOver, EnterDirTooDeep, WritePkg, WritePkgUnopened, SkipEntry, CloseDir, OpenBlob,
                 WriteByte, DumpHeader, DumpMetadata, DumpName, StartData, DumpData, DumpFooter
  <2> QED
    BY <2>4, <2>8, <2>9, <2>10, <2>11, <2>12 DEF vars
<1> QED
  BY <1>1, <1>2, TypeCorrect, PTL DEF Spec

-----------------------------------------------------------------------------
(* The entries and the package                                             *)

EntryIds ==
    \A n \in DOMAIN entries :
      entries[n].id \in 1 .. Len(metadata) /\ metadata[entries[n].id].path \in Files

\* The offset the next entry gets is where its data will start, unless a file
\* failed part of the way.
OffsetKept ==
    /\ pkg_cur_offset <= Len(package)
    /\ pc # "blob" /\ ~ AfterPartly(Len(entries) + 1) => pkg_cur_offset = Len(package)

\* What is written since the blob was opened is its own.
BlobKept ==
    pc = "blob" =>
      /\ blob.offset = pkg_cur_offset
      /\ blob.offset <= blob.start
      /\ \A k \in blob.start + 1 .. Len(package) : package[k] = Leads(blob.path)
      /\ ~ AfterPartly(Len(entries) + 1) => blob.offset = blob.start

EntriesInv == EntryIds /\ OffsetKept /\ BlobKept /\ EntriesExact

\* The package and the tables are only added to.
PackageGrows ==
    /\ Len(package) <= Len(package')
    /\ \A k \in 1 .. Len(package) : package'[k] = package[k]

MetadataGrows ==
    /\ Len(metadata) <= Len(metadata')
    /\ \A k \in 1 .. Len(metadata) : metadata'[k] = metadata[k]

OutcomeGrows == \A k \in 1 .. Len(outcome) : outcome'[k] = outcome[k]

LEMMA AfterPartlyKept ==
    ASSUME TypeOK, OutcomeGrows, NEW n \in 1 .. Len(entries) + 1
    PROVE  AfterPartly(n)' <=> AfterPartly(n)
<1>1. Len(outcome) = Len(entries) /\ Len(entries) \in Nat
  BY DEF TypeOK, TablesType
<1>2. \A k \in 1 .. n - 1 : outcome'[k] = outcome[k]
  BY <1>1 DEF OutcomeGrows
<1> QED
  BY <1>2 DEF AfterPartly

LEMMA AfterPartlyNext ==
    ASSUME TypeOK, NEW how \in {"whole", "partly", "unopened"}, outcome' = Append(outcome, how),
           NEW m, m = Len(entries)
    PROVE  /\ how = "partly" => AfterPartly(m + 2)'
           /\ how = "unopened" /\ AfterPartly(m + 1) => AfterPartly(m + 2)'
           /\ OutcomeGrows /\ outcome'[m + 1] = how
<1>1. /\ Len(outcome) = m /\ m \in Nat
      /\ outcome \in Seq({"whole", "partly", "unopened"})
  BY DEF TypeOK, TablesType
<1>2. outcome'[m + 1] = how /\ \A k \in 1 .. m : outcome'[k] = outcome[k]
  BY <1>1, AppendType
<1>3. (m + 1) - 1 = m /\ (m + 2) - 1 = m + 1 /\ m + 1 \in 1 .. m + 1
  BY <1>1
<1>4. ASSUME how = "partly"
      PROVE  AfterPartly(m + 2)'
  <2>1. \A j \in (m + 1) + 1 .. m + 1 : outcome'[j] = "unopened"
    BY <1>1
  <2> QED
    BY <1>2, <1>3, <1>4, <2>1 DEF AfterPartly
<1>5. ASSUME how = "unopened", AfterPartly(m + 1)
      PROVE  AfterPartly(m + 2)'
  <2>1. PICK k \in 1 .. m : outcome[k] = "partly" /\ \A j \in k + 1 .. m : outcome[j] = "unopened"
    BY <1>3, <1>5 DEF AfterPartly
  <2>2. outcome'[k] = "partly" /\ \A j \in k + 1 .. m + 1 : outcome'[j] = "unopened"
    BY <1>1, <1>2, <1>5, <2>1
  <2>3. k \in 1 .. m + 1
    BY <1>1
  <2> QED
    BY <1>3, <2>2, <2>3 DEF AfterPartly
<1> QED
  BY <1>1, <1>2, <1>4, <1>5 DEF OutcomeGrows

\* The same of the number the next entry will have after the step.
LEMMA NextAfterPartly ==
    ASSUME TypeOK, NEW how \in {"partly", "unopened"}, outcome' = Append(outcome, how),
           Len(entries') = Len(entries) + 1,
           how = "partly" \/ AfterPartly(Len(entries) + 1)
    PROVE  AfterPartly(Len(entries) + 1)'
<1>1. Len(entries) \in Nat
  BY DEF TypeOK, TablesType
<1>2. ASSUME NEW m, m = Len(entries)
      PROVE  AfterPartly(Len(entries) + 1)'
  <2>1. AfterPartly(m + 2)'
    BY <1>2, AfterPartlyNext
  <2>2. Len(entries') + 1 = m + 2
    BY <1>1, <1>2
  <2> QED
    BY <2>1, <2>2 DEF AfterPartly
<1> QED
  BY <1>2

LEMMA EntryRecord ==
    ASSUME TypeOK, NEW n \in 1 .. Len(entries)
    PROVE  entries[n].offset \in Nat /\ entries[n].size \in Nat /\ entries[n].id \in Nat
<1>1. /\ entries \in Seq([id : Nat, offset : Nat, size : 0 .. SizeMod - 1])
  BY DEF TypeOK, TablesType
<1>2. entries[n] \in [id : Nat, offset : Nat, size : 0 .. SizeMod - 1]
  BY <1>1, ElementType
<1>3. 0 .. SizeMod - 1 \subseteq Nat
  BY Constants
<1> QED
  BY <1>2, <1>3

\* Growing breaks no entry that is there.
LEMMA OldEntryKept ==
    ASSUME TypeOK, EntryIds, NEW n \in 1 .. Len(entries), EntryExact(n),
           PackageGrows, MetadataGrows, OutcomeGrows, entries'[n] = entries[n],
           Len(package') \in Nat
    PROVE  EntryExact(n)' /\ metadata'[entries[n].id] = metadata[entries[n].id]
<1>1. /\ Len(outcome) = Len(entries) /\ Len(entries) \in Nat /\ Len(package) \in Nat
      /\ DOMAIN entries = 1 .. Len(entries)
  BY DEF TypeOK, TablesType
<1>2. entries[n].offset \in Nat /\ entries[n].size \in Nat
  BY EntryRecord
<1>3. metadata'[entries[n].id] = metadata[entries[n].id]
  BY <1>1 DEF EntryIds, MetadataGrows
<1>4. outcome'[n] = outcome[n] /\ (AfterPartly(n)' <=> AfterPartly(n))
  BY <1>1, AfterPartlyKept DEF OutcomeGrows
<1>5. entries[n].offset + entries[n].size <= Len(package)
  BY DEF EntryExact
<1>6. ASSUME NEW k \in 1 .. entries[n].size
      PROVE  package'[entries[n].offset + k] = package[entries[n].offset + k]
  <2>1. entries[n].offset + k \in 1 .. Len(package)
    BY <1>1, <1>2, <1>5
  <2> QED
    BY <2>1 DEF PackageGrows
<1>7. entries[n].offset + entries[n].size <= Len(package')
  BY <1>1, <1>2, <1>5 DEF PackageGrows
<1> QED
  BY <1>3, <1>4, <1>6, <1>7 DEF EntryExact

\* A step that adds no entry.
LEMMA EntriesKept ==
    ASSUME TypeOK, EntryIds, EntriesExact, PackageGrows, MetadataGrows,
           UNCHANGED <<entries, outcome>>, Len(package') \in Nat,
           metadata' \in Seq([id : Nat, parent : Nat, path : Packed])
    PROVE  EntryIds' /\ EntriesExact'
<1>1. DOMAIN entries = 1 .. Len(entries) /\ Len(metadata) \in Nat /\ Len(metadata') \in Nat
  BY DEF TypeOK, TablesType
<1>2. OutcomeGrows
  BY DEF OutcomeGrows
<1>3. ASSUME NEW n \in 1 .. Len(entries)
      PROVE  EntryExact(n)' /\ metadata'[entries[n].id] = metadata[entries[n].id]
  BY <1>1, <1>2, <1>3, OldEntryKept DEF EntriesExact
<1>4. ASSUME NEW n \in 1 .. Len(entries)
      PROVE  /\ entries[n].id \in 1 .. Len(metadata')
             /\ metadata'[entries[n].id].path \in Files
  <2>1. entries[n].id \in 1 .. Len(metadata) /\ metadata[entries[n].id].path \in Files
    BY <1>1 DEF EntryIds
  <2>2. Len(metadata) <= Len(metadata')
    BY DEF MetadataGrows
  <2>3. entries[n].id \in 1 .. Len(metadata')
    BY <1>1, <2>1, <2>2
  <2> QED
    BY <1>3, <2>1, <2>3
<1>5. EntryIds'
  BY <1>1, <1>4 DEF EntryIds
<1> QED
  BY <1>1, <1>3, <1>5 DEF EntriesExact

\* A step that adds the entry of p.
LEMMA EntryAdded ==
    ASSUME TypeOK, EntryIds, EntriesExact, PackageGrows, Len(package') \in Nat,
           NEW p \in Files, NEW offset \in Nat, NEW size \in 0 .. SizeMod - 1,
           NEW how \in {"whole", "partly", "unopened"}, Top.id \in Nat,
           PutFile(p, offset, size, how),
           offset + size <= Len(package),
           how = "whole" /\ ~ AfterPartly(Len(entries) + 1) /\ Bytes[Leads(p)] < SizeMod =>
             size = Bytes[Leads(p)] /\ \A k \in 1 .. size : package[offset + k] = Leads(p)
    PROVE  EntryIds' /\ EntriesExact'
<1> DEFINE m == Len(entries)
<1>1. /\ PutMetadata(p, Top.id) /\ PutEntry(offset, size) /\ outcome' = Append(outcome, how)
      /\ p \in Packed
  BY SourceType DEF PutFile
<1>2. /\ metadata' \in Seq([id : Nat, parent : Nat, path : Packed])
      /\ Len(metadata) \in Nat /\ Len(metadata') = Len(metadata) + 1
      /\ metadata'[NewId].path = p
      /\ \A i \in 1 .. Len(metadata) : metadata'[i] = metadata[i]
  BY <1>1, MetadataType
<1>3. /\ entries' \in Seq([id : Nat, offset : Nat, size : 0 .. SizeMod - 1])
      /\ m \in Nat /\ Len(entries') = m + 1
      /\ entries'[m + 1] = [id |-> NewId, offset |-> offset, size |-> size]
      /\ \A i \in 1 .. m : entries'[i] = entries[i]
  BY <1>1, EntryType
<1>4. OutcomeGrows /\ outcome'[m + 1] = how
  BY <1>1, AfterPartlyNext
<1>5. MetadataGrows
  <2>1. \A n \in Nat : n <= n + 1
    OBVIOUS
  <2>2. Len(metadata) <= Len(metadata')
    BY <1>2, <2>1
  <2> QED
    BY <1>2, <2>2 DEF MetadataGrows
<1>6. /\ DOMAIN entries = 1 .. m /\ DOMAIN entries' = 1 .. m + 1 /\ NewId = Len(metadata) + 1
      /\ size \in Nat /\ Len(package) \in Nat
  BY <1>3, Constants DEF TypeOK, TablesType, NewId
<1>7. ASSUME NEW n \in 1 .. m
      PROVE  EntryExact(n)' /\ metadata'[entries[n].id] = metadata[entries[n].id]
  BY <1>3, <1>4, <1>5, <1>6, <1>7, OldEntryKept DEF EntriesExact
<1>8. ASSUME NEW k, k = m + 1
      PROVE  EntryExact(k)'
  <2>1. /\ entries'[k].offset = offset /\ entries'[k].size = size
        /\ metadata'[entries'[k].id].path = p /\ outcome'[k] = how
    <3>1. entries'[k] = [id |-> NewId, offset |-> offset, size |-> size]
      BY <1>3, <1>8
    <3>2. entries'[k].id = NewId /\ entries'[k].offset = offset /\ entries'[k].size = size
      BY <3>1
    <3> QED
      BY <1>2, <1>4, <1>8, <3>2
  <2>2. AfterPartly(k)' <=> AfterPartly(m + 1)
    <3>1. k \in 1 .. m + 1
      BY <1>3, <1>8
    <3> QED
      BY <1>4, <1>8, <3>1, AfterPartlyKept
  <2>3. offset + size <= Len(package')
    BY <1>6 DEF PackageGrows
  <2>4. ASSUME NEW i \in 1 .. size
        PROVE  package'[offset + i] = package[offset + i]
    <3>1. offset + i \in 1 .. Len(package)
      BY <1>6
    <3> QED
      BY <3>1 DEF PackageGrows
  <2> HIDE DEF m
  <2> QED
    BY <2>1, <2>2, <2>3, <2>4 DEF EntryExact, m
<1>9. EntriesExact'
  BY <1>3, <1>6, <1>7, <1>8 DEF EntriesExact
<1>10. ASSUME NEW n \in 1 .. m + 1
       PROVE  entries'[n].id \in 1 .. Len(metadata') /\ metadata'[entries'[n].id].path \in Files
  <2>1. CASE n \in 1 .. m
    <3>1. entries[n].id \in 1 .. Len(metadata) /\ metadata[entries[n].id].path \in Files
      BY <1>6, <2>1 DEF EntryIds
    <3>2. metadata'[entries[n].id] = metadata[entries[n].id] /\ entries'[n] = entries[n]
      BY <1>3, <1>7, <2>1
    <3>3. 1 .. Len(metadata) \subseteq 1 .. Len(metadata')
      BY <1>2
    <3> QED
      BY <3>1, <3>2, <3>3
  <2>2. CASE n = m + 1
    <3>1. entries'[n] = [id |-> NewId, offset |-> offset, size |-> size]
      BY <1>3, <2>2
    <3>2. entries'[n].id = NewId
      BY <3>1
    <3>3. NewId \in 1 .. Len(metadata')
      BY <1>2, <1>6
    <3> QED
      BY <1>2, <3>2, <3>3
  <2>3. n \in 1 .. m \/ n = m + 1
    BY <1>3
  <2> QED
    BY <2>1, <2>2, <2>3
<1> QED
  BY <1>6, <1>9, <1>10 DEF EntryIds

\* A step that touches neither the package nor the entries.
LEMMA EntriesUntouched ==
    ASSUME TypeOK, TypeOK', EntriesInv, MetadataGrows, UNCHANGED <<pkg, entries, outcome>>
    PROVE  /\ EntryIds' /\ EntriesExact'
           /\ AfterPartly(Len(entries) + 1)' <=> AfterPartly(Len(entries) + 1)
           /\ (pc' # "blob" /\ pc # "blob") => OffsetKept' /\ BlobKept'
<1>1. /\ PackageGrows /\ Len(package) \in Nat /\ Len(package') \in Nat
      /\ Len(entries) \in Nat /\ Len(entries) + 1 \in 1 .. Len(entries) + 1
      /\ metadata' \in Seq([id : Nat, parent : Nat, path : Packed])
      /\ UNCHANGED package /\ UNCHANGED pkg_cur_offset
  BY DEF PackageGrows, pkg, TypeOK, TablesType
<1>2. EntryIds' /\ EntriesExact'
  BY <1>1, EntriesKept DEF EntriesInv
<1>3. AfterPartly(Len(entries) + 1)' <=> AfterPartly(Len(entries) + 1)
  BY DEF AfterPartly
<1>4. (pc' # "blob" /\ pc # "blob") => OffsetKept' /\ BlobKept'
  BY <1>1, <1>3 DEF EntriesInv, OffsetKept, BlobKept
<1> QED
  BY <1>2, <1>3, <1>4

LEMMA EntriesWriteByte ==
    ASSUME TypeOK, TypeOK', EntriesInv, WriteByte
    PROVE  EntriesInv'
<1>1. /\ package \in Seq(DOMAIN Source \cup {Marker}) 
      /\ Leads(blob.path) \in DOMAIN Source \cup {Marker}
      /\ blob.start \in Nat /\ blob.start <= Len(package) /\ Len(package) \in Nat
      /\ pkg_cur_offset \in Nat
  BY FileFacts DEF WriteByte, TypeOK, WalkType, TablesType
<1>2. /\ package' = Append(package, Leads(blob.path)) /\ pc = "blob" /\ pc' = "blob"
      /\ UNCHANGED <<blob, pkg_cur_offset, entries, outcome, metadata>>
  BY DEF WriteByte, walk, tables, history
<1>3. /\ Len(package') = Len(package) + 1 /\ package'[Len(package) + 1] = Leads(blob.path)
      /\ \A k \in 1 .. Len(package) : package'[k] = package[k]
  BY <1>1, <1>2, AppendType
<1>4. PackageGrows /\ MetadataGrows
  BY <1>1, <1>2, <1>3 DEF PackageGrows, MetadataGrows, TypeOK, TablesType
<1>5. EntryIds' /\ EntriesExact'
  BY <1>1, <1>2, <1>3, <1>4, EntriesKept DEF EntriesInv, TypeOK, TablesType
<1>6. OffsetKept'
  BY <1>1, <1>2, <1>3 DEF EntriesInv, OffsetKept
<1>7. AfterPartly(Len(entries) + 1)' <=> AfterPartly(Len(entries) + 1)
  BY <1>2 DEF AfterPartly
<1>8. ASSUME NEW k \in blob.start + 1 .. Len(package) + 1
      PROVE  package'[k] = Leads(blob.path)
  <2>1. CASE k = Len(package) + 1
    BY <1>3, <2>1
  <2>2. CASE k \in blob.start + 1 .. Len(package)
    BY <1>1, <1>2, <1>3, <2>2 DEF EntriesInv, BlobKept
  <2> QED
    BY <1>1, <1>8, <2>1, <2>2
<1>9. BlobKept'
  BY <1>2, <1>3, <1>7, <1>8 DEF EntriesInv, BlobKept
<1> QED
  BY <1>5, <1>6, <1>9 DEF EntriesInv

LEMMA EntriesBlobEnds ==
    ASSUME TypeOK, TypeOK', EntriesInv, BlobFails \/ BlobDone
    PROVE  EntriesInv'
<1>1. /\ pc = "blob" /\ pc' = "walk" /\ UNCHANGED walk
  BY DEF BlobFails, BlobDone
<1>2. /\ blob.path \in Files /\ blob.offset \in Nat /\ blob.start \in Nat
      /\ blob.start <= Len(package) /\ Top.id \in Nat
  BY <1>1, LastType DEF TypeOK, WalkType, Top
<1>3. /\ package \in Seq(DOMAIN Source \cup {Marker}) /\ Len(package) \in Nat
      /\ Len(package') \in Nat /\ Len(entries) \in Nat
  BY DEF TypeOK, TablesType
<1>4. /\ blob.offset = pkg_cur_offset /\ blob.offset <= blob.start
      /\ \A k \in blob.start + 1 .. Len(package) : package[k] = Leads(blob.path)
      /\ ~ AfterPartly(Len(entries) + 1) => blob.offset = blob.start
  BY <1>1 DEF EntriesInv, BlobKept
<1>5. BlobKept'
  BY <1>1 DEF BlobKept
<1>6. CASE BlobFails
  <2>1. PutFile(blob.path, blob.offset, 0, "partly") /\ UNCHANGED pkg
    BY <1>6 DEF BlobFails
  <2>2. PackageGrows /\ 0 \in 0 .. SizeMod - 1 /\ blob.offset + 0 <= Len(package)
    BY <1>2, <1>3, <1>4, <2>1, Constants DEF PackageGrows, pkg
  <2>3. EntryIds' /\ EntriesExact'
    BY <1>2, <1>3, <2>1, <2>2, EntryAdded DEF EntriesInv
  <2>4. Len(entries') = Len(entries) + 1
    BY <1>2, <2>1, <2>2, EntryType DEF PutFile
  <2>5. AfterPartly(Len(entries) + 1)'
    BY <2>1, <2>4, NextAfterPartly DEF PutFile
  <2>6. OffsetKept'
    BY <2>1, <2>5 DEF EntriesInv, OffsetKept, pkg
  <2> QED
    BY <1>5, <2>3, <2>6 DEF EntriesInv
<1>7. CASE BlobDone
  <2> DEFINE size == BytesDone % SizeMod
  <2>1. /\ PutFile(blob.path, blob.offset, size, "whole")
        /\ BytesDone = BlobSize /\ BytesDone = Len(package) - blob.start
        /\ package' \in {package, Append(package, Marker)} /\ pkg_cur_offset' = Len(package')
    BY <1>7 DEF BlobDone, BytesDone
  <2>2. BytesDone \in Nat
    BY <1>2, <1>3, <2>1
  <2>3. /\ size \in 0 .. SizeMod - 1 /\ size <= BytesDone
        /\ BytesDone < SizeMod => size = BytesDone
    BY <2>2, SizeCut
  <2> HIDE DEF size
  <2>4. PackageGrows
    BY <1>3, <2>1, AppendType DEF PackageGrows
  <2>5. size \in Nat
    BY <2>3, Constants
  <2>6. blob.offset + size <= Len(package)
    BY <1>2, <1>3, <1>4, <2>1, <2>2, <2>3, <2>5
  <2>7. ASSUME ~ AfterPartly(Len(entries) + 1), BlobSize < SizeMod
        PROVE  size = BlobSize /\ \A k \in 1 .. size : package[blob.offset + k] = Leads(blob.path)
    <3>1. size = BytesDone /\ blob.offset = blob.start
      BY <1>4, <2>1, <2>3, <2>7
    <3>2. \A k \in 1 .. size : blob.start + k \in blob.start + 1 .. Len(package)
      BY <1>2, <1>3, <2>1, <3>1
    <3> QED
      BY <1>4, <2>1, <3>1, <3>2
  <2>8. EntryIds' /\ EntriesExact'
    BY <1>2, <1>3, <2>1, <2>3, <2>4, <2>6, <2>7, EntryAdded DEF EntriesInv, BlobSize
  <2>9. OffsetKept'
    BY <1>3, <2>1 DEF OffsetKept
  <2> QED
    BY <1>5, <2>8, <2>9 DEF EntriesInv
<1> QED
  BY <1>6, <1>7

LEMMA EntriesUnopened ==
    ASSUME TypeOK, TypeOK', EntriesInv, NEW p \in Packed, BlobUnopened(p)
    PROVE  EntriesInv'
<1>1. /\ PutFile(p, pkg_cur_offset, 0, "unopened") /\ UNCHANGED pkg
      /\ pc = "walk" /\ pc' = "walk" /\ p \in Files
  BY DEF BlobUnopened, Take, Walking, Files
<1>2. Top.id \in Nat
  BY GoOnType DEF BlobUnopened
<1>3. Len(package) \in Nat /\ Len(package') \in Nat /\ pkg_cur_offset \in Nat
  BY DEF TypeOK, TablesType
<1>4. PackageGrows /\ 0 \in 0 .. SizeMod - 1 /\ pkg_cur_offset + 0 <= Len(package)
  BY <1>1, <1>3, Constants DEF PackageGrows, pkg, EntriesInv, OffsetKept
<1>5. EntryIds' /\ EntriesExact'
  BY <1>1, <1>2, <1>3, <1>4, EntryAdded DEF EntriesInv
<1>6. Len(entries') = Len(entries) + 1
  BY <1>1, <1>3, <1>4, EntryType DEF PutFile
<1>7. OffsetKept'
  <2>1. CASE AfterPartly(Len(entries) + 1)
    <3>1. AfterPartly(Len(entries) + 1)'
      BY <1>1, <1>6, <2>1, NextAfterPartly DEF PutFile
    <3> QED
      BY <1>1, <3>1 DEF EntriesInv, OffsetKept, pkg
  <2>2. CASE ~ AfterPartly(Len(entries) + 1)
    BY <1>1, <2>2 DEF EntriesInv, OffsetKept, pkg
  <2> QED
    BY <2>1, <2>2
<1>8. BlobKept'
  BY <1>1 DEF BlobKept
<1> QED
  BY <1>5, <1>7, <1>8 DEF EntriesInv

LEMMA EntriesStep ==
    ASSUME TypeOK, TypeOK', EntriesInv, [Next]_vars
    PROVE  EntriesInv'
<1>1. Len(metadata) \in Nat /\ Len(package) \in Nat /\ Len(entries) \in Nat
  BY DEF TypeOK, TablesType
<1>2. ASSUME MetadataGrows, UNCHANGED <<pkg, entries, outcome>>, pc # "blob", pc' # "blob"
      PROVE  EntriesInv'
  BY <1>2, EntriesUntouched DEF EntriesInv
<1>3. UNCHANGED tables => MetadataGrows
  BY <1>1 DEF tables, MetadataGrows
<1>4. CASE \/ WritePkg \/ WritePkgUnopened \/ CloseDir \/ \E p \in Packed : SkipEntry(p)
  BY <1>2, <1>3, <1>4 DEF WritePkg, WritePkgUnopened, CloseDir, SkipEntry, Take, Walking,
                           tables, history
<1>5. ASSUME NEW p \in Packed, EnterDir(p) \/ EnterDirUnopened(p)
      PROVE  EntriesInv'
  <2>1. /\ PutMetadata(p, Top.id) /\ Top.id \in Nat /\ pc = "walk" /\ pc' = pc
        /\ UNCHANGED <<pkg, entries, outcome>>
    BY <1>5, StackType DEF EnterDir, EnterDirUnopened, Take, Walking, Frames, history
  <2>2. MetadataGrows
    <3>1. /\ Len(metadata') = Len(metadata) + 1
          /\ \A i \in 1 .. Len(metadata) : metadata'[i] = metadata[i]
      BY <2>1, MetadataType
    <3> QED
      BY <1>1, <3>1 DEF MetadataGrows
  <2> QED
    BY <1>2, <2>1, <2>2
<1>6. ASSUME NEW p \in Packed, OpenBlob(p)
      PROVE  EntriesInv'
  <2>1. /\ UNCHANGED <<pkg, tables, outcome>> /\ pc = "walk" /\ pc' = "blob"
        /\ blob' = [path |-> p, offset |-> pkg_cur_offset, start |-> Len(package)]
    BY <1>6 DEF OpenBlob, Take, Walking, history
  <2>2. /\ EntryIds' /\ EntriesExact'
        /\ AfterPartly(Len(entries) + 1)' <=> AfterPartly(Len(entries) + 1)
    BY <1>3, <2>1, EntriesUntouched DEF tables
  <2>3. OffsetKept' /\ BlobKept'
    BY <1>1, <2>1, <2>2 DEF EntriesInv, OffsetKept, BlobKept, pkg
  <2> QED
    BY <2>2, <2>3 DEF EntriesInv
<1>7. CASE DumpHeader \/ DumpMetadata \/ DumpName \/ StartData \/ DumpData \/ DumpFooter
  BY <1>2, <1>3, <1>7 DEF DumpHeader, DumpMetadata, DumpName, StartData, DumpData, DumpFooter,
                           tables, history
<1>8. CASE UNCHANGED vars
  <2>1. /\ EntryIds' /\ EntriesExact'
        /\ AfterPartly(Len(entries) + 1)' <=> AfterPartly(Len(entries) + 1)
    BY <1>3, <1>8, EntriesUntouched DEF vars, tables, history
  <2>2. OffsetKept' /\ BlobKept'
    BY <1>8, <2>1 DEF EntriesInv, OffsetKept, BlobKept, vars, pkg, walk, tables
  <2> QED
    BY <2>1, <2>2 DEF EntriesInv
<1> QED
  BY <1>4, <1>5, <1>6, <1>7, <1>8, EntriesWriteByte, EntriesBlobEnds, EntriesUnopened
     DEF Next, Step, Fault, PassOver, EnterDirTooDeep

\* Every entry of a whole file gives the bytes of the file its path leads to,
\* for any directory and sizes and whatever could not be read, but next to a
\* file that failed part of the way.
THEOREM EntriesAreExact == Spec => []EntriesExact
<1>1. Init => EntriesInv
  BY DEF Init, EntriesInv, EntryIds, OffsetKept, BlobKept, EntriesExact
<1>2. TypeOK /\ TypeOK' /\ EntriesInv /\ [Next]_vars => EntriesInv'
  BY EntriesStep
<1>3. EntriesInv => EntriesExact
  BY DEF EntriesInv
<1> QED
  BY <1>1, <1>2, <1>3, TypeCorrect, PTL DEF Spec

-----------------------------------------------------------------------------
(* The layout of the index                                                 *)

\* Where the n-th record says its name is, and where the names start.
Promised(n) == out_metadata[n].at + out_metadata[n].offset
Size(n) == NameSize[Last(metadata[n].path)]
NamesStart == HeaderSize + MetadataSize * Len(metadata)

Dumping == pc \in {"metadata", "data", "done"}

NothingDumped ==
    ~ Dumping => out_metadata = << >> /\ out_names = << >> /\ out_data = << >>

\* The first name is promised right after the records, each other one right
\* after the one before it; none is written before all are promised.
NamesPromised ==
    Dumping =>
      /\ general_offset = position
      /\ \A n \in 1 .. Len(out_metadata) : out_metadata[n].at = HeaderSize + MetadataSize * (n - 1)
      /\ out_metadata # << >> => Promised(1) = NamesStart
      /\ \A n \in 1 .. Len(out_metadata) - 1 : Promised(n + 1) = Promised(n) + Size(n)
      /\ \A n \in 1 .. Len(out_names) : out_names[n] = [at |-> Promised(n), size |-> Size(n)]

\* Where the next record or name goes.
NextPosition ==
    pc = "metadata" =>
      /\ out_data = << >>
      /\ out_names = << >> =>
           /\ position = HeaderSize + MetadataSize * Len(out_metadata)
           /\ out_metadata = << >> => position + string_start = NamesStart
           /\ out_metadata # << >> =>
                position + string_start = Promised(Len(out_metadata)) + Size(Len(out_metadata))
      /\ out_names # << >> =>
           /\ Len(out_metadata) = Len(metadata)
           /\ position = Promised(Len(out_names)) + Size(Len(out_names))

DataPlaced ==
    pc \in {"data", "done"} =>
      /\ Len(out_metadata) = Len(metadata) /\ Len(out_names) = Len(metadata)
      /\ \A n \in 1 .. Len(out_data) : out_data[n] = out_header.data + MagicOffset + DataSize * (n - 1)
      /\ pc = "data" => position = out_header.data + MagicOffset + DataSize * Len(out_data)
      /\ pc = "done" => /\ Len(out_data) = Len(entries)
                        /\ out_header.footer + MagicOffset = out_header.footer_at

LayoutInv == NothingDumped /\ NamesPromised /\ NextPosition /\ DataPlaced

LEMMA TimesNext ==
    ASSUME NEW a \in Nat, NEW n \in Nat
    PROVE  a * n \in Nat /\ a * (n + 1) = a * n + a /\ a * 0 = 0
OBVIOUS

LEMMA LayoutTypes ==
    ASSUME TypeOK
    PROVE  /\ general_offset \in Nat /\ position \in Nat /\ string_start \in Int
           /\ out_metadata \in Seq([at : Nat, offset : Int]) /\ Len(out_metadata) \in Nat
           /\ out_names \in Seq([at : Nat, size : Nat]) /\ Len(out_names) \in Nat
           /\ out_data \in Seq(Nat) /\ Len(out_data) \in Nat
           /\ out_header \in [data : Int, footer : Int, footer_at : Nat]
           /\ Len(metadata) \in Nat /\ Len(entries) \in Nat
           /\ Len(out_metadata) <= Len(metadata) /\ Len(out_names) <= Len(metadata)
           /\ \A n \in 1 .. Len(metadata) : Size(n) \in Nat
           /\ \A n \in 1 .. Len(out_metadata) :
                out_metadata[n].at \in Nat /\ out_metadata[n].offset \in Int /\ Promised(n) \in Int
           /\ MetadataSize * Len(metadata) \in Nat /\ NamesStart \in Nat
<1>1. /\ general_offset \in Nat /\ position \in Nat /\ string_start \in Int
      /\ out_metadata \in Seq([at : Nat, offset : Int]) /\ Len(out_metadata) \in Nat
      /\ out_names \in Seq([at : Nat, size : Nat]) /\ Len(out_names) \in Nat
      /\ out_data \in Seq(Nat) /\ Len(out_data) \in Nat
      /\ out_header \in [data : Int, footer : Int, footer_at : Nat]
      /\ Len(out_metadata) <= Len(metadata) /\ Len(out_names) <= Len(metadata)
  BY DEF TypeOK, DumpType
<1>2. /\ metadata \in Seq([id : Nat, parent : Nat, path : Packed])
      /\ Len(metadata) \in Nat /\ Len(entries) \in Nat
  BY DEF TypeOK, TablesType
<1>3. \A n \in 1 .. Len(metadata) : Size(n) \in Nat
  BY <1>2, NameSizeType DEF Size
<1>4. ASSUME NEW n \in 1 .. Len(out_metadata)
      PROVE  out_metadata[n].at \in Nat /\ out_metadata[n].offset \in Int /\ Promised(n) \in Int
  <2>1. out_metadata[n] \in [at : Nat, offset : Int]
    BY <1>1, ElementType
  <2>2. out_metadata[n].at \in Nat /\ out_metadata[n].offset \in Int
    BY <2>1
  <2> QED
    BY <2>2 DEF Promised
<1>5. MetadataSize * Len(metadata) \in Nat /\ NamesStart \in Nat
  <2>1. MetadataSize * Len(metadata) \in Nat
    BY <1>2, Constants, TimesNext
  <2>2. \A m, n \in Nat : m + n \in Nat
    OBVIOUS
  <2> QED
    BY <2>1, <2>2, Constants DEF NamesStart
<1> QED
  BY <1>1, <1>2, <1>3, <1>4, <1>5

LEMMA LayoutMetadata ==
    ASSUME TypeOK, LayoutInv, DumpMetadata, NEW m, m = Len(out_metadata)
    PROVE  LayoutInv'
<1>1. /\ pc = "metadata" /\ pc' = "metadata" /\ m + 1 <= Len(metadata)
      /\ out_metadata' = Append(out_metadata, [at |-> position, offset |-> string_start])
      /\ position' = position + MetadataSize /\ general_offset' = general_offset + MetadataSize
      /\ string_start' = string_start - MetadataSize + Size(m + 1)
      /\ UNCHANGED <<metadata, entries, out_names, out_data, out_header>>
  BY DEF DumpMetadata, NextString, Size, tables
<1>2. m \in Nat /\ position \in Nat /\ string_start \in Int
  BY LayoutTypes
<1>3. Size(m + 1) \in Nat /\ MetadataSize \in Nat /\ HeaderSize \in Nat /\ NamesStart \in Nat
  <2>1. m + 1 \in 1 .. Len(metadata)
    BY <1>1, <1>2, LayoutTypes
  <2> QED
    BY <2>1, LayoutTypes, Constants
<1>4. /\ Len(out_metadata') = m + 1
      /\ out_metadata'[m + 1] = [at |-> position, offset |-> string_start]
      /\ \A n \in 1 .. m : out_metadata'[n] = out_metadata[n]
      /\ out_metadata' # << >>
  <2>1. [at |-> position, offset |-> string_start] \in [at : Nat, offset : Int]
    BY <1>2
  <2>2. out_metadata \in Seq([at : Nat, offset : Int])
    BY LayoutTypes
  <2> QED
    BY <1>1, <2>1, <2>2, AppendType
<1>5. out_names = << >> /\ out_data = << >> /\ general_offset = position
  <2>1. out_data = << >> /\ general_offset = position
    BY <1>1 DEF LayoutInv, NextPosition, NamesPromised, Dumping
  <2>2. ASSUME out_names # << >>
        PROVE  FALSE
    BY <1>1, <1>2, <2>2, LayoutTypes DEF LayoutInv, NextPosition
  <2> QED
    BY <2>1, <2>2
<1>6. /\ position = HeaderSize + MetadataSize * m
      /\ m = 0 => position + string_start = NamesStart
      /\ m # 0 => position + string_start = Promised(m) + Size(m)
  <2>1. m = 0 <=> out_metadata = << >>
    BY LayoutTypes
  <2> QED
    BY <1>1, <1>5, <2>1 DEF LayoutInv, NextPosition
<1>7. /\ Promised(m + 1)' = position + string_start
      /\ \A n \in 1 .. m : Promised(n)' = Promised(n)
      /\ \A n : Size(n)' = Size(n)
      /\ NamesStart' = NamesStart
  BY <1>1, <1>4 DEF Promised, Size, NamesStart
<1>8. NamesPromised'
  <2>1. general_offset' = position'
    BY <1>1, <1>5
  <2>2. ASSUME NEW n \in 1 .. m + 1
        PROVE  out_metadata'[n].at = HeaderSize + MetadataSize * (n - 1)
    <3>1. CASE n \in 1 .. m
      BY <1>1, <1>4, <3>1 DEF LayoutInv, NamesPromised, Dumping
    <3>2. CASE n = m + 1
      BY <1>2, <1>4, <1>6, <3>2
    <3> QED
      BY <1>2, <3>1, <3>2
  <2>3. Promised(1)' = NamesStart'
    <3>1. CASE m = 0
      BY <1>6, <1>7, <3>1
    <3>2. CASE m # 0
      BY <1>1, <1>2, <1>7, <3>2 DEF LayoutInv, NamesPromised, Dumping
    <3> QED
      BY <3>1, <3>2
  <2>4. ASSUME NEW n \in 1 .. m
        PROVE  Promised(n + 1)' = Promised(n)' + Size(n)'
    <3>1. CASE n = m
      BY <1>2, <1>6, <1>7, <3>1
    <3>2. CASE n \in 1 .. m - 1
      <4>1. n + 1 \in 1 .. m /\ Promised(n + 1) = Promised(n) + Size(n)
        BY <1>1, <1>2, <3>2 DEF LayoutInv, NamesPromised, Dumping
      <4> QED
        BY <1>7, <4>1
    <3> QED
      BY <1>2, <3>1, <3>2
  <2>5. Len(out_names') = 0 /\ (m + 1) - 1 = m
    BY <1>1, <1>2, <1>5
  <2> QED
    BY <1>4, <2>1, <2>2, <2>3, <2>4, <2>5 DEF NamesPromised
<1>9. NextPosition'
  <2>1. position' = HeaderSize + MetadataSize * (m + 1)
    BY <1>1, <1>2, <1>3, <1>6, TimesNext
  <2>2. position' + string_start' = Promised(m + 1)' + Size(m + 1)'
    BY <1>1, <1>2, <1>3, <1>7
  <2> QED
    BY <1>1, <1>4, <1>5, <2>1, <2>2 DEF NextPosition
<1> QED
  BY <1>1, <1>8, <1>9 DEF LayoutInv, NothingDumped, DataPlaced, Dumping

LEMMA LayoutName ==
    ASSUME TypeOK, LayoutInv, DumpName, NEW k, k = Len(out_names)
    PROVE  LayoutInv'
<1>1. /\ pc = "metadata" /\ pc' = "metadata" /\ k + 1 <= Len(metadata)
      /\ Len(out_metadata) = Len(metadata)
      /\ out_names' = Append(out_names, [at |-> position, size |-> Size(k + 1)])
      /\ position' = position + Size(k + 1) /\ general_offset' = general_offset + Size(k + 1)
      /\ UNCHANGED <<metadata, entries, out_metadata, out_data, out_header>>
  BY DEF DumpName, Size, tables
<1>2. k \in Nat /\ position \in Nat /\ k + 1 \in 1 .. Len(metadata) /\ Len(metadata) \in Nat
  BY <1>1, LayoutTypes
<1>3. Size(k + 1) \in Nat
  BY <1>2, LayoutTypes
<1>4. /\ Len(out_names') = k + 1
      /\ out_names'[k + 1] = [at |-> position, size |-> Size(k + 1)]
      /\ \A n \in 1 .. k : out_names'[n] = out_names[n]
      /\ out_names' # << >>
  <2>1. [at |-> position, size |-> Size(k + 1)] \in [at : Nat, size : Nat]
    BY <1>2, <1>3
  <2>2. out_names \in Seq([at : Nat, size : Nat])
    BY LayoutTypes
  <2> QED
    BY <1>1, <2>1, <2>2, AppendType
<1>5. position = Promised(k + 1)
  <2>1. CASE k = 0
    <3>0. Len(out_names) = 0 /\ Len(out_metadata) # 0
      BY <1>1, <1>2, <2>1
    <3>1. out_names = << >> /\ out_metadata # << >>
      BY <3>0, LayoutTypes
    <3>2. position = HeaderSize + MetadataSize * Len(out_metadata) /\ Promised(1) = NamesStart
      BY <1>1, <3>1 DEF LayoutInv, NextPosition, NamesPromised, Dumping
    <3> QED
      BY <1>1, <2>1, <3>2 DEF NamesStart
  <2>2. CASE k # 0
    <3>1. out_names # << >> /\ k \in 1 .. Len(out_metadata) - 1
      BY <1>1, <1>2, <2>2, LayoutTypes
    <3> QED
      BY <1>1, <3>1 DEF LayoutInv, NextPosition, NamesPromised, Dumping
  <2> QED
    BY <2>1, <2>2
<1>6. /\ \A n : Promised(n)' = Promised(n)
      /\ \A n : Size(n)' = Size(n)
      /\ NamesStart' = NamesStart
  BY <1>1 DEF Promised, Size, NamesStart
<1>7. NamesPromised'
  <2>1. /\ general_offset' = position'
        /\ \A n \in 1 .. Len(out_metadata) : out_metadata[n].at = HeaderSize + MetadataSize * (n - 1)
        /\ out_metadata # << >> => Promised(1) = NamesStart
        /\ \A n \in 1 .. Len(out_metadata) - 1 : Promised(n + 1) = Promised(n) + Size(n)
    BY <1>1 DEF LayoutInv, NamesPromised, Dumping
  <2>2. ASSUME NEW n \in 1 .. k + 1
        PROVE  out_names'[n] = [at |-> Promised(n), size |-> Size(n)]
    <3>1. CASE n = k + 1
      BY <1>4, <1>5, <3>1
    <3>2. CASE n \in 1 .. k
      BY <1>1, <1>4, <3>2 DEF LayoutInv, NamesPromised, Dumping
    <3> QED
      BY <1>2, <3>1, <3>2
  <2> QED
    BY <1>1, <1>4, <1>6, <2>1, <2>2 DEF NamesPromised
<1>8. NextPosition'
  BY <1>1, <1>4, <1>5, <1>6 DEF LayoutInv, NextPosition
<1> QED
  BY <1>1, <1>7, <1>8 DEF LayoutInv, NothingDumped, DataPlaced, Dumping

LEMMA LayoutData ==
    ASSUME TypeOK, LayoutInv, StartData \/ DumpData \/ DumpFooter
    PROVE  LayoutInv'
<1>1. UNCHANGED <<metadata, entries, out_metadata, out_names>>
  BY DEF StartData, DumpData, DumpFooter, tables
<1>2. /\ \A n : Promised(n)' = Promised(n)
      /\ \A n : Size(n)' = Size(n)
      /\ NamesStart' = NamesStart
  BY <1>1 DEF Promised, Size, NamesStart
<1>3. /\ general_offset \in Nat /\ position \in Nat /\ Len(out_data) \in Nat
      /\ out_data \in Seq(Nat) /\ out_header \in [data : Int, footer : Int, footer_at : Nat]
      /\ MagicOffset \in Nat /\ DataSize \in Nat
  BY LayoutTypes, Constants
<1>4. Dumping /\ Dumping' /\ general_offset = position
  BY DEF StartData, DumpData, DumpFooter, Dumping, LayoutInv, NamesPromised
<1>5. general_offset' = position'
  BY <1>4 DEF StartData, DumpData, DumpFooter
<1>6. NamesPromised'
  BY <1>1, <1>2, <1>4, <1>5 DEF LayoutInv, NamesPromised
<1>7. pc' # "metadata"
  BY DEF StartData, DumpData, DumpFooter
<1>8. CASE StartData
  <2>1. /\ out_data = << >> /\ Len(out_data) = 0
        /\ Len(out_names) = Len(metadata) /\ Len(out_metadata) = Len(metadata)
    <3>1. pc = "metadata" /\ Len(out_names) = Len(metadata)
      BY <1>8 DEF StartData
    <3>2. CASE out_names = << >>
      BY <3>1, <3>2, LayoutTypes DEF LayoutInv, NextPosition
    <3>3. CASE out_names # << >>
      BY <3>1, <3>3 DEF LayoutInv, NextPosition
    <3> QED
      BY <3>1, <3>2, <3>3
  <2>2. /\ out_header'.data = general_offset - MagicOffset /\ pc' = "data"
        /\ position' = position /\ out_data' = out_data
    BY <1>3, <1>8 DEF StartData
  <2>3. position' = out_header'.data + MagicOffset + DataSize * Len(out_data')
    BY <1>3, <1>4, <2>1, <2>2, TimesNext
  <2>4. DataPlaced'
    BY <1>1, <2>1, <2>2, <2>3 DEF DataPlaced
  <2> QED
    BY <1>4, <1>6, <1>7, <2>4 DEF LayoutInv, NothingDumped, NextPosition
<1>9. CASE DumpData
  <2>1. /\ pc = "data" /\ pc' = "data" /\ out_data' = Append(out_data, position)
        /\ position' = position + DataSize /\ out_header' = out_header
    BY <1>9 DEF DumpData
  <2>2. /\ Len(out_data') = Len(out_data) + 1 /\ out_data'[Len(out_data) + 1] = position
        /\ \A n \in 1 .. Len(out_data) : out_data'[n] = out_data[n]
    BY <1>3, <2>1, AppendType
  <2>3. out_header.data \in Int /\ position = out_header.data + MagicOffset + DataSize * Len(out_data)
    BY <1>3, <2>1 DEF LayoutInv, DataPlaced
  <2>4. position' = out_header.data + MagicOffset + DataSize * (Len(out_data) + 1)
    BY <1>3, <2>1, <2>3, TimesNext
  <2>5. ASSUME NEW n \in 1 .. Len(out_data) + 1
        PROVE  out_data'[n] = out_header.data + MagicOffset + DataSize * (n - 1)
    <3>1. CASE n = Len(out_data) + 1
      <4>1. n - 1 = Len(out_data)
        BY <1>3, <3>1
      <4> QED
        BY <2>2, <2>3, <3>1, <4>1
    <3>2. CASE n \in 1 .. Len(out_data)
      BY <2>1, <2>2, <3>2 DEF LayoutInv, DataPlaced
    <3> QED
      BY <1>3, <3>1, <3>2
  <2>6. DataPlaced'
    BY <1>1, <2>1, <2>2, <2>4, <2>5 DEF LayoutInv, DataPlaced
  <2> QED
    BY <1>4, <1>6, <1>7, <2>6 DEF LayoutInv, NothingDumped, NextPosition
<1>10. CASE DumpFooter
  <2>1. /\ pc = "data" /\ pc' = "done" /\ UNCHANGED <<out_data, position>>
        /\ Len(out_data) = Len(entries)
        /\ out_header'.data = out_header.data
        /\ out_header'.footer = general_offset - MagicOffset /\ out_header'.footer_at = position
    BY <1>3, <1>10 DEF DumpFooter
  <2>2. out_header'.footer + MagicOffset = out_header'.footer_at
    BY <1>3, <1>4, <2>1
  <2>3. DataPlaced'
    BY <1>1, <2>1, <2>2 DEF LayoutInv, DataPlaced
  <2> QED
    BY <1>4, <1>6, <1>7, <2>3 DEF LayoutInv, NothingDumped, NextPosition
<1> QED
  BY <1>8, <1>9, <1>10

LEMMA LayoutStep ==
    ASSUME TypeOK, TypeOK', LayoutInv, [Next]_vars
    PROVE  LayoutInv'
<1>1. CASE DumpHeader
  <2>1. /\ pc' = "metadata" /\ ~ Dumping /\ position' = HeaderSize /\ general_offset' = HeaderSize
        /\ string_start' = MetadataSize * Len(metadata)
        /\ UNCHANGED <<metadata, entries, out_metadata, out_names, out_data>>
    BY <1>1 DEF DumpHeader, Dumping, tables
  <2>2. out_metadata = << >> /\ out_names = << >> /\ out_data = << >>
    BY <2>1 DEF LayoutInv, NothingDumped
  <2>3. /\ position' = HeaderSize + MetadataSize * Len(out_metadata')
        /\ position' + string_start' = NamesStart'
    BY <2>1, <2>2, Constants, TimesNext DEF NamesStart
  <2> QED
    BY <2>1, <2>2, <2>3 DEF LayoutInv, NothingDumped, NamesPromised, NextPosition, DataPlaced, Dumping
<1>2. ASSUME DumpMetadata \/ DumpName
      PROVE  LayoutInv'
  <2>1. ASSUME NEW m, m = Len(out_metadata), NEW k, k = Len(out_names)
        PROVE  LayoutInv'
    BY <1>2, <2>1, LayoutMetadata, LayoutName
  <2> QED
    BY <2>1
<1>3. CASE StartData \/ DumpData \/ DumpFooter
  BY <1>3, LayoutData
<1>4. ASSUME ~ Dumping, ~ Dumping', UNCHANGED dump
      PROVE  LayoutInv'
  BY <1>4 DEF LayoutInv, NothingDumped, NamesPromised, NextPosition, DataPlaced, Dumping, dump
<1>5. ASSUME \/ WritePkg \/ WritePkgUnopened \/ CloseDir
             \/ \E p \in Packed : SkipEntry(p) \/ EnterDir(p) \/ EnterDirUnopened(p)
             \/ \E p \in Packed : OpenBlob(p) \/ BlobUnopened(p)
             \/ WriteByte \/ BlobFails \/ BlobDone
      PROVE  LayoutInv'
  <2>1. UNCHANGED dump
    BY <1>5 DEF WritePkg, WritePkgUnopened, CloseDir, SkipEntry, EnterDir, EnterDirUnopened,
                OpenBlob, BlobUnopened, WriteByte, BlobFails, BlobDone
  <2>2. ~ Dumping /\ ~ Dumping'
    BY <1>5 DEF WritePkg, WritePkgUnopened, CloseDir, SkipEntry, EnterDir, EnterDirUnopened,
                OpenBlob, BlobUnopened, WriteByte, BlobFails, BlobDone, Take, Walking, Dumping
  <2> QED
    BY <1>4, <2>1, <2>2
<1>6. CASE UNCHANGED vars
  <2>1. /\ UNCHANGED <<metadata, entries, general_offset, string_start, position>>
        /\ UNCHANGED <<out_metadata, out_names, out_data, out_header, pc>>
    BY <1>6 DEF vars, tables, dump
  <2>2. /\ \A n : Promised(n)' = Promised(n)
        /\ \A n : Size(n)' = Size(n)
        /\ NamesStart' = NamesStart
    BY <2>1 DEF Promised, Size, NamesStart
  <2>3. NothingDumped' /\ NamesPromised'
    BY <2>1, <2>2 DEF LayoutInv, NothingDumped, NamesPromised, Dumping
  <2>4. NextPosition'
    BY <2>1, <2>2 DEF LayoutInv, NextPosition
  <2>5. DataPlaced'
    BY <2>1 DEF LayoutInv, DataPlaced
  <2> QED
    BY <2>3, <2>4, <2>5 DEF LayoutInv
<1> QED
  BY <1>1, <1>2, <1>3, <1>5, <1>6 DEF Next, Step, Fault, PassOver, EnterDirTooDeep

LEMMA LayoutInit == Init => LayoutInv
BY DEF Init, LayoutInv, NothingDumped, NamesPromised, NextPosition, DataPlaced, Dumping

LEMMA LayoutFollows ==
    ASSUME TypeOK, LayoutInv, pc = "done"
    PROVE  /\ \A n \in DOMAIN metadata :
                /\ out_metadata[n].at + out_metadata[n].offset = out_names[n].at
                /\ out_names[n].size = NameSize[Last(metadata[n].path)]
                /\ out_metadata[n].at = HeaderSize + MetadataSize * (n - 1)
           /\ \A n \in DOMAIN entries :
                out_data[n] = out_header.data + MagicOffset + DataSize * (n - 1)
           /\ out_header.footer + MagicOffset = out_header.footer_at
<1>1. /\ Len(out_metadata) = Len(metadata) /\ Len(out_names) = Len(metadata)
      /\ Len(out_data) = Len(entries) /\ Dumping
  BY DEF LayoutInv, DataPlaced, Dumping
<1>2. DOMAIN metadata = 1 .. Len(metadata) /\ DOMAIN entries = 1 .. Len(entries)
  BY DEF TypeOK, TablesType
<1>3. ASSUME NEW n \in 1 .. Len(metadata)
      PROVE  /\ out_metadata[n].at + out_metadata[n].offset = out_names[n].at
             /\ out_names[n].size = NameSize[Last(metadata[n].path)]
             /\ out_metadata[n].at = HeaderSize + MetadataSize * (n - 1)
  <2>1. out_names[n] = [at |-> Promised(n), size |-> Size(n)]
    BY <1>1 DEF LayoutInv, NamesPromised
  <2>2. out_names[n].at = Promised(n) /\ out_names[n].size = Size(n)
    BY <2>1
  <2> QED
    BY <1>1, <2>2 DEF LayoutInv, NamesPromised, Promised, Size
<1> QED
  BY <1>1, <1>2, <1>3 DEF LayoutInv, DataPlaced

\* Every offset the index gives leads to what it stands for, for any names and
\* any sizes of the structures.
THEOREM LayoutIsClosed == Spec => []LayoutClosed
<1>1. TypeOK /\ TypeOK' /\ LayoutInv /\ [Next]_vars => LayoutInv'
  BY LayoutStep
<1>2. TypeOK /\ LayoutInv => LayoutClosed
  <2> SUFFICES ASSUME TypeOK, LayoutInv, pc = "done"
               PROVE  LayoutClosed
    BY DEF LayoutClosed
  <2>1. ASSUME entries # << >>
        PROVE  out_header.data + MagicOffset = out_data[1]
    <3>1. 1 \in DOMAIN entries /\ out_header.data \in Int /\ MagicOffset \in Nat
      BY <2>1, LayoutTypes, Constants DEF TypeOK, TablesType
    <3>2. out_data[1] = out_header.data + MagicOffset + DataSize * 0
      BY <3>1, LayoutFollows
    <3> QED
      BY <3>1, <3>2, Constants, TimesNext
  <2> QED
    BY <2>1, LayoutFollows DEF LayoutClosed
<1> QED
  BY LayoutInit, <1>1, <1>2, TypeCorrect, PTL DEF Spec

-----------------------------------------------------------------------------
(* The tree that is written                                                *)

Subtree(p) == {x \in Packed : IsPrefix(p, x)}

\* No two entries still to read are one below the other.
ApartIn(st) ==
    \A j, k \in DOMAIN st : \A q \in st[j].todo, r \in st[k].todo :
      IsPrefix(q, r) => j = k /\ q = r

\* The record an id stands for is that of a path; 0 is that of the root.
IdOf(md, id, p) == IF id = 0 THEN p = << >> ELSE id \in DOMAIN md /\ md[id].path = p

FramesIn(st, md) ==
    \A k \in DOMAIN st : IdOf(md, st[k].id, st[k].dir) /\ st[k].todo \subseteq Children(st[k].dir)

Recorded == {metadata[n].path : n \in DOMAIN metadata}
Opened   == IF pc = "blob" THEN {blob.path} ELSE {}

\* A record is that of a child of its parent's path, which came before it.
RecordsLead ==
    \A n \in DOMAIN metadata :
      /\ metadata[n].parent \in 0 .. n - 1
      /\ IdOf(metadata, metadata[n].parent, Front(metadata[n].path))

RecordedOnce == \A m, n \in DOMAIN metadata : metadata[m].path = metadata[n].path => m = n

\* A file has its entry and nothing else has one.
EntriesOfFiles ==
    /\ \A n \in DOMAIN entries : entries[n].id \in DOMAIN metadata
    /\ \A m, n \in DOMAIN entries : entries[m].id = entries[n].id => m = n
    /\ {entries[n].id : n \in DOMAIN entries} = {n \in DOMAIN metadata : metadata[n].path \in Files}

\* What is packed is recorded, missed, still to be read or being written, and
\* never two of these.
Accounted ==
    /\ Packed = Recorded \cup missed \cup ComingOf(stack) \cup Opened
    /\ Recorded \cap missed = {}
    /\ ComingOf(stack) \cap (Recorded \cup missed) = {}
    /\ Opened \cap (Recorded \cup missed \cup ComingOf(stack)) = {}

\* Only the walk has directories open.
WalkOver ==
    /\ pc \notin {"walk", "blob"} => stack = << >>
    /\ pc = "blob" => stack # << >> /\ blob.path \in Children(Top.dir) \cap Files

WalkInv ==
    /\ pc = "idle" => metadata = << >> /\ entries = << >> /\ missed = {}
    /\ pc # "idle" => Accounted
    /\ FramesIn(stack, metadata)
    /\ ApartIn(stack)
    /\ RecordsLead
    /\ RecordedOnce
    /\ EntriesOfFiles
    /\ WalkOver

-----------------------------------------------------------------------------
(* Stacks of directories                                                   *)

LEMMA FrameType ==
    ASSUME NEW st \in Seq(Frames), NEW k \in DOMAIN st
    PROVE  /\ st[k].dir \in Spelled /\ st[k].id \in Nat
           /\ \A q \in st[k].todo : q \in Packed /\ q \in Seq(Names)
<1>1. st[k] \in Frames
  BY ElementType
<1> QED
  BY <1>1, PathFacts DEF Frames

\* The stack once an entry of the directory on top was taken.
TakenFrom(st, p) == Append(Front(st), [Last(st) EXCEPT !.todo = @ \ {p}])

\* The directories are the same, and one of them has an entry less.
LessBy(st, p, r) ==
    /\ r \in Seq(Frames) /\ r # << >> /\ DOMAIN r = DOMAIN st
    /\ \A k \in DOMAIN st :
         /\ r[k].id = st[k].id /\ r[k].dir = st[k].dir
         /\ k # Len(st) => r[k].todo = st[k].todo
         /\ k = Len(st) => r[k].todo = st[k].todo \ {p}

LEMMA TakenShape ==
    ASSUME NEW st \in Seq(Frames), st # << >>, NEW p
    PROVE  LessBy(st, p, TakenFrom(st, p))
<1> DEFINE e == [Last(st) EXCEPT !.todo = @ \ {p}]
           N == Len(st)
<1>1. /\ Front(st) \in Seq(Frames) /\ Len(Front(st)) = N - 1
      /\ \A k \in 1 .. N - 1 : Front(st)[k] = st[k]
      /\ N \in Nat /\ N > 0
  BY FrontShape
<1>2. Last(st) = st[N] /\ Last(st) \in Frames
  BY LastType DEF Last
<1>3. e \in Frames /\ e.id = st[N].id /\ e.dir = st[N].dir /\ e.todo = st[N].todo \ {p}
  BY <1>2 DEF Frames
<1> HIDE DEF e
<1>4. /\ Append(Front(st), e) \in Seq(Frames)
      /\ Len(Append(Front(st), e)) = Len(Front(st)) + 1
      /\ Append(Front(st), e)[Len(Front(st)) + 1] = e
      /\ \A i \in 1 .. Len(Front(st)) : Append(Front(st), e)[i] = Front(st)[i]
      /\ Append(Front(st), e) # << >>
  BY <1>1, <1>3, AppendType
<1> DEFINE r == Append(Front(st), e)
<1>5. r = TakenFrom(st, p)
  BY DEF TakenFrom, e
<1>6. Len(Front(st)) + 1 = N
  BY <1>1
<1>7. r \in Seq(Frames) /\ Len(r) = N /\ r[N] = e /\ r # << >> /\ \A i \in 1 .. N - 1 : r[i] = st[i]
  BY <1>1, <1>4, <1>6
<1> HIDE DEF r
<1>8. DOMAIN r = 1 .. N /\ DOMAIN st = 1 .. N
  BY <1>7
<1>9. \A k \in 1 .. N : k # N => k \in 1 .. N - 1
  BY <1>1
<1>10. \A k \in 1 .. N : /\ r[k].id = st[k].id /\ r[k].dir = st[k].dir
                         /\ k # N => r[k].todo = st[k].todo
                         /\ k = N => r[k].todo = st[k].todo \ {p}
  <2> SUFFICES ASSUME NEW k \in 1 .. N
               PROVE  /\ r[k].id = st[k].id /\ r[k].dir = st[k].dir
                      /\ k # N => r[k].todo = st[k].todo
                      /\ k = N => r[k].todo = st[k].todo \ {p}
    OBVIOUS
  <2> HIDE DEF N
  <2>1. CASE k = N
    BY <1>3, <1>7, <2>1
  <2>2. CASE k # N
    BY <1>7, <1>9, <2>2
  <2> QED
    BY <2>1, <2>2
<1> QED
  BY <1>5, <1>7, <1>8, <1>10 DEF LessBy

\* What was taken, and what is below it, is no longer to come.
LEMMA TakenComing ==
    ASSUME NEW st \in Seq(Frames), st # << >>, NEW p \in Last(st).todo, ApartIn(st)
    PROVE  /\ ApartIn(TakenFrom(st, p))
           /\ \A k \in DOMAIN TakenFrom(st, p) : \A q \in TakenFrom(st, p)[k].todo :
                ~ IsPrefix(q, p) /\ ~ IsPrefix(p, q)
           /\ ComingOf(TakenFrom(st, p)) = ComingOf(st) \ Subtree(p)
           /\ Subtree(p) \subseteq ComingOf(st)
<1> DEFINE r == TakenFrom(st, p)
           N == Len(st)
<1>1. /\ r \in Seq(Frames) /\ DOMAIN r = DOMAIN st
      /\ \A k \in DOMAIN st : /\ k # N => r[k].todo = st[k].todo
                              /\ k = N => r[k].todo = st[k].todo \ {p}
  BY TakenShape DEF LessBy
<1> HIDE DEF r
<1>2. N \in DOMAIN st /\ p \in st[N].todo
  BY DEF Last
<1>3. p \in Packed /\ p \in Seq(Names)
  BY <1>2, FrameType
<1>4. \A k \in DOMAIN r : \A q \in r[k].todo :
        /\ q \in st[k].todo /\ ~ (k = N /\ q = p)
        /\ q \in Packed /\ q \in Seq(Names)
  BY <1>1, FrameType
<1>5. \A k \in DOMAIN r : \A q \in r[k].todo : ~ IsPrefix(q, p) /\ ~ IsPrefix(p, q)
  BY <1>1, <1>2, <1>4 DEF ApartIn
<1>6. ApartIn(r)
  BY <1>1, <1>4 DEF ApartIn
<1>7. Subtree(p) \subseteq ComingOf(st)
  BY <1>2 DEF Subtree, ComingOf
<1>8. ASSUME NEW x \in ComingOf(r)
      PROVE  x \in ComingOf(st) /\ x \notin Subtree(p)
  <2>1. PICK k \in DOMAIN r : \E q \in r[k].todo : IsPrefix(q, x)
    BY DEF ComingOf
  <2>2. PICK q \in r[k].todo : IsPrefix(q, x)
    BY <2>1
  <2>3. x \in Packed /\ x \in Seq(Names)
    BY PathFacts DEF ComingOf
  <2>4. x \in ComingOf(st)
    BY <1>1, <1>4, <2>2, <2>3 DEF ComingOf
  <2>5. ~ IsPrefix(p, x)
    BY <1>3, <1>4, <1>5, <2>2, <2>3, PrefixesCompare
  <2> QED
    BY <2>4, <2>5 DEF Subtree
<1>9. ASSUME NEW x \in ComingOf(st), x \notin Subtree(p)
      PROVE  x \in ComingOf(r)
  <2>1. PICK k \in DOMAIN st : \E q \in st[k].todo : IsPrefix(q, x)
    BY DEF ComingOf
  <2>2. PICK q \in st[k].todo : IsPrefix(q, x)
    BY <2>1
  <2>3. x \in Packed /\ q # p
    BY <1>9, <2>2 DEF ComingOf, Subtree
  <2>4. q \in r[k].todo
    BY <1>1, <2>2, <2>3
  <2> QED
    BY <1>1, <2>2, <2>3, <2>4 DEF ComingOf
<1>10. ComingOf(r) = ComingOf(st) \ Subtree(p)
  BY <1>8, <1>9
<1> QED
  BY <1>5, <1>6, <1>7, <1>10 DEF r

\* A directory entered puts what is below it to come.
LEMMA EnteredComing ==
    ASSUME NEW st \in Seq(Frames), ApartIn(st), NEW p \in Spelled, NEW id \in Nat,
           \A k \in DOMAIN st : \A q \in st[k].todo : ~ IsPrefix(q, p) /\ ~ IsPrefix(p, q)
    PROVE  /\ Append(st, Enter(p, id)) \in Seq(Frames)
           /\ ApartIn(Append(st, Enter(p, id)))
           /\ ComingOf(Append(st, Enter(p, id))) =
                ComingOf(st) \cup {x \in Packed : IsPrefix(p, x) /\ x # p}
<1> DEFINE e == Enter(p, id)
           r == Append(st, e)
           N == Len(st) + 1
<1>1. e \in Frames /\ e.todo = Children(p)
  BY PathFacts DEF Enter, Frames
<1> HIDE DEF e
<1>2. /\ r \in Seq(Frames) /\ Len(r) = N /\ r[N] = e
      /\ \A i \in 1 .. Len(st) : r[i] = st[i]
  BY <1>1, AppendType
<1> HIDE DEF r
<1>3. /\ DOMAIN st = 1 .. Len(st) /\ Len(st) \in Nat
      /\ DOMAIN r = 1 .. N
      /\ N \in DOMAIN r /\ N \notin DOMAIN st
      /\ \A k \in DOMAIN r : k \in DOMAIN st \/ k = N
      /\ \A k \in DOMAIN st : k \in DOMAIN r
  BY <1>2
<1> HIDE DEF N
<1>4. \A q \in Children(p) : /\ q \in Packed /\ q \in Seq(Names)
                             /\ Front(q) = p
                             /\ IsPrefix(p, q) /\ p # q
  <2> SUFFICES ASSUME NEW q \in Children(p)
               PROVE  q \in Packed /\ Front(q) = p /\ IsPrefix(p, q) /\ p # q
    BY PathFacts
  <2>1. q \in Packed /\ Front(q) = p
    BY DEF Children
  <2>2. q \in Seq(Names) /\ q # << >> /\ p \in Seq(Names)
    BY <2>1, PathFacts
  <2>3. IsPrefix(p, q) /\ ~ IsPrefix(q, p)
    BY <2>1, <2>2, PrefixOrFront
  <2>4. p # q
    BY <2>3
  <2> QED
    BY <2>1, <2>3, <2>4
<1>5. \A k \in DOMAIN st : \A q \in st[k].todo : q \in Packed /\ q \in Seq(Names)
  BY FrameType
<1>6. p \in Seq(Names)
  BY PathFacts
<1>7. ASSUME NEW q \in Children(p), NEW k \in DOMAIN st, NEW x \in st[k].todo
      PROVE  ~ IsPrefix(q, x) /\ ~ IsPrefix(x, q)
  <2>1. ~ IsPrefix(x, p) /\ ~ IsPrefix(p, x)
    OBVIOUS
  <2>2. ~ IsPrefix(q, x)
    BY <1>4, <1>5, <1>6, <2>1, PrefixChain
  <2>3. IsPrefix(x, q) => IsPrefix(x, p) \/ x = q
    BY <1>4, <1>5, <1>6, PathFacts, PrefixOrFront
  <2> QED
    BY <1>4, <2>1, <2>2, <2>3
<1>8. ASSUME NEW q \in Children(p), NEW x \in Children(p), IsPrefix(q, x)
      PROVE  q = x
  <2>1. q = x \/ IsPrefix(q, p)
    BY <1>4, <1>8, PathFacts, PrefixOrFront
  <2>2. ~ IsPrefix(q, p)
    BY <1>4, <1>6, PrefixBoth
  <2> QED
    BY <2>1, <2>2
<1>9. ApartIn(r)
  <2> SUFFICES ASSUME NEW j \in DOMAIN r, NEW k \in DOMAIN r,
                      NEW q \in r[j].todo, NEW x \in r[k].todo, IsPrefix(q, x)
               PROVE  j = k /\ q = x
    BY DEF ApartIn
  <2>1. CASE j \in DOMAIN st /\ k \in DOMAIN st
    <3>1. q \in st[j].todo /\ x \in st[k].todo
      BY <1>2, <1>3, <2>1
    <3> QED
      BY <2>1, <3>1 DEF ApartIn
  <2>2. CASE j = N /\ k \in DOMAIN st
    BY <1>1, <1>2, <1>3, <1>7, <2>2
  <2>3. CASE j \in DOMAIN st /\ k = N
    BY <1>1, <1>2, <1>3, <1>7, <2>3
  <2>4. CASE j = N /\ k = N
    BY <1>1, <1>2, <1>8, <2>4
  <2> QED
    BY <1>3, <2>1, <2>2, <2>3, <2>4
<1>10. ASSUME NEW x \in ComingOf(r)
       PROVE  x \in ComingOf(st) \/ (x \in Packed /\ IsPrefix(p, x) /\ x # p)
  <2>1. PICK k \in DOMAIN r : \E q \in r[k].todo : IsPrefix(q, x)
    BY DEF ComingOf
  <2>2. PICK q \in r[k].todo : IsPrefix(q, x)
    BY <2>1
  <2>3. x \in Packed /\ x \in Seq(Names)
    BY PathFacts DEF ComingOf
  <2>4. CASE k \in DOMAIN st
    BY <1>2, <1>3, <2>2, <2>3, <2>4 DEF ComingOf
  <2>5. CASE k = N
    <3>1. q \in Children(p)
      BY <1>1, <1>2, <2>5
    <3>2. IsPrefix(p, x)
      BY <1>4, <1>6, <2>2, <2>3, <3>1, PrefixChain
    <3>3. x # p
      BY <1>4, <1>6, <2>2, <3>1, PrefixBoth
    <3> QED
      BY <2>3, <3>2, <3>3
  <2> QED
    BY <1>3, <2>4, <2>5
<1>11. ASSUME NEW x \in Packed, IsPrefix(p, x), x # p
       PROVE  x \in ComingOf(r)
  <2>1. PICK c \in Children(p) : IsPrefix(c, x)
    BY <1>11, ChildOnTheWay
  <2> QED
    BY <1>1, <1>2, <1>3, <2>1 DEF ComingOf
<1>12. ASSUME NEW x \in ComingOf(st)
       PROVE  x \in ComingOf(r)
  BY <1>2, <1>3 DEF ComingOf
<1>13. ComingOf(r) = ComingOf(st) \cup {x \in Packed : IsPrefix(p, x) /\ x # p}
  BY <1>10, <1>11, <1>12
<1> QED
  BY <1>2, <1>9, <1>13 DEF r, e

\* A directory read to its end is closed.
LEMMA ClosedComing ==
    ASSUME NEW st \in Seq(Frames), st # << >>, Last(st).todo = {}, ApartIn(st)
    PROVE  /\ ApartIn(Front(st)) /\ ComingOf(Front(st)) = ComingOf(st)
           /\ \A k \in DOMAIN Front(st) : k \in DOMAIN st /\ Front(st)[k] = st[k]
<1> DEFINE N == Len(st)
<1>1. /\ Front(st) \in Seq(Frames) /\ Len(Front(st)) = N - 1
      /\ \A k \in 1 .. N - 1 : Front(st)[k] = st[k]
      /\ N \in Nat /\ N > 0
  BY FrontShape
<1>2. /\ DOMAIN Front(st) = 1 .. N - 1 /\ DOMAIN st = 1 .. N
      /\ \A k \in 1 .. N : k # N => k \in 1 .. N - 1
      /\ \A k \in 1 .. N - 1 : k \in 1 .. N
  BY <1>1
<1>3. st[N].todo = {}
  BY DEF Last
<1> HIDE DEF N
<1>4. \A k \in DOMAIN Front(st) : k \in DOMAIN st /\ Front(st)[k] = st[k]
  BY <1>1, <1>2
<1>5. ApartIn(Front(st))
  BY <1>4 DEF ApartIn
<1>6. \A x : x \in ComingOf(Front(st)) <=> x \in ComingOf(st)
  <2>1. \A k \in DOMAIN st : \A q \in st[k].todo : k \in DOMAIN Front(st)
    BY <1>2, <1>3
  <2> QED
    BY <1>4, <2>1 DEF ComingOf
<1> QED
  BY <1>4, <1>5, <1>6 DEF ComingOf

-----------------------------------------------------------------------------
(* Records and entries                                                     *)

\* The records there are stay, and id n is that of p.
Adds(n, p) ==
    /\ \A id, q : IdOf(metadata, id, q) => IdOf(metadata', id, q)
    /\ IdOf(metadata', n, p)
    /\ n \in Nat

LEMMA RecordAdded ==
    ASSUME TypeOK, RecordsLead, RecordedOnce, NEW p \in Packed, p \notin Recorded,
           NEW parent \in Nat, IdOf(metadata, parent, Front(p)), PutMetadata(p, parent)
    PROVE  /\ RecordsLead' /\ RecordedOnce' /\ Recorded' = Recorded \cup {p}
           /\ Adds(NewId, p)
<1> DEFINE N == Len(metadata)
<1>1. /\ metadata \in Seq([id : Nat, parent : Nat, path : Packed])
      /\ metadata' \in Seq([id : Nat, parent : Nat, path : Packed])
      /\ N \in Nat /\ Len(metadata') = N + 1
      /\ metadata'[N + 1].path = p
      /\ \A i \in 1 .. N : metadata'[i] = metadata[i]
  BY MetadataType DEF NewId, TypeOK, TablesType
<1>2. metadata'[N + 1].parent = parent
  <2> DEFINE r == [id |-> NewId, parent |-> parent, path |-> p]
  <2>1. r \in [id : Nat, parent : Nat, path : Packed] /\ r.parent = parent
    BY <1>1 DEF NewId
  <2>2. metadata' = Append(metadata, r)
    BY DEF PutMetadata
  <2> HIDE DEF r
  <2> QED
    BY <1>1, <2>1, <2>2, AppendType
<1>3. NewId = N + 1
  BY DEF NewId
<1>4. DOMAIN metadata = 1 .. N /\ DOMAIN metadata' = 1 .. N + 1
  BY <1>1
<1> HIDE DEF N
<1>5. /\ N + 1 \in 1 .. N + 1 /\ N + 1 # 0 /\ N + 1 \in Nat /\ N + 1 \notin 1 .. N
      /\ \A i \in 1 .. N : i \in 1 .. N + 1 /\ i \in Nat
      /\ \A i \in 1 .. N + 1 : i \in 1 .. N \/ i = N + 1
  BY <1>1
<1>6. \A id, q : IdOf(metadata, id, q) => IdOf(metadata', id, q)
  BY <1>1, <1>4, <1>5 DEF IdOf
<1>7. IdOf(metadata', N + 1, p)
  BY <1>1, <1>4, <1>5 DEF IdOf
<1>8. Recorded' = Recorded \cup {p}
  <2>1. ASSUME NEW x PROVE x \in Recorded' <=> x \in Recorded \/ x = p
    <3>1. x \in Recorded' <=> \E n \in 1 .. N + 1 : x = metadata'[n].path
      BY <1>4 DEF Recorded
    <3>2. x \in Recorded <=> \E n \in 1 .. N : x = metadata[n].path
      BY <1>4 DEF Recorded
    <3> QED
      BY <1>1, <1>5, <3>1, <3>2
  <2>2. \A x : x \in Recorded' <=> x \in Recorded \/ x = p
    BY <2>1
  <2> QED
    BY <2>2, Zenon
<1>9. RecordedOnce'
  <2> SUFFICES ASSUME NEW m \in 1 .. N + 1, NEW n \in 1 .. N + 1,
                      metadata'[m].path = metadata'[n].path
               PROVE  m = n
    BY <1>4 DEF RecordedOnce
  <2>1. \A i \in 1 .. N : metadata'[i].path = metadata[i].path /\ metadata[i].path # p
    BY <1>1, <1>4 DEF Recorded
  <2>2. CASE m \in 1 .. N /\ n \in 1 .. N
    BY <1>4, <2>1, <2>2 DEF RecordedOnce
  <2>3. CASE ~ (m \in 1 .. N /\ n \in 1 .. N)
    BY <1>1, <1>5, <2>1, <2>3
  <2> QED
    BY <2>2, <2>3
<1>10. RecordsLead'
  <2> SUFFICES ASSUME NEW n \in 1 .. N + 1
               PROVE  /\ metadata'[n].parent \in 0 .. n - 1
                      /\ IdOf(metadata', metadata'[n].parent, Front(metadata'[n].path))
    BY <1>4 DEF RecordsLead, IdOf
  <2>1. CASE n \in 1 .. N
    <3>1. metadata'[n] = metadata[n]
      BY <1>1, <2>1
    <3>2. /\ metadata[n].parent \in 0 .. n - 1
          /\ IdOf(metadata, metadata[n].parent, Front(metadata[n].path))
      BY <1>4, <2>1 DEF RecordsLead
    <3> QED
      BY <1>6, <3>1, <3>2
  <2>2. CASE n = N + 1
    <3>1. parent \in 0 .. N
      BY <1>1, <1>4 DEF IdOf
    <3>2. metadata'[n].parent = parent /\ metadata'[n].path = p /\ n - 1 = N
      BY <1>1, <1>2, <2>2
    <3> QED
      BY <1>6, <3>1, <3>2
  <2> QED
    BY <1>5, <2>1, <2>2
<1> QED
  BY <1>3, <1>5, <1>6, <1>7, <1>8, <1>9, <1>10 DEF Adds

\* The record of a directory needs no entry.
LEMMA DirNeedsNoEntry ==
    ASSUME TypeOK, EntriesOfFiles, NEW p \in Packed, p \notin Files, NEW parent \in Nat,
           PutMetadata(p, parent), entries' = entries
    PROVE  EntriesOfFiles'
<1> DEFINE N == Len(metadata)
<1>1. /\ N \in Nat /\ Len(metadata') = N + 1
      /\ metadata'[N + 1].path = p
      /\ \A i \in 1 .. N : metadata'[i] = metadata[i]
      /\ DOMAIN metadata = 1 .. N /\ DOMAIN metadata' = 1 .. N + 1
  BY MetadataType DEF NewId, TypeOK, TablesType
<1> HIDE DEF N
<1>2. /\ \A i \in 1 .. N : i \in 1 .. N + 1
      /\ \A i \in 1 .. N + 1 : i \in 1 .. N \/ i = N + 1
  BY <1>1
<1>3. \A n : /\ n \in DOMAIN metadata' /\ metadata'[n].path \in Files
             <=> n \in DOMAIN metadata /\ metadata[n].path \in Files
  BY <1>1, <1>2
<1>4. {n \in DOMAIN metadata' : metadata'[n].path \in Files}
        = {n \in DOMAIN metadata : metadata[n].path \in Files}
  BY <1>3
<1>5. \A n \in DOMAIN entries : entries[n].id \in DOMAIN metadata'
  BY <1>1, <1>2 DEF EntriesOfFiles
<1> QED
  BY <1>4, <1>5 DEF EntriesOfFiles, Files, Packed

\* The record of a file and its entry have the same id.
LEMMA FileHasEntry ==
    ASSUME TypeOK, EntriesOfFiles, NEW p \in Files, NEW parent \in Nat,
           NEW offset \in Nat, NEW size \in 0 .. SizeMod - 1,
           PutMetadata(p, parent), PutEntry(offset, size)
    PROVE  EntriesOfFiles'
<1> DEFINE N == Len(metadata)
           M == Len(entries)
<1>0. p \in Packed
  BY DEF Files
<1>1. /\ N \in Nat /\ Len(metadata') = N + 1
      /\ metadata'[N + 1].path = p
      /\ \A i \in 1 .. N : metadata'[i] = metadata[i]
      /\ DOMAIN metadata = 1 .. N /\ DOMAIN metadata' = 1 .. N + 1
  <2>1. /\ metadata' \in Seq([id : Nat, parent : Nat, path : Packed])
        /\ Len(metadata) \in Nat /\ Len(metadata') = Len(metadata) + 1
        /\ metadata'[NewId].path = p
        /\ \A i \in 1 .. Len(metadata) : metadata'[i] = metadata[i]
    BY <1>0, MetadataType
  <2>2. metadata \in Seq([id : Nat, parent : Nat, path : Packed]) /\ NewId = Len(metadata) + 1
    BY DEF NewId, TypeOK, TablesType
  <2>3. DOMAIN metadata = 1 .. N
    BY <2>2
  <2>4. DOMAIN metadata' = 1 .. Len(metadata')
    BY <2>1
  <2> QED
    BY <2>1, <2>2, <2>3, <2>4
<1>2. /\ M \in Nat /\ entries' \in Seq([id : Nat, offset : Nat, size : 0 .. SizeMod - 1])
      /\ Len(entries') = M + 1
      /\ entries'[M + 1] = [id |-> NewId, offset |-> offset, size |-> size]
      /\ \A i \in 1 .. M : entries'[i] = entries[i]
  BY EntryType
<1>3. entries'[M + 1].id = N + 1
  BY <1>2 DEF NewId
<1>4. DOMAIN entries = 1 .. M /\ DOMAIN entries' = 1 .. M + 1
  BY <1>2 DEF TypeOK, TablesType
<1> HIDE DEF N, M
<1>5. /\ \A i \in 1 .. N : i \in 1 .. N + 1
      /\ \A i \in 1 .. N + 1 : i \in 1 .. N \/ i = N + 1
      /\ N + 1 \in 1 .. N + 1 /\ N + 1 \notin 1 .. N
      /\ \A i \in 1 .. M : i \in 1 .. M + 1
      /\ \A i \in 1 .. M + 1 : i \in 1 .. M \/ i = M + 1
      /\ M + 1 \in 1 .. M + 1
  BY <1>1, <1>2
<1>6. \A n \in 1 .. M : entries'[n].id = entries[n].id /\ entries[n].id \in 1 .. N
  BY <1>1, <1>2, <1>4 DEF EntriesOfFiles
<1>7. \A n \in DOMAIN entries' : entries'[n].id \in DOMAIN metadata'
  BY <1>1, <1>3, <1>4, <1>5, <1>6
<1>8. \A m, n \in DOMAIN entries' : entries'[m].id = entries'[n].id => m = n
  <2> SUFFICES ASSUME NEW m \in 1 .. M + 1, NEW n \in 1 .. M + 1,
                      entries'[m].id = entries'[n].id
               PROVE  m = n
    BY <1>4
  <2>1. CASE m \in 1 .. M /\ n \in 1 .. M
    BY <1>4, <1>6, <2>1 DEF EntriesOfFiles
  <2>2. CASE ~ (m \in 1 .. M /\ n \in 1 .. M)
    BY <1>3, <1>5, <1>6, <2>2
  <2> QED
    BY <2>1, <2>2
<1>9. ASSUME NEW x
      PROVE  /\ (\E n \in DOMAIN entries' : x = entries'[n].id)
             <=> x \in DOMAIN metadata' /\ metadata'[x].path \in Files
  <2>1. (\E n \in 1 .. M + 1 : x = entries'[n].id)
          <=> (\E n \in 1 .. M : x = entries[n].id) \/ x = N + 1
    BY <1>3, <1>5, <1>6
  <2>2. (\E n \in 1 .. M : x = entries[n].id)
          <=> x \in 1 .. N /\ metadata[x].path \in Files
    <3>1. x \in {entries[n].id : n \in DOMAIN entries}
            <=> x \in {n \in DOMAIN metadata : metadata[n].path \in Files}
      BY DEF EntriesOfFiles
    <3> QED
      BY <1>1, <1>4, <3>1
  <2>3. x \in 1 .. N + 1 /\ metadata'[x].path \in Files
          <=> (x \in 1 .. N /\ metadata[x].path \in Files) \/ x = N + 1
    BY <1>1, <1>5
  <2> QED
    BY <1>1, <1>4, <2>1, <2>2, <2>3
<1>10. {entries'[n].id : n \in DOMAIN entries'}
         = {n \in DOMAIN metadata' : metadata'[n].path \in Files}
  BY <1>9
<1> QED
  BY <1>7, <1>8, <1>10 DEF EntriesOfFiles, Files, Packed

-----------------------------------------------------------------------------
(* The steps of the walk                                                   *)

\* What is known when the walk takes an entry p, r being the stack without it.
Taken(p, r) ==
    /\ pc = "walk" /\ p \in Packed /\ p \in Seq(Names) /\ Front(p) = Top.dir
    /\ Top.id \in Nat /\ IdOf(metadata, Top.id, Front(p))
    /\ LessBy(stack, p, r) /\ ApartIn(r)
    /\ \A k \in DOMAIN r : \A q \in r[k].todo : ~ IsPrefix(q, p) /\ ~ IsPrefix(p, q)
    /\ ComingOf(r) = ComingOf(stack) \ Subtree(p)
    /\ Subtree(p) \subseteq ComingOf(stack) /\ p \in Subtree(p)
    /\ Kind(p) # "dir" => Subtree(p) = {p}
    /\ p \notin Recorded /\ Opened = {}

LEMMA TakenFacts ==
    ASSUME TypeOK, WalkInv, NEW p, Take(p)
    PROVE  /\ Taken(p, TakenFrom(stack, p))
           /\ TakenFrom(stack, p) = Append(Front(stack), Left(p))
<1> DEFINE r == TakenFrom(stack, p)
           N == Len(stack)
<1>1. /\ stack \in Seq(Frames) /\ stack # << >> /\ pc = "walk"
      /\ p \in Last(stack).todo /\ ApartIn(stack) /\ Accounted
  BY DEF TypeOK, WalkType, Frames, Take, Walking, Top, WalkInv
<1>2. LessBy(stack, p, r)
  BY <1>1, TakenShape
<1>3. /\ ApartIn(r)
      /\ \A k \in DOMAIN r : \A q \in r[k].todo : ~ IsPrefix(q, p) /\ ~ IsPrefix(p, q)
      /\ ComingOf(r) = ComingOf(stack) \ Subtree(p)
      /\ Subtree(p) \subseteq ComingOf(stack)
  BY <1>1, TakenComing
<1>4. N \in DOMAIN stack /\ Top = stack[N]
  BY <1>1 DEF Top, Last
<1>5. p \in Packed /\ p \in Seq(Names) /\ Top.id \in Nat
  BY <1>1, <1>4, FrameType DEF Last
<1>6. p \in Children(Top.dir) /\ IdOf(metadata, Top.id, Top.dir)
  BY <1>1, <1>4 DEF WalkInv, FramesIn, Top
<1>7. Front(p) = Top.dir
  BY <1>6 DEF Children
<1>8. p \in Subtree(p)
  BY <1>5, PrefixSelf DEF Subtree
<1>9. Kind(p) # "dir" => Subtree(p) = {p}
  <2>1. ASSUME Kind(p) # "dir", NEW x \in Packed, IsPrefix(p, x)
        PROVE  x = p
    BY <1>5, <2>1, ChildOnTheWay DEF Packed
  <2> QED
    BY <1>8, <2>1 DEF Subtree
<1>10. p \notin Recorded
  BY <1>1, <1>3, <1>8 DEF Accounted
<1>11. Opened = {}
  BY <1>1 DEF Opened
<1>12. r = Append(Front(stack), Left(p))
  BY DEF TakenFrom, Left, Top
<1> HIDE DEF r
<1>13. Taken(p, r)
  BY <1>1, <1>2, <1>3, <1>5, <1>6, <1>7, <1>8, <1>9, <1>10, <1>11 DEF Taken
<1> QED
  BY <1>12, <1>13 DEF r

LEMMA FramesKept ==
    ASSUME NEW md, NEW more, NEW st, NEW r, NEW p, FramesIn(st, md), LessBy(st, p, r),
           \A id, q : IdOf(md, id, q) => IdOf(more, id, q)
    PROVE  FramesIn(r, more)
<1> SUFFICES ASSUME NEW k \in DOMAIN r
             PROVE  IdOf(more, r[k].id, r[k].dir) /\ r[k].todo \subseteq Children(r[k].dir)
  BY DEF FramesIn
<1>1. k \in DOMAIN st /\ r[k].id = st[k].id /\ r[k].dir = st[k].dir
  BY DEF LessBy
<1>2. r[k].todo \subseteq st[k].todo
  BY <1>1 DEF LessBy
<1> QED
  BY <1>1, <1>2 DEF FramesIn

LEMMA WalkSkip ==
    ASSUME TypeOK, WalkInv, NEW p \in Packed, SkipEntry(p)
    PROVE  WalkInv'
<1> DEFINE r == TakenFrom(stack, p)
<1>1. Taken(p, r) /\ r = Append(Front(stack), Left(p))
  BY TakenFacts DEF SkipEntry
<1> HIDE DEF r
<1>2. /\ stack' = r /\ pc' = pc /\ pc = "walk" /\ blob' = blob
      /\ metadata' = metadata /\ entries' = entries
      /\ missed' = missed \cup Subtree(p)
  BY <1>1 DEF SkipEntry, GoOn, tables, Subtree, Taken
<1>3. Recorded' = Recorded /\ Opened' = {} /\ Opened = {} /\ EntriesOfFiles'
  BY <1>1, <1>2 DEF Recorded, Opened, WalkInv, EntriesOfFiles, Taken
<1>4. FramesIn(r, metadata)
  BY <1>1, FramesKept DEF WalkInv, Taken
<1>5. ApartIn(r) /\ ComingOf(r) = ComingOf(stack) \ Subtree(p) /\ Subtree(p) \subseteq ComingOf(stack)
  BY <1>1 DEF Taken
<1>6. Accounted'
  BY <1>2, <1>3, <1>5 DEF WalkInv, Accounted, ComingOf, Subtree
<1>7. FramesIn(stack, metadata)' /\ ApartIn(stack)'
  BY <1>2, <1>4, <1>5 DEF FramesIn, ApartIn
<1> QED
  BY <1>2, <1>3, <1>6, <1>7 DEF WalkInv, RecordsLead, RecordedOnce, WalkOver

\* A record of what was taken: the tables stay as they have to be.
LEMMA TakenRecorded ==
    ASSUME TypeOK, WalkInv, NEW p, NEW r, Taken(p, r), PutMetadata(p, Top.id)
    PROVE  /\ RecordsLead' /\ RecordedOnce' /\ Recorded' = Recorded \cup {p}
           /\ Adds(NewId, p)
           /\ FramesIn(r, metadata')
<1>1. /\ p \in Packed /\ p \notin Recorded /\ Top.id \in Nat
      /\ IdOf(metadata, Top.id, Front(p)) /\ LessBy(stack, p, r)
  BY DEF Taken
<1>2. /\ RecordsLead' /\ RecordedOnce' /\ Recorded' = Recorded \cup {p}
      /\ Adds(NewId, p)
  BY <1>1, RecordAdded DEF WalkInv
<1>3. FramesIn(r, metadata')
  BY <1>1, <1>2, FramesKept DEF WalkInv, Adds
<1> QED
  BY <1>2, <1>3

\* A directory entered, or one that cannot be.
LEMMA WalkEnter ==
    ASSUME TypeOK, WalkInv, NEW p \in Packed, EnterDir(p)
    PROVE  WalkInv'
<1> DEFINE r == TakenFrom(stack, p)
           below == {x \in Packed : IsPrefix(p, x) /\ x # p}
<1>1. Taken(p, r) /\ r = Append(Front(stack), Left(p))
  BY TakenFacts DEF EnterDir
<1> HIDE DEF r
<1>2. /\ stack' = Append(r, Enter(p, NewId)) /\ pc' = pc /\ pc = "walk" /\ blob' = blob
      /\ entries' = entries /\ missed' = missed
      /\ PutMetadata(p, Top.id) /\ Kind(p) = "dir"
  BY <1>1 DEF EnterDir, history, Taken
<1>3. /\ RecordsLead' /\ RecordedOnce' /\ Recorded' = Recorded \cup {p}
      /\ Adds(NewId, p)
      /\ FramesIn(r, metadata')
  BY <1>1, <1>2, TakenRecorded
<1>4. p \in Spelled /\ p \notin Files
  BY <1>2 DEF Packed, Files
<1>5. EntriesOfFiles'
  BY <1>1, <1>2, <1>4, DirNeedsNoEntry DEF WalkInv, Taken
<1>6. /\ r \in Seq(Frames) /\ ApartIn(r) /\ NewId \in Nat
      /\ \A k \in DOMAIN r : \A q \in r[k].todo : ~ IsPrefix(q, p) /\ ~ IsPrefix(p, q)
  BY <1>1, <1>3 DEF Taken, LessBy, Adds
<1>7. /\ stack' \in Seq(Frames) /\ ApartIn(stack')
      /\ ComingOf(stack') = ComingOf(r) \cup below
  BY <1>2, <1>4, <1>6, EnteredComing
<1>8. FramesIn(stack', metadata')
  <2> DEFINE e == Enter(p, NewId)
  <2>1. /\ e.id = NewId /\ e.dir = p /\ e.todo = Children(p)
        /\ e \in Frames
    BY <1>4, <1>6, PathFacts DEF Enter, Frames
  <2> HIDE DEF e
  <2>2. /\ Len(stack') = Len(r) + 1 /\ stack'[Len(r) + 1] = e
        /\ \A k \in 1 .. Len(r) : stack'[k] = r[k]
    BY <1>2, <1>6, <2>1, AppendType DEF e
  <2>3. /\ DOMAIN stack' = 1 .. Len(r) + 1 /\ DOMAIN r = 1 .. Len(r) /\ Len(r) \in Nat
        /\ \A k \in 1 .. Len(r) + 1 : k \in 1 .. Len(r) \/ k = Len(r) + 1
    BY <1>6, <1>7, <2>2
  <2>4. IdOf(metadata', NewId, p)
    BY <1>3 DEF Adds
  <2> QED
    BY <1>3, <2>1, <2>2, <2>3, <2>4 DEF FramesIn
<1>9. Opened = {} /\ Opened' = {}
  BY <1>2 DEF Opened
<1>10. /\ ComingOf(r) = ComingOf(stack) \ Subtree(p)
       /\ Subtree(p) \subseteq ComingOf(stack) /\ p \in Subtree(p)
  BY <1>1 DEF Taken
<1>11. below = Subtree(p) \ {p}
  BY DEF Subtree
<1> HIDE DEF below
<1>12. ComingOf(stack)' = ComingOf(stack) \ {p}
  <2>1. ComingOf(stack)' = ComingOf(stack')
    BY DEF ComingOf, Packed
  <2> QED
    BY <1>7, <1>10, <1>11, <2>1
<1>13. Accounted'
  BY <1>2, <1>3, <1>9, <1>10, <1>12 DEF WalkInv, Accounted
<1>14. FramesIn(stack, metadata)' /\ ApartIn(stack)'
  BY <1>7, <1>8 DEF FramesIn, ApartIn
<1> QED
  BY <1>2, <1>3, <1>5, <1>13, <1>14 DEF WalkInv, WalkOver

LEMMA WalkEnterUnopened ==
    ASSUME TypeOK, WalkInv, NEW p \in Packed, EnterDirUnopened(p)
    PROVE  WalkInv'
<1> DEFINE r == TakenFrom(stack, p)
           below == {x \in Packed : IsStrictPrefix(p, x)}
<1>1. Taken(p, r) /\ r = Append(Front(stack), Left(p))
  BY TakenFacts DEF EnterDirUnopened
<1> HIDE DEF r
<1>2. /\ stack' = r /\ pc' = pc /\ pc = "walk" /\ blob' = blob
      /\ entries' = entries /\ missed' = missed \cup below
      /\ PutMetadata(p, Top.id) /\ Kind(p) = "dir"
  BY <1>1 DEF EnterDirUnopened, GoOn, Taken
<1>3. /\ RecordsLead' /\ RecordedOnce' /\ Recorded' = Recorded \cup {p}
      /\ FramesIn(r, metadata')
  BY <1>1, <1>2, TakenRecorded
<1>4. p \notin Files
  BY <1>2 DEF Files
<1>5. EntriesOfFiles'
  BY <1>1, <1>2, <1>4, DirNeedsNoEntry DEF WalkInv, Taken
<1>6. /\ ApartIn(r) /\ ComingOf(r) = ComingOf(stack) \ Subtree(p)
      /\ Subtree(p) \subseteq ComingOf(stack) /\ p \in Subtree(p)
  BY <1>1 DEF Taken
<1>7. below = Subtree(p) \ {p}
  BY DEF Subtree, IsStrictPrefix
<1> HIDE DEF below
<1>8. Opened = {} /\ Opened' = {}
  BY <1>2 DEF Opened
<1>9. ComingOf(stack)' = ComingOf(stack) \ Subtree(p)
  <2>1. ComingOf(stack)' = ComingOf(stack')
    BY DEF ComingOf, Packed
  <2> QED
    BY <1>2, <1>6, <2>1
<1>10. Accounted'
  BY <1>2, <1>3, <1>6, <1>7, <1>8, <1>9 DEF WalkInv, Accounted
<1>11. FramesIn(stack, metadata)' /\ ApartIn(stack)'
  BY <1>2, <1>3, <1>6 DEF FramesIn, ApartIn
<1> QED
  BY <1>2, <1>3, <1>5, <1>10, <1>11 DEF WalkInv, WalkOver

\* A file whose data cannot be begun has its record and its entry.
LEMMA WalkUnopened ==
    ASSUME TypeOK, WalkInv, NEW p \in Packed, BlobUnopened(p)
    PROVE  WalkInv'
<1> DEFINE r == TakenFrom(stack, p)
<1>1. Taken(p, r) /\ r = Append(Front(stack), Left(p))
  BY TakenFacts DEF BlobUnopened
<1> HIDE DEF r
<1>2. /\ stack' = r /\ pc' = pc /\ pc = "walk" /\ blob' = blob /\ missed' = missed
      /\ PutMetadata(p, Top.id) /\ PutEntry(pkg_cur_offset, 0) /\ Kind(p) = "file"
  BY <1>1 DEF BlobUnopened, GoOn, PutFile, Taken
<1>3. /\ RecordsLead' /\ RecordedOnce' /\ Recorded' = Recorded \cup {p}
      /\ FramesIn(r, metadata')
  BY <1>1, <1>2, TakenRecorded
<1>4. p \in Files /\ Kind(p) # "dir"
  BY <1>2 DEF Files
<1>5. EntriesOfFiles'
  <2>1. pkg_cur_offset \in Nat /\ 0 \in 0 .. SizeMod - 1 /\ Top.id \in Nat
    BY <1>1, Constants DEF TypeOK, TablesType, Taken
  <2> QED
    BY <1>2, <1>4, <2>1, FileHasEntry DEF WalkInv
<1>6. /\ ApartIn(r) /\ ComingOf(r) = ComingOf(stack) \ {p} /\ p \in ComingOf(stack)
  BY <1>1, <1>4 DEF Taken
<1>7. Opened = {} /\ Opened' = {}
  BY <1>2 DEF Opened
<1>8. ComingOf(stack)' = ComingOf(stack) \ {p}
  <2>1. ComingOf(stack)' = ComingOf(stack')
    BY DEF ComingOf, Packed
  <2> QED
    BY <1>2, <1>6, <2>1
<1>9. Accounted'
  BY <1>2, <1>3, <1>6, <1>7, <1>8 DEF WalkInv, Accounted
<1>10. FramesIn(stack, metadata)' /\ ApartIn(stack)'
  BY <1>2, <1>3, <1>6 DEF FramesIn, ApartIn
<1> QED
  BY <1>2, <1>3, <1>5, <1>9, <1>10 DEF WalkInv, WalkOver

LEMMA WalkOpen ==
    ASSUME TypeOK, WalkInv, NEW p \in Packed, OpenBlob(p)
    PROVE  WalkInv'
<1> DEFINE r == TakenFrom(stack, p)
           N == Len(stack)
<1>1. Taken(p, r) /\ r = Append(Front(stack), Left(p))
  BY TakenFacts DEF OpenBlob
<1> HIDE DEF r
<1>2. /\ stack' = r /\ pc' = "blob" /\ blob'.path = p /\ missed' = missed
      /\ metadata' = metadata /\ entries' = entries /\ Kind(p) = "file"
  BY <1>1 DEF OpenBlob, GoOn, tables, history
<1>3. p \in Files /\ Kind(p) # "dir"
  BY <1>2 DEF Files
<1>4. Recorded' = Recorded /\ Opened' = {p} /\ EntriesOfFiles'
  BY <1>2 DEF Recorded, Opened, WalkInv, EntriesOfFiles, Files, Packed
<1>5. /\ ApartIn(r) /\ ComingOf(r) = ComingOf(stack) \ {p} /\ p \in ComingOf(stack)
      /\ Opened = {} /\ LessBy(stack, p, r) /\ pc = "walk"
  BY <1>1, <1>3 DEF Taken
<1>6. FramesIn(r, metadata)
  BY <1>5, FramesKept DEF WalkInv
<1>7. ComingOf(stack)' = ComingOf(stack) \ {p}
  <2>1. ComingOf(stack)' = ComingOf(stack')
    BY DEF ComingOf, Packed
  <2> QED
    BY <1>2, <1>5, <2>1
<1>8. Accounted'
  BY <1>2, <1>4, <1>5, <1>7 DEF WalkInv, Accounted
<1>9. FramesIn(stack, metadata)' /\ ApartIn(stack)'
  BY <1>2, <1>5, <1>6 DEF FramesIn, ApartIn
\* The directory the file is of stays on top.
<1>10. stack' # << >> /\ Last(stack').dir = Front(p)
  <2>1. r \in Seq(Frames) /\ r # << >> /\ DOMAIN r = DOMAIN stack /\ stack \in Seq(Frames)
    BY <1>5 DEF LessBy, TypeOK, WalkType, Frames
  <2>2. Len(r) = Len(stack) /\ Len(stack) \in DOMAIN stack
    BY <2>1
  <2>3. r[Len(stack)].dir = stack[Len(stack)].dir
    BY <1>5, <2>2 DEF LessBy
  <2>4. Front(p) = stack[Len(stack)].dir
    BY <1>1 DEF Taken, Top, Last
  <2> QED
    BY <1>2, <2>1, <2>2, <2>3, <2>4 DEF Last
<1>11. WalkOver'
  <2>1. p \in Children(Last(stack').dir)
    BY <1>10 DEF Children
  <2> QED
    BY <1>2, <1>3, <1>10, <2>1 DEF WalkOver, Top, Children, Files, Packed
<1> QED
  BY <1>2, <1>4, <1>8, <1>9, <1>11 DEF WalkInv, RecordsLead, RecordedOnce

LEMMA WalkClose ==
    ASSUME TypeOK, WalkInv, CloseDir
    PROVE  WalkInv'
<1>1. /\ stack \in Seq(Frames) /\ stack # << >> /\ Last(stack).todo = {} /\ pc = "walk"
      /\ stack' = Front(stack) /\ pc' = pc /\ blob' = blob /\ missed' = missed
      /\ metadata' = metadata /\ entries' = entries
  BY DEF TypeOK, WalkType, Frames, CloseDir, Walking, Top, tables, history
<1>2. /\ ApartIn(stack') /\ ComingOf(stack') = ComingOf(stack)
      /\ \A k \in DOMAIN stack' : k \in DOMAIN stack /\ stack'[k] = stack[k]
  BY <1>1, ClosedComing DEF WalkInv
<1>3. /\ Recorded' = Recorded /\ Opened' = {} /\ Opened = {} /\ EntriesOfFiles'
      /\ ComingOf(stack)' = ComingOf(stack)
  BY <1>1, <1>2 DEF Recorded, Opened, WalkInv, EntriesOfFiles, ComingOf, Packed, Files
<1>4. Accounted'
  BY <1>1, <1>3 DEF WalkInv, Accounted
<1>5. FramesIn(stack, metadata)' /\ ApartIn(stack)'
  BY <1>1, <1>2 DEF WalkInv, FramesIn, ApartIn, IdOf
<1> QED
  BY <1>1, <1>3, <1>4, <1>5 DEF WalkInv, RecordsLead, RecordedOnce, WalkOver

\* The root is entered: everything is to come.
LEMMA WalkBegins ==
    ASSUME TypeOK, WalkInv, WritePkg
    PROVE  WalkInv'
<1> DEFINE e == Enter(<< >>, 0)
           none == {q \in Packed : FALSE}
<1>1. /\ stack' = <<e>> /\ pc' = "walk" /\ blob' = blob /\ missed' = {}
      /\ metadata' = << >> /\ entries' = << >>
  BY DEF WritePkg, tables, history, WalkInv
<1>2. << >> \in Seq(Frames) /\ ApartIn(<< >>) /\ << >> \in Spelled
  BY SourceType DEF ApartIn
<1>3. <<e>> = Append(<< >>, e)
  OBVIOUS
<1>4. /\ <<e>> \in Seq(Frames) /\ ApartIn(<<e>>)
      /\ ComingOf(<<e>>) = ComingOf(<< >>) \cup {x \in Packed : IsPrefix(<< >>, x) /\ x # << >>}
  <2>1. \A k \in DOMAIN << >> : FALSE
    OBVIOUS
  <2> HIDE DEF e
  <2>2. /\ Append(<< >>, e) \in Seq(Frames)
        /\ ApartIn(Append(<< >>, e))
        /\ ComingOf(Append(<< >>, e)) =
             ComingOf(<< >>) \cup {x \in Packed : IsPrefix(<< >>, x) /\ x # << >>}
    BY <1>2, <2>1, EnteredComing DEF e
  <2> QED
    BY <1>3, <2>2
<1>5. \A x \in Packed : IsPrefix(<< >>, x) /\ x # << >>
  <2> SUFFICES ASSUME NEW x \in Packed PROVE IsPrefix(<< >>, x)
    BY PathFacts
  <2>1. Len(<< >>) = 0
    OBVIOUS
  <2> QED
    BY <2>1, PathFacts, PrefixOfAll
<1>6. ComingOf(<<e>>) = Packed
  BY <1>4, <1>5 DEF ComingOf
<1>7. FramesIn(<<e>>, << >>)
  <2>1. e.id = 0 /\ e.dir = << >> /\ e.todo = Children(<< >>)
    BY DEF Enter
  <2> HIDE DEF e
  <2>2. DOMAIN <<e>> = {1} /\ <<e>>[1] = e
    OBVIOUS
  <2> QED
    BY <2>1, <2>2 DEF FramesIn, IdOf
<1> HIDE DEF e
<1>8. DOMAIN metadata' = {} /\ DOMAIN entries' = {}
  BY <1>1
<1>9. Recorded' = {} /\ Opened' = {} /\ ComingOf(stack)' = Packed
  <2>1. ComingOf(stack)' = ComingOf(stack')
    BY DEF ComingOf, Packed
  <2> QED
    BY <1>1, <1>6, <1>8, <2>1 DEF Recorded, Opened
<1>10. Accounted'
  BY <1>1, <1>9 DEF Accounted, Packed
<1>11. FramesIn(stack, metadata)' /\ ApartIn(stack)'
  BY <1>1, <1>4, <1>7 DEF FramesIn, ApartIn
<1>12. RecordsLead' /\ RecordedOnce' /\ EntriesOfFiles'
  BY <1>8 DEF RecordsLead, RecordedOnce, EntriesOfFiles
<1> QED
  BY <1>1, <1>10, <1>11, <1>12 DEF WalkInv, WalkOver

LEMMA WalkUnbegun ==
    ASSUME TypeOK, WalkInv, WritePkgUnopened
    PROVE  WalkInv'
<1>1. /\ pc = "idle" /\ stack' = << >> /\ pc' = "walk" /\ missed' = Packed
      /\ metadata' = << >> /\ entries' = << >>
  BY DEF WritePkgUnopened, walk, tables, WalkInv, WalkOver
<1>2. DOMAIN stack' = {} /\ DOMAIN metadata' = {} /\ DOMAIN entries' = {}
  BY <1>1
<1>3. Recorded' = {} /\ Opened' = {} /\ ComingOf(stack)' = {}
  BY <1>1, <1>2 DEF Recorded, Opened, ComingOf
<1>4. Accounted'
  BY <1>1, <1>3 DEF Accounted, Packed
<1> QED
  BY <1>1, <1>2, <1>4
  DEF WalkInv, WalkOver, FramesIn, ApartIn, RecordsLead, RecordedOnce, EntriesOfFiles

\* The data of a file ends: the file has its record and its entry.
LEMMA WalkFile ==
    ASSUME TypeOK, WalkInv, pc = "blob", pc' = "walk", UNCHANGED walk,
           NEW offset \in Nat, NEW size \in 0 .. SizeMod - 1, NEW how,
           PutFile(blob.path, offset, size, how)
    PROVE  WalkInv'
<1> DEFINE p == blob.path
<1>1. /\ stack' = stack /\ blob' = blob /\ missed' = missed
      /\ PutMetadata(p, Top.id) /\ PutEntry(offset, size)
  BY DEF PutFile, walk
<1>2. stack # << >> /\ p \in Children(Top.dir) /\ p \in Files /\ p \in Packed
  BY DEF WalkInv, WalkOver, Files
<1>3. Front(p) = Top.dir
  BY <1>2 DEF Children
<1>4. Top.id \in Nat /\ IdOf(metadata, Top.id, Top.dir)
  <2>1. stack \in Seq(Frames) /\ Len(stack) \in DOMAIN stack /\ Top = stack[Len(stack)]
    BY <1>2 DEF TypeOK, WalkType, Frames, Top, Last
  <2> QED
    BY <2>1, FrameType DEF WalkInv, FramesIn
<1> HIDE DEF p
<1>5. Opened = {p} /\ Opened' = {} /\ Accounted
  BY DEF Opened, p, WalkInv
<1>6. p \notin Recorded
  BY <1>5 DEF Accounted
<1>7. /\ RecordsLead' /\ RecordedOnce' /\ Recorded' = Recorded \cup {p}
      /\ Adds(NewId, p)
  BY <1>1, <1>2, <1>3, <1>4, <1>6, RecordAdded DEF WalkInv
<1>8. EntriesOfFiles'
  BY <1>1, <1>2, <1>4, FileHasEntry DEF WalkInv
<1>9. ComingOf(stack)' = ComingOf(stack)
  BY <1>1 DEF ComingOf, Packed
<1>10. Accounted'
  BY <1>1, <1>5, <1>7, <1>9 DEF Accounted
<1>11. FramesIn(stack, metadata)' /\ ApartIn(stack)'
  BY <1>1, <1>7 DEF WalkInv, FramesIn, ApartIn, Adds
<1> QED
  BY <1>7, <1>8, <1>10, <1>11 DEF WalkInv, WalkOver

LEMMA WalkBlobEnds ==
    ASSUME TypeOK, WalkInv, BlobFails \/ BlobDone
    PROVE  WalkInv'
<1>1. blob.offset \in Nat /\ 0 \in 0 .. SizeMod - 1
  BY Constants DEF TypeOK, WalkType
<1>2. CASE BlobFails
  BY <1>1, <1>2, WalkFile DEF BlobFails
<1>3. CASE BlobDone
  <2>1. BytesDone \in Nat
    <3>1. pc = "blob" /\ Len(package) \in Nat
      BY <1>3 DEF BlobDone, TypeOK, TablesType
    <3>2. blob.start \in Nat /\ blob.start <= Len(package)
      BY <3>1 DEF TypeOK, WalkType
    <3> QED
      BY <3>1, <3>2 DEF BytesDone
  <2>2. BytesDone % SizeMod \in 0 .. SizeMod - 1
    BY <2>1, SizeCut
  <2> QED
    BY <1>1, <1>3, <2>2, WalkFile DEF BlobDone
<1> QED
  BY <1>2, <1>3

\* The walk is as it was.
LEMMA WalkFrame ==
    ASSUME WalkInv, UNCHANGED <<walk, tables, missed>>,
           pc' = pc \/ (stack = << >> /\ pc \in {"walk", "metadata", "data"} /\ pc' \notin {"idle", "walk", "blob"})
    PROVE  WalkInv'
<1>1. /\ stack' = stack /\ blob' = blob /\ missed' = missed
      /\ metadata' = metadata /\ entries' = entries
  BY DEF walk, tables
<1>2. Opened' = Opened
  BY <1>1 DEF Opened
<1>3. pc' # "idle" => Accounted'
  BY <1>1, <1>2 DEF WalkInv, Accounted, Recorded, ComingOf, Packed
<1>4. /\ FramesIn(stack, metadata)' /\ ApartIn(stack)'
      /\ RecordsLead' /\ RecordedOnce' /\ EntriesOfFiles'
  BY <1>1 DEF WalkInv, FramesIn, ApartIn, RecordsLead, RecordedOnce, EntriesOfFiles
<1>5. WalkOver'
  BY <1>1 DEF WalkInv, WalkOver, Top
<1> QED
  BY <1>1, <1>3, <1>4, <1>5 DEF WalkInv

LEMMA WalkStep == TypeOK /\ WalkInv /\ [Next]_vars => WalkInv'
<1> SUFFICES ASSUME TypeOK, WalkInv, [Next]_vars PROVE WalkInv'
  OBVIOUS
<1>1. CASE WritePkg \/ WritePkgUnopened \/ CloseDir \/ BlobFails \/ BlobDone
  BY <1>1, WalkBegins, WalkUnbegun, WalkClose, WalkBlobEnds
<1>2. ASSUME NEW p \in Packed,
             \/ SkipEntry(p) \/ EnterDir(p) \/ EnterDirUnopened(p)
             \/ BlobUnopened(p) \/ OpenBlob(p)
      PROVE  WalkInv'
  BY <1>2, WalkSkip, WalkEnter, WalkEnterUnopened, WalkUnopened, WalkOpen
<1>3. CASE WriteByte
  BY <1>3, WalkFrame DEF WriteByte, history
<1>4. CASE DumpHeader
  BY <1>4, WalkFrame DEF DumpHeader, history
<1>5. CASE DumpMetadata \/ DumpName \/ DumpData
  BY <1>5, WalkFrame DEF DumpMetadata, DumpName, DumpData, history
<1>6. CASE StartData \/ DumpFooter
  <2>1. stack = << >>
    BY <1>6 DEF StartData, DumpFooter, WalkInv, WalkOver
  <2> QED
    BY <1>6, <2>1, WalkFrame DEF StartData, DumpFooter, history
<1>7. CASE UNCHANGED vars
  BY <1>7, WalkFrame DEF vars, history
<1> QED
  BY <1>1, <1>2, <1>3, <1>4, <1>5, <1>6, <1>7 DEF Next, Step, Fault, PassOver, EnterDirTooDeep

LEMMA WalkInit == Init => WalkInv
<1> SUFFICES ASSUME Init PROVE WalkInv
  OBVIOUS
<1>1. /\ stack = << >> /\ metadata = << >> /\ entries = << >> /\ missed = {} /\ pc = "idle"
      /\ DOMAIN stack = {} /\ DOMAIN metadata = {} /\ DOMAIN entries = {}
  BY DEF Init
<1> QED
  BY <1>1
  DEF WalkInv, WalkOver, FramesIn, ApartIn, RecordsLead, RecordedOnce, EntriesOfFiles

\* Following the parents of a record gives its path.
PathIs(f) ==
    f = [n \in 0 .. Len(metadata) |->
           IF n = 0 THEN << >>
           ELSE Append(f[metadata[n].parent], Last(metadata[n].path))]

LEMMA PathOfRecord ==
    ASSUME TypeOK, RecordsLead
    PROVE  \A n \in DOMAIN metadata : PathOf[n] = metadata[n].path
<1> DEFINE N == Len(metadata)
           g == [n \in 0 .. N |-> IF n = 0 THEN << >> ELSE metadata[n].path]
<1>1. N \in Nat /\ DOMAIN metadata = 1 .. N
  BY DEF TypeOK, TablesType
<1>2. \A n \in 1 .. N : metadata[n].path \in Packed
  <2> SUFFICES ASSUME NEW n \in 1 .. N PROVE metadata[n].path \in Packed
    OBVIOUS
  <2>1. metadata[n] \in [id : Nat, parent : Nat, path : Packed]
    BY ElementType DEF TypeOK, TablesType
  <2> QED
    BY <2>1
<1> HIDE DEF N
<1>3. \A n \in 1 .. N : /\ metadata[n].parent \in 0 .. n - 1
                        /\ metadata[n].parent \in 0 .. N
                        /\ Front(metadata[n].path) = g[metadata[n].parent]
  <2> SUFFICES ASSUME NEW n \in 1 .. N
               PROVE  /\ metadata[n].parent \in 0 .. n - 1
                      /\ metadata[n].parent \in 0 .. N
                      /\ Front(metadata[n].path) = g[metadata[n].parent]
    OBVIOUS
  <2> DEFINE m == metadata[n].parent
  <2>1. m \in 0 .. n - 1 /\ IdOf(metadata, m, Front(metadata[n].path))
    BY <1>1 DEF RecordsLead
  <2> HIDE DEF m
  <2>2. m \in 0 .. N
    BY <1>1, <2>1
  <2>3. Front(metadata[n].path) = IF m = 0 THEN << >> ELSE metadata[m].path
    BY <2>1 DEF IdOf
  <2> QED
    BY <2>1, <2>2, <2>3 DEF m
<1>4. \A n \in 1 .. N : metadata[n].path = Append(g[metadata[n].parent], Last(metadata[n].path))
  <2> SUFFICES ASSUME NEW n \in 1 .. N
               PROVE  metadata[n].path = Append(g[metadata[n].parent], Last(metadata[n].path))
    OBVIOUS
  <2>1. metadata[n].path \in Seq(Names) /\ metadata[n].path # << >>
    BY <1>2, PathFacts
  <2>2. metadata[n].path = Append(Front(metadata[n].path), Last(metadata[n].path))
    BY <2>1, FrontAndLast
  <2> HIDE DEF g
  <2> QED
    BY <1>3, <2>2
<1>5. PathIs(g)
  <2>1. \A n \in 0 .. N : g[n] = IF n = 0 THEN << >>
                                 ELSE Append(g[metadata[n].parent], Last(metadata[n].path))
    <3> SUFFICES ASSUME NEW n \in 0 .. N, n # 0
                 PROVE  g[n] = Append(g[metadata[n].parent], Last(metadata[n].path))
      OBVIOUS
    <3>1. n \in 1 .. N
      BY <1>1
    <3>2. g[n] = metadata[n].path
      OBVIOUS
    <3> HIDE DEF g
    <3> QED
      BY <1>4, <3>1, <3>2
  <2>2. g = [n \in 0 .. N |-> g[n]]
    OBVIOUS
  <2> HIDE DEF g
  <2>3. g = [n \in 0 .. N |-> IF n = 0 THEN << >>
                              ELSE Append(g[metadata[n].parent], Last(metadata[n].path))]
    BY <2>1, <2>2
  <2> QED
    BY <2>3 DEF PathIs, N
<1>6. PathIs(PathOf)
  <2>1. PathOf = CHOOSE f : PathIs(f)
    BY DEF PathOf, PathIs
  <2> QED
    BY <1>5, <2>1
<1>7. \A n \in 0 .. N : /\ n = 0 => PathOf[n] = << >> /\ g[n] = << >>
                        /\ n # 0 => /\ PathOf[n] = Append(PathOf[metadata[n].parent],
                                                          Last(metadata[n].path))
                                    /\ g[n] = Append(g[metadata[n].parent],
                                                     Last(metadata[n].path))
  <2> HIDE DEF g
  <2> QED
    BY <1>5, <1>6 DEF PathIs, N
<1> DEFINE T == {n \in 0 .. N : PathOf[n] # g[n]}
<1>8. T = {}
  <2> SUFFICES ASSUME T # {} PROVE FALSE
    OBVIOUS
  <2>1. PICK n \in T : \A j \in T : n <= j
    <3>1. T \in SUBSET (0 .. N)
      OBVIOUS
    <3> HIDE DEF T
    <3> QED
      BY <1>1, <3>1, LeastExists
  <2>2. n \in 0 .. N /\ PathOf[n] # g[n]
    BY <2>1
  <2> HIDE DEF g
  <2>3. n # 0 /\ n \in 1 .. N
    BY <1>1, <1>7, <2>2
  <2>4. metadata[n].parent \in 0 .. n - 1 /\ metadata[n].parent \in 0 .. N
    BY <1>3, <2>3
  <2>5. metadata[n].parent \notin T
    BY <1>1, <2>1, <2>2, <2>4
  <2>6. PathOf[metadata[n].parent] = g[metadata[n].parent]
    BY <2>4, <2>5
  <2> QED
    BY <1>7, <2>2, <2>3, <2>6
<1>9. \A n \in 1 .. N : n \in 0 .. N /\ g[n] = metadata[n].path
  BY <1>1
<1> QED
  BY <1>1, <1>8, <1>9

LEMMA WalkTree == TypeOK /\ WalkInv => TreeWritten
<1> SUFFICES ASSUME TypeOK, WalkInv, pc = "done"
             PROVE  /\ \A n \in DOMAIN metadata : metadata[n].parent < n
                    /\ {PathOf[n] : n \in DOMAIN metadata} = Packed \ missed
                    /\ \A m, n \in DOMAIN metadata : PathOf[m] = PathOf[n] => m = n
                    /\ {PathOf[entries[n].id] : n \in DOMAIN entries} = Files \ missed
                    /\ \A m, n \in DOMAIN entries : entries[m].id = entries[n].id => m = n
                    /\ \A p \in Whole \ (missed \cup {<< >>}) :
                         Len(p) <= MaxOpen => \E n \in DOMAIN metadata : PathOf[n] = p
  BY DEF TreeWritten
<1>1. \A n \in DOMAIN metadata : PathOf[n] = metadata[n].path
  BY PathOfRecord DEF WalkInv
<1>2. Recorded = Packed \ missed
  <2>1. stack = << >> /\ Opened = {}
    BY DEF WalkInv, WalkOver, Opened
  <2>2. DOMAIN stack = {}
    BY <2>1
  <2>3. ComingOf(stack) = {}
    BY <2>2 DEF ComingOf
  <2>4. missed \subseteq Packed
    BY DEF TypeOK, WalkType
  <2> QED
    BY <2>1, <2>3, <2>4 DEF WalkInv, Accounted
<1>3. {PathOf[n] : n \in DOMAIN metadata} = Packed \ missed
  <2>1. {PathOf[n] : n \in DOMAIN metadata} = Recorded
    BY <1>1 DEF Recorded
  <2> QED
    BY <1>2, <2>1
<1>4. {PathOf[entries[n].id] : n \in DOMAIN entries} = Files \ missed
  <2>1. \A x : (\E n \in DOMAIN entries : x = PathOf[entries[n].id])
                 <=> x \in Files /\ x \in Recorded
    <3> SUFFICES ASSUME NEW x
                 PROVE  (\E n \in DOMAIN entries : x = PathOf[entries[n].id])
                          <=> x \in Files /\ x \in Recorded
      OBVIOUS
    <3>1. \A k : (\E n \in DOMAIN entries : k = entries[n].id)
                   <=> k \in DOMAIN metadata /\ metadata[k].path \in Files
      <4>1. \A k : k \in {entries[n].id : n \in DOMAIN entries}
                     <=> k \in {n \in DOMAIN metadata : metadata[n].path \in Files}
        BY DEF WalkInv, EntriesOfFiles
      <4> QED
        BY <4>1
    <3>2. (\E n \in DOMAIN entries : x = PathOf[entries[n].id])
            <=> \E k \in DOMAIN metadata : metadata[k].path \in Files /\ x = PathOf[k]
      BY <3>1
    <3>3. x \in Recorded <=> \E k \in DOMAIN metadata : x = metadata[k].path
      BY DEF Recorded
    <3> QED
      BY <1>1, <3>2, <3>3
  <2>2. \A x : x \in Files => x \in Packed
    BY DEF Files
  <2> QED
    BY <1>2, <2>1, <2>2
<1>5. \A n \in DOMAIN metadata : metadata[n].parent < n
  <2> SUFFICES ASSUME NEW n \in DOMAIN metadata PROVE metadata[n].parent < n
    OBVIOUS
  <2>1. n \in Nat
    BY DEF TypeOK, TablesType
  <2>2. metadata[n].parent \in 0 .. n - 1
    BY DEF WalkInv, RecordsLead
  <2> QED
    BY <2>1, <2>2
<1>6. \A m, n \in DOMAIN metadata : PathOf[m] = PathOf[n] => m = n
  BY <1>1 DEF WalkInv, RecordedOnce
<1>7. \A m, n \in DOMAIN entries : entries[m].id = entries[n].id => m = n
  BY DEF WalkInv, EntriesOfFiles
<1>8. ASSUME NEW p \in Whole \ (missed \cup {<< >>}), Len(p) <= MaxOpen
      PROVE  \E n \in DOMAIN metadata : PathOf[n] = p
  <2>1. p \in Packed \ missed
    BY <1>8, WholeSpelled DEF Packed
  <2> QED
    BY <1>3, <2>1
<1> QED
  BY <1>3, <1>4, <1>5, <1>6, <1>7, <1>8

\* For any directory, any lengths of its names and whatever fails: the index
\* that is written holds each path the recursion could read once, under the
\* record of the directory it came from, an entry for each of its files, and
\* all that is on the disk under paths that are not cut and no deeper than
\* directories can be opened (recursive_writer, deflate.c:239-318).
THEOREM TreeIsWritten == Spec => []TreeWritten
<1>1. TypeOK /\ WalkInv /\ [Next]_vars => WalkInv'
  BY WalkStep
<1>2. Spec => []WalkInv
  BY <1>1, WalkInit, TypeCorrect, PTL DEF Spec
<1> QED
  BY <1>2, TypeCorrect, WalkTree, PTL


-----------------------------------------------------------------------------
(* The end of the walk and of the loops that write the index               *)

\* The data of a file does not go on past its end.
BlobFits == pc = "blob" => BytesDone <= BlobSize

LEMMA BlobFitsStep == TypeOK /\ BlobFits /\ [Next]_vars => BlobFits'
<1> SUFFICES ASSUME TypeOK, BlobFits, [Next]_vars, pc' = "blob"
             PROVE  BytesDone' <= BlobSize'
  BY DEF BlobFits
<1>1. /\ Len(package) \in Nat /\ blob.start \in Nat /\ pkg_cur_offset \in Nat
      /\ package \in Seq(DOMAIN Source \cup {Marker})
  BY DEF TypeOK, WalkType, TablesType
<1>2. ASSUME NEW p \in Packed, OpenBlob(p)
      PROVE  BytesDone' <= BlobSize'
  <2>1. package' = package /\ blob' = [path |-> p, offset |-> pkg_cur_offset, start |-> Len(package)]
    BY <1>2 DEF OpenBlob, pkg
  <2>2. BytesDone' = 0 /\ blob'.path = p
    BY <1>1, <2>1 DEF BytesDone
  <2>3. Bytes[Leads(p)] \in Nat
    BY <1>2, FileFacts DEF OpenBlob, Take, Files
  <2> QED
    BY <2>2, <2>3 DEF BlobSize
<1>3. CASE WriteByte
  <2>1. /\ package' = Append(package, Leads(blob.path)) /\ blob' = blob
        /\ BytesDone < BlobSize /\ blob.path \in Files
    BY <1>3 DEF WriteByte, walk, TypeOK, WalkType
  <2>2. Len(package') = Len(package) + 1
    BY <1>1, <2>1
  <2>3. BlobSize \in Nat
    BY <2>1, FileFacts DEF BlobSize
  <2> QED
    BY <1>1, <2>1, <2>2, <2>3 DEF BytesDone, BlobSize
<1>4. CASE UNCHANGED vars
  BY <1>4 DEF vars, walk, pkg, BytesDone, BlobSize, BlobFits
<1>5. pc' = "blob" => WriteByte \/ (\E p \in Packed : OpenBlob(p)) \/ UNCHANGED vars
  <2>1. ASSUME Step PROVE WriteByte \/ (\E p \in Packed : OpenBlob(p))
    <3>1. ASSUME NEW p \in Packed, PassOver(p) \/ EnterDir(p) \/ EnterDirTooDeep(p)
          PROVE  FALSE
      BY <3>1 DEF PassOver, SkipEntry, EnterDir, EnterDirTooDeep, EnterDirUnopened, Take, Walking
    <3> QED
      BY <2>1, <3>1 DEF Step, WritePkg, CloseDir, Walking, BlobDone, DumpHeader, DumpMetadata,
                        DumpName, StartData, DumpData, DumpFooter
  <2>2. ~ Fault
    <3>1. ASSUME NEW p \in Packed, SkipEntry(p) \/ EnterDirUnopened(p) \/ BlobUnopened(p)
          PROVE  FALSE
      BY <3>1 DEF SkipEntry, EnterDirUnopened, BlobUnopened, Take, Walking
    <3> QED
      BY <3>1 DEF Fault, WritePkgUnopened, BlobFails
  <2> QED
    BY <2>1, <2>2 DEF Next
<1> QED
  BY <1>2, <1>3, <1>4, <1>5

LEMMA ComingFinite ==
    ASSUME NEW st
    PROVE  IsFiniteSet(ComingOf(st)) /\ Cardinality(ComingOf(st)) \in Nat
<1>1. IsFiniteSet(Spelled) /\ ComingOf(st) \in SUBSET Spelled
  BY WriterAssumption DEF ComingOf, Packed
<1>2. IsFiniteSet(ComingOf(st))
  BY <1>1, FS_Subset
<1> QED
  BY <1>2, FS_CardinalityType

LEMMA FewerComing ==
    ASSUME NEW st, NEW D, D \subseteq ComingOf(st), NEW p \in ComingOf(st), p \notin D
    PROVE  Cardinality(D) \in Nat /\ Cardinality(D) < Cardinality(ComingOf(st))
<1>1. IsFiniteSet(ComingOf(st)) /\ Cardinality(ComingOf(st)) \in Nat
  BY ComingFinite
<1>2. /\ IsFiniteSet(D) /\ Cardinality(D) <= Cardinality(ComingOf(st))
      /\ Cardinality(D) # Cardinality(ComingOf(st))
  BY <1>1, FS_Subset
<1>3. Cardinality(D) \in Nat
  BY <1>2, FS_CardinalityType
<1> QED
  BY <1>1, <1>2, <1>3

\* The measure is one in every state.
LEMMA VariantType == TypeOK /\ BlobFits => Variant \in Measures
<1> SUFFICES ASSUME TypeOK, BlobFits PROVE Variant \in Measures
  OBVIOUS
<1>1. /\ pc \in {"idle", "walk", "blob", "metadata", "data", "done"}
      /\ Len(stack) \in Nat
      /\ Cardinality(ComingOf(stack)) \in Nat
  BY ComingFinite DEF TypeOK, WalkType
<1>2. /\ Len(metadata) \in Nat /\ Len(entries) \in Nat
      /\ Len(out_metadata) \in 0 .. Len(metadata)
      /\ Len(out_names) \in 0 .. Len(metadata)
      /\ Len(out_data) \in 0 .. Len(entries)
  BY DEF TypeOK, TablesType, DumpType
<1>3. PartsAhead \in Nat
  BY <1>1 DEF PartsAhead
<1>4. WorkAhead \in Nat
  BY <1>1, <1>2 DEF WorkAhead
<1>5. BytesAhead \in Nat
  <2>1. CASE pc = "blob"
    <3>1. BlobSize \in Nat /\ BytesDone <= BlobSize
      BY <2>1, FileFacts DEF TypeOK, WalkType, BlobFits, BlobSize
    <3>2. BytesDone \in Int
      BY DEF TypeOK, WalkType, TablesType, BytesDone
    <3> QED
      BY <2>1, <3>1, <3>2 DEF BytesAhead
  <2>2. CASE pc # "blob"
    BY <2>2 DEF BytesAhead
  <2> QED
    BY <2>1, <2>2
<1> QED
  BY <1>3, <1>4, <1>5 DEF Variant, Measures

\* A step that comes to a later part, to less work in one, or to less data.
LEMMA LowerVariant ==
    ASSUME \/ PartsAhead' < PartsAhead
           \/ PartsAhead' = PartsAhead /\ WorkAhead' < WorkAhead
           \/ PartsAhead' = PartsAhead /\ WorkAhead' = WorkAhead /\ BytesAhead' < BytesAhead
    PROVE  Lower(Variant', Variant)
BY DEF Lower, Variant

LEMMA ComingNext == ComingOf(stack)' = ComingOf(stack')
BY DEF ComingOf, Packed

\* An entry taken, which is passed over, recorded or opened.
LEMMA TakingEnds ==
    ASSUME TypeOK, WalkInv, NEW p \in Packed,
           \/ SkipEntry(p) \/ EnterDir(p) \/ EnterDirUnopened(p)
           \/ BlobUnopened(p) \/ OpenBlob(p)
    PROVE  Lower(Variant', Variant)
<1> DEFINE r == TakenFrom(stack, p)
<1>1. Taken(p, r) /\ r = Append(Front(stack), Left(p))
  BY TakenFacts DEF SkipEntry, EnterDir, EnterDirUnopened, BlobUnopened, OpenBlob
<1> HIDE DEF r
<1>2. /\ pc = "walk" /\ r \in Seq(Frames) /\ Len(r) = Len(stack) /\ Len(stack) \in Nat
      /\ ComingOf(r) = ComingOf(stack) \ Subtree(p)
      /\ p \in Subtree(p) /\ p \in ComingOf(stack)
  <2>1. DOMAIN r = DOMAIN stack /\ r \in Seq(Frames) /\ stack \in Seq(Frames)
    BY <1>1 DEF Taken, LessBy, TypeOK, WalkType, Frames
  <2>2. Len(r) = Len(stack)
    BY <2>1
  <2> QED
    BY <1>1, <2>1, <2>2 DEF Taken
<1>3. WorkAhead = 2 * Cardinality(ComingOf(stack)) + Len(stack) /\ PartsAhead = 3
  BY <1>2 DEF WorkAhead, PartsAhead
<1>4. Cardinality(ComingOf(stack)) \in Nat
  BY ComingFinite
<1>5. CASE SkipEntry(p) \/ EnterDirUnopened(p) \/ BlobUnopened(p) \/ OpenBlob(p)
  <2>1. stack' = r /\ pc' \in {"walk", "blob"}
    BY <1>1, <1>2, <1>5 DEF SkipEntry, EnterDirUnopened, BlobUnopened, OpenBlob, GoOn
  <2>2. Cardinality(ComingOf(r)) \in Nat /\ Cardinality(ComingOf(r)) < Cardinality(ComingOf(stack))
    BY <1>2, FewerComing
  <2>3. /\ WorkAhead' = 2 * Cardinality(ComingOf(r)) + Len(r)
           \/ WorkAhead' = 2 * Cardinality(ComingOf(r)) + Len(r) + 1
        /\ PartsAhead' = 3
    BY <2>1, ComingNext DEF WorkAhead, PartsAhead
  <2>4. WorkAhead' < WorkAhead
    BY <1>2, <1>3, <1>4, <2>2, <2>3
  <2> QED
    BY <1>3, <2>3, <2>4, LowerVariant
<1>6. CASE EnterDir(p)
  <2>1. /\ stack' = Append(r, Enter(p, NewId)) /\ pc' = "walk"
        /\ Kind(p) = "dir" /\ p \in Spelled /\ NewId \in Nat
    BY <1>1, <1>2, <1>6 DEF EnterDir, Packed, NewId, TypeOK, TablesType
  <2>2. /\ ApartIn(r)
        /\ \A k \in DOMAIN r : \A q \in r[k].todo : ~ IsPrefix(q, p) /\ ~ IsPrefix(p, q)
    BY <1>1 DEF Taken
  <2>3. ComingOf(stack') = ComingOf(r) \cup {x \in Packed : IsPrefix(p, x) /\ x # p}
    BY <1>2, <2>1, <2>2, EnteredComing
  <2>4. ComingOf(stack') \subseteq ComingOf(stack) /\ p \notin ComingOf(stack')
    <3>1. Subtree(p) \subseteq ComingOf(stack)
      BY <1>1 DEF Taken
    <3> QED
      BY <1>2, <2>3, <3>1 DEF Subtree
  <2>5. /\ Cardinality(ComingOf(stack')) \in Nat
        /\ Cardinality(ComingOf(stack')) < Cardinality(ComingOf(stack))
    BY <1>2, <2>4, FewerComing
  <2>6. Len(stack') = Len(stack) + 1
    <3>1. Enter(p, NewId) \in Frames
      BY <2>1, PathFacts DEF Enter, Frames
    <3> QED
      BY <1>2, <2>1, <3>1, AppendType
  <2>7. WorkAhead' = 2 * Cardinality(ComingOf(stack')) + Len(stack') /\ PartsAhead' = 3
    BY <2>1, ComingNext DEF WorkAhead, PartsAhead
  <2>8. WorkAhead' < WorkAhead
    BY <1>2, <1>3, <1>4, <2>5, <2>6, <2>7
  <2> QED
    BY <1>3, <2>7, <2>8, LowerVariant
<1> QED
  BY <1>5, <1>6

LEMMA CloseEnds ==
    ASSUME TypeOK, WalkInv, CloseDir
    PROVE  Lower(Variant', Variant)
<1>1. /\ stack \in Seq(Frames) /\ stack # << >> /\ Last(stack).todo = {}
      /\ pc = "walk" /\ pc' = "walk" /\ stack' = Front(stack) /\ ApartIn(stack)
  BY DEF CloseDir, Walking, Top, TypeOK, WalkType, Frames, WalkInv
<1>2. ComingOf(stack') = ComingOf(stack)
  BY <1>1, ClosedComing
<1>3. Len(stack') = Len(stack) - 1 /\ Len(stack) \in Nat
  BY <1>1, FrontShape
<1>4. /\ WorkAhead = 2 * Cardinality(ComingOf(stack)) + Len(stack)
      /\ WorkAhead' = 2 * Cardinality(ComingOf(stack')) + Len(stack')
      /\ PartsAhead = 3 /\ PartsAhead' = 3
  BY <1>1, ComingNext DEF WorkAhead, PartsAhead
<1>5. Cardinality(ComingOf(stack)) \in Nat
  BY ComingFinite
<1>6. WorkAhead' < WorkAhead
  BY <1>2, <1>3, <1>4, <1>5
<1> QED
  BY <1>4, <1>6, LowerVariant

LEMMA BlobEnds ==
    ASSUME TypeOK, BlobFits, WriteByte \/ BlobFails \/ BlobDone
    PROVE  Lower(Variant', Variant)
<1>1. /\ pc = "blob" /\ stack' = stack /\ blob' = blob
      /\ Len(stack) \in Nat /\ Cardinality(ComingOf(stack)) \in Nat
      /\ ComingOf(stack)' = ComingOf(stack)
  BY ComingFinite, ComingNext DEF WriteByte, BlobFails, BlobDone, walk, TypeOK, WalkType
<1>2. WorkAhead = 2 * Cardinality(ComingOf(stack)) + Len(stack) + 1 /\ PartsAhead = 3
  BY <1>1 DEF WorkAhead, PartsAhead
<1>3. CASE BlobFails \/ BlobDone
  <2>1. pc' = "walk"
    BY <1>3 DEF BlobFails, BlobDone
  <2>2. WorkAhead' = 2 * Cardinality(ComingOf(stack)) + Len(stack) /\ PartsAhead' = 3
    BY <1>1, <2>1 DEF WorkAhead, PartsAhead
  <2>3. WorkAhead' < WorkAhead
    BY <1>1, <1>2, <2>2
  <2> QED
    BY <1>2, <2>2, <2>3, LowerVariant
<1>4. CASE WriteByte
  <2>1. /\ pc' = "blob" /\ package' = Append(package, Leads(blob.path))
        /\ blob.path \in Files /\ package \in Seq(DOMAIN Source \cup {Marker})
        /\ blob.start \in Nat
    BY <1>1, <1>4 DEF WriteByte, TypeOK, WalkType, TablesType
  <2>2. Len(package') = Len(package) + 1 /\ Len(package) \in Nat
    BY <2>1
  <2>3. BlobSize \in Nat
    BY <2>1, FileFacts DEF BlobSize
  <2>4. BytesAhead' < BytesAhead
    BY <1>1, <2>1, <2>2, <2>3, <1>4 DEF WriteByte, walk, BytesAhead, BytesDone, BlobSize
  <2>5. WorkAhead' = WorkAhead /\ PartsAhead' = PartsAhead
    BY <1>1, <2>1 DEF WorkAhead, PartsAhead
  <2> QED
    BY <2>4, <2>5, LowerVariant
<1> QED
  BY <1>3, <1>4

LEMMA DumpEnds ==
    ASSUME TypeOK, DumpMetadata \/ DumpName \/ DumpData
    PROVE  Lower(Variant', Variant)
<1>1. /\ Len(metadata) \in Nat /\ Len(entries) \in Nat
      /\ out_metadata \in Seq([at : Nat, offset : Int]) /\ position \in Nat /\ string_start \in Int
      /\ out_names \in Seq([at : Nat, size : Nat])
      /\ out_data \in Seq(Nat)
      /\ Len(out_metadata) \in Nat /\ Len(out_names) \in Nat /\ Len(out_data) \in Nat
      /\ UNCHANGED <<metadata, entries>> /\ pc' = pc
  <2>1. UNCHANGED <<metadata, entries>> /\ pc' = pc
    BY DEF DumpMetadata, DumpName, DumpData, tables
  <2>2. /\ Len(metadata) \in Nat /\ Len(entries) \in Nat
        /\ position \in Nat /\ string_start \in Int
    BY DEF TypeOK, TablesType, DumpType
  <2>3. /\ out_metadata \in Seq([at : Nat, offset : Int]) /\ Len(out_metadata) \in Nat
        /\ out_names \in Seq([at : Nat, size : Nat]) /\ Len(out_names) \in Nat
        /\ out_data \in Seq(Nat) /\ Len(out_data) \in Nat
    BY DEF TypeOK, DumpType
  <2> QED
    BY <2>1, <2>2, <2>3
<1>2. CASE DumpMetadata
  <2>1. /\ pc = "metadata" /\ out_names' = out_names
        /\ Len(out_metadata') = Len(out_metadata) + 1
    BY <1>1, <1>2 DEF DumpMetadata
  <2>2. WorkAhead' < WorkAhead /\ PartsAhead' = PartsAhead
    BY <1>1, <2>1 DEF WorkAhead, PartsAhead
  <2> QED
    BY <2>2, LowerVariant
<1>3. CASE DumpName
  <2>1. /\ pc = "metadata" /\ out_metadata' = out_metadata
        /\ Len(out_names') = Len(out_names) + 1
    BY <1>1, <1>3 DEF DumpName
  <2>2. WorkAhead' < WorkAhead /\ PartsAhead' = PartsAhead
    BY <1>1, <2>1 DEF WorkAhead, PartsAhead
  <2> QED
    BY <2>2, LowerVariant
<1>4. CASE DumpData
  <2>1. pc = "data" /\ Len(out_data') = Len(out_data) + 1
    BY <1>1, <1>4 DEF DumpData
  <2>2. WorkAhead' < WorkAhead /\ PartsAhead' = PartsAhead
    BY <1>1, <2>1 DEF WorkAhead, PartsAhead
  <2> QED
    BY <2>2, LowerVariant
<1> QED
  BY <1>2, <1>3, <1>4

LEMMA PartsGoOn ==
    ASSUME WritePkg \/ WritePkgUnopened \/ DumpHeader \/ StartData \/ DumpFooter
    PROVE  Lower(Variant', Variant)
<1>1. PartsAhead' < PartsAhead
  BY DEF WritePkg, WritePkgUnopened, DumpHeader, StartData, DumpFooter, PartsAhead
<1> QED
  BY <1>1, LowerVariant

\* wows_write_pkg comes to its end whatever the directory, the sizes and the
\* failures, also where a cut path leads back to its directory: no step but
\* lowers what is ahead of it.
THEOREM WorkAlwaysEnds == Spec => WorkEnds
<1>1. TypeOK /\ BlobFits => Variant \in Measures
  BY VariantType
<1>2. (TypeOK /\ BlobFits => Variant \in Measures)'
  BY <1>1, PTL
<1>3. ASSUME TypeOK, TypeOK', WalkInv, BlobFits, [Next]_vars
      PROVE  [Variant' \in Measures /\ Lower(Variant', Variant)]_vars
  <2>1. SUFFICES ASSUME Next PROVE Variant' \in Measures /\ Lower(Variant', Variant)
    BY <1>3
  <2>2. Variant' \in Measures
    BY <1>2, <1>3, BlobFitsStep
  <2>3. ASSUME NEW p \in Packed,
               \/ SkipEntry(p) \/ EnterDir(p) \/ EnterDirUnopened(p)
               \/ BlobUnopened(p) \/ OpenBlob(p)
        PROVE  Lower(Variant', Variant)
    BY <1>3, <2>3, TakingEnds
  <2>4. CASE CloseDir
    BY <1>3, <2>2, <2>4, CloseEnds
  <2>5. CASE WriteByte \/ BlobFails \/ BlobDone
    BY <1>3, <2>2, <2>5, BlobEnds
  <2>6. CASE DumpMetadata \/ DumpName \/ DumpData
    BY <1>3, <2>2, <2>6, DumpEnds
  <2>7. CASE WritePkg \/ WritePkgUnopened \/ DumpHeader \/ StartData \/ DumpFooter
    BY <2>2, <2>7, PartsGoOn
  <2>8. Lower(Variant', Variant)
    BY <2>1, <2>3, <2>4, <2>5, <2>6, <2>7 DEF Next, Step, Fault, PassOver, EnterDirTooDeep
  <2> QED
    BY <2>2, <2>8
<1>4. Init => BlobFits
  BY DEF Init, BlobFits
<1>5. TypeOK /\ WalkInv /\ [Next]_vars => WalkInv'
  BY WalkStep
<1>6. TypeOK /\ BlobFits /\ [Next]_vars => BlobFits'
  BY BlobFitsStep
<1> QED
  BY <1>3, <1>4, <1>5, <1>6, WalkInit, TypeCorrect, PTL DEF Spec, WorkEnds
=============================================================================
