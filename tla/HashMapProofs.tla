---------------------------- MODULE HashMapProofs ----------------------------
(***************************************************************************)
(* The hash table of lib/hashmap.c keeps its invariants whatever the keys  *)
(* and the hash function: types, room left, and the Robin Hood invariant,  *)
(* by which every item can be reached from its home.  It does so as long   *)
(* as no 16-bit dib wraps (DibCounts), which is proved of every table of   *)
(* fewer than 65535 buckets.                                               *)
(***************************************************************************)
EXTENDS HashMapInv, FiniteSetTheorems, TLAPS

-----------------------------------------------------------------------------
(* Going round the table                                                   *)

\* Distances are positions: 0 to n-1, one bucket each.
LEMMA DistType ==
    ASSUME NEW n \in Nat, NEW h \in 0 .. n-1, NEW s \in 0 .. n-1
    PROVE  Dist(h, s, n) \in 0 .. n-1
BY DEF Dist

\* Two buckets at one distance from a home are the same bucket.
LEMMA DistInjective ==
    ASSUME NEW n \in Nat, NEW h \in 0 .. n-1,
           NEW s \in 0 .. n-1, NEW m \in 0 .. n-1,
           Dist(h, s, n) = Dist(h, m, n)
    PROVE  s = m
BY DEF Dist

\* The next bucket is in the table, is another one, and is one further from
\* every home but the one it is itself.
LEMMA NextSlotDist ==
    ASSUME NEW n \in Nat, n >= 4, NEW s \in 0 .. n-1
    PROVE  /\ NextSlot(s, n) \in 0 .. n-1
           /\ NextSlot(s, n) # s
           /\ \A h \in 0 .. n-1 :
                /\ Dist(h, s, n) < n - 1 => Dist(h, NextSlot(s, n), n) = Dist(h, s, n) + 1
                /\ Dist(h, s, n) = n - 1 => Dist(h, NextSlot(s, n), n) = 0
BY DEF Dist, NextSlot

\* A key's home is in the table, at distance 0 from itself.
LEMMA HomeType ==
    ASSUME NEW k \in Keys, NEW n \in Sizes
    PROVE  /\ n \in Nat /\ n >= 4
           /\ Home(k, n) \in 0 .. n-1
           /\ Dist(Home(k, n), Home(k, n), n) = 0
<1>1. n \in Nat /\ n >= 4
  BY SizesAssumption
<1>2. Hash[k] \in Nat
  BY ConstantsAssumption
<1>3. Home(k, n) \in 0 .. n-1
  BY <1>1, <1>2 DEF Home
<1> QED
  BY <1>1, <1>3 DEF Dist

-----------------------------------------------------------------------------
(* Tables                                                                  *)

TableType(t, n) ==
    /\ t \in [0 .. n-1 -> Bucket]
    /\ \A s \in Occupied(t) : t[s].key \in Keys /\ t[s].val \in Vals

TableOK(t, n, gap) ==
    /\ TableType(t, n)
    /\ DibExact(t, n, gap)
    /\ PathsFull(t, n, gap)

NotFull(t, n) == Cardinality(Occupied(t)) < n

EntryOK(e, s, t, n) ==
    /\ e \in Bucket /\ e.key \in Keys /\ e.val \in Vals
    /\ s \in 0 .. n-1
    /\ OnItsWay(e, s, t, n)

\* An empty table has nothing out of place.
LEMMA EmptyTableOK ==
    ASSUME NEW n \in Nat
    PROVE  /\ TableOK(EmptyTable(n), n, {})
           /\ Occupied(EmptyTable(n)) = {}
<1>1. EmptyTable(n) \in [0 .. n-1 -> Bucket]
  BY DEF EmptyTable, EmptyBucket, Bucket
<1>2. Occupied(EmptyTable(n)) = {}
  BY DEF EmptyTable, EmptyBucket, Occupied
<1> QED
  BY <1>1, <1>2 DEF TableOK, TableType, DibExact, PathsFull, Live

\* The buckets in use are a finite set of at most n.
LEMMA OccupiedFinite ==
    ASSUME NEW n \in Nat, NEW t \in [0 .. n-1 -> Bucket]
    PROVE  /\ IsFiniteSet(Occupied(t))
           /\ Cardinality(Occupied(t)) \in Nat
           /\ Occupied(t) \subseteq 0 .. n-1
<1>1. Occupied(t) \subseteq 0 .. n-1
  BY DEF Occupied
<1>2. IsFiniteSet(0 .. n-1)
  BY FS_Interval
<1>3. IsFiniteSet(Occupied(t))
  BY <1>1, <1>2, FS_Subset
<1> QED
  BY <1>1, <1>3, FS_CardinalityType

\* An item that begins to look at its home has passed nothing yet.
LEMMA StartsAtHome ==
    ASSUME NEW n \in Sizes, NEW t \in [0 .. n-1 -> Bucket],
           NEW k \in Keys, NEW v \in Vals
    PROVE  EntryOK(NewEntry(k, v), Home(k, n), t, n)
<1>1. NewEntry(k, v) \in Bucket /\ NewEntry(k, v).dib = 1
        /\ NewEntry(k, v).key = k /\ NewEntry(k, v).val = v
  BY DEF NewEntry, Bucket
<1>2. n \in Nat /\ Home(k, n) \in 0 .. n-1 /\ Dist(Home(k, n), Home(k, n), n) = 0
  BY HomeType
<1>3. PathFull(t, n, {}, k, Home(k, n))
  <2> SUFFICES ASSUME NEW m \in 0 .. n-1,
                      Dist(Home(k, n), m, n) < Dist(Home(k, n), Home(k, n), n)
               PROVE  FALSE
    BY DEF PathFull
  <2>1. Dist(Home(k, n), m, n) \in 0 .. n-1
    BY <1>2, DistType
  <2> QED
    BY <1>2, <2>1
<1> QED
  BY <1>1, <1>2, <1>3 DEF EntryOK, OnItsWay

\* An item that meets an occupied bucket has not gone all the way round, as
\* long as some bucket is empty.
LEMMA NotAllRound ==
    ASSUME NEW n \in Sizes, NEW t, TableType(t, n),
           NEW e, NEW s, EntryOK(e, s, t, n),
           NotFull(t, n), t[s].dib # 0
    PROVE  Dist(Home(e.key, n), s, n) < n - 1
<1> DEFINE h == Home(e.key, n)
<1>1. n \in Nat /\ n >= 4 /\ h \in 0 .. n-1 /\ s \in 0 .. n-1
  BY HomeType DEF EntryOK
<1> HIDE DEF h
<1>2. SUFFICES ASSUME Dist(h, s, n) = n - 1
               PROVE  FALSE
  BY <1>1, DistType DEF h
<1>3. ASSUME NEW m \in 0 .. n-1
      PROVE  t[m].dib # 0
  <2>1. CASE m = s
    BY <2>1
  <2>2. CASE m # s
    <3>1. Dist(h, m, n) \in 0 .. n-1 /\ Dist(h, m, n) # n - 1
      BY <1>1, <1>2, <2>2, DistType, DistInjective
    <3>2. t[m].dib >= Dist(h, m, n) + 1
      BY <1>1, <1>2, <3>1 DEF EntryOK, OnItsWay, PathFull, h
    <3> QED
      BY <3>1, <3>2
  <2> QED
    BY <2>1, <2>2
<1>4. Occupied(t) = 0 .. n-1
  BY <1>3 DEF TableType, Occupied
<1>5. Cardinality(0 .. n-1) = n
  <2>1. 0 \in Int /\ n-1 \in Int /\ ~ (0 > n-1) /\ (n-1) - 0 + 1 = n
    BY <1>1
  <2> QED
    BY <2>1, FS_Interval, Zenon
<1> QED
  BY <1>1, <1>4, <1>5 DEF NotFull

-----------------------------------------------------------------------------
(* One iteration of the probing loop of hashmap_set and resize             *)

\* Putting the item down in an empty bucket.
LEMMA PlaceLemma ==
    ASSUME NEW n \in Sizes, NEW t, TableOK(t, n, {}),
           NEW e, NEW j, EntryOK(e, j, t, n), t[j].dib = 0
    PROVE  LET t1 == [t EXCEPT ![j] = e] IN
           /\ TableOK(t1, n, {})
           /\ Occupied(t1) = Occupied(t) \cup {j}
           /\ j \notin Occupied(t)
<1> DEFINE t1 == [t EXCEPT ![j] = e]
<1>1. n \in Nat /\ n >= 4
  BY HomeType, EntryOK(e, j, t, n) DEF EntryOK
<1>2. /\ t \in [0 .. n-1 -> Bucket] /\ t1 \in [0 .. n-1 -> Bucket]
      /\ e \in Bucket /\ j \in 0 .. n-1
      /\ e.key \in Keys /\ e.val \in Vals
      /\ t1[j] = e /\ \A s \in 0 .. n-1 : s # j => t1[s] = t[s]
      /\ \A s \in 0 .. n-1 : t[s].dib \in Nat /\ t1[s].dib \in Nat
  BY DEF TableOK, TableType, EntryOK, Bucket
<1>3. e.dib = Dist(Home(e.key, n), j, n) + 1
  BY DEF EntryOK, OnItsWay
<1>4. e.dib # 0
  <2>1. Home(e.key, n) \in 0 .. n-1
    BY <1>2, HomeType
  <2>2. Dist(Home(e.key, n), j, n) \in 0 .. n-1
    BY <1>1, <1>2, <2>1, DistType
  <2> QED
    BY <1>1, <1>3, <2>2
<1>5. Occupied(t1) = Occupied(t) \cup {j} /\ j \notin Occupied(t)
  BY <1>2, <1>4 DEF Occupied
<1>6. TableType(t1, n)
  BY <1>2, <1>5 DEF TableType, TableOK, Occupied
<1>7. DibExact(t1, n, {})
  BY <1>2, <1>3, <1>5 DEF TableOK, DibExact, Live, Occupied
<1>8. PathsFull(t1, n, {})
  <2>1. SUFFICES ASSUME NEW s \in Occupied(t1), NEW m \in 0 .. n-1,
                        Dist(Home(t1[s].key, n), m, n) < Dist(Home(t1[s].key, n), s, n)
                 PROVE  t1[m].dib >= Dist(Home(t1[s].key, n), m, n) + 1
    BY DEF PathsFull, PathFull, Live
  <2>2. t[m].dib >= Dist(Home(t1[s].key, n), m, n) + 1
    <3>1. CASE s = j
      BY <1>2, <2>1, <3>1 DEF EntryOK, OnItsWay, PathFull
    <3>2. CASE s # j
      BY <1>2, <1>5, <2>1, <3>2 DEF TableOK, PathsFull, PathFull, Live, Occupied
    <3> QED
      BY <3>1, <3>2
  <2>3. m # j
    <3>1. s \in 0 .. n-1 /\ t1[s].key \in Keys
      BY <1>2, <1>6 DEF TableType, Occupied
    <3>2. Dist(Home(t1[s].key, n), m, n) \in 0 .. n-1
      BY <1>1, <3>1, HomeType, DistType
    <3> QED
      BY <2>2, <3>2
  <2> QED
    BY <1>2, <2>2, <2>3
<1> QED
  BY <1>5, <1>6, <1>7, <1>8 DEF TableOK

SwapAt(t, e, j) == [t EXCEPT ![j] = Settled(t[j], e)]

\* Moving on, swapping with the bucket if that is nearer its home.
LEMMA MoveLemma ==
    ASSUME NEW n \in Sizes, NEW t, TableOK(t, n, {}),
           NEW e, NEW j, EntryOK(e, j, t, n), t[j].dib # 0,
           NotFull(t, n), Carried(t[j], e).dib + 1 < DibMod,
           NEW t1, t1 = SwapAt(t, e, j)
    PROVE  /\ TableOK(t1, n, {})
           /\ Occupied(t1) = Occupied(t)
           /\ EntryOK(Bump(Carried(t[j], e)), NextSlot(j, n), t1, n)
<1> DEFINE b  == t[j]
           c  == Carried(b, e)
           x  == Settled(b, e)
           H(z) == Home(z.key, n)
           j1 == NextSlot(j, n)
<1>1. n \in Nat /\ n >= 4 /\ c.dib + 1 < DibMod
  BY SizesAssumption
<1>2. /\ t \in [0 .. n-1 -> Bucket]
      /\ e \in Bucket /\ j \in 0 .. n-1 /\ b \in Bucket
      /\ e.key \in Keys /\ e.val \in Vals
      /\ b.key \in Keys /\ b.val \in Vals
      /\ b.dib \in Nat /\ e.dib \in Nat
      /\ \A s \in 0 .. n-1 : t[s].dib \in Nat
  BY DEF TableOK, TableType, EntryOK, Bucket, Occupied
<1>3. H(e) \in 0 .. n-1 /\ H(b) \in 0 .. n-1
  BY <1>2, HomeType
<1>20. Dist(H(e), j, n) \in 0 .. n-1 /\ Dist(H(b), j, n) \in 0 .. n-1
  BY <1>1, <1>2, <1>3, DistType
<1>4. e.dib = Dist(H(e), j, n) + 1 /\ b.dib = Dist(H(b), j, n) + 1
  BY <1>2 DEF EntryOK, OnItsWay, TableOK, DibExact, Live, Occupied
<1>5. (b.dib < e.dib /\ x = e /\ c = b) \/ (~ (b.dib < e.dib) /\ x = b /\ c = e)
  BY DEF Settled, Carried
<1> HIDE DEF x, c
<1>6. /\ x \in Bucket /\ x.key \in Keys /\ x.val \in Vals /\ x.dib \in Nat
      /\ c \in Bucket /\ c.key \in Keys /\ c.val \in Vals /\ c.dib \in Nat
      /\ H(x) \in 0 .. n-1 /\ H(c) \in 0 .. n-1
      /\ x.dib = Dist(H(x), j, n) + 1
      /\ c.dib = Dist(H(c), j, n) + 1
      /\ x.dib >= c.dib /\ x.dib >= b.dib /\ x.dib # 0
  <2>1. CASE b.dib < e.dib /\ x = e /\ c = b
    BY <1>1, <1>2, <1>3, <1>4, <1>20, <2>1
  <2>2. CASE ~ (b.dib < e.dib) /\ x = b /\ c = e
    <3>1. b.dib >= e.dib /\ b.dib >= b.dib /\ b.dib # 0
      BY <1>2, <2>2
    <3>2. H(x) = H(b) /\ H(c) = H(e)
      BY <2>2
    <3> QED
      BY <1>2, <1>3, <1>4, <2>2, <3>1, <3>2
  <2> QED
    BY <1>5, <2>1, <2>2
<1>7. Dist(H(c), j, n) < n - 1
  <2>1. Dist(H(e), j, n) < n - 1
    BY NotAllRound DEF TableOK
  <2> QED
    BY <1>1, <1>2, <1>4, <1>5, <1>20, <2>1
<1>8. /\ t1 \in [0 .. n-1 -> Bucket]
      /\ t1[j] = x /\ \A s \in 0 .. n-1 : s # j => t1[s] = t[s]
  BY <1>2, <1>6 DEF x, SwapAt
<1> HIDE DEF j1
<1>9. Occupied(t1) = Occupied(t)
  BY <1>2, <1>6, <1>8 DEF Occupied
<1>10. TableType(t1, n)
  BY <1>6, <1>8, <1>9 DEF TableType, TableOK, Occupied
<1>11. DibExact(t1, n, {})
  BY <1>6, <1>8, <1>9 DEF TableOK, DibExact, Live, Occupied
<1>12. \A m \in 0 .. n-1 : t1[m].dib \in Nat /\ t1[m].dib >= t[m].dib
  BY <1>2, <1>6, <1>8
<1>13. PathFull(t, n, {}, x.key, j) /\ PathFull(t, n, {}, c.key, j)
  <2>1. PathFull(t, n, {}, e.key, j)
    BY DEF EntryOK, OnItsWay
  <2>2. PathFull(t, n, {}, b.key, j)
    BY <1>2 DEF TableOK, PathsFull, Live, Occupied
  <2> QED
    BY <1>5, <2>1, <2>2
<1>14. PathsFull(t1, n, {})
  <2>1. SUFFICES ASSUME NEW s \in Occupied(t1), NEW m \in 0 .. n-1,
                        Dist(Home(t1[s].key, n), m, n) < Dist(Home(t1[s].key, n), s, n)
                 PROVE  t1[m].dib >= Dist(Home(t1[s].key, n), m, n) + 1
    BY DEF PathsFull, PathFull, Live
  <2>2. t[m].dib >= Dist(Home(t1[s].key, n), m, n) + 1
    <3>1. CASE s = j
      BY <1>8, <1>13, <2>1, <3>1 DEF PathFull
    <3>2. CASE s # j
      BY <1>8, <1>9, <2>1, <3>2 DEF TableOK, PathsFull, PathFull, Live, Occupied
    <3> QED
      BY <3>1, <3>2
  <2>3. s \in 0 .. n-1 /\ t1[s].key \in Keys
    BY <1>8, <1>10 DEF TableType, Occupied
  <2>4. Dist(Home(t1[s].key, n), m, n) \in 0 .. n-1
    BY <1>1, <2>3, HomeType, DistType
  <2> QED
    <3>1. t1[m].dib \in Nat /\ t[m].dib \in Nat /\ t1[m].dib >= t[m].dib
      BY <1>2, <1>12
    <3> QED
      BY <1>1, <2>2, <2>4, <3>1
<1>15. EntryOK(Bump(c), j1, t1, n)
  <2>1. j1 \in 0 .. n-1 /\ Dist(H(c), j1, n) = Dist(H(c), j, n) + 1
    BY <1>1, <1>2, <1>6, <1>7, NextSlotDist DEF j1
  <2>2. /\ Bump(c) \in Bucket /\ Bump(c).dib = c.dib + 1
        /\ Bump(c).key = c.key /\ Bump(c).val = c.val
    <3>1. c.dib + 1 # DibMod
      BY <1>1, <1>6, ConstantsAssumption
    <3> QED
      BY <1>6, <3>1 DEF Bump, Bucket
  <2>3. PathFull(t1, n, {}, c.key, j1)
    <3>1. SUFFICES ASSUME NEW m \in 0 .. n-1,
                          Dist(H(c), m, n) < Dist(H(c), j1, n)
                   PROVE  t1[m].dib >= Dist(H(c), m, n) + 1
      BY DEF PathFull
    <3>2. Dist(H(c), m, n) \in 0 .. n-1 /\ Dist(H(c), j, n) \in 0 .. n-1
      BY <1>1, <1>2, <1>6, DistType
    <3>3. CASE Dist(H(c), m, n) < Dist(H(c), j, n)
      <4>1. t[m].dib >= Dist(H(c), m, n) + 1
        BY <1>13, <3>3 DEF PathFull
      <4> QED
        <5>1. t1[m].dib \in Nat /\ t[m].dib \in Nat /\ t1[m].dib >= t[m].dib
          BY <1>2, <1>12
        <5> QED
          BY <1>1, <3>2, <4>1, <5>1
    <3>4. CASE Dist(H(c), m, n) = Dist(H(c), j, n)
      <4>1. m = j
        BY <1>1, <1>2, <1>6, <3>4, DistInjective
      <4> QED
        BY <1>6, <1>8, <3>4, <4>1
    <3> QED
      BY <2>1, <3>1, <3>2, <3>3, <3>4
  <2> QED
    BY <1>6, <2>1, <2>2, <2>3 DEF EntryOK, OnItsWay
<1> QED
  BY <1>9, <1>10, <1>11, <1>14, <1>15 DEF TableOK, c, j1

-----------------------------------------------------------------------------
(* One iteration of the backward shift of hashmap_delete                   *)

\* The item after the gap moves into it, and its bucket becomes the gap.
LEMMA ShiftLemma ==
    ASSUME NEW n \in Sizes, NEW t, NEW j \in 0 .. n-1,
           TableOK(t, n, {j}), t[NextSlot(j, n)].dib > 1
    PROVE  LET j1 == NextSlot(j, n)
               t1 == [t EXCEPT ![j] = [t[j1] EXCEPT !.dib = @ - 1]] IN
           /\ TableOK(t1, n, {j1})
           /\ j1 \in Occupied(t) \ {j}
           /\ Live(t1, {j1}) = (Live(t, {j}) \cup {j}) \ {j1}
<1> DEFINE j1 == NextSlot(j, n)
           x  == [t[j1] EXCEPT !.dib = @ - 1]
           t1 == [t EXCEPT ![j] = x]
           h  == Home(x.key, n)
<1>1. n \in Nat /\ n >= 4
  BY SizesAssumption
<1>2. /\ j1 \in 0 .. n-1 /\ j1 # j
      /\ \A g \in 0 .. n-1 :
           /\ Dist(g, j, n) < n - 1 => Dist(g, j1, n) = Dist(g, j, n) + 1
           /\ Dist(g, j, n) = n - 1 => Dist(g, j1, n) = 0
  BY <1>1, NextSlotDist
<1> HIDE DEF j1
<1>3. /\ t \in [0 .. n-1 -> Bucket] /\ t[j1] \in Bucket /\ t[j1].dib > 1
      /\ \A s \in 0 .. n-1 : t[s].dib \in Nat
      /\ t[j1].key \in Keys /\ t[j1].val \in Vals /\ j1 \in Occupied(t) \ {j}
  BY <1>2 DEF TableOK, TableType, Bucket, Occupied, j1
<1>4. /\ x \in Bucket /\ x.dib \in Nat /\ x.dib = t[j1].dib - 1 /\ x.dib # 0
      /\ x.key = t[j1].key /\ x.val = t[j1].val
  BY <1>3 DEF Bucket
<1> HIDE DEF x
<1>5. /\ t1 \in [0 .. n-1 -> Bucket]
      /\ t1[j] = x /\ \A s \in 0 .. n-1 : s # j => t1[s] = t[s]
  BY <1>3, <1>4
<1> HIDE DEF t1
<1>6. Live(t1, {j1}) = (Live(t, {j}) \cup {j}) \ {j1}
  BY <1>2, <1>3, <1>4, <1>5 DEF Live, Occupied
<1>7. TableType(t1, n)
  BY <1>3, <1>4, <1>5 DEF TableOK, TableType, Occupied
<1>8. h \in 0 .. n-1
  BY <1>3, <1>4, HomeType
<1>9. t[j1].dib = Dist(h, j1, n) + 1
  BY <1>3, <1>4 DEF TableOK, DibExact, Live
<1>10. /\ Dist(h, j, n) \in 0 .. n-1 /\ Dist(h, j1, n) \in 0 .. n-1
       /\ Dist(h, j1, n) = Dist(h, j, n) + 1
       /\ x.dib = Dist(h, j, n) + 1
  <2>1. Dist(h, j, n) \in 0 .. n-1 /\ Dist(h, j1, n) \in 0 .. n-1
    BY <1>1, <1>2, <1>8, DistType
  <2>2. Dist(h, j1, n) # 0
    BY <1>1, <1>3, <1>9, <2>1
  <2>3. Dist(h, j1, n) = Dist(h, j, n) + 1
    BY <1>1, <1>2, <1>8, <2>1, <2>2
  <2> QED
    BY <1>1, <1>3, <1>4, <1>9, <2>1, <2>3
<1>11. DibExact(t1, n, {j1})
  BY <1>3, <1>4, <1>5, <1>6, <1>10 DEF TableOK, DibExact, Live, Occupied
<1>12. PathsFull(t1, n, {j1})
  <2>1. SUFFICES ASSUME NEW s \in Live(t1, {j1}), NEW m \in (0 .. n-1) \ {j1},
                        Dist(Home(t1[s].key, n), m, n) < Dist(Home(t1[s].key, n), s, n)
                 PROVE  t1[m].dib >= Dist(Home(t1[s].key, n), m, n) + 1
    BY DEF PathsFull, PathFull
  <2>2. s \in 0 .. n-1 /\ s # j1 /\ t1[s].key \in Keys
    BY <1>5, <1>7 DEF TableType, Occupied, Live
  <2>3. CASE s = j
    <3>1. m # j /\ t1[m] = t[m]
      BY <1>1, <1>4, <1>5, <1>10, <2>1, <2>3
    <3>2. Dist(h, m, n) \in 0 .. n-1 /\ Dist(h, m, n) < Dist(h, j, n)
      BY <1>1, <1>4, <1>5, <1>8, <2>1, <2>3, DistType
    <3>3. Dist(h, m, n) < Dist(h, j1, n)
      BY <1>1, <1>10, <3>2
    <3>4. t[m].dib >= Dist(h, m, n) + 1
      BY <1>3, <1>4, <3>1, <3>3 DEF TableOK, PathsFull, PathFull, Live
    <3> QED
      BY <1>5, <2>3, <3>1, <3>4
  <2>4. CASE s # j
    <3> DEFINE g == Home(t[s].key, n)
    <3>1. t1[s] = t[s] /\ s \in Live(t, {j})
      BY <1>3, <1>5, <2>2, <2>4 DEF Live, Occupied
    <3>2. g \in 0 .. n-1
      BY <2>2, <3>1, HomeType
    <3>3. /\ Dist(g, m, n) \in 0 .. n-1 /\ Dist(g, s, n) \in 0 .. n-1
          /\ Dist(g, j1, n) \in 0 .. n-1 /\ Dist(g, m, n) < Dist(g, s, n)
      BY <1>1, <1>2, <2>1, <2>2, <3>1, <3>2, DistType
    <3> HIDE DEF g
    <3>4. CASE m # j
      BY <1>5, <3>1, <3>3, <3>4 DEF TableOK, PathsFull, PathFull, g
    <3>5. CASE m = j
      <4>1. Dist(g, j1, n) = Dist(g, j, n) + 1
        BY <1>1, <1>2, <3>2, <3>3, <3>5
      <4>2. Dist(g, j1, n) # Dist(g, s, n)
        BY <1>1, <1>2, <2>2, <3>2, DistInjective
      <4>3. Dist(g, j1, n) < Dist(g, s, n)
        BY <1>1, <3>3, <3>5, <4>1, <4>2
      <4>4. t[j1].dib >= Dist(g, j1, n) + 1
        BY <1>2, <3>1, <4>3 DEF TableOK, PathsFull, PathFull, g
      <4>5. t1[m].dib = t[j1].dib - 1 /\ t[j1].dib \in Nat
        BY <1>2, <1>3, <1>4, <1>5, <3>5
      <4>6. t1[m].dib >= Dist(g, m, n) + 1
        BY <1>1, <3>3, <3>5, <4>1, <4>4, <4>5
      <4> QED
        BY <3>1, <4>6 DEF g
    <3> QED
      BY <3>4, <3>5
  <2> QED
    BY <2>3, <2>4
<1> QED
  BY <1>3, <1>6, <1>7, <1>11, <1>12 DEF TableOK, t1, x, j1

\* When the bucket after the gap is empty or at home, no path crosses the gap.
LEMMA CloseLemma ==
    ASSUME NEW n \in Sizes, NEW t, NEW j \in 0 .. n-1,
           TableOK(t, n, {j}), t[NextSlot(j, n)].dib <= 1
    PROVE  LET t1 == [t EXCEPT ![j] = EmptyBucket] IN
           /\ TableOK(t1, n, {})
           /\ Occupied(t1) = Live(t, {j})
<1> DEFINE j1 == NextSlot(j, n)
           t1 == [t EXCEPT ![j] = EmptyBucket]
<1>1. n \in Nat /\ n >= 4
  BY SizesAssumption
<1>2. /\ j1 \in 0 .. n-1 /\ j1 # j
      /\ \A g \in 0 .. n-1 : Dist(g, j, n) < n - 1 => Dist(g, j1, n) = Dist(g, j, n) + 1
  BY <1>1, NextSlotDist
<1>3. t \in [0 .. n-1 -> Bucket] /\ \A s \in 0 .. n-1 : t[s].dib \in Nat
  BY DEF TableOK, TableType, Bucket
<1>4. /\ t1 \in [0 .. n-1 -> Bucket]
      /\ t1[j].dib = 0 /\ \A s \in 0 .. n-1 : s # j => t1[s] = t[s]
  BY <1>3 DEF EmptyBucket, Bucket
<1>5. t[j1].dib <= 1
  OBVIOUS
<1> HIDE DEF t1, j1
<1>6. Occupied(t1) = Live(t, {j})
  BY <1>3, <1>4 DEF Live, Occupied
<1>7. TableType(t1, n)
  BY <1>4, <1>6 DEF TableOK, TableType, Occupied, Live
<1>8. DibExact(t1, n, {})
  BY <1>4, <1>6 DEF TableOK, DibExact, Live, Occupied
<1>9. PathsFull(t1, n, {})
  <2>1. SUFFICES ASSUME NEW s \in Occupied(t1), NEW m \in 0 .. n-1,
                        Dist(Home(t1[s].key, n), m, n) < Dist(Home(t1[s].key, n), s, n)
                 PROVE  t1[m].dib >= Dist(Home(t1[s].key, n), m, n) + 1
    BY DEF PathsFull, PathFull, Live
  <2> DEFINE g == Home(t[s].key, n)
  <2>2. s \in 0 .. n-1 /\ s # j /\ t1[s] = t[s] /\ t[s].key \in Keys /\ s \in Live(t, {j})
    BY <1>4, <1>6, <1>7 DEF TableType, Occupied, Live
  <2>3. g \in 0 .. n-1
    BY <2>2, HomeType
  <2>4. /\ Dist(g, m, n) \in 0 .. n-1 /\ Dist(g, s, n) \in 0 .. n-1
        /\ Dist(g, j1, n) \in 0 .. n-1 /\ Dist(g, m, n) < Dist(g, s, n)
    BY <1>1, <1>2, <2>1, <2>2, <2>3, DistType
  <2> HIDE DEF g
  <2>5. CASE m # j
    <3>1. t[m].dib >= Dist(g, m, n) + 1
      BY <2>2, <2>4, <2>5 DEF TableOK, PathsFull, PathFull, g
    <3> QED
      BY <1>4, <2>2, <2>5, <3>1 DEF g
  <2>6. CASE m = j
    <3>1. Dist(g, j1, n) = Dist(g, j, n) + 1
      BY <1>1, <1>2, <2>3, <2>4, <2>6
    <3>2. t[j1].dib >= Dist(g, j1, n) + 1
      <4>1. CASE s = j1
        BY <2>2, <4>1, <1>1, <2>4 DEF TableOK, DibExact, g
      <4>2. CASE s # j1
        <5>1. Dist(g, j1, n) # Dist(g, s, n)
          BY <1>1, <1>2, <2>2, <2>3, <4>2, DistInjective
        <5>2. Dist(g, j1, n) < Dist(g, s, n)
          BY <1>1, <2>4, <2>6, <3>1, <5>1
        <5> QED
          BY <1>2, <2>2, <5>2 DEF TableOK, PathsFull, PathFull, g
      <4> QED
        BY <4>1, <4>2
    <3> QED
      BY <1>1, <1>2, <1>3, <1>5, <2>4, <2>6, <3>1, <3>2
  <2> QED
    BY <2>5, <2>6
<1> QED
  BY <1>6, <1>7, <1>8, <1>9 DEF TableOK, t1

-----------------------------------------------------------------------------
(* The inductive invariant                                                 *)

\* RoomLeft as it is kept: growat bounds count in the table in use, and a new
\* table, larger or smaller, is below its own.
GrowRoom ==
    /\ count <= GrowAt(nbuckets)
    /\ pc = "insert" => count < GrowAt(nbuckets)
    /\ pc \in {"resize", "move"} => count < GrowAt(nfresh)

IInv == TypeOK /\ GrowRoom /\ CountExact /\ RobinHood

\* The parts of the invariant in the form the lemmas on tables take.
LEMMA IInvTables ==
    ASSUME IInv
    PROVE  /\ nbuckets \in Sizes /\ nbuckets \in Nat /\ nbuckets >= 4
           /\ TableOK(buckets, nbuckets, Gap)
           /\ pc \in {"resize", "move"} =>
                nfresh \in Sizes /\ nfresh \in Nat /\ nfresh >= 4 /\ TableOK(fresh, nfresh, {})
           /\ pc = "insert" => EntryOK(entry, i, buckets, nbuckets)
           /\ pc = "move" => EntryOK(entry, i, fresh, nfresh)
<1>1. TableType(buckets, nbuckets) /\ TableType(fresh, nfresh)
  BY DEF IInv, TypeOK, TableType
<1>2. nbuckets \in Sizes /\ (pc \in {"resize", "move"} => nfresh \in Sizes)
  BY DEF IInv, TypeOK
<1> QED
  BY <1>1, <1>2, SizesAssumption DEF IInv, TypeOK, RobinHood, TableOK, EntryOK

\* A table with no more than growat items has an empty bucket.
LEMMA GrowAtRoom ==
    ASSUME NEW n \in Sizes
    PROVE  /\ GrowAt(n) \in Nat /\ GrowAt(n) < n
           /\ \A x \in Nat : x < GrowAt(n) => x + 1 < n
           /\ \A m \in Sizes : m > n => GrowAt(n) < GrowAt(m)
<1>1. n \in Nat /\ n >= 4
  BY SizesAssumption
<1>2. ASSUME NEW m \in Sizes, m > n
      PROVE  m \in Nat /\ 2 * n <= m
  BY <1>1, <1>2, SizesAssumption
<1> QED
  BY <1>1, <1>2 DEF GrowAt

\* A table shrunk on hashmap_delete's condition is below its growat.
LEMMA ShrinkAtRoom ==
    ASSUME NEW n \in Sizes, NEW c \in Nat, c <= ShrinkAt(n),
           n \div 2 \in Sizes, n % 2 = 0
    PROVE  c < GrowAt(n \div 2)
<1>1. n \in Nat /\ n \div 2 \in Nat /\ n \div 2 >= 4 /\ 2 * (n \div 2) = n
  BY SizesAssumption
<1>2. ShrinkAt(n) \in Nat /\ 4 * ShrinkAt(n) <= n
  <2> DEFINE q == n \div ShrinkDiv
  <2>1. ShrinkDiv \in Nat /\ ShrinkDiv >= 4
    BY ConstantsAssumption
  <2>2. q \in Nat /\ ShrinkDiv * q <= n
    BY <1>1, <2>1
  <2> HIDE DEF q
  <2>3. 4 * q <= ShrinkDiv * q
    BY <2>1, <2>2
  <2>4. ShrinkDiv * q \in Nat
    BY <2>1, <2>2
  <2>5. 4 * q <= n
    BY <1>1, <2>2, <2>3, <2>4
  <2> QED
    BY <2>2, <2>5 DEF ShrinkAt, q
<1> DEFINE w == n \div 2
<1>3. w \in Nat /\ w >= 4 /\ 2 * w = n
  BY <1>1
<1> HIDE DEF w
<1>4. c < (3 * w) \div 4
  BY <1>2, <1>3
<1> QED
  BY <1>4 DEF GrowAt, w

\* A call that returns leaves no loop running.
LEMMA ReturnOK ==
    ASSUME NEW v \in Vals \cup {None}, Return(v)
    PROVE  /\ pc' = "idle" /\ call' = NoCall /\ ret' \in Vals \cup {None}
           /\ entry' \in Bucket /\ spare' \in Vals \cup {None}
           /\ nfresh' = 0 /\ fresh' \in [0 .. 0-1 -> Bucket] /\ Occupied(fresh') = {}
           /\ src' = 0
           /\ Gap' = {}
<1>1. TableOK(EmptyTable(0), 0, {}) /\ Occupied(EmptyTable(0)) = {}
  BY EmptyTableOK
<1> QED
  BY <1>1 DEF Return, EmptyBucket, Bucket, Gap, TableOK, TableType

LEMMA InitIInv == Init => IInv
<1> SUFFICES ASSUME Init PROVE IInv
  OBVIOUS
<1>1. cap \in Sizes /\ cap \in Nat /\ cap >= 4
  BY SizesAssumption DEF Init
<1>2. TableOK(buckets, nbuckets, {}) /\ Occupied(buckets) = {}
  BY <1>1, EmptyTableOK DEF Init
<1>3. TableOK(fresh, nfresh, {}) /\ Occupied(fresh) = {}
  BY EmptyTableOK DEF Init
<1>4. Gap = {}
  BY DEF Init, Gap
<1>5. TypeOK
  <2>1. nbuckets = cap /\ nfresh = 0 /\ src = 0 /\ src \in 0 .. nbuckets /\ cap <= nbuckets
    BY <1>1 DEF Init
  <2>2. entry \in Bucket
    BY DEF Init, EmptyBucket, Bucket
  <2>3. /\ buckets \in [0 .. nbuckets-1 -> Bucket]
        /\ fresh \in [0 .. nfresh-1 -> Bucket]
    BY <1>2, <1>3 DEF TableOK, TableType
  <2> QED
    BY <1>1, <1>2, <1>3, <2>1, <2>2, <2>3 DEF Init, TypeOK
<1>6. GrowRoom
  BY <1>1, GrowAtRoom DEF Init, GrowRoom
<1>7. CountExact
  BY <1>2, <1>4, FS_EmptySet DEF Init, CountExact, Live
<1>8. RobinHood
  BY <1>2, <1>4 DEF Init, RobinHood, TableOK
<1> QED
  BY <1>5, <1>6, <1>7, <1>8 DEF IInv

\* What a step that leaves the table in use alone, and is not in the backward
\* shift, keeps of the invariant.
LEMMA InvokeIInv ==
    ASSUME IInv, NEW c \in Calls, Invoke(c)
    PROVE  IInv'
<1>1. TypeOK'
  BY DEF IInv, TypeOK, Invoke, Calls, KM!Calls, NoCall, KM!NoCall, mapVars, resizeVars
<1>2. GrowRoom'
  BY DEF IInv, GrowRoom, Invoke
<1>3. CountExact'
  BY DEF IInv, CountExact, Invoke, Gap, Live, Occupied
<1>4. RobinHood'
  BY DEF IInv, RobinHood, Invoke, Gap, DibExact, PathsFull, PathFull, Live, Occupied
<1> QED
  BY <1>1, <1>2, <1>3, <1>4 DEF IInv

LEMMA ResizeIInv ==
    ASSUME IInv, DibCounts, SkipEmpty \/ TakeBucket \/ MoveBucket \/ MoveOn
    PROVE  IInv'
<1> USE DEF mapVars, resizeVars
<1>1. /\ nbuckets \in Nat /\ nfresh \in Sizes /\ nfresh \in Nat /\ nfresh >= 4
      /\ TableOK(fresh, nfresh, {}) /\ Gap = {} /\ Gap' = {}
      /\ buckets \in [0 .. nbuckets-1 -> Bucket] /\ src \in Nat
      /\ fresh \in [0 .. nfresh-1 -> Bucket]
  BY IInvTables DEF SkipEmpty, TakeBucket, MoveBucket, MoveOn, Gap, IInv, TypeOK
<1>2. /\ pc \in {"resize", "move"} /\ pc' \in {"resize", "move"}
      /\ UNCHANGED <<buckets, nbuckets, cap, count, oom, call, spare, nfresh, ret>>
  BY DEF SkipEmpty, TakeBucket, MoveBucket, MoveOn
<1>3. GrowRoom'
  BY <1>2 DEF IInv, GrowRoom
<1>4. DibExact(buckets, nbuckets, Gap)' /\ PathsFull(buckets, nbuckets, Gap)'
  BY <1>1, <1>2 DEF IInv, RobinHood, DibExact, PathsFull, PathFull, Live, Occupied
<1>5. Cardinality(Occupied(fresh)) + Cardinality({s \in Occupied(buckets) : s >= src}) = count
  BY <1>2 DEF IInv, CountExact
<1>6. Cardinality(Live(buckets, Gap)') = count
  BY <1>1, <1>2 DEF IInv, CountExact, Live, Occupied
<1>7. /\ IsFiniteSet(Occupied(fresh)) /\ Cardinality(Occupied(fresh)) \in Nat
      /\ Cardinality(Occupied(fresh)) < nfresh
  <2>1. IsFiniteSet(Occupied(fresh)) /\ Cardinality(Occupied(fresh)) \in Nat
    BY <1>1, OccupiedFinite
  <2>2. IsFiniteSet({s \in Occupied(buckets) : s >= src})
    BY <1>1, OccupiedFinite, FS_Subset
  <2>3. Cardinality({s \in Occupied(buckets) : s >= src}) \in Nat
    BY <2>2, FS_CardinalityType
  <2>4. count \in Nat /\ count < GrowAt(nfresh) /\ GrowAt(nfresh) \in Nat /\ GrowAt(nfresh) < nfresh
    BY <1>1, <1>2, GrowAtRoom DEF IInv, TypeOK, GrowRoom
  <2> QED
    BY <1>1, <1>5, <2>1, <2>3, <2>4
<1>8. CASE SkipEmpty
  <2>1. TypeOK'
    <3>1. src' \in 0 .. nbuckets'
      BY <1>1, <1>8 DEF SkipEmpty
    <3> QED
      BY <1>8, <3>1 DEF IInv, TypeOK, SkipEmpty, Occupied
  <2>2. {s \in Occupied(buckets) : s >= src}' = {s \in Occupied(buckets) : s >= src}
    BY <1>1, <1>8 DEF SkipEmpty, Occupied
  <2>3. CountExact'
    BY <1>2, <1>5, <1>6, <1>8, <2>2 DEF SkipEmpty, CountExact, Occupied
  <2>4. RobinHood'
    BY <1>4, <1>8 DEF IInv, RobinHood, SkipEmpty, DibExact, PathsFull, PathFull, Live, Occupied
  <2> QED
    BY <1>3, <2>1, <2>3, <2>4 DEF IInv
<1>9. CASE TakeBucket
  <2> DEFINE b == buckets[src]
  <2>1. b \in Bucket /\ b.key \in Keys /\ b.val \in Vals
    BY <1>1, <1>9 DEF TakeBucket, IInv, TypeOK, Occupied
  <2>2. [b EXCEPT !.dib = 1] = NewEntry(b.key, b.val)
    BY <2>1 DEF NewEntry, Bucket
  <2>3. EntryOK(entry, i, fresh, nfresh)'
    <3>1. EntryOK(NewEntry(b.key, b.val), Home(b.key, nfresh), fresh, nfresh)
      BY <1>1, <2>1, StartsAtHome
    <3> QED
      BY <1>9, <2>2, <3>1 DEF TakeBucket
  <2>4. TypeOK'
    BY <1>9, <2>3 DEF IInv, TypeOK, TakeBucket, Occupied, EntryOK
  <2>5. CountExact'
    BY <1>2, <1>5, <1>6, <1>9 DEF TakeBucket, CountExact, Occupied
  <2>6. RobinHood'
    BY <1>1, <1>4, <1>9, <2>3 DEF TakeBucket, RobinHood, TableOK, EntryOK
  <2> QED
    BY <1>3, <2>4, <2>5, <2>6 DEF IInv
<1>10. CASE MoveBucket
  <2>1. EntryOK(entry, i, fresh, nfresh)
    BY <1>10, IInvTables DEF MoveBucket
  <2>2. /\ TableOK(fresh, nfresh, {})'
        /\ Occupied(fresh)' = Occupied(fresh) \cup {i}
        /\ i \notin Occupied(fresh)
    <3>1. fresh[i].dib = 0 /\ fresh' = [fresh EXCEPT ![i] = entry] /\ nfresh' = nfresh
      BY <1>10 DEF MoveBucket
    <3> HIDE DEF TableOK, EntryOK, Occupied
    <3>2. /\ TableOK([fresh EXCEPT ![i] = entry], nfresh, {})
          /\ Occupied([fresh EXCEPT ![i] = entry]) = Occupied(fresh) \cup {i}
          /\ i \notin Occupied(fresh)
      BY <1>1, <2>1, <3>1, PlaceLemma
    <3> QED
      BY <3>1, <3>2
  <2>3. src < nbuckets /\ src \in Occupied(buckets)
    BY <1>1, <1>10 DEF MoveBucket, IInv, TypeOK, Occupied
  <2>4. TypeOK'
    <3>1. src' \in 0 .. nbuckets'
      BY <1>1, <1>10, <2>3 DEF MoveBucket
    <3> QED
      BY <1>10, <2>2, <3>1 DEF IInv, TypeOK, MoveBucket, TableOK, TableType, Occupied
  <2>5. CountExact'
    <3> DEFINE Rest == {s \in Occupied(buckets) : s >= src}
    <3>1. {s \in Occupied(buckets) : s >= src}' = Rest \ {src} /\ src \in Rest
      BY <1>1, <1>10, <2>3 DEF MoveBucket, Occupied
    <3>2. IsFiniteSet(Rest) /\ Cardinality(Rest) \in Nat
      BY <1>1, OccupiedFinite, FS_Subset, FS_CardinalityType
    <3> HIDE DEF Rest
    <3>3. Cardinality(Rest \ {src}) = Cardinality(Rest) - 1
      BY <3>1, <3>2, FS_RemoveElement
    <3>4. Cardinality(Occupied(fresh) \cup {i}) = Cardinality(Occupied(fresh)) + 1
      BY <1>7, <2>2, FS_AddElement
    <3>5. Cardinality(Occupied(fresh) \cup {i}) + Cardinality(Rest \ {src}) = count
      BY <1>5, <1>7, <3>2, <3>3, <3>4 DEF Rest
    <3> QED
      BY <1>2, <1>6, <2>2, <3>1, <3>5 DEF CountExact
  <2>6. RobinHood'
    BY <1>4, <1>10, <2>2 DEF MoveBucket, RobinHood, TableOK
  <2> QED
    BY <1>3, <2>4, <2>5, <2>6 DEF IInv
<1>11. CASE MoveOn
  <2>1. EntryOK(entry, i, fresh, nfresh)
    BY <1>11, IInvTables DEF MoveOn
  <2>2. /\ TableOK(fresh, nfresh, {})'
        /\ Occupied(fresh)' = Occupied(fresh)
        /\ EntryOK(entry, i, fresh, nfresh)'
    <3>1. /\ fresh[i].dib # 0 /\ fresh' = SwapAt(fresh, entry, i)
          /\ nfresh' = nfresh /\ entry' = Bump(Carried(fresh[i], entry))
          /\ i' = NextSlot(i, nfresh)
      BY <1>11 DEF MoveOn, SwapAt
    <3>2. /\ NotFull(fresh, nfresh) /\ TableOK(fresh, nfresh, {}) /\ nfresh \in Sizes
          /\ Carried(fresh[i], entry).dib + 1 < DibMod
      BY <1>1, <1>7, <1>11 DEF NotFull, DibCounts, MoveOn
    <3>3. /\ TableOK(fresh', nfresh, {})
          /\ Occupied(fresh') = Occupied(fresh)
          /\ EntryOK(Bump(Carried(fresh[i], entry)), NextSlot(i, nfresh), fresh', nfresh)
      BY <2>1, <3>1, <3>2, MoveLemma
    <3> QED
      BY <3>1, <3>3
  <2>3. TypeOK'
    BY <1>11, <2>2 DEF IInv, TypeOK, MoveOn, TableOK, TableType, EntryOK, Occupied
  <2>4. CountExact'
    BY <1>2, <1>5, <1>6, <1>11, <2>2 DEF MoveOn, CountExact, Occupied
  <2>5. RobinHood'
    BY <1>4, <1>11, <2>2 DEF MoveOn, RobinHood, TableOK, EntryOK
  <2> QED
    BY <1>3, <2>3, <2>4, <2>5 DEF IInv
<1> QED
  BY <1>8, <1>9, <1>10, <1>11

\* An empty gap and an unchanged table: what the find loop and the ends of the
\* calls that change nothing keep.
LEMMA TableKept ==
    ASSUME IInv, UNCHANGED <<buckets, nbuckets, cap, count>>, Gap = {}, Gap' = {}
    PROVE  /\ DibExact(buckets, nbuckets, Gap)' /\ PathsFull(buckets, nbuckets, Gap)'
           /\ Cardinality(Live(buckets, Gap)') = Cardinality(Live(buckets, Gap))
           /\ (count <= GrowAt(nbuckets))'
  BY DEF IInv, RobinHood, GrowRoom, DibExact, PathsFull, PathFull, Live, Occupied

LEMMA ReturnTypeOK ==
    ASSUME IInv, NEW v \in Vals \cup {None}, Return(v),
           nbuckets' \in Sizes, cap' \in Sizes, cap' <= nbuckets',
           TableType(buckets', nbuckets'), count' \in Nat, oom' \in BOOLEAN
    PROVE  TypeOK'
<1>1. /\ pc' = "idle" /\ call' = NoCall /\ ret' \in Vals \cup {None}
      /\ entry' \in Bucket /\ spare' \in Vals \cup {None}
      /\ nfresh' = 0 /\ fresh' \in [0 .. 0-1 -> Bucket] /\ Occupied(fresh') = {}
      /\ src' = 0
  BY ReturnOK
<1>2. src' \in 0 .. nbuckets'
  BY <1>1, SizesAssumption
<1> QED
  BY <1>1, <1>2 DEF TypeOK, TableType

LEMMA StartIInv ==
    ASSUME IInv, SetStart \/ SetGrows \/ SetOutOfMemory
    PROVE  IInv'
<1> USE DEF mapVars, resizeVars
<1>1. /\ nbuckets \in Sizes /\ nbuckets \in Nat /\ count \in Nat
      /\ call \in [op : {"set"}, key : Keys, val : Vals]
      /\ Gap = {} /\ Gap' = {}
  <2>1. pc = "start" /\ call.op = "set" /\ pc' # "shift"
    BY DEF SetStart, SetGrows, SetOutOfMemory, BeginResize, Return
  <2> QED
    BY <2>1, IInvTables DEF IInv, TypeOK, Gap, Calls, KM!Calls, NoCall, KM!NoCall
<1>2. UNCHANGED <<buckets, nbuckets, cap, count>>
  BY DEF SetStart, SetGrows, SetOutOfMemory, BeginResize, Return
<1>3. /\ DibExact(buckets, nbuckets, Gap)' /\ PathsFull(buckets, nbuckets, Gap)'
      /\ Cardinality(Live(buckets, Gap)') = Cardinality(Live(buckets, Gap))
      /\ (count <= GrowAt(nbuckets))'
  BY <1>1, <1>2, TableKept
<1>4. CASE SetStart
  <2>1. EntryOK(NewEntry(call.key, call.val), Home(call.key, nbuckets), buckets, nbuckets)
    BY <1>1, StartsAtHome DEF IInv, TypeOK
  <2>2. EntryOK(entry, i, buckets, nbuckets)'
    BY <1>4, <2>1 DEF SetStart
  <2>3. TypeOK'
    BY <1>1, <1>4, <2>2 DEF IInv, TypeOK, SetStart, EntryOK, Occupied
  <2>4. GrowRoom'
    <3>1. count < GrowAt(nbuckets)
      BY <1>1, <1>4, GrowAtRoom DEF SetStart, IInv, GrowRoom
    <3> QED
      BY <1>2, <1>3, <1>4, <3>1 DEF SetStart, GrowRoom
  <2>5. CountExact'
    BY <1>2, <1>3, <1>4 DEF IInv, CountExact, SetStart
  <2>6. RobinHood'
    BY <1>3, <1>4, <2>2 DEF RobinHood, SetStart, EntryOK
  <2> QED
    BY <2>3, <2>4, <2>5, <2>6 DEF IInv
<1>5. CASE SetGrows
  <2>1. nbuckets * 2 \in Sizes /\ nbuckets * 2 \in Nat /\ nbuckets * 2 > nbuckets
    BY <1>1, <1>5, SizesAssumption DEF SetGrows, BeginResize
  <2>2. /\ TableOK(fresh, nfresh, {})' /\ Occupied(fresh)' = {}
        /\ src' = 0 /\ nfresh' = nbuckets * 2 /\ pc' = "resize"
    BY <1>5, <2>1, EmptyTableOK DEF SetGrows, BeginResize
  <2>3. TypeOK'
    <3>1. cap' <= nfresh'
      BY <1>1, <1>2, <2>1, <2>2, SizesAssumption DEF IInv, TypeOK
    <3> QED
      BY <1>1, <1>2, <1>5, <2>1, <2>2, <3>1
        DEF IInv, TypeOK, SetGrows, BeginResize, TableOK, TableType, Occupied
  <2>4. GrowRoom'
    <3>1. count < GrowAt(nbuckets * 2)
      BY <1>1, <1>5, <2>1, GrowAtRoom DEF SetGrows
    <3> QED
      BY <1>2, <1>3, <2>2, <3>1 DEF GrowRoom
  <2>5. CountExact'
    <3> DEFINE Rest == {s \in Occupied(buckets') : s >= src'}
    <3>1. Rest = Live(buckets, Gap)
      BY <1>1, <1>2, <2>2 DEF IInv, TypeOK, Occupied, Live
    <3>2. Cardinality(Live(buckets, Gap)) = count
      BY <1>5 DEF IInv, CountExact, SetGrows
    <3>3. Cardinality({}) = 0
      BY FS_EmptySet
    <3> QED
      <4> HIDE DEF Rest
      <4>1. Cardinality(Live(buckets, Gap)') = count' /\ count' \in Nat
        BY <1>1, <1>2, <1>3, <3>2
      <4>2. Cardinality(Occupied(fresh)') + Cardinality(Rest) = count'
        <5>1. Cardinality(Occupied(fresh)') = 0
          BY <2>2, <3>3
        <5>2. Cardinality(Rest) = count'
          BY <1>2, <3>1, <3>2
        <5>3. 0 + count' = count'
          BY <1>1, <1>2
        <5> QED
          BY <5>1, <5>2, <5>3, Zenon
      <4> QED
        BY <2>2, <4>1, <4>2 DEF CountExact, Rest
  <2>6. RobinHood'
    BY <1>3, <2>2 DEF RobinHood, TableOK
  <2> QED
    BY <2>3, <2>4, <2>5, <2>6 DEF IInv
<1>6. CASE SetOutOfMemory
  <2>1. pc' = "idle"
    BY <1>6 DEF SetOutOfMemory, Return
  <2>2. TypeOK'
    BY <1>1, <1>2, <1>6, ReturnTypeOK DEF IInv, TypeOK, TableType, SetOutOfMemory
  <2>3. GrowRoom'
    BY <1>3, <2>1 DEF GrowRoom
  <2>4. CountExact'
    BY <1>2, <1>3, <1>6, <2>1 DEF IInv, CountExact, SetOutOfMemory
  <2>5. RobinHood'
    BY <1>3, <2>1 DEF RobinHood
  <2> QED
    BY <2>2, <2>3, <2>4, <2>5 DEF IInv
<1> QED
  BY <1>4, <1>5, <1>6

LEMMA InsertIInv ==
    ASSUME IInv, DibCounts, SetPlaces \/ SetReplaces \/ SetMovesOn
    PROVE  IInv'
<1> USE DEF mapVars, resizeVars
<1>1. /\ pc = "insert" /\ nbuckets \in Sizes /\ nbuckets \in Nat /\ nbuckets >= 4
      /\ count \in Nat /\ count < GrowAt(nbuckets)
      /\ TableOK(buckets, nbuckets, {}) /\ Gap = {} /\ Gap' = {}
      /\ EntryOK(entry, i, buckets, nbuckets)
      /\ buckets \in [0 .. nbuckets-1 -> Bucket]
      /\ i \in 0 .. nbuckets-1
  <2>1. pc = "insert" /\ pc' # "shift"
    BY DEF SetPlaces, SetReplaces, SetMovesOn, Return
  <2> QED
    BY <2>1, IInvTables DEF Gap, IInv, TypeOK, GrowRoom
<1>2. /\ Cardinality(Occupied(buckets)) = count /\ IsFiniteSet(Occupied(buckets))
  BY <1>1, OccupiedFinite DEF IInv, CountExact, Live
<1>3. CASE SetPlaces
  <2>1. pc' = "idle"
    BY <1>3 DEF SetPlaces, Return
  <2>2. /\ TableOK(buckets, nbuckets, {})'
        /\ Occupied(buckets') = Occupied(buckets) \cup {i}
        /\ i \notin Occupied(buckets)
    <3>1. buckets[i].dib = 0 /\ buckets' = [buckets EXCEPT ![i] = entry] /\ nbuckets' = nbuckets
      BY <1>3 DEF SetPlaces
    <3>2. /\ TableOK([buckets EXCEPT ![i] = entry], nbuckets, {})
          /\ Occupied([buckets EXCEPT ![i] = entry]) = Occupied(buckets) \cup {i}
          /\ i \notin Occupied(buckets)
      BY <1>1, <3>1, PlaceLemma
    <3> QED
      BY <3>1, <3>2
  <2>3. TypeOK'
    <3>1. Return(None) /\ nbuckets' = nbuckets /\ cap' = cap /\ oom' = oom /\ count' = count + 1
      BY <1>3 DEF SetPlaces
    <3> QED
      BY <1>1, <2>2, <3>1, ReturnTypeOK DEF IInv, TypeOK, TableOK
  <2>4. GrowRoom'
    BY <1>1, <1>3, <2>1, GrowAtRoom DEF GrowRoom, SetPlaces
  <2>5. CountExact'
    <3>1. Cardinality(Occupied(buckets) \cup {i}) = count + 1
      BY <1>2, <2>2, FS_AddElement
    <3> QED
      BY <1>1, <1>3, <2>1, <2>2, <3>1 DEF CountExact, SetPlaces, Live
  <2>6. RobinHood'
    BY <1>1, <2>1, <2>2 DEF RobinHood, TableOK
  <2> QED
    BY <2>3, <2>4, <2>5, <2>6 DEF IInv
<1>4. CASE SetReplaces
  <2>1. /\ buckets[i].val \in Vals /\ buckets[i].key \in Keys
        /\ entry.key \in Keys /\ entry.val \in Vals /\ buckets[i].dib # 0
        /\ Hash[entry.key] = Hash[buckets[i].key]
    BY <1>1, <1>4 DEF SetReplaces, SameItem, TableOK, TableType, EntryOK, Occupied
  <2>2. pc' = "idle"
    BY <1>4 DEF SetReplaces, Return
  <2>3. /\ nbuckets' = nbuckets /\ count' = count
        /\ buckets' = [buckets EXCEPT ![i].key = entry.key, ![i].val = entry.val]
        /\ buckets' \in [0 .. nbuckets-1 -> Bucket]
        /\ \A s \in 0 .. nbuckets-1 :
             /\ buckets'[s].dib = buckets[s].dib
             /\ s # i => buckets'[s] = buckets[s]
        /\ buckets'[i].key = entry.key /\ buckets'[i].val = entry.val
    BY <1>1, <1>4, <2>1 DEF SetReplaces, Bucket
  <2>4. Occupied(buckets') = Occupied(buckets)
    BY <1>1, <2>3 DEF Occupied
  <2>5. \A s \in Occupied(buckets) : Home(buckets'[s].key, nbuckets) = Home(buckets[s].key, nbuckets)
    BY <1>1, <2>1, <2>3 DEF Home, Occupied
  <2>6. TableOK(buckets, nbuckets, {})'
    <3>1. TableType(buckets', nbuckets)
      BY <1>1, <2>1, <2>3, <2>4 DEF TableOK, TableType, Occupied
    <3>2. DibExact(buckets', nbuckets, {})
      BY <1>1, <2>3, <2>4, <2>5 DEF TableOK, DibExact, Live, Occupied
    <3>3. PathsFull(buckets', nbuckets, {})
      BY <1>1, <2>3, <2>4, <2>5 DEF TableOK, PathsFull, PathFull, Live, Occupied
    <3> QED
      BY <2>3, <3>1, <3>2, <3>3 DEF TableOK
  <2>7. TypeOK'
    <3>1. /\ Return(buckets[i].val) /\ buckets[i].val \in Vals \cup {None}
          /\ nbuckets' = nbuckets /\ cap' = cap /\ oom' = oom /\ count' = count
      BY <1>4, <2>1 DEF SetReplaces
    <3> QED
      BY <1>1, <2>6, <3>1, ReturnTypeOK DEF IInv, TypeOK, TableOK
  <2>8. GrowRoom'
    BY <1>1, <2>2, <2>3, GrowAtRoom DEF GrowRoom
  <2>9. CountExact'
    BY <1>1, <1>2, <2>2, <2>3, <2>4 DEF CountExact, Live
  <2>10. RobinHood'
    BY <1>1, <2>2, <2>6 DEF RobinHood, TableOK
  <2> QED
    BY <2>7, <2>8, <2>9, <2>10 DEF IInv
<1>5. CASE SetMovesOn
  <2>1. /\ TableOK(buckets, nbuckets, {})'
        /\ Occupied(buckets') = Occupied(buckets)
        /\ EntryOK(entry, i, buckets, nbuckets)'
    <3>1. /\ buckets[i].dib # 0 /\ buckets' = SwapAt(buckets, entry, i)
          /\ nbuckets' = nbuckets /\ entry' = Bump(Carried(buckets[i], entry))
          /\ i' = NextSlot(i, nbuckets)
      BY <1>5 DEF SetMovesOn, SwapAt
    <3>2. NotFull(buckets, nbuckets) /\ Carried(buckets[i], entry).dib + 1 < DibMod
      BY <1>1, <1>2, GrowAtRoom DEF NotFull, DibCounts
    <3>3. /\ TableOK(buckets', nbuckets, {})
          /\ Occupied(buckets') = Occupied(buckets)
          /\ EntryOK(Bump(Carried(buckets[i], entry)), NextSlot(i, nbuckets), buckets', nbuckets)
      BY <1>1, <3>1, <3>2, MoveLemma
    <3> QED
      BY <3>1, <3>3
  <2>2. TypeOK'
    BY <1>1, <1>5, <2>1 DEF IInv, TypeOK, SetMovesOn, TableOK, TableType, EntryOK
  <2>3. GrowRoom'
    BY <1>1, <1>5, GrowAtRoom DEF IInv, GrowRoom, SetMovesOn
  <2>4. CountExact'
    BY <1>1, <1>2, <1>5, <2>1 DEF CountExact, SetMovesOn, Live
  <2>5. RobinHood'
    BY <1>1, <1>5, <2>1 DEF RobinHood, TableOK, SetMovesOn, EntryOK
  <2> QED
    BY <2>2, <2>3, <2>4, <2>5 DEF IInv
<1> QED
  BY <1>3, <1>4, <1>5

LEMMA FindIInv ==
    ASSUME IInv, FindStart \/ FindMisses \/ FindMovesOn \/ GetHits
    PROVE  IInv'
<1> USE DEF mapVars, resizeVars
<1>1. /\ nbuckets \in Sizes /\ nbuckets \in Nat /\ nbuckets >= 4
      /\ TableOK(buckets, nbuckets, {}) /\ Gap = {} /\ Gap' = {}
      /\ pc \in {"start", "find"} /\ pc' \in {"idle", "find"}
      /\ UNCHANGED <<buckets, nbuckets, cap, count, oom>>
  <2>1. /\ pc \in {"start", "find"} /\ pc' \in {"idle", "find"}
        /\ UNCHANGED <<buckets, nbuckets, cap, count, oom>>
    BY DEF FindStart, FindMisses, FindMovesOn, GetHits, Return
  <2> QED
    BY <2>1, IInvTables DEF Gap
<1>2. /\ DibExact(buckets, nbuckets, Gap)' /\ PathsFull(buckets, nbuckets, Gap)'
      /\ Cardinality(Live(buckets, Gap)') = Cardinality(Live(buckets, Gap))
      /\ (count <= GrowAt(nbuckets))'
  BY <1>1, TableKept
<1>3. GrowRoom' /\ RobinHood'
  BY <1>1, <1>2 DEF GrowRoom, RobinHood
<1>4. CountExact'
  BY <1>1, <1>2 DEF IInv, CountExact
<1>5. TypeOK'
  <2>1. CASE FindStart
    <3>1. call.key \in Keys
      BY <2>1 DEF FindStart, IInv, TypeOK, Calls, KM!Calls, NoCall, KM!NoCall
    <3>2. i' \in 0 .. nbuckets'-1
      BY <1>1, <2>1, <3>1, HomeType DEF FindStart
    <3> QED
      BY <1>1, <2>1, <3>2 DEF IInv, TypeOK, FindStart, Occupied
  <2>2. CASE FindMisses
    BY <1>1, <2>2, ReturnTypeOK DEF FindMisses, IInv, TypeOK, TableOK
  <2>3. CASE FindMovesOn
    <3>1. i' \in 0 .. nbuckets'-1
      BY <1>1, <2>3, NextSlotDist DEF IInv, TypeOK, FindMovesOn
    <3> QED
      BY <1>1, <2>3, <3>1 DEF IInv, TypeOK, FindMovesOn, Occupied
  <2>4. CASE GetHits
    <3>1. buckets[i].val \in Vals
      BY <1>1, <2>4 DEF GetHits, IInv, TypeOK, Occupied
    <3> QED
      BY <1>1, <2>4, <3>1, ReturnTypeOK DEF GetHits, IInv, TypeOK, TableOK
  <2> QED
    BY <2>1, <2>2, <2>3, <2>4
<1> QED
  BY <1>3, <1>4, <1>5 DEF IInv

LEMMA ShiftIInv ==
    ASSUME IInv, DeleteHits \/ DeleteShifts
    PROVE  IInv'
<1> USE DEF mapVars, resizeVars
<1>1. /\ nbuckets \in Sizes /\ nbuckets \in Nat /\ nbuckets >= 4
      /\ count \in Nat
      /\ TableOK(buckets, nbuckets, Gap) /\ Gap' = {i'}
      /\ buckets \in [0 .. nbuckets-1 -> Bucket]
      /\ IsFiniteSet(Occupied(buckets))
      /\ i \in 0 .. nbuckets-1
      /\ UNCHANGED <<nbuckets, cap, count, oom>> /\ pc' = "shift"
  <2>1. pc' = "shift" /\ UNCHANGED <<nbuckets, cap, count, oom>> /\ pc \in {"find", "shift"}
    BY DEF DeleteHits, DeleteShifts
  <2> QED
    BY <2>1, IInvTables, OccupiedFinite DEF Gap, IInv, TypeOK
<1>2. GrowRoom'
  BY <1>1 DEF IInv, GrowRoom
<1>3. CASE DeleteHits
  <2>1. /\ pc = "find" /\ Gap = {} /\ i' = i /\ i \in Occupied(buckets)
        /\ buckets' = [buckets EXCEPT ![i] = EmptyBucket]
        /\ buckets[i].val \in Vals
    BY <1>1, <1>3 DEF DeleteHits, Gap, Occupied, IInv, TypeOK
  <2>2. /\ buckets' \in [0 .. nbuckets-1 -> Bucket]
        /\ buckets'[i].dib = 0
        /\ \A s \in 0 .. nbuckets-1 : s # i => buckets'[s] = buckets[s]
    BY <1>1, <2>1 DEF EmptyBucket, Bucket
  <2>3. /\ Occupied(buckets') = Occupied(buckets) \ {i}
        /\ Live(buckets', {i}) = Occupied(buckets) \ {i}
    BY <1>1, <2>2 DEF Occupied, Live
  <2>4. TableOK(buckets', nbuckets, {i})
    <3>1. TableType(buckets', nbuckets)
      BY <1>1, <2>2, <2>3 DEF TableOK, TableType, Occupied
    <3>2. DibExact(buckets', nbuckets, {i})
      BY <1>1, <2>1, <2>2, <2>3 DEF TableOK, DibExact, Live, Occupied
    <3>3. PathsFull(buckets', nbuckets, {i})
      BY <1>1, <2>1, <2>2, <2>3 DEF TableOK, PathsFull, PathFull, Live, Occupied
    <3> QED
      BY <3>1, <3>2, <3>3 DEF TableOK
  <2>5. TypeOK'
    BY <1>1, <1>3, <2>1, <2>4 DEF IInv, TypeOK, DeleteHits, TableOK, TableType
  <2>6. CountExact'
    <3>1. Cardinality(Occupied(buckets)) = count
      BY <2>1 DEF IInv, CountExact, Live
    <3>2. Cardinality(Occupied(buckets) \ {i}) = count - 1
      BY <1>1, <2>1, <3>1, FS_RemoveElement
    <3> QED
      BY <1>1, <2>1, <2>3, <3>2 DEF CountExact
  <2>7. RobinHood'
    BY <1>1, <2>1, <2>4 DEF RobinHood, TableOK
  <2> QED
    BY <1>2, <2>5, <2>6, <2>7 DEF IInv
<1>4. CASE DeleteShifts
  <2> DEFINE n == NextSlot(i, nbuckets)
  <2>1. /\ pc = "shift" /\ Gap = {i} /\ buckets[n].dib > 1
        /\ buckets' = [buckets EXCEPT ![i] = [buckets[n] EXCEPT !.dib = @ - 1]]
        /\ i' = n
    BY <1>4 DEF DeleteShifts, Gap
  <2>2. /\ TableOK(buckets', nbuckets, {n})
        /\ n \in Occupied(buckets) \ {i}
        /\ Live(buckets', {n}) = (Live(buckets, {i}) \cup {i}) \ {n}
    BY <1>1, <2>1, ShiftLemma
  <2>3. n \in 0 .. nbuckets-1
    BY <1>1, <2>2 DEF Occupied
  <2>4. TypeOK'
    BY <1>1, <1>4, <2>1, <2>2, <2>3 DEF IInv, TypeOK, DeleteShifts, TableOK, TableType
  <2>5. CountExact'
    <3>1. Cardinality(Live(buckets, {i})) = count - 1
      BY <2>1 DEF IInv, CountExact
    <3>2. IsFiniteSet(Live(buckets, {i})) /\ i \notin Live(buckets, {i})
      BY <1>1, FS_RemoveElement DEF Live
    <3>3. Cardinality(Live(buckets, {i}) \cup {i}) = count /\ IsFiniteSet(Live(buckets, {i}) \cup {i})
      <4>1. /\ Cardinality(Live(buckets, {i}) \cup {i}) = Cardinality(Live(buckets, {i})) + 1
            /\ IsFiniteSet(Live(buckets, {i}) \cup {i})
        BY <3>2, FS_AddElement
      <4>2. (count - 1) + 1 = count
        BY <1>1
      <4> QED
        BY <3>1, <4>1, <4>2, Zenon
    <3>4. n \in Live(buckets, {i}) \cup {i}
      BY <2>2 DEF Live
    <3>5. Cardinality((Live(buckets, {i}) \cup {i}) \ {n}) = count - 1
      BY <1>1, <3>3, <3>4, FS_RemoveElement
    <3> QED
      BY <1>1, <2>1, <2>2, <3>5 DEF CountExact
  <2>6. RobinHood'
    BY <1>1, <2>1, <2>2 DEF RobinHood, TableOK
  <2> QED
    BY <1>2, <2>4, <2>5, <2>6 DEF IInv
<1> QED
  BY <1>3, <1>4

LEMMA CloseIInv ==
    ASSUME IInv, DeleteReturns \/ DeleteShrinks \/ DeleteCannotShrink
    PROVE  IInv'
<1>1. /\ pc = "shift" /\ nbuckets \in Sizes /\ nbuckets \in Nat /\ nbuckets >= 4
      /\ count \in Nat /\ i \in 0 .. nbuckets-1
      /\ buckets[NextSlot(i, nbuckets)].dib <= 1
      /\ buckets' = [buckets EXCEPT ![i] = EmptyBucket]
      /\ count' = count - 1 /\ UNCHANGED <<nbuckets, cap, oom>>
      /\ pc' # "shift"
      /\ Gap = {i} /\ Gap' = {}
      /\ buckets \in [0 .. nbuckets-1 -> Bucket]
      /\ spare \in Vals \cup {None}
  <2>1. CloseGap /\ UNCHANGED <<nbuckets, cap, oom>> /\ pc' # "shift"
    BY DEF DeleteReturns, DeleteShrinks, DeleteCannotShrink, BeginResize, Return
  <2> QED
    BY <2>1, IInvTables DEF CloseGap, Gap, IInv, TypeOK
<1>2. TableOK(buckets', nbuckets, {}) /\ Occupied(buckets') = Live(buckets, {i})
  <2>1. TableOK(buckets, nbuckets, {i})
    BY <1>1, IInvTables
  <2> QED
    BY <1>1, <2>1, CloseLemma
<1>3. Cardinality(Occupied(buckets')) = count' /\ count' \in Nat
  <2>1. Cardinality(Live(buckets, {i})) = count - 1
    BY <1>1 DEF IInv, CountExact
  <2>2. Cardinality(Occupied(buckets')) \in Nat
    BY <1>1, <1>2, OccupiedFinite DEF TableOK, TableType
  <2> QED
    BY <1>1, <1>2, <2>1, <2>2
<1>4. count' <= GrowAt(nbuckets')
  BY <1>1, GrowAtRoom DEF IInv, GrowRoom
<1>5. CASE Return(spare)
  <2>1. pc' = "idle"
    BY <1>5 DEF Return
  <2>2. TypeOK'
    BY <1>1, <1>2, <1>3, <1>5, ReturnTypeOK DEF IInv, TypeOK, TableOK
  <2>3. GrowRoom'
    BY <1>4, <2>1 DEF GrowRoom
  <2>4. CountExact'
    BY <1>1, <1>3, <2>1 DEF CountExact, Live
  <2>5. RobinHood'
    BY <1>1, <1>2, <2>1 DEF RobinHood, TableOK
  <2> QED
    BY <2>2, <2>3, <2>4, <2>5 DEF IInv
<1>6. CASE DeleteShrinks
  <2>1. /\ nbuckets > cap /\ cap \in Sizes /\ cap \in Nat
        /\ count' <= ShrinkAt(nbuckets)
        /\ nbuckets \div 2 \in Sizes
        /\ fresh' = EmptyTable(nbuckets \div 2) /\ nfresh' = nbuckets \div 2
        /\ src' = 0 /\ pc' = "resize" /\ UNCHANGED <<call, entry, i, spare, ret>>
    BY <1>1, <1>6, SizesAssumption DEF DeleteShrinks, MayShrink, BeginResize, IInv, TypeOK
  <2>2. nbuckets % 2 = 0 /\ nbuckets \div 2 \in Nat /\ cap <= nbuckets \div 2
    BY <1>1, <2>1, SizesAssumption
  <2>3. TableOK(fresh', nfresh', {}) /\ Occupied(fresh') = {}
    BY <2>1, <2>2, EmptyTableOK
  <2>4. call.op = "delete"
    BY <1>1 DEF IInv, TypeOK
  <2>5. src' \in 0 .. nbuckets'
    BY <1>1, <2>1
  <2>6. TypeOK'
    BY <1>1, <1>2, <1>3, <2>1, <2>2, <2>3, <2>4, <2>5
      DEF IInv, TypeOK, TableOK, TableType, Occupied
  <2>7. GrowRoom'
    <3>1. count' < GrowAt(nbuckets \div 2)
      BY <1>1, <1>3, <2>1, <2>2, ShrinkAtRoom
    <3> QED
      BY <1>4, <2>1, <3>1 DEF GrowRoom
  <2>8. CountExact'
    <3> DEFINE Rest == {s \in Occupied(buckets') : s >= src'}
    <3>1. Rest = Occupied(buckets') /\ Live(buckets', {}) = Occupied(buckets')
      BY <1>1, <1>2, <2>1 DEF Occupied, Live, TableOK, TableType
    <3> HIDE DEF Rest
    <3>2. Cardinality({}) = 0
      BY FS_EmptySet
    <3>3. Cardinality(Occupied(fresh')) + Cardinality(Rest) = count'
      <4>1. Cardinality(Occupied(fresh')) = 0
        BY <2>3, <3>2
      <4>2. Cardinality(Rest) = count'
        BY <1>3, <3>1
      <4>3. 0 + count' = count'
        BY <1>1
      <4> QED
        BY <4>1, <4>2, <4>3, Zenon
    <3> QED
      BY <1>1, <1>3, <2>1, <3>1, <3>3 DEF CountExact, Rest
  <2>9. RobinHood'
    BY <1>1, <1>2, <2>1, <2>3 DEF RobinHood, TableOK
  <2> QED
    BY <2>6, <2>7, <2>8, <2>9 DEF IInv
<1> QED
  BY <1>5, <1>6 DEF DeleteReturns, DeleteCannotShrink

LEMMA FinishIInv ==
    ASSUME IInv, FinishGrowing \/ FinishShrinking
    PROVE  IInv'
<1>1. /\ pc = "resize" /\ src = nbuckets /\ buckets' = fresh /\ nbuckets' = nfresh
      /\ UNCHANGED <<cap, count, oom>> /\ pc' \in {"insert", "idle"} /\ Gap' = {}
      /\ nfresh \in Sizes /\ nfresh \in Nat /\ nfresh >= 4 /\ cap \in Nat
      /\ TableOK(fresh, nfresh, {}) /\ count \in Nat
      /\ spare \in Vals \cup {None}
      /\ count < GrowAt(nfresh)
      /\ fresh \in [0 .. nfresh-1 -> Bucket] /\ buckets \in [0 .. nbuckets-1 -> Bucket]
      /\ nbuckets \in Nat
  <2>1. TakeOver /\ pc' \in {"insert", "idle"}
    BY DEF FinishGrowing, FinishShrinking, Return
  <2> QED
    BY <2>1, IInvTables, SizesAssumption DEF TakeOver, Gap, IInv, TypeOK, GrowRoom
<1>2. Cardinality(Occupied(fresh)) = count
  <2> DEFINE Rest == {s \in Occupied(buckets) : s >= src}
  <2>1. Rest = {}
    BY <1>1 DEF Occupied
  <2>2. Cardinality(Occupied(fresh)) + Cardinality(Rest) = count
    BY <1>1 DEF IInv, CountExact
  <2> HIDE DEF Rest
  <2>3. Cardinality(Rest) = 0
    BY <2>1, FS_EmptySet
  <2>4. Cardinality(Occupied(fresh)) \in Nat
    BY <1>1, OccupiedFinite
  <2> QED
    BY <2>2, <2>3, <2>4
<1>3. cap <= nfresh
  BY <1>1 DEF IInv, TypeOK
<1>4. GrowRoom'
  BY <1>1, GrowAtRoom DEF GrowRoom
<1>5. CountExact'
  BY <1>1, <1>2 DEF CountExact, Live
<1>6. CASE FinishGrowing
  <2>1. call.key \in Keys /\ call.val \in Vals
    BY <1>6 DEF FinishGrowing, IInv, TypeOK, Calls, KM!Calls, NoCall, KM!NoCall
  <2>2. EntryOK(entry, i, buckets, nbuckets)'
    <3>1. EntryOK(NewEntry(call.key, call.val), Home(call.key, nfresh), fresh, nfresh)
      BY <1>1, <2>1, StartsAtHome
    <3> QED
      BY <1>1, <1>6, <3>1 DEF FinishGrowing
  <2>3. RobinHood'
    BY <1>1, <1>6, <2>2 DEF RobinHood, TableOK, EntryOK, FinishGrowing
  <2>4. TypeOK'
    <3>1. TableOK(fresh', nfresh', {}) /\ nfresh' = 0 /\ src' = 0
      BY <1>6, EmptyTableOK DEF FinishGrowing
    <3>2. src' \in 0 .. nbuckets'
      BY <1>1, <3>1
    <3> QED
      BY <1>1, <1>3, <1>6, <2>2, <3>1, <3>2
        DEF IInv, TypeOK, FinishGrowing, TableOK, TableType, EntryOK
  <2> QED
    BY <1>4, <1>5, <2>3, <2>4 DEF IInv
<1>7. CASE FinishShrinking
  <2>1. TypeOK'
    BY <1>1, <1>3, <1>7, ReturnTypeOK DEF FinishShrinking, IInv, TypeOK, TableOK
  <2>2. RobinHood'
    BY <1>1, <1>7 DEF RobinHood, TableOK, FinishShrinking, Return
  <2> QED
    BY <1>4, <1>5, <2>1, <2>2 DEF IInv
<1> QED
  BY <1>6, <1>7

LEMMA ClearIInv ==
    ASSUME IInv, Clear
    PROVE  IInv'
<1>1. /\ nbuckets' \in Sizes /\ nbuckets' \in Nat /\ cap' \in Sizes /\ cap' <= nbuckets'
      /\ buckets' = EmptyTable(nbuckets') /\ count' = 0 /\ pc' = "idle" /\ Gap' = {}
      /\ oom' \in BOOLEAN /\ Return(None)
  <2>1. nbuckets \in Nat /\ cap \in Nat
    BY SizesAssumption DEF IInv, TypeOK
  <2> QED
    BY <2>1 DEF Clear, Return, Gap, IInv, TypeOK
<1>2. TableOK(buckets', nbuckets', {}) /\ Occupied(buckets') = {}
  BY <1>1, EmptyTableOK
<1>3. TypeOK'
  BY <1>1, <1>2, ReturnTypeOK DEF TableOK
<1>4. GrowRoom'
  BY <1>1, GrowAtRoom DEF GrowRoom
<1>5. CountExact'
  BY <1>1, <1>2, FS_EmptySet DEF CountExact, Live
<1>6. RobinHood'
  BY <1>1, <1>2 DEF RobinHood, TableOK
<1> QED
  BY <1>3, <1>4, <1>5, <1>6 DEF IInv

\* Every step of every loop keeps the invariant.
LEMMA StepIInv == IInv /\ DibCounts /\ [Next]_vars => IInv'
<1> SUFFICES ASSUME IInv, DibCounts, [Next]_vars
             PROVE  IInv'
  OBVIOUS
<1>1. ASSUME NEW c \in Calls, Invoke(c)
      PROVE  IInv'
  BY <1>1, InvokeIInv
<1>2. CASE SkipEmpty \/ TakeBucket \/ MoveBucket \/ MoveOn
  BY <1>2, ResizeIInv
<1>3. CASE FinishGrowing \/ FinishShrinking
  BY <1>3, FinishIInv
<1>4. CASE SetStart \/ SetGrows \/ SetOutOfMemory
  BY <1>4, StartIInv
<1>5. CASE SetPlaces \/ SetReplaces \/ SetMovesOn
  BY <1>5, InsertIInv
<1>6. CASE FindStart \/ FindMisses \/ FindMovesOn \/ GetHits
  BY <1>6, FindIInv
<1>7. CASE DeleteHits \/ DeleteShifts
  BY <1>7, ShiftIInv
<1>8. CASE DeleteReturns \/ DeleteShrinks \/ DeleteCannotShrink
  BY <1>8, CloseIInv
<1>9. CASE Clear
  BY <1>9, ClearIInv
<1>10. CASE UNCHANGED vars
  BY <1>10 DEF vars, mapVars, resizeVars, IInv, TypeOK, GrowRoom, CountExact, RobinHood,
               Gap, Live, Occupied, DibExact, PathsFull, PathFull, OnItsWay
<1> QED
  BY <1>1, <1>2, <1>3, <1>4, <1>5, <1>6, <1>7, <1>8, <1>9, <1>10 DEF Next, Step

\* The inductive invariant holds at every iteration, as long as no dib wraps.
THEOREM Invariance == Spec /\ []DibCounts => []IInv
<1> QED
  BY InitIInv, StepIInv, PTL DEF Spec

\* In tables that 16 bits can count, no dib wraps: an item is at most nbuckets-1
\* buckets from its home (hashmap-helpers.c:14 makes tables of 16 and more,
\* growth doubles them).
THEOREM SmallTablesCount == (\A n \in Sizes : n + 1 < DibMod) => (Spec => []DibCounts)
<1>1. SUFFICES ASSUME \A n \in Sizes : n + 1 < DibMod
               PROVE  Spec => []DibCounts
  OBVIOUS
<1>2. ASSUME IInv PROVE DibCounts
  <2>1. ASSUME NEW n \in Sizes, NEW t, TableOK(t, n, {}), NEW e, NEW j, EntryOK(e, j, t, n)
        PROVE  Carried(t[j], e).dib + 1 < DibMod
    <3>1. n \in Nat /\ n + 1 < DibMod /\ DibMod \in Nat
      BY <1>1, SizesAssumption, ConstantsAssumption
    <3>2. /\ j \in 0 .. n-1 /\ e.key \in Keys /\ e.dib = Dist(Home(e.key, n), j, n) + 1
          /\ t[j].dib \in Nat
      BY <2>1 DEF EntryOK, OnItsWay, TableOK, TableType, Bucket
    <3>3. e.dib \in 1 .. n
      <4>1. Dist(Home(e.key, n), j, n) \in 0 .. n-1
        BY <3>1, <3>2, HomeType, DistType
      <4> QED
        BY <3>1, <3>2, <4>1
    <3> QED
      BY <3>1, <3>2, <3>3 DEF Carried
  <2>2. pc = "insert" => Carried(buckets[i], entry).dib + 1 < DibMod
    BY <1>2, <2>1, IInvTables DEF Gap
  <2>3. pc = "move" => Carried(fresh[i], entry).dib + 1 < DibMod
    BY <1>2, <2>1, IInvTables
  <2> QED
    BY <2>2, <2>3 DEF DibCounts
<1>3. IInv /\ [Next]_vars => IInv'
  BY <1>2, StepIInv
<1> QED
  BY <1>2, <1>3, InitIInv, PTL DEF Spec

-----------------------------------------------------------------------------

\* The table's variables keep their types at every iteration of every loop:
\* in particular no index leaves the table it is used on.
THEOREM TypeCorrect == Spec /\ []DibCounts => []TypeOK
<1>1. IInv => TypeOK
  BY DEF IInv
<1> QED
  BY <1>1, Invariance, PTL

\* hashmap_count is exact: no item is lost, doubled or miscounted by a
\* replacement, a displacement, a backward shift or a resize.
THEOREM CountIsExact == Spec /\ []DibCounts => []CountExact
<1>1. IInv => CountExact
  BY DEF IInv
<1> QED
  BY <1>1, Invariance, PTL

\* There is always an empty bucket, so that hashmap_get stops on a key that
\* is not there, also when memory for a larger table cannot be had.
THEOREM AlwaysRoom == Spec /\ []DibCounts => []RoomLeft
<1>1. IInv => RoomLeft
  <2> SUFFICES ASSUME IInv PROVE RoomLeft
    OBVIOUS
  <2>1. /\ nbuckets \in Sizes /\ nbuckets \in Nat /\ count \in Nat
        /\ pc \in {"resize", "move"} => nfresh \in Sizes
    BY IInvTables DEF IInv, TypeOK
  <2>2. count < nbuckets
    BY <2>1, GrowAtRoom DEF IInv, GrowRoom
  <2>3. pc = "insert" => count + 1 < nbuckets
    BY <2>1, GrowAtRoom DEF IInv, GrowRoom
  <2>4. pc \in {"resize", "move"} => count + 1 < nfresh
    BY <2>1, GrowAtRoom DEF IInv, GrowRoom
  <2> QED
    BY <2>2, <2>3, <2>4 DEF RoomLeft
<1> QED
  BY <1>1, Invariance, PTL

\* At every iteration of hashmap_set, hashmap_delete and resize, every item
\* can be reached from its home without crossing an empty bucket.
THEOREM RobinHoodHolds == Spec /\ []DibCounts => []RobinHood
<1>1. IInv => RobinHood
  BY DEF IInv
<1> QED
  BY <1>1, Invariance, PTL


-----------------------------------------------------------------------------
(* The end of every loop                                                   *)

LEMMA LeastDistance ==
    ASSUME NEW n \in Nat, NEW S \in SUBSET (0 .. n-1), S # {}
    PROVE  \E k \in S : \A j \in S : k <= j
<1> DEFINE Under(k) == {j \in S : j < k}
           F == {Under(k) : k \in S}
<1>1. IsFiniteSet(S)
  <2>1. IsFiniteSet(0 .. n-1)
    BY FS_Interval
  <2> QED
    BY <2>1, FS_Subset
<1>2. F \subseteq FiniteSubsetsOf(S)
  BY <1>1, FS_Subset DEF FiniteSubsetsOf
<1>3. F # {}
  OBVIOUS
<1>4. PICK x \in F : \A y \in F : ~ (<<y, x>> \in StrictSubsetOrdering(S))
  <2> HIDE DEF F
  <2> QED
    BY <1>1, <1>2, <1>3, FS_StrictSubsetOrderingWellFounded, WFMin
<1>5. PICK k \in S : x = Under(k)
  BY <1>4
<1>6. ASSUME NEW j \in S, j < k PROVE FALSE
  <2>1. \A m \in S : m \in Int
    OBVIOUS
  <2>2. Under(j) \in F /\ Under(j) \in SUBSET S /\ Under(k) \in SUBSET S
    OBVIOUS
  <2>3. Under(j) \subseteq Under(k) /\ j \in Under(k) /\ j \notin Under(j)
    <3>1. \A m \in S : m < j => m < k
      BY <1>6, <2>1
    <3>2. ~ (j < j)
      BY <2>1
    <3> QED
      BY <1>6, <3>1, <3>2
  <2>4. <<Under(j), Under(k)>> \in StrictSubsetOrdering(S)
    BY <2>2, <2>3 DEF StrictSubsetOrdering
  <2> QED
    BY <1>4, <1>5, <2>2, <2>4
<1>7. \A j \in S : k <= j
  BY <1>6
<1> QED
  BY <1>7

\* What ToNearest chooses is there.
LEMMA NearestIs ==
    ASSUME NEW n \in Nat, NEW E \in SUBSET (0 .. n-1), E # {}, NEW s \in 0 .. n-1
    PROVE  /\ ToNearest(E, s, n) \in 0 .. n-1
           /\ \E m \in E : ToNearest(E, s, n) = Dist(s, m, n)
           /\ \A m \in E : ToNearest(E, s, n) <= Dist(s, m, n)
<1> DEFINE away == {Dist(s, m, n) : m \in E}
<1>1. away \in SUBSET (0 .. n-1) /\ away # {}
  BY DistType
<1>2. \E d \in away : \A e \in away : d <= e
  <2> HIDE DEF away
  <2> QED
    BY <1>1, LeastDistance
<1>3. ToNearest(E, s, n) \in away /\ \A e \in away : ToNearest(E, s, n) <= e
  BY <1>2 DEF ToNearest
<1> QED
  BY <1>1, <1>3

\* A loop that is not yet at an empty bucket comes nearer to the next.
LEMMA NearerNext ==
    ASSUME NEW n \in Nat, n >= 4, NEW E \in SUBSET (0 .. n-1), E # {},
           NEW s \in 0 .. n-1, s \notin E
    PROVE  ToNearest(E, NextSlot(s, n), n) < ToNearest(E, s, n)
<1> DEFINE j == NextSlot(s, n)
<1>1. j \in 0 .. n-1
  BY NextSlotDist
<1>2. PICK m \in E : ToNearest(E, s, n) = Dist(s, m, n)
  BY NearestIs
<1>3. Dist(s, m, n) \in 0 .. n-1 /\ Dist(j, m, n) = Dist(s, m, n) - 1
  BY <1>1, DistType DEF Dist, NextSlot
<1>4. ToNearest(E, j, n) \in 0 .. n-1 /\ ToNearest(E, j, n) <= Dist(j, m, n)
  BY <1>1, NearestIs
<1> QED
  BY <1>2, <1>3, <1>4

\* A table with fewer items than buckets has an empty bucket, also apart from
\* the gap.
LEMMA EmptyElsewhere ==
    ASSUME NEW n \in Nat, n >= 4, NEW t \in [0 .. n-1 -> Bucket],
           NEW gap, gap = {} \/ \E s \in 0 .. n-1 : gap = {s},
           Cardinality(Live(t, gap)) + Cardinality(gap) < n
    PROVE  /\ Empties(t) \ gap \in SUBSET (0 .. n-1)
           /\ Empties(t) \ gap # {}
<1>1. Empties(t) \ gap \in SUBSET (0 .. n-1)
  BY DEF Empties
<1>2. SUFFICES ASSUME Empties(t) \ gap = {} PROVE FALSE
  BY <1>1
<1>3. Live(t, gap) \cup gap = 0 .. n-1 /\ Live(t, gap) \cap gap = {}
  BY <1>2 DEF Empties, Live, Occupied
<1>4. IsFiniteSet(0 .. n-1) /\ Cardinality(0 .. n-1) = n
  <2>1. 0 \in Int /\ n-1 \in Int /\ ~ (0 > n-1) /\ (n-1) - 0 + 1 = n
    OBVIOUS
  <2> QED
    BY <2>1, FS_Interval, Zenon
<1>5. Live(t, gap) \subseteq 0 .. n-1 /\ gap \subseteq 0 .. n-1
  BY <1>3
<1>6. IsFiniteSet(Live(t, gap)) /\ IsFiniteSet(gap)
  BY <1>4, <1>5, FS_Subset
<1>7. Cardinality(Live(t, gap)) \in Nat /\ Cardinality(gap) \in Nat
  BY <1>6, FS_CardinalityType
<1>8. Cardinality(Live(t, gap) \cup gap) = Cardinality(Live(t, gap)) + Cardinality(gap)
  <2>1. /\ Cardinality(Live(t, gap) \cap gap) = 0
        /\ Cardinality(Live(t, gap) \cup gap) =
             Cardinality(Live(t, gap)) + Cardinality(gap) - Cardinality(Live(t, gap) \cap gap)
    <3>1. Cardinality({}) = 0
      BY FS_EmptySet
    <3> QED
      BY <1>3, <1>6, <3>1, FS_Union, Zenon
  <2> HIDE DEF Live
  <2> QED
    BY <1>7, <2>1
<1>9. Cardinality(Live(t, gap) \cup gap) = n
  BY <1>3, <1>4, Zenon
<1> QED
  BY <1>7, <1>8, <1>9

\* The empty bucket each loop is going to come to.
LEMMA EmptyAhead ==
    ASSUME IInv
    PROVE  /\ Empties(buckets) \ Gap \in SUBSET (0 .. nbuckets-1)
           /\ Empties(buckets) \ Gap # {}
           /\ pc \in {"resize", "move"} =>
                Empties(fresh) \in SUBSET (0 .. nfresh-1) /\ Empties(fresh) # {}
<1>1. /\ nbuckets \in Sizes /\ nbuckets \in Nat /\ nbuckets >= 4
      /\ buckets \in [0 .. nbuckets-1 -> Bucket]
      /\ count \in Nat /\ count < nbuckets
  <2>1. nbuckets \in Sizes /\ nbuckets \in Nat /\ count \in Nat
    BY IInvTables DEF IInv, TypeOK
  <2>2. count < nbuckets
    BY <2>1, GrowAtRoom DEF IInv, GrowRoom
  <2> QED
    BY <2>1, <2>2, IInvTables DEF IInv, TypeOK
<1>2. /\ Gap = {} \/ \E s \in 0 .. nbuckets-1 : Gap = {s}
      /\ Cardinality(Live(buckets, Gap)) + Cardinality(Gap) < nbuckets
  <2>1. CASE pc = "shift"
    <3>1. Gap = {i} /\ i \in 0 .. nbuckets-1 /\ Cardinality(Live(buckets, Gap)) = count - 1
      BY <2>1 DEF Gap, IInv, TypeOK, CountExact
    <3>2. Cardinality({i}) = 1
      BY FS_Singleton
    <3> QED
      BY <1>1, <3>1, <3>2
  <2>2. CASE pc # "shift"
    <3>1. Gap = {} /\ Cardinality(Live(buckets, Gap)) = count
      BY <2>2 DEF Gap, IInv, CountExact
    <3>2. Cardinality({}) = 0
      BY FS_EmptySet
    <3> QED
      BY <1>1, <3>1, <3>2
  <2> QED
    BY <2>1, <2>2
<1>3. ASSUME pc \in {"resize", "move"}
      PROVE  Empties(fresh) \in SUBSET (0 .. nfresh-1) /\ Empties(fresh) # {}
  <2>1. nfresh \in Sizes /\ nfresh \in Nat /\ nfresh >= 4 /\ fresh \in [0 .. nfresh-1 -> Bucket]
    BY <1>3, IInvTables DEF IInv, TypeOK
  <2>2. Cardinality(Occupied(fresh)) + Cardinality({s \in Occupied(buckets) : s >= src}) = count
    BY <1>3 DEF IInv, CountExact
  <2>3. Cardinality(Occupied(fresh)) \in Nat
    BY <2>1, OccupiedFinite
  <2>4. Cardinality({s \in Occupied(buckets) : s >= src}) \in Nat
    <3>1. IsFiniteSet({s \in Occupied(buckets) : s >= src})
      BY <1>1, OccupiedFinite, FS_Subset
    <3> QED
      BY <3>1, FS_CardinalityType
  <2>5. GrowAt(nfresh) \in Nat /\ GrowAt(nfresh) < nfresh /\ count < GrowAt(nfresh)
    BY <1>3, <2>1, GrowAtRoom DEF IInv, GrowRoom
  <2>6. Cardinality(Occupied(fresh)) < nfresh
    BY <1>1, <2>1, <2>2, <2>3, <2>4, <2>5
  <2>7. Live(fresh, {}) = Occupied(fresh) /\ Cardinality({}) = 0 /\ Empties(fresh) \ {} = Empties(fresh)
    BY FS_EmptySet DEF Live
  <2> DEFINE none == {}
  <2>8. Cardinality(Live(fresh, none)) + Cardinality(none) < nfresh
    BY <2>1, <2>3, <2>6, <2>7
  <2>9. Empties(fresh) \ none \in SUBSET (0 .. nfresh-1) /\ Empties(fresh) \ none # {}
    BY <2>1, <2>8, EmptyElsewhere
  <2> QED
    BY <2>7, <2>9
<1> QED
  BY <1>1, <1>2, <1>3, EmptyElsewhere

LEMMA LeastNatural ==
    ASSUME NEW T \in SUBSET Nat, T # {}
    PROVE  \E k \in T : \A j \in T : k <= j
<1>1. PICK m \in T : m \in Nat
  OBVIOUS
<1> DEFINE S == {j \in T : j <= m}
<1>2. m + 1 \in Nat /\ S \in SUBSET (0 .. (m + 1) - 1) /\ m \in S
  <2>1. \A j \in S : j \in Nat /\ j <= m
    OBVIOUS
  <2>2. (m + 1) - 1 = m /\ m <= m
    BY <1>1
  <2>3. S \subseteq 0 .. (m + 1) - 1
    <3> HIDE DEF S
    <3> QED
      BY <1>1, <2>1, <2>2
  <2> QED
    BY <1>1, <2>2, <2>3
<1>3. PICK k \in S : \A j \in S : k <= j
  <2> HIDE DEF S
  <2> QED
    BY <1>2, LeastDistance
<1>4. k \in T /\ \A j \in T : k <= j
  BY <1>1, <1>2, <1>3
<1> QED
  BY <1>4

\* The measure is one in every state.
LEMMA VariantType ==
    ASSUME IInv
    PROVE  /\ Variant \in Measures
           /\ LoopsAhead \in Nat /\ BucketsAhead \in Nat /\ ProbesAhead \in Nat
<1>1. /\ pc \in {"idle", "start", "insert", "find", "shift", "resize", "move"}
      /\ nbuckets \in Nat /\ nfresh \in Nat /\ src \in 0 .. nbuckets
      /\ nbuckets >= 4
      /\ pc \in {"insert", "find", "shift"} => i \in 0 .. nbuckets-1
      /\ pc = "move" => i \in 0 .. nfresh-1
  BY IInvTables DEF IInv, TypeOK
<1>2. LoopsAhead \in Nat
  BY <1>1 DEF LoopsAhead
<1>3. BucketsAhead \in Nat
  BY <1>1 DEF BucketsAhead
<1>4. ProbesAhead \in Nat
  <2>1. CASE pc \in {"insert", "find"}
    <3>1. Empties(buckets) \in SUBSET (0 .. nbuckets-1) /\ Empties(buckets) # {}
      BY <2>1, EmptyAhead DEF Gap
    <3>2. ToNearest(Empties(buckets), i, nbuckets) \in 0 .. nbuckets-1
      BY <1>1, <2>1, <3>1, NearestIs
    <3> QED
      BY <2>1, <3>2 DEF ProbesAhead
  <2>2. CASE pc = "shift"
    <3>1. Empties(buckets) \ {i} \in SUBSET (0 .. nbuckets-1) /\ Empties(buckets) \ {i} # {}
      BY <2>2, EmptyAhead DEF Gap
    <3>2. NextSlot(i, nbuckets) \in 0 .. nbuckets-1
      BY <1>1, <2>2, NextSlotDist
    <3>3. ToNearest(Empties(buckets) \ {i}, NextSlot(i, nbuckets), nbuckets) \in 0 .. nbuckets-1
      BY <1>1, <3>1, <3>2, NearestIs
    <3> QED
      BY <2>2, <3>3 DEF ProbesAhead
  <2>3. CASE pc = "move"
    <3>1. Empties(fresh) \in SUBSET (0 .. nfresh-1) /\ Empties(fresh) # {}
      BY <2>3, EmptyAhead
    <3>2. ToNearest(Empties(fresh), i, nfresh) \in 0 .. nfresh-1
      BY <1>1, <2>3, <3>1, NearestIs
    <3> QED
      BY <2>3, <3>2 DEF ProbesAhead
  <2>4. CASE pc \in {"idle", "start", "resize"}
    BY <1>1, <2>4 DEF ProbesAhead
  <2> QED
    BY <1>1, <2>1, <2>2, <2>3, <2>4
<1> QED
  BY <1>2, <1>3, <1>4 DEF Variant, Measures

\* A step that comes to a later loop of the call, to the next bucket to move,
\* or nearer to an empty bucket.
LEMMA LowerVariant ==
    ASSUME \/ LoopsAhead' < LoopsAhead
           \/ LoopsAhead' = LoopsAhead /\ BucketsAhead' < BucketsAhead
           \/ LoopsAhead' = LoopsAhead /\ BucketsAhead' = BucketsAhead
                /\ ProbesAhead' < ProbesAhead
    PROVE  Lower(Variant', Variant)
BY DEF Lower, Variant

\* resize: each bucket is moved once, and each is soon put down.
LEMMA ResizeEnds ==
    ASSUME IInv, SkipEmpty \/ TakeBucket \/ MoveBucket \/ MoveOn
    PROVE  Lower(Variant', Variant)
<1> USE DEF mapVars, resizeVars
<1>1. /\ pc \in {"resize", "move"} /\ pc' \in {"resize", "move"}
      /\ UNCHANGED <<buckets, nbuckets, call, nfresh>>
      /\ nbuckets \in Nat /\ src \in 0 .. nbuckets
      /\ nfresh \in Nat /\ nfresh >= 4 /\ fresh \in [0 .. nfresh-1 -> Bucket]
      /\ pc = "move" => src < nbuckets
  <2>1. /\ pc \in {"resize", "move"} /\ pc' \in {"resize", "move"}
        /\ UNCHANGED <<buckets, nbuckets, call, nfresh>>
    BY DEF SkipEmpty, TakeBucket, MoveBucket, MoveOn
  <2> QED
    BY <2>1, IInvTables DEF IInv, TypeOK
<1>2. LoopsAhead' = LoopsAhead
  BY <1>1 DEF LoopsAhead
<1>3. BucketsAhead = nbuckets - src /\ BucketsAhead' = nbuckets - src'
  BY <1>1 DEF BucketsAhead
<1>4. Empties(fresh) \in SUBSET (0 .. nfresh-1) /\ Empties(fresh) # {}
  BY <1>1, EmptyAhead
<1>5. CASE SkipEmpty \/ MoveBucket
  <2>1. src' = src + 1 /\ src < nbuckets
    BY <1>1, <1>5 DEF SkipEmpty, MoveBucket
  <2>2. BucketsAhead' < BucketsAhead
    BY <1>1, <1>3, <2>1
  <2> QED
    BY <1>2, <2>2, LowerVariant
<1>6. CASE TakeBucket
  <2>1. pc = "resize" /\ pc' = "move" /\ src' = src /\ fresh' = fresh /\ i' \in 0 .. nfresh-1
    <3>1. buckets[src].key \in Keys /\ nfresh \in Sizes
      BY <1>1, <1>6 DEF TakeBucket, IInv, TypeOK, Occupied
    <3> QED
      BY <1>6, <3>1, HomeType DEF TakeBucket
  <2>2. ProbesAhead = nfresh /\ ProbesAhead' = ToNearest(Empties(fresh), i', nfresh)
    BY <1>1, <2>1 DEF ProbesAhead
  <2>3. ToNearest(Empties(fresh), i', nfresh) \in 0 .. nfresh-1
    BY <1>1, <1>4, <2>1, NearestIs
  <2>4. ProbesAhead' < ProbesAhead
    BY <1>1, <2>2, <2>3
  <2> QED
    BY <1>2, <1>3, <2>1, <2>4, LowerVariant
<1>7. CASE MoveOn
  <2>1. /\ pc = "move" /\ pc' = "move" /\ src' = src
        /\ i \in 0 .. nfresh-1 /\ i \notin Empties(fresh)
        /\ i' = NextSlot(i, nfresh)
        /\ fresh' = [fresh EXCEPT ![i] = Settled(fresh[i], entry)]
    BY <1>7 DEF MoveOn, IInv, TypeOK, Empties
  <2>2. Empties(fresh') = Empties(fresh)
    <3>1. Settled(fresh[i], entry).dib # 0
      <4>1. entry.dib \in Nat /\ fresh[i].dib \in Nat /\ fresh[i].dib # 0
        BY <1>1, <1>7, <2>1 DEF MoveOn, IInv, TypeOK, Bucket
      <4> QED
        BY <4>1 DEF Settled
    <3> QED
      BY <1>1, <2>1, <3>1 DEF Empties
  <2>3. /\ ProbesAhead = ToNearest(Empties(fresh), i, nfresh)
        /\ ProbesAhead' = ToNearest(Empties(fresh'), i', nfresh)
    <3>1. nfresh' = nfresh
      BY <1>1
    <3> QED
      BY <2>1, <3>1 DEF ProbesAhead
  <2>4. ProbesAhead' < ProbesAhead
    BY <1>1, <1>4, <2>1, <2>2, <2>3, NearerNext
  <2> QED
    BY <1>2, <1>3, <2>1, <2>4, LowerVariant
<1> QED
  BY <1>5, <1>6, <1>7

\* The loops of hashmap_set, hashmap_get and hashmap_delete.
LEMMA ProbesEnd ==
    ASSUME IInv, SetMovesOn \/ FindMovesOn \/ DeleteShifts
    PROVE  Lower(Variant', Variant)
<1> USE DEF mapVars, resizeVars
<1>1. /\ nbuckets \in Nat /\ nbuckets >= 4 /\ buckets \in [0 .. nbuckets-1 -> Bucket]
      /\ pc \in {"insert", "find", "shift"} /\ pc' = pc /\ nbuckets' = nbuckets
      /\ i \in 0 .. nbuckets-1 /\ i' = NextSlot(i, nbuckets) /\ i' \in 0 .. nbuckets-1
  <2>1. /\ pc \in {"insert", "find", "shift"} /\ pc' = pc /\ nbuckets' = nbuckets
        /\ i' = NextSlot(i, nbuckets)
    BY DEF SetMovesOn, FindMovesOn, DeleteShifts
  <2> QED
    BY <2>1, IInvTables, NextSlotDist DEF IInv, TypeOK
<1>2. LoopsAhead' = LoopsAhead /\ BucketsAhead' = BucketsAhead
  BY <1>1 DEF LoopsAhead, BucketsAhead
<1>3. Empties(buckets) \ Gap \in SUBSET (0 .. nbuckets-1) /\ Empties(buckets) \ Gap # {}
  BY EmptyAhead
<1>4. CASE SetMovesOn \/ FindMovesOn
  <2>1. pc \in {"insert", "find"} /\ i \notin Empties(buckets) /\ Empties(buckets) \ Gap = Empties(buckets)
    BY <1>4 DEF SetMovesOn, FindMovesOn, Gap, Empties
  <2>2. Empties(buckets') = Empties(buckets)
    <3>1. CASE SetMovesOn
      <4>1. entry.dib \in Nat /\ buckets[i].dib \in Nat /\ buckets[i].dib # 0
        BY <1>1, <3>1 DEF SetMovesOn, IInv, TypeOK, Bucket
      <4>2. Settled(buckets[i], entry).dib # 0
        BY <4>1 DEF Settled
      <4> QED
        BY <1>1, <3>1, <4>1, <4>2 DEF SetMovesOn, Empties
    <3>2. CASE FindMovesOn
      BY <3>2 DEF FindMovesOn
    <3> QED
      BY <1>4, <3>1, <3>2
  <2>3. /\ ProbesAhead = ToNearest(Empties(buckets), i, nbuckets)
        /\ ProbesAhead' = ToNearest(Empties(buckets'), i', nbuckets)
    BY <1>1, <2>1 DEF ProbesAhead
  <2>4. ProbesAhead' < ProbesAhead
    BY <1>1, <1>3, <2>1, <2>2, <2>3, NearerNext
  <2> QED
    BY <1>2, <2>4, LowerVariant
<1>5. CASE DeleteShifts
  <2> DEFINE n == NextSlot(i, nbuckets)
  <2>1. /\ pc = "shift" /\ Gap = {i} /\ n # i /\ n \in 0 .. nbuckets-1
        /\ buckets[n].dib \in Nat /\ buckets[n].dib > 1
        /\ buckets' = [buckets EXCEPT ![i] = [buckets[n] EXCEPT !.dib = @ - 1]]
    BY <1>1, <1>5, NextSlotDist DEF DeleteShifts, Gap, Bucket
  <2>2. n \notin Empties(buckets) \ {i}
    BY <2>1 DEF Empties
  <2>3. Empties(buckets') \ {n} = Empties(buckets) \ {i}
    <3>1. /\ DOMAIN buckets' = 0 .. nbuckets-1 /\ DOMAIN buckets = 0 .. nbuckets-1
          /\ buckets'[i].dib # 0
          /\ \A s \in 0 .. nbuckets-1 : s # i => buckets'[s] = buckets[s]
      <4>1. [buckets[n] EXCEPT !.dib = @ - 1].dib = buckets[n].dib - 1
        BY <1>1, <2>1 DEF Bucket
      <4> QED
        BY <1>1, <2>1, <4>1
    <3> QED
      BY <2>1, <3>1 DEF Empties
  <2>4. /\ ProbesAhead = ToNearest(Empties(buckets) \ {i}, n, nbuckets)
        /\ ProbesAhead' = ToNearest(Empties(buckets') \ {n}, NextSlot(n, nbuckets), nbuckets)
    BY <1>1, <2>1 DEF ProbesAhead
  <2>5. ToNearest(Empties(buckets) \ {i}, NextSlot(n, nbuckets), nbuckets)
          < ToNearest(Empties(buckets) \ {i}, n, nbuckets)
    BY <1>1, <1>3, <2>1, <2>2, NearerNext
  <2>6. ProbesAhead' < ProbesAhead
    BY <2>3, <2>4, <2>5
  <2> QED
    BY <1>2, <2>6, LowerVariant
<1> QED
  BY <1>4, <1>5

\* A step from one loop of a call to the next, or to its return.
LEMMA LoopsGoOn ==
    ASSUME IInv,
           \/ FinishGrowing \/ FinishShrinking
           \/ SetStart \/ SetGrows \/ SetOutOfMemory \/ SetPlaces \/ SetReplaces
           \/ FindStart \/ FindMisses \/ GetHits \/ DeleteHits
           \/ DeleteReturns \/ DeleteShrinks \/ DeleteCannotShrink \/ Clear
    PROVE  Lower(Variant', Variant)
<1> USE DEF Return
<1>1. CASE FinishGrowing \/ FinishShrinking
  <2>1. LoopsAhead' < LoopsAhead
    BY <1>1 DEF FinishGrowing, FinishShrinking, TakeOver, LoopsAhead
  <2> QED
    BY <2>1, LowerVariant
<1>2. CASE SetStart \/ SetGrows \/ SetOutOfMemory \/ FindStart \/ Clear
  <2>1. LoopsAhead' < LoopsAhead
    BY <1>2 DEF SetStart, SetGrows, SetOutOfMemory, FindStart, Clear, BeginResize, LoopsAhead
  <2> QED
    BY <2>1, LowerVariant
<1>3. CASE SetPlaces \/ SetReplaces \/ FindMisses \/ GetHits \/ DeleteHits
  <2>1. LoopsAhead' < LoopsAhead
    BY <1>3 DEF SetPlaces, SetReplaces, FindMisses, GetHits, DeleteHits, LoopsAhead
  <2> QED
    BY <2>1, LowerVariant
<1>4. CASE DeleteReturns \/ DeleteShrinks \/ DeleteCannotShrink
  <2>1. pc = "shift" /\ call.op = "delete"
    BY <1>4 DEF DeleteReturns, DeleteShrinks, DeleteCannotShrink, CloseGap, IInv, TypeOK
  <2>2. LoopsAhead' < LoopsAhead
    BY <1>4, <2>1 DEF DeleteReturns, DeleteShrinks, DeleteCannotShrink, CloseGap, BeginResize, LoopsAhead
  <2> QED
    BY <2>2, LowerVariant
<1> QED
  BY <1>1, <1>2, <1>3, <1>4


\* Every step of hashmap_set, hashmap_get, hashmap_delete and hashmap_clear
\* brings the call closer to its end, whatever the keys and the hash function,
\* as long as no dib wraps: a thread that goes on with a call comes to its return.
THEOREM LoopsAlwaysEnd == Spec /\ []DibCounts => LoopsEnd
<1>1. IInv => Variant \in Measures
  BY VariantType
<1>2. (IInv => Variant \in Measures)'
  BY <1>1, PTL
<1>3. ASSUME IInv, DibCounts, [Next]_vars
      PROVE  [pc # "idle" => Variant' \in Measures /\ Lower(Variant', Variant)]_vars
  <2>1. SUFFICES ASSUME pc # "idle", Next
                 PROVE  Variant' \in Measures /\ Lower(Variant', Variant)
    BY <1>3
  <2>2. Variant' \in Measures
    <3>1. IInv'
      BY <1>3, StepIInv
    <3> QED
      BY <1>2, <3>1
  <2>3. Step
    BY <2>1 DEF Next, Invoke
  <2>4. CASE SkipEmpty \/ TakeBucket \/ MoveBucket \/ MoveOn
    BY <1>3, <2>2, <2>4, ResizeEnds
  <2>5. CASE SetMovesOn \/ FindMovesOn \/ DeleteShifts
    BY <1>3, <2>2, <2>5, ProbesEnd
  <2>6. CASE \/ FinishGrowing \/ FinishShrinking
             \/ SetStart \/ SetGrows \/ SetOutOfMemory \/ SetPlaces \/ SetReplaces
             \/ FindStart \/ FindMisses \/ GetHits \/ DeleteHits
             \/ DeleteReturns \/ DeleteShrinks \/ DeleteCannotShrink \/ Clear
    BY <1>3, <2>2, <2>6, LoopsGoOn
  <2> QED
    BY <2>3, <2>4, <2>5, <2>6 DEF Step
<1> QED
  BY <1>3, Invariance, PTL DEF Spec, LoopsEnd
=============================================================================
