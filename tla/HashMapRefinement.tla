-------------------------- MODULE HashMapRefinement --------------------------
(***************************************************************************)
(* The hash table of lib/hashmap.c implements the map of KeyMap, whatever  *)
(* the hash function, for keys that compare tells apart and as long as no  *)
(* dib wraps.  On top of the Robin Hood invariant this takes that no key is in the table twice, and, for each   *)
(* loop, what has become of the items it has passed.                       *)
(***************************************************************************)
EXTENDS HashMapProofs

\* compare finds an item's key and no other of the same hash: so it is for
\* strcmp, the compare of the names, and for metadata_compare and file_compare
\* among ids of which no two share their 48 bits of hash.
KeysTellApart ==
    \A a, b \in Keys : Hash[a] = Hash[b] => (Matches(a, b) <=> a = b)

-----------------------------------------------------------------------------
(* The items of a table                                                    *)

\* The value under k, as InTable has it of the table in use.
Under(t, k) ==
    LET At == {s \in DOMAIN t : t[s].dib # 0 /\ t[s].key = k}
    IN  IF At = {} THEN None ELSE t[CHOOSE s \in At : TRUE].val

Holds(t, k, v)  == \E s \in Occupied(t) : t[s].key = k /\ t[s].val = v
HoldsBelow(t, x, k, v) ==
    \E s \in Occupied(t) : s < x /\ t[s].key = k /\ t[s].val = v
Missing(t, k)   == \A s \in Occupied(t) : t[s].key # k
Distinct(t, S)  == \A a, b \in S : t[a].key = t[b].key => a = b
OneValue(t)     == \A a, b \in Occupied(t) : t[a].key = t[b].key => t[a].val = t[b].val

\* None of the buckets between k's home and s holds k.
Passed(t, n, k, s) ==
    \A m \in Occupied(t) :
        Dist(Home(k, n), m, n) < Dist(Home(k, n), s, n) => t[m].key # k

-----------------------------------------------------------------------------
(* What the loops know of the items they have passed                       *)

\* No item is in the table twice, but for the one hashmap_delete has just
\* moved back over the gap and not yet overwritten.
ItemsOnce ==
    /\ Distinct(buckets, Live(buckets, Gap))
    /\ pc = "shift" /\ buckets[i].dib # 0 =>
         \E s \in Live(buckets, Gap) :
            buckets[s].key = buckets[i].key /\ buckets[s].val = buckets[i].val

\* From the moment hashmap_delete takes the item out, the table has none.
ItemOut ==
    pc \in {"shift", "resize", "move"} /\ call.op = "delete" => Missing(buckets, call.key)

\* The call's item is down, in a bucket between which and the loop all are in
\* use: the loop cannot come back to it.
PutDown ==
    \E m \in Occupied(buckets) :
        /\ m # i
        /\ buckets[m].key = call.key /\ buckets[m].val = call.val
        /\ \A x \in 0 .. nbuckets-1 :
             Dist(m, x, nbuckets) < Dist(m, i, nbuckets) => buckets[x].dib # 0

\* hashmap_set carries the call's item past none of its key, or carries one
\* that it has displaced and that is no longer in the table.
Carrying ==
    pc = "insert" =>
        \/ /\ entry.key = call.key /\ entry.val = call.val
           /\ Passed(buckets, nbuckets, call.key, i)
        \/ /\ entry.key # call.key
           /\ Missing(buckets, entry.key)
           /\ PutDown

Searching == pc = "find" => Passed(buckets, nbuckets, call.key, i)

\* The items of the buckets resize has been through are those of the new
\* table and the one it carries.
Moved ==
    pc \in {"resize", "move"} =>
        /\ Distinct(fresh, Occupied(fresh))
        /\ pc = "move" => Missing(fresh, entry.key)
        /\ \A k \in Keys, v \in Vals :
             HoldsBelow(buckets, IF pc = "move" THEN src + 1 ELSE src, k, v)
               <=> \/ Holds(fresh, k, v)
                   \/ pc = "move" /\ entry.key = k /\ entry.val = v

MapInv == ItemsOnce /\ ItemOut /\ Carrying /\ Searching /\ Moved

-----------------------------------------------------------------------------
(* Lemmas on the items of a table                                          *)

\* SameItem is equality of keys.
LEMMA SameItemKey ==
    ASSUME KeysTellApart, NEW k \in Keys, NEW b, b.key \in Keys
    PROVE  SameItem(k, b) <=> k = b.key
BY DEF SameItem, KeysTellApart

LEMMA UnderItem ==
    ASSUME NEW t, OneValue(t), NEW s \in Occupied(t)
    PROVE  Under(t, t[s].key) = t[s].val
<1> DEFINE At == {a \in DOMAIN t : t[a].dib # 0 /\ t[a].key = t[s].key}
<1>1. s \in At
  BY DEF Occupied
<1>2. PICK a : a = (CHOOSE x \in At : TRUE)
  OBVIOUS
<1>3. a \in At
  BY <1>1, <1>2
<1>4. t[a].val = t[s].val
  BY <1>3 DEF OneValue, Occupied
<1>5. At # {}
  BY <1>1
<1> QED
  BY <1>2, <1>4, <1>5 DEF Under

LEMMA UnderMissing ==
    ASSUME NEW t, NEW k, Missing(t, k)
    PROVE  Under(t, k) = None
BY DEF Under, Missing, Occupied

\* Two tables with the same items hold the same map.
LEMMA SameItems ==
    ASSUME NEW n, NEW t, TableType(t, n), OneValue(t),
           NEW m, NEW u, TableType(u, m), OneValue(u),
           NEW k \in Keys, \A v \in Vals : Holds(t, k, v) <=> Holds(u, k, v)
    PROVE  Under(t, k) = Under(u, k)
<1>1. CASE Missing(t, k)
  <2>1. Missing(u, k)
    BY <1>1 DEF Missing, Holds, TableType
  <2> QED
    BY <1>1, <2>1, UnderMissing
<1>2. CASE ~ Missing(t, k)
  <2>1. PICK a \in Occupied(t) : t[a].key = k
    BY <1>2 DEF Missing
  <2>2. t[a].val \in Vals
    BY DEF TableType
  <2>3. Holds(u, k, t[a].val)
    BY <2>1, <2>2 DEF Holds
  <2>4. PICK b \in Occupied(u) : u[b].key = k /\ u[b].val = t[a].val
    BY <2>3 DEF Holds
  <2> QED
    BY <2>1, <2>4, UnderItem
<1> QED
  BY <1>1, <1>2

LEMMA DistinctOneValue ==
    ASSUME NEW t, Distinct(t, Occupied(t))
    PROVE  OneValue(t)
BY DEF Distinct, OneValue

\* Nothing has been passed where the search begins.
LEMMA PassedNone ==
    ASSUME NEW n \in Sizes, NEW t \in [0 .. n-1 -> Bucket], NEW k \in Keys
    PROVE  Passed(t, n, k, Home(k, n))
<1>1. n \in Nat /\ n >= 4 /\ Home(k, n) \in 0 .. n-1 /\ Dist(Home(k, n), Home(k, n), n) = 0
  BY HomeType
<1>2. \A m \in Occupied(t) : Dist(Home(k, n), m, n) \in 0 .. n-1
  BY <1>1, DistType, OccupiedFinite
<1> QED
  BY <1>1, <1>2 DEF Passed

\* One bucket further on.
LEMMA PassedNext ==
    ASSUME NEW n \in Sizes, NEW t \in [0 .. n-1 -> Bucket], NEW k \in Keys,
           NEW j \in 0 .. n-1, Passed(t, n, k, j), t[j].key # k
    PROVE  Passed(t, n, k, NextSlot(j, n))
<1> DEFINE h == Home(k, n)
<1>1. n \in Nat /\ n >= 4 /\ h \in 0 .. n-1
  BY HomeType
<1> HIDE DEF h
<1>2. SUFFICES ASSUME NEW m \in Occupied(t), Dist(h, m, n) < Dist(h, NextSlot(j, n), n)
               PROVE  t[m].key # k
  BY DEF Passed, h
<1>3. m \in 0 .. n-1
  BY DEF Occupied
<1>4. Dist(h, m, n) \in 0 .. n-1 /\ Dist(h, j, n) \in 0 .. n-1
  BY <1>1, <1>3, DistType
<1>5. Dist(h, NextSlot(j, n), n) = Dist(h, j, n) + 1
  <2>1. \/ Dist(h, j, n) < n - 1 /\ Dist(h, NextSlot(j, n), n) = Dist(h, j, n) + 1
        \/ Dist(h, j, n) = n - 1 /\ Dist(h, NextSlot(j, n), n) = 0
    BY <1>1, <1>4, NextSlotDist
  <2> QED
    BY <1>1, <1>2, <1>4, <2>1
<1>6. CASE Dist(h, m, n) < Dist(h, j, n)
  BY <1>6 DEF Passed, h
<1>7. CASE Dist(h, m, n) = Dist(h, j, n)
  <2>1. m = j
    BY <1>1, <1>3, <1>7, DistInjective
  <2> QED
    BY <2>1
<1> QED
  BY <1>1, <1>2, <1>4, <1>5, <1>6, <1>7

\* The search may stop at an empty bucket, and hashmap_set may swap with a
\* bucket nearer its home: the key looked for is not further on.
LEMMA NotFurtherOn ==
    ASSUME NEW n \in Sizes, NEW t, TableOK(t, n, {}), NEW k \in Keys,
           NEW j \in 0 .. n-1, Passed(t, n, k, j),
           t[j].dib = 0 \/ t[j].key # k,
           t[j].dib < Dist(Home(k, n), j, n) + 1
    PROVE  Missing(t, k)
<1> DEFINE h == Home(k, n)
<1>1. n \in Nat /\ n >= 4 /\ h \in 0 .. n-1
  BY HomeType
<1>2. SUFFICES ASSUME NEW s \in Occupied(t), t[s].key = k
               PROVE  FALSE
  BY DEF Missing
<1>3. s \in 0 .. n-1 /\ t \in [0 .. n-1 -> Bucket]
  BY DEF TableOK, TableType, Occupied
<1>4. PathFull(t, n, {}, k, s)
  BY <1>2 DEF TableOK, PathsFull, Live
<1>5. ~ (Dist(h, s, n) < Dist(h, j, n))
  BY <1>2 DEF Passed
<1>6. s # j
  BY <1>2 DEF Occupied
<1> HIDE DEF h
<1>7. Dist(h, s, n) \in 0 .. n-1 /\ Dist(h, j, n) \in 0 .. n-1 /\ Dist(h, s, n) # Dist(h, j, n)
  BY <1>1, <1>3, <1>6, DistType, DistInjective
<1>8. t[j].dib >= Dist(h, j, n) + 1
  BY <1>4, <1>5, <1>7 DEF PathFull, h
<1>9. t[j].dib \in Nat
  BY <1>3 DEF Bucket
<1> QED
  BY <1>7, <1>8, <1>9 DEF h

\* The items of u are those of t and e; with c, they are those of t and e.
Adds(u, t, e) ==
    \A k, v : Holds(u, k, v) <=> Holds(t, k, v) \/ (e.key = k /\ e.val = v)

Trades(u, c, t, e) ==
    \A k, v : Holds(u, k, v) \/ (c.key = k /\ c.val = v)
                <=> Holds(t, k, v) \/ (e.key = k /\ e.val = v)

\* Putting an item down adds it to the items.
LEMMA PlaceItems ==
    ASSUME NEW n \in Nat, NEW t \in [0 .. n-1 -> Bucket], NEW j \in 0 .. n-1, t[j].dib = 0,
           NEW e \in Bucket, e.dib # 0, Distinct(t, Occupied(t)), Missing(t, e.key),
           NEW u, u = [t EXCEPT ![j] = e]
    PROVE  /\ Distinct(u, Occupied(u))
           /\ Adds(u, t, e)
<1>1. /\ u[j] = e /\ \A s \in 0 .. n-1 : s # j => u[s] = t[s]
      /\ DOMAIN t = 0 .. n-1 /\ DOMAIN u = 0 .. n-1
  OBVIOUS
<1>2. Occupied(u) = Occupied(t) \cup {j} /\ j \notin Occupied(t)
  BY <1>1 DEF Occupied
<1>3. \A s \in Occupied(t) : u[s] = t[s]
  BY <1>1, <1>2 DEF Occupied
<1>4. Distinct(u, Occupied(u))
  BY <1>1, <1>2, <1>3 DEF Distinct, Missing
<1>5. Adds(u, t, e)
  BY <1>1, <1>2, <1>3 DEF Adds, Holds
<1> QED
  BY <1>4, <1>5

\* Moving on, swapping or not, keeps the items of the table and the carried
\* one together.
LEMMA SwapItems ==
    ASSUME NEW n \in Nat, NEW t \in [0 .. n-1 -> Bucket], NEW j \in 0 .. n-1, t[j].dib # 0,
           NEW e \in Bucket, e.dib # 0, Distinct(t, Occupied(t)), Missing(t, e.key),
           NEW u, u = SwapAt(t, e, j), NEW c, c = Bump(Carried(t[j], e))
    PROVE  /\ Distinct(u, Occupied(u)) /\ Occupied(u) = Occupied(t)
           /\ Missing(u, c.key)
           /\ Trades(u, c, t, e)
<1>1. CASE t[j].dib < e.dib
  <2>1. u = [t EXCEPT ![j] = e] /\ c.key = t[j].key /\ c.val = t[j].val
    BY <1>1 DEF SwapAt, Settled, Carried, Bump, Bucket
  <2>2. /\ u[j] = e /\ \A s \in 0 .. n-1 : s # j => u[s] = t[s]
        /\ DOMAIN t = 0 .. n-1 /\ DOMAIN u = 0 .. n-1
    BY <2>1
  <2>3. Occupied(u) = Occupied(t) /\ j \in Occupied(t)
    BY <2>2 DEF Occupied
  <2>4. \A s \in Occupied(t) : s # j => u[s] = t[s]
    BY <2>2 DEF Occupied
  <2>5. t[j].key # e.key
    BY <2>3 DEF Missing
  <2>6. Distinct(u, Occupied(u))
    BY <2>2, <2>3, <2>4 DEF Distinct, Missing
  <2>7. Missing(u, c.key)
    BY <2>1, <2>2, <2>3, <2>4, <2>5 DEF Distinct, Missing
  <2>8. Trades(u, c, t, e)
    BY <2>1, <2>2, <2>3, <2>4 DEF Trades, Holds
  <2> QED
    BY <2>3, <2>6, <2>7, <2>8
<1>2. CASE ~ (t[j].dib < e.dib)
  <2>1. u = t /\ c.key = e.key /\ c.val = e.val
    BY <1>2 DEF SwapAt, Settled, Carried, Bump, Bucket
  <2> QED
    BY <2>1 DEF Trades
<1> QED
  BY <1>1, <1>2

-----------------------------------------------------------------------------
(* The map the state stands for                                            *)

ContentsShape ==
    /\ Contents = [k \in Keys |-> Contents[k]]
    /\ pc \in {"idle", "start", "find"} => \A k \in Keys : Contents[k] = Under(buckets, k)
    /\ pc \in {"resize", "move"} /\ call.op = "set" =>
         \A k \in Keys : Contents[k] = Under(buckets, k)
    /\ pc \in {"shift", "resize", "move"} /\ call.op = "delete" =>
         \A k \in Keys : Contents[k] = IF k = call.key THEN spare ELSE Under(buckets, k)
    /\ pc = "insert" /\ entry.key = call.key =>
         \A k \in Keys : Contents[k] = Under(buckets, k)
    /\ pc = "insert" /\ entry.key # call.key =>
         \A k \in Keys : Contents[k] = IF k = call.key THEN None
                                      ELSE IF k = entry.key THEN entry.val
                                      ELSE Under(buckets, k)

LEMMA ContentsLemma == ContentsShape
BY DEF ContentsShape, Contents, InTable, Under

LEMMA ContentsNext == ContentsShape'
BY ContentsLemma, PTL

\* The map is the same when it is the same under every key.
LEMMA SameContents ==
    ASSUME \A k \in Keys : Contents'[k] = Contents[k]
    PROVE  Contents' = Contents
<1>1. Contents = [k \in Keys |-> Contents[k]] /\ Contents' = [k \in Keys |-> Contents'[k]]
  BY ContentsLemma, ContentsNext DEF ContentsShape
<1> QED
  BY <1>1

LEMMA PutContents ==
    ASSUME NEW j \in Keys, NEW v, Contents'[j] = v,
           \A k \in Keys : k # j => Contents'[k] = Contents[k]
    PROVE  Contents' = [Contents EXCEPT ![j] = v]
<1>1. Contents = [k \in Keys |-> Contents[k]] /\ Contents' = [k \in Keys |-> Contents'[k]]
  BY ContentsLemma, ContentsNext DEF ContentsShape
<1> QED
  BY <1>1

\* The abstract step that corresponds to a step of the table.
AbstractStep == [KM!Next]_(KM!vars)

LEMMA Stutters ==
    ASSUME Contents' = Contents, UNCHANGED <<call, ret, oom>>
    PROVE  AbstractStep
BY DEF AbstractStep, KM!vars

\* Outside the backward shift the table has no gap.
LEMMA NoGap ==
    /\ pc # "shift" => (ItemsOnce <=> Distinct(buckets, Occupied(buckets)))
    /\ pc' # "shift" => (ItemsOnce' <=> Distinct(buckets', Occupied(buckets')))
BY DEF ItemsOnce, Gap, Live, Occupied, Distinct

\* What the lemmas on items ask of the table in use.
LEMMA TableFacts ==
    ASSUME IInv, MapInv
    PROVE  /\ nbuckets \in Sizes /\ nbuckets \in Nat /\ nbuckets >= 4
           /\ buckets \in [0 .. nbuckets-1 -> Bucket] /\ TableType(buckets, nbuckets)
           /\ OneValue(buckets)
           /\ pc # "shift" => Distinct(buckets, Occupied(buckets)) /\ TableOK(buckets, nbuckets, {})
           /\ pc # "idle" => call \in Calls
<1>1. /\ nbuckets \in Sizes /\ nbuckets \in Nat /\ nbuckets >= 4
      /\ TableOK(buckets, nbuckets, Gap)
  BY IInvTables
<1>2. buckets \in [0 .. nbuckets-1 -> Bucket] /\ TableType(buckets, nbuckets)
  BY <1>1 DEF TableOK, TableType
<1>3. pc # "shift" => Distinct(buckets, Occupied(buckets)) /\ TableOK(buckets, nbuckets, {})
  BY <1>1, NoGap DEF MapInv, Gap
<1>4. OneValue(buckets)
  <2>1. CASE pc # "shift"
    BY <1>3, <2>1, DistinctOneValue
  <2>2. CASE pc = "shift"
    <3>1. \A s \in Occupied(buckets) :
            \E a \in Live(buckets, Gap) :
               buckets[a].key = buckets[s].key /\ buckets[a].val = buckets[s].val
      BY <2>2 DEF MapInv, ItemsOnce, Live, Gap, Occupied
    <3> QED
      BY <3>1 DEF MapInv, ItemsOnce, Distinct, OneValue
  <2> QED
    BY <2>1, <2>2
<1>5. pc # "idle" => call \in Calls
  BY DEF IInv, TypeOK
<1> QED
  BY <1>1, <1>2, <1>3, <1>4, <1>5

LEMMA InitMapInv == Init => MapInv /\ KM!Init
<1> SUFFICES ASSUME Init PROVE MapInv /\ KM!Init
  OBVIOUS
<1>1. Occupied(buckets) = {}
  BY DEF Init, EmptyTable, EmptyBucket, Occupied
<1>2. MapInv
  BY <1>1 DEF Init, MapInv, ItemsOnce, ItemOut, Carrying, Searching, Moved, Distinct, Live, Gap
<1>3. \A k \in Keys : Contents[k] = None
  BY <1>1, ContentsLemma, UnderMissing DEF Init, ContentsShape, Missing
<1>4. Contents = [k \in Keys |-> None]
  BY <1>3, ContentsLemma DEF ContentsShape
<1> QED
  BY <1>2, <1>4 DEF KM!Init, Init, NoCall

\* A call is made.
LEMMA InvokeMap ==
    ASSUME IInv, MapInv, NEW c \in Calls, Invoke(c)
    PROVE  MapInv' /\ AbstractStep
<1>1. pc = "idle" /\ pc' = "start" /\ buckets' = buckets
  BY DEF Invoke
<1>2. MapInv'
  BY <1>1, NoGap DEF MapInv, ItemOut, Carrying, Searching, Moved
<1>3. Contents' = Contents
  BY <1>1, ContentsLemma, ContentsNext, SameContents DEF ContentsShape
<1>4. KM!Invoke(c)
  BY <1>1, <1>3 DEF KM!Invoke, Invoke, IInv, TypeOK, NoCall
<1> QED
  BY <1>2, <1>4 DEF AbstractStep, KM!Next, Calls

\* hashmap_set begins: it looks for the key's place, or for a larger table.
LEMMA SetStartMap ==
    ASSUME IInv, MapInv, SetStart \/ SetGrows \/ SetOutOfMemory
    PROVE  MapInv' /\ AbstractStep
<1> USE DEF mapVars
<1>1. /\ pc = "start" /\ call.op = "set" /\ pc' # "shift"
      /\ buckets' = buckets /\ nbuckets' = nbuckets
  BY DEF SetStart, SetGrows, SetOutOfMemory, BeginResize, Return
<1>2. ItemsOnce'
  BY <1>1, NoGap DEF MapInv
<1>3. /\ nbuckets \in Sizes /\ buckets \in [0 .. nbuckets-1 -> Bucket]
      /\ call.key \in Keys
  BY <1>1, TableFacts DEF Calls, KM!Calls
<1>4. CASE SetStart
  <2>1. /\ pc' = "insert" /\ call' = call /\ i' = Home(call.key, nbuckets)
        /\ entry'.key = call.key /\ entry'.val = call.val
    BY <1>4 DEF SetStart, NewEntry
  <2>2. Passed(buckets, nbuckets, call.key, Home(call.key, nbuckets))
    BY <1>3, PassedNone
  <2>3. MapInv'
    BY <1>1, <1>2, <2>1, <2>2 DEF MapInv, ItemOut, Carrying, Searching, Moved
  <2>4. Contents' = Contents
    BY <1>1, <2>1, ContentsLemma, ContentsNext, SameContents DEF ContentsShape
  <2> QED
    BY <1>4, <2>3, <2>4, Stutters DEF SetStart
<1>5. CASE SetGrows
  <2>1. /\ pc' = "resize" /\ call' = call /\ src' = 0 /\ Occupied(fresh') = {}
    BY <1>5, EmptyTableOK, SizesAssumption DEF SetGrows, BeginResize
  <2>2. \A k, v : ~ HoldsBelow(buckets, 0, k, v)
    BY <1>3 DEF HoldsBelow, Occupied
  <2>3. MapInv'
    BY <1>1, <1>2, <2>1, <2>2
      DEF MapInv, ItemOut, Carrying, Searching, Moved, Distinct, Holds
  <2>4. Contents' = Contents
    BY <1>1, <2>1, ContentsLemma, ContentsNext, SameContents DEF ContentsShape
  <2> QED
    BY <1>5, <2>1, <2>3, <2>4, Stutters DEF SetGrows, BeginResize
<1>6. CASE SetOutOfMemory
  <2>1. pc' = "idle" /\ call' = NoCall /\ ret' = None /\ oom' = TRUE
    BY <1>6 DEF SetOutOfMemory, Return
  <2>2. MapInv'
    BY <1>2, <2>1 DEF MapInv, ItemOut, Carrying, Searching, Moved
  <2>3. Contents' = Contents
    BY <1>1, <2>1, ContentsLemma, ContentsNext, SameContents DEF ContentsShape
  <2>4. KM!PutFails
    BY <1>1, <2>1, <2>3 DEF KM!PutFails, NoCall
  <2> QED
    BY <2>2, <2>4 DEF AbstractStep, KM!Next
<1> QED
  BY <1>4, <1>5, <1>6

\* The answer of a map that holds v under k.
LEMMA UnderHolds ==
    ASSUME NEW t, OneValue(t), NEW k, NEW v, Holds(t, k, v)
    PROVE  Under(t, k) = v
BY UnderItem DEF Holds

\* The item hashmap_set carries is nowhere in the table when it finds an empty
\* bucket or swaps.
LEMMA CarriedMissing ==
    ASSUME KeysTellApart, IInv, MapInv, pc = "insert",
           buckets[i].dib = 0 \/ (~ SameItem(entry.key, buckets[i]) /\ buckets[i].dib < entry.dib)
    PROVE  Missing(buckets, entry.key)
<1>1. /\ nbuckets \in Sizes /\ TableOK(buckets, nbuckets, {}) /\ nbuckets \in Nat
      /\ EntryOK(entry, i, buckets, nbuckets) /\ TableType(buckets, nbuckets)
  BY TableFacts, IInvTables
<1>2. CASE entry.key = call.key
  <2>1. Passed(buckets, nbuckets, entry.key, i)
    BY <1>2 DEF MapInv, Carrying
  <2>2. buckets[i].dib = 0 \/ buckets[i].key # entry.key
    BY <1>1, SameItemKey DEF EntryOK, TableType, Occupied
  <2>3. entry.key \in Keys /\ i \in 0 .. nbuckets-1
    BY <1>1 DEF EntryOK
  <2>4. Dist(Home(entry.key, nbuckets), i, nbuckets) \in Nat
    <3>1. Home(entry.key, nbuckets) \in 0 .. nbuckets-1
      BY <1>1, <2>3, HomeType
    <3> QED
      BY <1>1, <2>3, <3>1, DistType
  <2>5. buckets[i].dib < Dist(Home(entry.key, nbuckets), i, nbuckets) + 1
    BY <1>1, <2>4 DEF EntryOK, OnItsWay
  <2> QED
    BY <1>1, <2>1, <2>2, <2>3, <2>5, NotFurtherOn
<1>3. CASE entry.key # call.key
  BY <1>3 DEF MapInv, Carrying
<1> QED
  BY <1>2, <1>3

LEMMA EntryFacts ==
    ASSUME IInv, MapInv, pc = "insert"
    PROVE  /\ entry \in Bucket /\ entry.key \in Keys /\ entry.val \in Vals /\ entry.dib # 0
           /\ i \in 0 .. nbuckets-1
           /\ call.op = "set" /\ call.key \in Keys /\ call.val \in Vals
<1>1. nbuckets \in Sizes /\ nbuckets \in Nat /\ EntryOK(entry, i, buckets, nbuckets)
  BY TableFacts, IInvTables
<1>2. /\ entry \in Bucket /\ entry.key \in Keys /\ entry.val \in Vals /\ i \in 0 .. nbuckets-1
      /\ entry.dib = Dist(Home(entry.key, nbuckets), i, nbuckets) + 1
  BY <1>1 DEF EntryOK, OnItsWay
<1>3. Dist(Home(entry.key, nbuckets), i, nbuckets) \in Nat
  <2>1. Home(entry.key, nbuckets) \in 0 .. nbuckets-1
    BY <1>1, <1>2, HomeType
  <2> QED
    BY <1>1, <1>2, <2>1, DistType
<1>4. call.op = "set" /\ call.key \in Keys /\ call.val \in Vals
  BY DEF IInv, TypeOK, Calls, KM!Calls, NoCall, KM!NoCall
<1> QED
  BY <1>2, <1>3, <1>4

\* The item carried is put down: the set takes effect.
LEMMA SetPlacesMap ==
    ASSUME KeysTellApart, IInv, MapInv, IInv', SetPlaces
    PROVE  MapInv' /\ AbstractStep
<1>1. /\ pc = "insert" /\ buckets[i].dib = 0 /\ buckets' = [buckets EXCEPT ![i] = entry]
      /\ nbuckets' = nbuckets
      /\ pc' = "idle" /\ call' = NoCall /\ ret' = None /\ oom' = oom
  BY DEF SetPlaces, Return
<1>2. /\ nbuckets \in Sizes /\ nbuckets \in Nat /\ buckets \in [0 .. nbuckets-1 -> Bucket]
      /\ Distinct(buckets, Occupied(buckets)) /\ OneValue(buckets)
      /\ TableType(buckets, nbuckets)
  BY <1>1, TableFacts
<1>3. /\ entry \in Bucket /\ entry.key \in Keys /\ entry.val \in Vals /\ entry.dib # 0
      /\ i \in 0 .. nbuckets-1
      /\ call.op = "set" /\ call.key \in Keys /\ call.val \in Vals
  BY <1>1, EntryFacts
<1>4. Missing(buckets, entry.key)
  BY <1>1, CarriedMissing
<1>5. Distinct(buckets', Occupied(buckets')) /\ Adds(buckets', buckets, entry)
  BY <1>1, <1>2, <1>3, <1>4, PlaceItems
<1>6. MapInv'
  BY <1>1, <1>5, NoGap DEF MapInv, ItemOut, Carrying, Searching, Moved
<1>7. OneValue(buckets') /\ TableType(buckets', nbuckets)
  BY <1>1, <1>5, DistinctOneValue DEF IInv, TypeOK, TableType
<1>8. \A k \in Keys : Contents'[k] = Under(buckets', k)
  BY <1>1, ContentsNext DEF ContentsShape
<1>9. Under(buckets', entry.key) = entry.val
  BY <1>5, <1>7, UnderHolds DEF Adds
<1>10. ASSUME NEW k \in Keys, k # entry.key
       PROVE  Under(buckets', k) = Under(buckets, k)
  <2>1. \A v \in Vals : Holds(buckets', k, v) <=> Holds(buckets, k, v)
    BY <1>5, <1>10 DEF Adds
  <2> QED
    BY <1>2, <1>7, <2>1, SameItems
<1>11. CASE entry.key = call.key
  <2>1. \A k \in Keys : Contents[k] = Under(buckets, k)
    BY <1>1, <1>11, ContentsLemma DEF ContentsShape
  <2>2. Contents[call.key] = None
    BY <1>3, <1>4, <1>11, <2>1, UnderMissing
  <2>3. entry.val = call.val
    BY <1>1, <1>11 DEF MapInv, Carrying
  <2>4. Contents' = [Contents EXCEPT ![call.key] = call.val]
    BY <1>3, <1>8, <1>9, <1>10, <1>11, <2>1, <2>3, PutContents
  <2>5. KM!Put
    BY <1>1, <1>3, <2>2, <2>4 DEF KM!Put, NoCall
  <2> QED
    BY <1>6, <2>5 DEF AbstractStep, KM!Next
<1>12. CASE entry.key # call.key
  <2>1. /\ Contents[call.key] = None
        /\ Contents[entry.key] = entry.val
        /\ \A k \in Keys : k # call.key /\ k # entry.key => Contents[k] = Under(buckets, k)
    BY <1>1, <1>3, <1>12, ContentsLemma DEF ContentsShape
  <2>2. Holds(buckets, call.key, call.val)
    BY <1>1, <1>12 DEF MapInv, Carrying, PutDown, Holds
  <2>3. Under(buckets', call.key) = call.val
    BY <1>5, <1>7, <2>2, UnderHolds DEF Adds
  <2>4. Contents' = [Contents EXCEPT ![call.key] = call.val]
    BY <1>3, <1>8, <1>9, <1>10, <2>1, <2>3, PutContents
  <2>5. KM!Put
    BY <1>1, <1>3, <2>1, <2>4 DEF KM!Put, NoCall
  <2> QED
    BY <1>6, <2>5 DEF AbstractStep, KM!Next
<1> QED
  BY <1>11, <1>12

\* The item of the same key is replaced: the set takes effect.
LEMMA SetReplacesMap ==
    ASSUME KeysTellApart, IInv, MapInv, IInv', SetReplaces
    PROVE  MapInv' /\ AbstractStep
<1>1. /\ pc = "insert" /\ buckets[i].dib # 0 /\ SameItem(entry.key, buckets[i])
      /\ buckets' = [buckets EXCEPT ![i].key = entry.key, ![i].val = entry.val]
      /\ nbuckets' = nbuckets
      /\ pc' = "idle" /\ call' = NoCall /\ ret' = buckets[i].val /\ oom' = oom
  BY DEF SetReplaces, Return
<1>2. /\ nbuckets \in Sizes /\ nbuckets \in Nat /\ buckets \in [0 .. nbuckets-1 -> Bucket]
      /\ Distinct(buckets, Occupied(buckets)) /\ OneValue(buckets)
      /\ TableType(buckets, nbuckets)
  BY <1>1, TableFacts
<1>3. /\ entry \in Bucket /\ entry.key \in Keys /\ entry.val \in Vals /\ entry.dib # 0
      /\ i \in 0 .. nbuckets-1
      /\ call.op = "set" /\ call.key \in Keys /\ call.val \in Vals
  BY <1>1, EntryFacts
<1>4. i \in Occupied(buckets)
  BY <1>1, <1>2, <1>3 DEF Occupied
<1>5. buckets[i].key = entry.key
  BY <1>1, <1>2, <1>3, <1>4, SameItemKey DEF TableType
<1>6. entry.key = call.key /\ entry.val = call.val
  BY <1>1, <1>4, <1>5 DEF MapInv, Carrying, Missing
<1>7. /\ Occupied(buckets') = Occupied(buckets)
      /\ \A s \in Occupied(buckets) :
           /\ buckets'[s].key = buckets[s].key
           /\ s # i => buckets'[s].val = buckets[s].val
      /\ buckets'[i].val = call.val
  BY <1>1, <1>2, <1>3, <1>5, <1>6 DEF Occupied, Bucket
<1>8. Distinct(buckets', Occupied(buckets'))
  BY <1>2, <1>7 DEF Distinct
<1>9. MapInv'
  BY <1>1, <1>8, NoGap DEF MapInv, ItemOut, Carrying, Searching, Moved
<1>10. OneValue(buckets') /\ TableType(buckets', nbuckets)
  BY <1>1, <1>8, DistinctOneValue DEF IInv, TypeOK, TableType
<1>11. \A k \in Keys : Contents[k] = Under(buckets, k) /\ Contents'[k] = Under(buckets', k)
  BY <1>1, <1>6, ContentsLemma, ContentsNext DEF ContentsShape
<1>12. Contents[call.key] = buckets[i].val
  BY <1>2, <1>3, <1>4, <1>5, <1>6, <1>11, UnderItem
<1>13. Contents'[call.key] = call.val
  <2>1. Holds(buckets', call.key, call.val)
    BY <1>4, <1>5, <1>6, <1>7 DEF Holds
  <2>2. Under(buckets', call.key) = call.val
    BY <1>10, <2>1, UnderHolds
  <2> QED
    BY <1>3, <1>11, <2>2
<1>14. ASSUME NEW k \in Keys, k # call.key
       PROVE  Contents'[k] = Contents[k]
  <2>1. \A v \in Vals : Holds(buckets', k, v) <=> Holds(buckets, k, v)
    BY <1>4, <1>5, <1>6, <1>7, <1>14 DEF Holds
  <2> QED
    BY <1>2, <1>10, <1>11, <2>1, SameItems
<1>15. Contents' = [Contents EXCEPT ![call.key] = call.val]
  BY <1>3, <1>13, <1>14, PutContents
<1>16. KM!Put
  BY <1>1, <1>3, <1>12, <1>15 DEF KM!Put, NoCall
<1> QED
  BY <1>9, <1>16 DEF AbstractStep, KM!Next

\* The value under k of a table and a carried item is kept by a trade.
LEMMA TradeValue ==
    ASSUME NEW n, NEW t, TableType(t, n), OneValue(t), NEW u, TableType(u, n), OneValue(u),
           NEW e, e.val \in Vals, Missing(t, e.key), NEW c, c.val \in Vals, Missing(u, c.key),
           Trades(u, c, t, e), NEW k \in Keys
    PROVE  (IF k = c.key THEN c.val ELSE Under(u, k)) = (IF k = e.key THEN e.val ELSE Under(t, k))
<1>1. \A v : ~ Holds(t, e.key, v) /\ ~ Holds(u, c.key, v)
  BY DEF Missing, Holds
<1>2. CASE k = c.key /\ k = e.key
  BY <1>1, <1>2 DEF Trades
<1>3. CASE k = c.key /\ k # e.key
  <2>1. Holds(t, k, c.val)
    BY <1>3 DEF Trades
  <2> QED
    BY <1>3, <2>1, UnderHolds
<1>4. CASE k # c.key /\ k = e.key
  <2>1. Holds(u, k, e.val)
    BY <1>4 DEF Trades
  <2> QED
    BY <1>4, <2>1, UnderHolds
<1>5. CASE k # c.key /\ k # e.key
  <2>1. \A v \in Vals : Holds(u, k, v) <=> Holds(t, k, v)
    BY <1>5 DEF Trades
  <2>2. Under(u, k) = Under(t, k)
    BY <2>1, SameItems
  <2> QED
    BY <1>5, <2>2
<1> QED
  BY <1>2, <1>3, <1>4, <1>5

\* A table with room has an empty bucket.
LEMMA SomeEmpty ==
    ASSUME IInv, pc = "insert"
    PROVE  \E x \in 0 .. nbuckets-1 : buckets[x].dib = 0
<1>1. /\ nbuckets \in Sizes /\ nbuckets \in Nat /\ nbuckets >= 4 /\ Gap = {}
      /\ buckets \in [0 .. nbuckets-1 -> Bucket]
      /\ count \in Nat /\ count < GrowAt(nbuckets)
  BY IInvTables DEF Gap, IInv, TypeOK, GrowRoom
<1>2. Cardinality(Occupied(buckets)) < nbuckets
  BY <1>1, GrowAtRoom DEF IInv, CountExact, Live
<1>3. SUFFICES ASSUME \A x \in 0 .. nbuckets-1 : buckets[x].dib # 0
               PROVE  FALSE
  OBVIOUS
<1>4. Occupied(buckets) = 0 .. nbuckets-1
  BY <1>1, <1>3 DEF Occupied
<1>5. Cardinality(0 .. nbuckets-1) = nbuckets
  <2>1. 0 \in Int /\ nbuckets-1 \in Int /\ ~ (0 > nbuckets-1) /\ (nbuckets-1) - 0 + 1 = nbuckets
    BY <1>1
  <2> QED
    BY <2>1, FS_Interval, Zenon
<1> QED
  BY <1>1, <1>2, <1>4, <1>5

\* The loop does not come back to where it has put the call's item down.
LEMMA PutDownNext ==
    ASSUME IInv, MapInv, pc = "insert", buckets[i].dib # 0,
           NEW m \in 0 .. nbuckets-1, m # i,
           \A x \in 0 .. nbuckets-1 :
              Dist(m, x, nbuckets) < Dist(m, i, nbuckets) => buckets[x].dib # 0
    PROVE  /\ m # NextSlot(i, nbuckets)
           /\ \A x \in 0 .. nbuckets-1 :
                Dist(m, x, nbuckets) < Dist(m, NextSlot(i, nbuckets), nbuckets) => buckets[x].dib # 0
<1> DEFINE n == nbuckets
           D(x) == Dist(m, x, n)
           j == NextSlot(i, n)
<1>1. n \in Nat /\ n >= 4 /\ i \in 0 .. n-1
  BY TableFacts, EntryFacts
<1> HIDE DEF n
<1>2. \A x \in 0 .. n-1 : D(x) \in 0 .. n-1
  BY <1>1, DistType DEF n
<1>3. \A x \in 0 .. n-1 : D(x) <= D(i) => buckets[x].dib # 0
  <2> TAKE x \in 0 .. n-1
  <2>1. CASE D(x) < D(i)
    BY <2>1 DEF n
  <2>2. CASE D(x) = D(i)
    <3>1. x = i
      BY <1>1, <2>2, DistInjective DEF n
    <3> QED
      BY <3>1
  <2> QED
    BY <1>1, <1>2, <2>1, <2>2
<1>4. D(i) # n - 1
  BY <1>1, <1>2, <1>3, SomeEmpty DEF n
<1>5. D(j) = D(i) + 1 /\ j \in 0 .. n-1
  <2>1. D(i) < n - 1
    BY <1>1, <1>2, <1>4
  <2> QED
    BY <1>1, <2>1, NextSlotDist DEF n
<1>6. D(m) = 0
  BY <1>1 DEF Dist, n
<1>7. m # j
  BY <1>1, <1>2, <1>5, <1>6
<1>8. \A x \in 0 .. n-1 : D(x) < D(j) => buckets[x].dib # 0
  BY <1>1, <1>2, <1>3, <1>5
<1> QED
  BY <1>7, <1>8 DEF n

\* The loop of hashmap_set goes on: the map stays as it is.
LEMMA SetMovesOnMap ==
    ASSUME KeysTellApart, IInv, MapInv, IInv', SetMovesOn
    PROVE  MapInv' /\ AbstractStep
<1> DEFINE n == nbuckets
<1>1. /\ pc = "insert" /\ buckets[i].dib # 0 /\ ~ SameItem(entry.key, buckets[i])
      /\ buckets' = SwapAt(buckets, entry, i)
      /\ entry' = Bump(Carried(buckets[i], entry))
      /\ i' = NextSlot(i, nbuckets)
      /\ nbuckets' = nbuckets /\ pc' = "insert"
      /\ UNCHANGED <<call, ret, oom>>
  BY DEF SetMovesOn, SwapAt
<1>2. /\ nbuckets \in Sizes /\ nbuckets \in Nat /\ nbuckets >= 4
      /\ buckets \in [0 .. nbuckets-1 -> Bucket]
      /\ Distinct(buckets, Occupied(buckets)) /\ OneValue(buckets)
      /\ TableType(buckets, nbuckets)
  BY <1>1, TableFacts
<1>3. /\ entry \in Bucket /\ entry.key \in Keys /\ entry.val \in Vals /\ entry.dib # 0
      /\ i \in 0 .. nbuckets-1
      /\ call.op = "set" /\ call.key \in Keys /\ call.val \in Vals
  BY <1>1, EntryFacts
<1>4. /\ i \in Occupied(buckets) /\ buckets[i].key \in Keys /\ buckets[i].val \in Vals
      /\ buckets[i].key # entry.key
  BY <1>1, <1>2, <1>3, SameItemKey DEF TableType, Occupied
<1>5. CASE entry.key = call.key /\ ~ (buckets[i].dib < entry.dib)
  <2>1. buckets' = buckets /\ entry'.key = entry.key /\ entry'.val = entry.val
    BY <1>1, <1>2, <1>3, <1>5 DEF SwapAt, Settled, Carried, Bump, Bucket
  <2>2. entry.val = call.val /\ Passed(buckets, nbuckets, call.key, i)
    BY <1>1, <1>5 DEF MapInv, Carrying
  <2>3. Passed(buckets, nbuckets, call.key, NextSlot(i, nbuckets))
    BY <1>2, <1>3, <1>4, <1>5, <2>2, PassedNext
  <2>4. MapInv'
    BY <1>1, <1>2, <1>5, <2>1, <2>2, <2>3, NoGap DEF MapInv, ItemOut, Carrying, Searching, Moved
  <2>5. Contents' = Contents
    BY <1>1, <1>5, <2>1, ContentsLemma, ContentsNext, SameContents DEF ContentsShape
  <2> QED
    BY <1>1, <2>4, <2>5, Stutters
<1>6. CASE entry.key # call.key \/ buckets[i].dib < entry.dib
  <2>1. Missing(buckets, entry.key)
    BY <1>1, <1>6, CarriedMissing DEF MapInv, Carrying
  <2>2. /\ Distinct(buckets', Occupied(buckets')) /\ Occupied(buckets') = Occupied(buckets)
        /\ Missing(buckets', entry'.key)
        /\ Trades(buckets', entry', buckets, entry)
    BY <1>1, <1>2, <1>3, <2>1, SwapItems
  <2>3. entry'.key # call.key
    <3>1. CASE buckets[i].dib < entry.dib
      <4>1. entry'.key = buckets[i].key
        BY <1>1, <1>2, <1>3, <3>1 DEF Carried, Bump, Bucket
      <4>2. CASE entry.key = call.key
        BY <1>4, <4>1, <4>2
      <4>3. CASE entry.key # call.key
        BY <1>1, <1>2, <1>4, <4>1, <4>3 DEF MapInv, Carrying, PutDown, Distinct
      <4> QED
        BY <4>2, <4>3
    <3>2. CASE ~ (buckets[i].dib < entry.dib)
      <4>1. entry'.key = entry.key
        BY <1>1, <1>2, <1>3, <3>2 DEF Carried, Bump, Bucket
      <4> QED
        BY <1>6, <3>2, <4>1
    <3> QED
      BY <3>1, <3>2
  <2>4. PutDown'
    <3>1. CASE entry.key = call.key
      <4>1. buckets'[i] = entry
        BY <1>1, <1>2, <1>3, <1>6, <3>1 DEF SwapAt, Settled
      <4>2. entry.val = call.val
        BY <1>1, <3>1 DEF MapInv, Carrying
      <4>3. /\ NextSlot(i, nbuckets) # i
            /\ \A x \in 0 .. nbuckets-1 :
                 Dist(i, x, nbuckets) < Dist(i, NextSlot(i, nbuckets), nbuckets) => x = i
        BY <1>2, <1>3 DEF NextSlot, Dist
      <4>4. i \in Occupied(buckets')
        BY <1>4, <2>2
      <4>5. buckets'[i].dib # 0
        BY <1>3, <4>1
      <4> QED
        BY <1>1, <3>1, <4>1, <4>2, <4>3, <4>4, <4>5 DEF PutDown
    <3>2. CASE entry.key # call.key
      <4>1. PICK m \in Occupied(buckets) :
              /\ m # i
              /\ buckets[m].key = call.key /\ buckets[m].val = call.val
              /\ \A x \in 0 .. nbuckets-1 :
                   Dist(m, x, nbuckets) < Dist(m, i, nbuckets) => buckets[x].dib # 0
        BY <1>1, <3>2 DEF MapInv, Carrying, PutDown
      <4>2. m \in 0 .. nbuckets-1
        BY <1>2 DEF Occupied
      <4>3. /\ m # NextSlot(i, nbuckets)
            /\ \A x \in 0 .. nbuckets-1 :
                 Dist(m, x, nbuckets) < Dist(m, NextSlot(i, nbuckets), nbuckets) => buckets[x].dib # 0
        BY <1>1, <4>1, <4>2, PutDownNext
      <4>4. buckets'[m] = buckets[m]
        BY <1>1, <1>2, <4>1, <4>2 DEF SwapAt
      <4>5. \A x \in 0 .. nbuckets-1 : buckets[x].dib # 0 => buckets'[x].dib # 0
        BY <1>2, <1>1, <2>2 DEF Occupied, SwapAt
      <4> QED
        BY <1>1, <2>2, <4>1, <4>3, <4>4, <4>5 DEF PutDown
    <3> QED
      BY <3>1, <3>2
  <2>5. MapInv'
    BY <1>1, <2>2, <2>3, <2>4, NoGap DEF MapInv, ItemOut, Carrying, Searching, Moved
  <2>6. /\ OneValue(buckets') /\ TableType(buckets', nbuckets)
        /\ entry'.val \in Vals
    BY <1>1, <2>2, DistinctOneValue DEF IInv, TypeOK, TableType
  <2>7. \A k \in Keys : (IF k = entry'.key THEN entry'.val ELSE Under(buckets', k))
                          = (IF k = entry.key THEN entry.val ELSE Under(buckets, k))
    BY <1>2, <1>3, <2>1, <2>2, <2>6, TradeValue
  <2>8. \A k \in Keys : Contents'[k] = IF k = call.key THEN None
                                       ELSE IF k = entry'.key THEN entry'.val
                                       ELSE Under(buckets', k)
    BY <1>1, <2>3, ContentsNext DEF ContentsShape
  <2>9. \A k \in Keys : Contents[k] = IF k = call.key THEN None
                                      ELSE IF k = entry.key THEN entry.val
                                      ELSE Under(buckets, k)
    <3>1. CASE entry.key = call.key
      BY <1>1, <2>1, <3>1, ContentsLemma, UnderMissing DEF ContentsShape
    <3>2. CASE entry.key # call.key
      BY <1>1, <3>2, ContentsLemma DEF ContentsShape
    <3> QED
      BY <3>1, <3>2
  <2>10. Contents' = Contents
    BY <2>7, <2>8, <2>9, SameContents
  <2> QED
    BY <1>1, <2>5, <2>10, Stutters
<1> QED
  BY <1>5, <1>6

\* hashmap_get and hashmap_delete begin to look for the key.
LEMMA FindStartMap ==
    ASSUME IInv, MapInv, FindStart
    PROVE  MapInv' /\ AbstractStep
<1>1. /\ pc = "start" /\ pc' = "find" /\ i' = Home(call.key, nbuckets)
      /\ call.op \in {"get", "delete"}
      /\ UNCHANGED <<buckets, nbuckets, call, ret, oom>>
  BY DEF FindStart, mapVars
<1>2. /\ nbuckets \in Sizes /\ buckets \in [0 .. nbuckets-1 -> Bucket] /\ call.key \in Keys
  BY <1>1, TableFacts DEF Calls, KM!Calls
<1>3. Passed(buckets, nbuckets, call.key, Home(call.key, nbuckets))
  BY <1>2, PassedNone
<1>4. MapInv'
  BY <1>1, <1>3, NoGap DEF MapInv, ItemOut, Carrying, Searching, Moved
<1>5. Contents' = Contents
  BY <1>1, ContentsLemma, ContentsNext, SameContents DEF ContentsShape
<1> QED
  BY <1>1, <1>4, <1>5, Stutters

LEMMA FindFacts ==
    ASSUME KeysTellApart, IInv, MapInv, pc = "find"
    PROVE  /\ call.op \in {"get", "delete"} /\ call.key \in Keys /\ i \in 0 .. nbuckets-1
           /\ Contents[call.key] = Under(buckets, call.key)
           /\ Passed(buckets, nbuckets, call.key, i)
           /\ buckets[i].dib # 0 =>
                /\ i \in Occupied(buckets)
                /\ SameItem(call.key, buckets[i]) <=> buckets[i].key = call.key
<1>1. call.op \in {"get", "delete"} /\ call.key \in Keys /\ i \in 0 .. nbuckets-1
  BY DEF IInv, TypeOK, Calls, KM!Calls, NoCall, KM!NoCall
<1>2. Contents[call.key] = Under(buckets, call.key)
  BY <1>1, ContentsLemma DEF ContentsShape
<1>3. TableType(buckets, nbuckets) /\ buckets \in [0 .. nbuckets-1 -> Bucket]
  BY TableFacts
<1>4. buckets[i].dib # 0 => i \in Occupied(buckets) /\ buckets[i].key \in Keys
  BY <1>1, <1>3 DEF Occupied, TableType
<1>5. buckets[i].dib # 0 => (SameItem(call.key, buckets[i]) <=> buckets[i].key = call.key)
  BY <1>1, <1>4, SameItemKey
<1> QED
  BY <1>1, <1>2, <1>4, <1>5 DEF MapInv, Searching

\* An empty bucket: there is no such item, and the call says so.
LEMMA FindMissesMap ==
    ASSUME KeysTellApart, IInv, MapInv, FindMisses
    PROVE  MapInv' /\ AbstractStep
<1>1. /\ pc = "find" /\ buckets[i].dib = 0 /\ pc' = "idle" /\ call' = NoCall /\ ret' = None
      /\ UNCHANGED <<buckets, nbuckets, oom>>
  BY DEF FindMisses, Return, mapVars
<1>2. /\ nbuckets \in Sizes /\ nbuckets \in Nat /\ TableOK(buckets, nbuckets, {})
      /\ Distinct(buckets, Occupied(buckets))
  BY <1>1, TableFacts
<1>3. /\ call.op \in {"get", "delete"} /\ call.key \in Keys /\ i \in 0 .. nbuckets-1
      /\ Contents[call.key] = Under(buckets, call.key)
      /\ Passed(buckets, nbuckets, call.key, i)
  BY <1>1, FindFacts
<1>4. Missing(buckets, call.key)
  <2>1. Home(call.key, nbuckets) \in 0 .. nbuckets-1
    BY <1>2, <1>3, HomeType
  <2>2. Dist(Home(call.key, nbuckets), i, nbuckets) \in 0 .. nbuckets-1
    BY <1>2, <1>3, <2>1, DistType
  <2>3. buckets[i].dib < Dist(Home(call.key, nbuckets), i, nbuckets) + 1
    BY <1>1, <1>2, <2>2
  <2> QED
    BY <1>1, <1>2, <1>3, <2>3, NotFurtherOn
<1>5. Contents[call.key] = None
  BY <1>3, <1>4, UnderMissing
<1>6. MapInv'
  BY <1>1, <1>2, NoGap DEF MapInv, ItemOut, Carrying, Searching, Moved
<1>7. \A k \in Keys : Contents'[k] = Contents[k]
  BY <1>1, ContentsLemma, ContentsNext DEF ContentsShape
<1>8. CASE call.op = "get"
  <2>1. Contents' = Contents
    BY <1>7, SameContents
  <2>2. KM!Lookup
    BY <1>1, <1>5, <1>8, <2>1 DEF KM!Lookup, NoCall
  <2> QED
    BY <1>6, <2>2 DEF AbstractStep, KM!Next
<1>9. CASE call.op = "delete"
  <2>1. Contents' = [Contents EXCEPT ![call.key] = None]
    BY <1>3, <1>5, <1>7, PutContents
  <2>2. KM!Remove
    BY <1>1, <1>5, <1>9, <2>1 DEF KM!Remove, NoCall
  <2> QED
    BY <1>6, <2>2 DEF AbstractStep, KM!Next
<1> QED
  BY <1>3, <1>8, <1>9

LEMMA FindMovesOnMap ==
    ASSUME KeysTellApart, IInv, MapInv, FindMovesOn
    PROVE  MapInv' /\ AbstractStep
<1>1. /\ pc = "find" /\ buckets[i].dib # 0 /\ ~ SameItem(call.key, buckets[i])
      /\ pc' = "find" /\ i' = NextSlot(i, nbuckets)
      /\ UNCHANGED <<buckets, nbuckets, call, ret, oom>>
  BY DEF FindMovesOn, mapVars
<1>2. /\ nbuckets \in Sizes /\ buckets \in [0 .. nbuckets-1 -> Bucket]
      /\ Distinct(buckets, Occupied(buckets))
  BY <1>1, TableFacts
<1>3. /\ call.key \in Keys /\ i \in 0 .. nbuckets-1
      /\ Passed(buckets, nbuckets, call.key, i)
      /\ buckets[i].key # call.key
  BY <1>1, FindFacts
<1>4. Passed(buckets, nbuckets, call.key, NextSlot(i, nbuckets))
  BY <1>2, <1>3, PassedNext
<1>5. MapInv'
  BY <1>1, <1>2, <1>4, NoGap DEF MapInv, ItemOut, Carrying, Searching, Moved
<1>6. Contents' = Contents
  BY <1>1, ContentsLemma, ContentsNext, SameContents DEF ContentsShape
<1> QED
  BY <1>1, <1>5, <1>6, Stutters

\* The item is found and answered.
LEMMA GetHitsMap ==
    ASSUME KeysTellApart, IInv, MapInv, GetHits
    PROVE  MapInv' /\ AbstractStep
<1>1. /\ pc = "find" /\ call.op = "get" /\ buckets[i].dib # 0 /\ SameItem(call.key, buckets[i])
      /\ pc' = "idle" /\ call' = NoCall /\ ret' = buckets[i].val
      /\ UNCHANGED <<buckets, nbuckets, oom>>
  BY DEF GetHits, Return, mapVars
<1>2. OneValue(buckets) /\ Distinct(buckets, Occupied(buckets))
  BY <1>1, TableFacts
<1>3. /\ Contents[call.key] = Under(buckets, call.key)
      /\ i \in Occupied(buckets) /\ buckets[i].key = call.key
  BY <1>1, FindFacts
<1>4. Contents[call.key] = buckets[i].val
  BY <1>2, <1>3, UnderItem
<1>5. MapInv'
  BY <1>1, <1>2, NoGap DEF MapInv, ItemOut, Carrying, Searching, Moved
<1>6. Contents' = Contents
  BY <1>1, ContentsLemma, ContentsNext, SameContents DEF ContentsShape
<1>7. KM!Lookup
  BY <1>1, <1>4, <1>6 DEF KM!Lookup, NoCall
<1> QED
  BY <1>5, <1>7 DEF AbstractStep, KM!Next

\* The item is taken out, and kept as the answer to come.
LEMMA DeleteHitsMap ==
    ASSUME KeysTellApart, IInv, MapInv, IInv', DeleteHits
    PROVE  MapInv' /\ AbstractStep
<1>1. /\ pc = "find" /\ call.op = "delete" /\ buckets[i].dib # 0 /\ SameItem(call.key, buckets[i])
      /\ buckets' = [buckets EXCEPT ![i] = EmptyBucket]
      /\ pc' = "shift" /\ spare' = buckets[i].val
      /\ UNCHANGED <<nbuckets, call, i, ret, oom>>
  BY DEF DeleteHits
<1>2. /\ buckets \in [0 .. nbuckets-1 -> Bucket] /\ TableType(buckets, nbuckets)
      /\ OneValue(buckets) /\ Distinct(buckets, Occupied(buckets))
  BY <1>1, TableFacts
<1>3. /\ call.key \in Keys /\ i \in 0 .. nbuckets-1
      /\ Contents[call.key] = Under(buckets, call.key)
      /\ i \in Occupied(buckets) /\ buckets[i].key = call.key
  BY <1>1, FindFacts
<1>4. /\ buckets'[i].dib = 0
      /\ \A s \in 0 .. nbuckets-1 : s # i => buckets'[s] = buckets[s]
      /\ DOMAIN buckets = 0 .. nbuckets-1 /\ DOMAIN buckets' = 0 .. nbuckets-1
  BY <1>1, <1>2, <1>3 DEF EmptyBucket
<1>5. Occupied(buckets') = Occupied(buckets) \ {i}
  BY <1>4 DEF Occupied
<1>6. \A s \in Occupied(buckets') : s \in Occupied(buckets) /\ s # i /\ buckets'[s] = buckets[s]
  BY <1>4, <1>5 DEF Occupied
<1>7. Missing(buckets', call.key)
  BY <1>2, <1>3, <1>6 DEF Missing, Distinct
<1>8. Distinct(buckets', Occupied(buckets'))
  BY <1>2, <1>6 DEF Distinct
<1>9. Live(buckets, Gap)' = Occupied(buckets')
  BY <1>1, <1>5 DEF Live, Gap, Occupied
<1>10. MapInv'
  BY <1>1, <1>4, <1>7, <1>8, <1>9 DEF MapInv, ItemsOnce, ItemOut, Carrying, Searching, Moved
<1>11. OneValue(buckets') /\ TableType(buckets', nbuckets)
  BY <1>1, <1>8, DistinctOneValue DEF IInv, TypeOK, TableType
<1>12. \A k \in Keys : Contents'[k] = IF k = call.key THEN buckets[i].val ELSE Under(buckets', k)
  BY <1>1, ContentsNext DEF ContentsShape
<1>13. \A k \in Keys : Contents[k] = Under(buckets, k)
  BY <1>1, ContentsLemma DEF ContentsShape
<1>14. ASSUME NEW k \in Keys, k # call.key
       PROVE  Under(buckets', k) = Under(buckets, k)
  <2>1. \A v \in Vals : Holds(buckets', k, v) <=> Holds(buckets, k, v)
    BY <1>3, <1>5, <1>6, <1>14 DEF Holds
  <2> QED
    BY <1>2, <1>11, <2>1, SameItems
<1>15. Under(buckets, call.key) = buckets[i].val
  BY <1>2, <1>3, UnderItem
<1>16. Contents' = Contents
  BY <1>12, <1>13, <1>14, <1>15, SameContents
<1> QED
  BY <1>1, <1>10, <1>16, Stutters

\* The next item of the run moves back over the gap.
LEMMA DeleteShiftsMap ==
    ASSUME IInv, MapInv, IInv', DeleteShifts
    PROVE  MapInv' /\ AbstractStep
<1> DEFINE g == NextSlot(i, nbuckets)
<1>1. /\ pc = "shift" /\ buckets[g].dib > 1
      /\ buckets' = [buckets EXCEPT ![i] = [buckets[g] EXCEPT !.dib = @ - 1]]
      /\ i' = g /\ pc' = "shift"
      /\ UNCHANGED <<nbuckets, call, spare, ret, oom>>
  BY DEF DeleteShifts
<1>2. /\ nbuckets \in Nat /\ nbuckets >= 4
      /\ buckets \in [0 .. nbuckets-1 -> Bucket] /\ TableType(buckets, nbuckets)
      /\ OneValue(buckets)
  BY TableFacts
<1>3. call.op = "delete" /\ i \in 0 .. nbuckets-1
  BY <1>1 DEF IInv, TypeOK
<1>4. g \in 0 .. nbuckets-1 /\ g # i
  BY <1>2, <1>3, NextSlotDist
<1> HIDE DEF g
<1>5. /\ buckets'[i].key = buckets[g].key /\ buckets'[i].val = buckets[g].val
      /\ buckets'[i].dib # 0 /\ buckets[g].dib # 0
  BY <1>1, <1>2, <1>3, <1>4 DEF Bucket
<1>6. /\ \A s \in 0 .. nbuckets-1 : s # i => buckets'[s] = buckets[s]
      /\ DOMAIN buckets = 0 .. nbuckets-1 /\ DOMAIN buckets' = 0 .. nbuckets-1
  BY <1>1, <1>2
<1>7. Occupied(buckets') = Occupied(buckets) \cup {i} /\ g \in Occupied(buckets)
  BY <1>3, <1>4, <1>5, <1>6 DEF Occupied
<1>8. Live(buckets, Gap)' = (Live(buckets, Gap) \ {g}) \cup {i} /\ g \in Live(buckets, Gap)
  BY <1>1, <1>4, <1>7 DEF Live, Gap, Occupied
<1>9. /\ i \notin Live(buckets, Gap)
      /\ \A s \in Live(buckets, Gap) : s # i /\ buckets'[s] = buckets[s]
  BY <1>1, <1>6 DEF Live, Gap, Occupied
<1>10. Distinct(buckets', Live(buckets, Gap)')
  BY <1>5, <1>8, <1>9 DEF MapInv, ItemsOnce, Distinct
<1>11. ItemsOnce'
  <2>1. buckets'[i'].key = buckets'[i].key /\ buckets'[i'].val = buckets'[i].val
    BY <1>1, <1>4, <1>5, <1>6
  <2>2. i \in Live(buckets, Gap)'
    BY <1>8
  <2>3. \E s \in Live(buckets, Gap)' :
            buckets'[s].key = buckets'[i'].key /\ buckets'[s].val = buckets'[i'].val
    BY <2>1, <2>2
  <2> QED
    BY <1>10, <2>3 DEF ItemsOnce
<1>12. Missing(buckets', call.key)
  <2>1. Missing(buckets, call.key)
    BY <1>1, <1>3 DEF MapInv, ItemOut
  <2> QED
    BY <1>5, <1>6, <1>7, <2>1 DEF Missing, Occupied
<1>13. MapInv'
  BY <1>1, <1>11, <1>12 DEF MapInv, ItemOut, Carrying, Searching, Moved
<1>14. OneValue(buckets') /\ TableType(buckets', nbuckets)
  <2>1. IInv' /\ MapInv' => OneValue(buckets)'
    BY TableFacts, PTL
  <2> QED
    BY <1>1, <1>13, <2>1 DEF IInv, TypeOK, TableType
<1>15. ASSUME NEW k \in Keys
       PROVE  Under(buckets', k) = Under(buckets, k)
  <2>1. \A v : Holds(buckets, k, v) <=> \E s \in Live(buckets, Gap) : buckets[s].key = k /\ buckets[s].val = v
    BY <1>1 DEF MapInv, ItemsOnce, Live, Gap, Holds, Occupied
  <2>2. \A v : Holds(buckets', k, v)
                 <=> \E s \in Live(buckets, Gap) : buckets[s].key = k /\ buckets[s].val = v
    BY <1>5, <1>6, <1>7, <1>8, <1>9, <2>1 DEF Holds, Occupied, Live
  <2> QED
    BY <1>2, <1>14, <2>1, <2>2, SameItems
<1>16. \A k \in Keys : Contents[k] = IF k = call.key THEN spare ELSE Under(buckets, k)
  BY <1>1, <1>3, ContentsLemma DEF ContentsShape
<1>17. \A k \in Keys : Contents'[k] = IF k = call.key THEN spare ELSE Under(buckets', k)
  BY <1>1, <1>3, ContentsNext DEF ContentsShape
<1>18. Contents' = Contents
  BY <1>15, <1>16, <1>17, SameContents
<1> QED
  BY <1>1, <1>13, <1>18, Stutters

\* The gap closes over nothing but a copy: the items stay the same.
LEMMA CloseItems ==
    ASSUME IInv, MapInv, IInv', CloseGap, UNCHANGED nbuckets
    PROVE  /\ Distinct(buckets', Occupied(buckets')) /\ Missing(buckets', call.key)
           /\ call.op = "delete" /\ call.key \in Keys
           /\ \A k \in Keys : Under(buckets', k) = Under(buckets, k)
           /\ \A k \in Keys : Contents[k] = IF k = call.key THEN spare ELSE Under(buckets, k)
<1>1. pc = "shift" /\ buckets' = [buckets EXCEPT ![i] = EmptyBucket]
  BY DEF CloseGap
<1>2. /\ buckets \in [0 .. nbuckets-1 -> Bucket] /\ TableType(buckets, nbuckets)
      /\ OneValue(buckets)
  BY TableFacts
<1>3. call.op = "delete" /\ call.key \in Keys /\ i \in 0 .. nbuckets-1
  BY <1>1 DEF IInv, TypeOK, Calls, KM!Calls, NoCall, KM!NoCall
<1>4. /\ buckets'[i].dib = 0
      /\ \A s \in 0 .. nbuckets-1 : s # i => buckets'[s] = buckets[s]
      /\ DOMAIN buckets = 0 .. nbuckets-1 /\ DOMAIN buckets' = 0 .. nbuckets-1
  BY <1>1, <1>2, <1>3 DEF EmptyBucket
<1>5. Occupied(buckets') = Live(buckets, Gap)
  BY <1>1, <1>4 DEF Occupied, Live, Gap
<1>6. \A s \in Occupied(buckets') : s \in Live(buckets, Gap) /\ buckets'[s] = buckets[s]
  BY <1>4, <1>5 DEF Occupied
<1>7. Distinct(buckets', Occupied(buckets'))
  BY <1>5, <1>6 DEF MapInv, ItemsOnce, Distinct
<1>8. Missing(buckets', call.key)
  BY <1>1, <1>3, <1>5, <1>6 DEF MapInv, ItemOut, Missing, Live
<1>9. OneValue(buckets') /\ TableType(buckets', nbuckets)
  BY <1>7, DistinctOneValue DEF IInv, TypeOK, TableType
<1>10. ASSUME NEW k \in Keys
       PROVE  Under(buckets', k) = Under(buckets, k)
  <2>1. \A v : Holds(buckets, k, v) <=> \E s \in Live(buckets, Gap) : buckets[s].key = k /\ buckets[s].val = v
    BY <1>1 DEF MapInv, ItemsOnce, Live, Gap, Holds, Occupied
  <2>2. \A v : Holds(buckets', k, v)
                 <=> \E s \in Live(buckets, Gap) : buckets[s].key = k /\ buckets[s].val = v
    BY <1>5, <1>6 DEF Holds
  <2> QED
    BY <1>2, <1>9, <2>1, <2>2, SameItems
<1>11. \A k \in Keys : Contents[k] = IF k = call.key THEN spare ELSE Under(buckets, k)
  BY <1>1, <1>3, ContentsLemma DEF ContentsShape
<1> QED
  BY <1>3, <1>7, <1>8, <1>10, <1>11

\* The run is closed: the delete takes effect, or the table shrinks first.
LEMMA CloseMap ==
    ASSUME IInv, MapInv, IInv', DeleteReturns \/ DeleteShrinks \/ DeleteCannotShrink
    PROVE  MapInv' /\ AbstractStep
<1>1. CloseGap /\ UNCHANGED <<nbuckets, oom>>
  BY DEF DeleteReturns, DeleteShrinks, DeleteCannotShrink, BeginResize
<1>2. /\ Distinct(buckets', Occupied(buckets')) /\ Missing(buckets', call.key)
      /\ call.op = "delete" /\ call.key \in Keys
      /\ \A k \in Keys : Under(buckets', k) = Under(buckets, k)
      /\ \A k \in Keys : Contents[k] = IF k = call.key THEN spare ELSE Under(buckets, k)
  BY <1>1, CloseItems
<1>3. CASE DeleteReturns \/ DeleteCannotShrink
  <2>1. pc' = "idle" /\ call' = NoCall /\ ret' = spare
    BY <1>3 DEF DeleteReturns, DeleteCannotShrink, Return
  <2>2. MapInv'
    BY <1>2, <2>1, NoGap DEF MapInv, ItemOut, Carrying, Searching, Moved
  <2>3. \A k \in Keys : Contents'[k] = Under(buckets', k)
    BY <2>1, ContentsNext DEF ContentsShape
  <2>4. Contents'[call.key] = None
    BY <1>2, <2>3, UnderMissing
  <2>5. Contents' = [Contents EXCEPT ![call.key] = None]
    BY <1>2, <2>3, <2>4, PutContents
  <2>6. ret' = Contents[call.key]
    BY <1>2, <2>1
  <2>7. KM!Remove
    BY <1>1, <1>2, <2>1, <2>5, <2>6 DEF KM!Remove, NoCall
  <2> QED
    BY <2>2, <2>7 DEF AbstractStep, KM!Next
<1>4. CASE DeleteShrinks
  <2>1. /\ pc' = "resize" /\ src' = 0 /\ Occupied(fresh') = {}
        /\ UNCHANGED <<call, spare, ret>>
    BY <1>4, EmptyTableOK, SizesAssumption DEF DeleteShrinks, BeginResize
  <2>2. buckets' \in [0 .. nbuckets-1 -> Bucket]
    BY <1>1 DEF IInv, TypeOK
  <2>3. \A k, v : ~ HoldsBelow(buckets', 0, k, v)
    BY <2>2 DEF HoldsBelow, Occupied
  <2>4. Moved'
    BY <2>1, <2>3 DEF Moved, Distinct, Holds
  <2>5. ItemOut'
    BY <1>2, <2>1 DEF ItemOut
  <2>6. MapInv'
    BY <1>2, <2>1, <2>4, <2>5, NoGap DEF MapInv, Carrying, Searching
  <2>7. \A k \in Keys : Contents'[k] = IF k = call.key THEN spare ELSE Under(buckets', k)
    BY <1>2, <2>1, ContentsNext DEF ContentsShape
  <2>8. Contents' = Contents
    BY <1>2, <2>7, SameContents
  <2> QED
    BY <1>1, <2>1, <2>6, <2>8, Stutters
<1> QED
  BY <1>3, <1>4

\* An iteration of resize: items go from the old buckets to the new.
LEMMA ResizeMap ==
    ASSUME IInv, MapInv, IInv', SkipEmpty \/ TakeBucket \/ MoveBucket \/ MoveOn
    PROVE  MapInv' /\ AbstractStep
<1>1. /\ pc \in {"resize", "move"} /\ pc' \in {"resize", "move"}
      /\ UNCHANGED <<buckets, nbuckets, call, spare, nfresh, ret, oom>>
  BY DEF SkipEmpty, TakeBucket, MoveBucket, MoveOn, mapVars, resizeVars
<1>2. /\ nbuckets \in Nat /\ buckets \in [0 .. nbuckets-1 -> Bucket] /\ TableType(buckets, nbuckets)
      /\ Distinct(buckets, Occupied(buckets))
      /\ src \in Nat
      /\ \A s \in Occupied(buckets) : s \in Nat
  BY <1>1, TableFacts DEF IInv, TypeOK, Occupied
<1>3. /\ nfresh \in Nat /\ fresh \in [0 .. nfresh-1 -> Bucket] /\ TableType(fresh, nfresh)
      /\ Distinct(fresh, Occupied(fresh))
  BY <1>1 DEF IInv, TypeOK, TableType, MapInv, Moved
<1>4. Contents' = Contents
  <2>1. call.op \in {"set", "delete"}
    BY <1>1 DEF IInv, TypeOK
  <2> QED
    BY <1>1, <2>1, ContentsLemma, ContentsNext, SameContents DEF ContentsShape
<1>5. SUFFICES Moved'
  <2>1. ItemsOnce' /\ ItemOut' /\ Carrying' /\ Searching'
    BY <1>1, <1>2, NoGap DEF ItemOut, Carrying, Searching, MapInv
  <2> QED
    BY <1>1, <1>4, <2>1, Stutters DEF MapInv
<1>6. CASE SkipEmpty
  <2>1. /\ pc = "resize" /\ pc' = "resize" /\ src' = src + 1 /\ buckets[src].dib = 0
        /\ fresh' = fresh
    BY <1>6 DEF SkipEmpty
  <2>2. \A k, v : HoldsBelow(buckets, src + 1, k, v) <=> HoldsBelow(buckets, src, k, v)
    BY <1>2, <2>1 DEF HoldsBelow, Occupied
  <2> QED
    BY <1>1, <2>1, <2>2 DEF MapInv, Moved
<1>7. CASE TakeBucket
  <2>1. /\ pc = "resize" /\ pc' = "move" /\ src' = src /\ fresh' = fresh
        /\ entry' = [buckets[src] EXCEPT !.dib = 1]
        /\ buckets[src].dib # 0 /\ src \in 0 .. nbuckets-1
    BY <1>2, <1>7 DEF TakeBucket, resizeVars
  <2>2. /\ src \in Occupied(buckets)
        /\ entry'.key = buckets[src].key /\ entry'.val = buckets[src].val
    BY <1>2, <2>1 DEF Occupied, Bucket
  <2>3. \A k, v : HoldsBelow(buckets, src + 1, k, v)
                    <=> HoldsBelow(buckets, src, k, v) \/ (entry'.key = k /\ entry'.val = v)
    BY <1>2, <2>2 DEF HoldsBelow
  <2>4. Missing(fresh, entry'.key)
    <3> SUFFICES ASSUME NEW s \in Occupied(fresh), fresh[s].key = entry'.key
                 PROVE  FALSE
      BY DEF Missing
    <3>1. fresh[s].key \in Keys /\ fresh[s].val \in Vals
      BY <1>3 DEF TableType
    <3>2. Holds(fresh, fresh[s].key, fresh[s].val)
      BY DEF Holds
    <3>3. HoldsBelow(buckets, src, fresh[s].key, fresh[s].val)
      BY <2>1, <3>1, <3>2 DEF MapInv, Moved
    <3>4. PICK x \in Occupied(buckets) : x < src /\ buckets[x].key = fresh[s].key
      BY <3>3 DEF HoldsBelow
    <3>5. x = src
      BY <1>2, <2>2, <3>4 DEF Distinct
    <3> QED
      BY <1>2, <3>4, <3>5
  <2>5. \A k \in Keys, v \in Vals : HoldsBelow(buckets, src, k, v) <=> Holds(fresh, k, v)
    BY <2>1 DEF MapInv, Moved
  <2> QED
    BY <1>1, <1>3, <2>1, <2>3, <2>4, <2>5 DEF Moved
<1>8. CASE MoveBucket \/ MoveOn
  <2>1. pc = "move"
    BY <1>8 DEF MoveBucket, MoveOn
  <2>2. /\ entry \in Bucket /\ entry.dib # 0 /\ i \in 0 .. nfresh-1
    <3>1. nfresh \in Sizes /\ EntryOK(entry, i, fresh, nfresh)
      BY <2>1, IInvTables
    <3>2. entry \in Bucket /\ entry.key \in Keys /\ i \in 0 .. nfresh-1
      BY <3>1 DEF EntryOK
    <3>3. Home(entry.key, nfresh) \in 0 .. nfresh-1
      BY <3>1, <3>2, HomeType
    <3>4. Dist(Home(entry.key, nfresh), i, nfresh) \in 0 .. nfresh-1
      BY <1>3, <3>2, <3>3, DistType
    <3> QED
      BY <1>3, <3>1, <3>2, <3>4 DEF EntryOK, OnItsWay
  <2>3. /\ Missing(fresh, entry.key)
        /\ \A k \in Keys, v \in Vals :
             HoldsBelow(buckets, src + 1, k, v) <=> Holds(fresh, k, v) \/ (entry.key = k /\ entry.val = v)
    BY <2>1 DEF MapInv, Moved
  <2>4. CASE MoveBucket
    <3>1. /\ fresh[i].dib = 0 /\ fresh' = [fresh EXCEPT ![i] = entry]
          /\ src' = src + 1 /\ pc' = "resize"
      BY <2>4 DEF MoveBucket
    <3>2. Distinct(fresh', Occupied(fresh')) /\ Adds(fresh', fresh, entry)
      BY <1>3, <2>2, <2>3, <3>1, PlaceItems
    <3> QED
      BY <1>1, <2>3, <3>1, <3>2 DEF Moved, Adds
  <2>5. CASE MoveOn
    <3>1. /\ fresh[i].dib # 0 /\ fresh' = SwapAt(fresh, entry, i)
          /\ entry' = Bump(Carried(fresh[i], entry))
          /\ src' = src /\ pc' = "move"
      BY <2>1, <2>5 DEF MoveOn, SwapAt
    <3>2. /\ Distinct(fresh', Occupied(fresh')) /\ Missing(fresh', entry'.key)
          /\ Trades(fresh', entry', fresh, entry)
      BY <1>3, <2>2, <2>3, <3>1, SwapItems
    <3> QED
      BY <1>1, <2>3, <3>1, <3>2 DEF Moved, Trades
  <2> QED
    BY <1>8, <2>4, <2>5
<1> QED
  BY <1>6, <1>7, <1>8

\* The new table is taken over: it holds what the old one held.
LEMMA FinishMap ==
    ASSUME IInv, MapInv, IInv', FinishGrowing \/ FinishShrinking
    PROVE  MapInv' /\ AbstractStep
<1>1. /\ pc = "resize" /\ src = nbuckets /\ buckets' = fresh /\ nbuckets' = nfresh /\ oom' = oom
  BY DEF FinishGrowing, FinishShrinking, TakeOver
<1>2. /\ nbuckets \in Nat /\ buckets \in [0 .. nbuckets-1 -> Bucket]
      /\ TableType(buckets, nbuckets) /\ OneValue(buckets)
  BY TableFacts
<1>3. /\ nfresh \in Sizes /\ fresh \in [0 .. nfresh-1 -> Bucket] /\ TableType(fresh, nfresh)
      /\ Distinct(fresh, Occupied(fresh)) /\ OneValue(fresh)
  BY <1>1, DistinctOneValue DEF IInv, TypeOK, TableType, MapInv, Moved
<1>4. \A k, v : HoldsBelow(buckets, src, k, v) <=> Holds(buckets, k, v)
  BY <1>1, <1>2 DEF HoldsBelow, Holds, Occupied
<1>5. ASSUME NEW k \in Keys
      PROVE  Under(fresh, k) = Under(buckets, k)
  <2>1. \A v \in Vals : Holds(fresh, k, v) <=> Holds(buckets, k, v)
    BY <1>1, <1>4 DEF MapInv, Moved
  <2> QED
    BY <1>2, <1>3, <2>1, SameItems
<1>6. CASE FinishGrowing
  <2>1. /\ pc' = "insert" /\ call.op = "set" /\ i' = Home(call.key, nfresh)
        /\ entry'.key = call.key /\ entry'.val = call.val
        /\ UNCHANGED <<call, ret>>
    BY <1>6 DEF FinishGrowing, NewEntry
  <2>2. call.key \in Keys
    BY <2>1, <1>1, TableFacts DEF Calls, KM!Calls
  <2>3. Passed(fresh, nfresh, call.key, Home(call.key, nfresh))
    BY <1>3, <2>2, PassedNone
  <2>4. MapInv'
    BY <1>1, <1>3, <2>1, <2>3, NoGap DEF MapInv, ItemOut, Carrying, Searching, Moved
  <2>5. \A k \in Keys : Contents[k] = Under(buckets, k) /\ Contents'[k] = Under(fresh, k)
    BY <1>1, <2>1, ContentsLemma, ContentsNext DEF ContentsShape
  <2>6. Contents' = Contents
    BY <1>5, <2>5, SameContents
  <2> QED
    BY <1>1, <2>1, <2>4, <2>6, Stutters
<1>7. CASE FinishShrinking
  <2>1. pc' = "idle" /\ call.op = "delete" /\ call' = NoCall /\ ret' = spare
    BY <1>7 DEF FinishShrinking, Return
  <2>2. call.key \in Keys
    BY <2>1, <1>1, TableFacts DEF Calls, KM!Calls
  <2>3. MapInv'
    BY <1>1, <1>3, <2>1, NoGap DEF MapInv, ItemOut, Carrying, Searching, Moved
  <2>4. /\ \A k \in Keys : Contents[k] = IF k = call.key THEN spare ELSE Under(buckets, k)
        /\ \A k \in Keys : Contents'[k] = Under(fresh, k)
    BY <1>1, <2>1, ContentsLemma, ContentsNext DEF ContentsShape
  <2>5. Contents'[call.key] = None
    <3>1. Missing(buckets, call.key)
      BY <1>1, <2>1 DEF MapInv, ItemOut
    <3>2. Under(fresh, call.key) = None
      BY <1>5, <2>2, <3>1, UnderMissing
    <3> QED
      BY <2>2, <2>4, <3>2
  <2>6. Contents' = [Contents EXCEPT ![call.key] = None]
    BY <1>5, <2>2, <2>4, <2>5, PutContents
  <2>7. KM!Remove
    BY <1>1, <2>1, <2>2, <2>4, <2>6 DEF KM!Remove, NoCall
  <2> QED
    BY <2>3, <2>7 DEF AbstractStep, KM!Next
<1> QED
  BY <1>6, <1>7

\* The table is emptied.
LEMMA ClearMap ==
    ASSUME IInv, MapInv, IInv', Clear
    PROVE  MapInv' /\ AbstractStep
<1>1. /\ call.op \in {"clear", "recap"} /\ buckets' = EmptyTable(nbuckets')
      /\ pc' = "idle" /\ call' = NoCall /\ ret' = None /\ oom' = oom
  BY DEF Clear, Return
<1>2. Occupied(buckets') = {}
  BY <1>1 DEF EmptyTable, EmptyBucket, Occupied
<1>3. MapInv'
  BY <1>1, <1>2, NoGap DEF MapInv, ItemOut, Carrying, Searching, Moved, Distinct
<1>4. \A k \in Keys : Contents'[k] = None
  BY <1>1, <1>2, ContentsNext, UnderMissing DEF ContentsShape, Missing
<1>5. Contents' = [k \in Keys |-> None]
  BY <1>4, ContentsNext DEF ContentsShape
<1>6. KM!RemoveAll
  BY <1>1, <1>5 DEF KM!RemoveAll, NoCall
<1> QED
  BY <1>3, <1>6 DEF AbstractStep, KM!Next

\* Every step of every loop is a step of the map, or none.
LEMMA StepMap ==
    KeysTellApart /\ IInv /\ MapInv /\ IInv' /\ [Next]_vars => MapInv' /\ AbstractStep
<1> SUFFICES ASSUME KeysTellApart, IInv, MapInv, IInv', [Next]_vars
             PROVE  MapInv' /\ AbstractStep
  OBVIOUS
<1>1. ASSUME NEW c \in Calls, Invoke(c)
      PROVE  MapInv' /\ AbstractStep
  BY <1>1, InvokeMap
<1>2. CASE SkipEmpty \/ TakeBucket \/ MoveBucket \/ MoveOn
  BY <1>2, ResizeMap
<1>3. CASE FinishGrowing \/ FinishShrinking
  BY <1>3, FinishMap
<1>4. CASE SetStart \/ SetGrows \/ SetOutOfMemory
  BY <1>4, SetStartMap
<1>5. CASE SetPlaces \/ SetReplaces \/ SetMovesOn
  BY <1>5, SetPlacesMap, SetReplacesMap, SetMovesOnMap
<1>6. CASE FindStart \/ FindMisses \/ FindMovesOn \/ GetHits
  BY <1>6, FindStartMap, FindMissesMap, FindMovesOnMap, GetHitsMap
<1>7. CASE DeleteHits \/ DeleteShifts
  BY <1>7, DeleteHitsMap, DeleteShiftsMap
<1>8. CASE DeleteReturns \/ DeleteShrinks \/ DeleteCannotShrink
  BY <1>8, CloseMap
<1>9. CASE Clear
  BY <1>9, ClearMap
<1>10. CASE UNCHANGED vars
  <2>1. UNCHANGED <<buckets, nbuckets, call, pc, entry, i, spare, fresh, src, ret, oom>>
    BY <1>10 DEF vars, mapVars, resizeVars
  <2>2. MapInv'
    BY <2>1 DEF MapInv, ItemsOnce, ItemOut, Carrying, Searching, Moved, Passed, PutDown, Gap
  <2>3. Contents' = Contents
    BY <2>1 DEF Contents, InTable
  <2> QED
    BY <2>1, <2>2, <2>3, Stutters
<1> QED
  BY <1>1, <1>2, <1>3, <1>4, <1>5, <1>6, <1>7, <1>8, <1>9, <1>10 DEF Next, Step

-----------------------------------------------------------------------------

\* No key is ever in the table twice and every loop carries what it should:
\* what is needed, beyond the Robin Hood invariant, for the answers.
THEOREM MapInvariance == KeysTellApart => (Spec /\ []DibCounts => []MapInv)
<1>1. SUFFICES ASSUME KeysTellApart
               PROVE  Spec /\ []DibCounts => []MapInv
  OBVIOUS
<1>2. Init => MapInv
  BY InitMapInv
<1>3. IInv /\ MapInv /\ IInv' /\ [Next]_vars => MapInv'
  BY <1>1, StepMap
<1> QED
  BY <1>2, <1>3, Invariance, PTL DEF Spec

\* hashmap_set, _get, _delete and _clear behave as the map of KeyMap: each
\* call answers and changes the map as if it were done at once, through every
\* displacement, backward shift and resize, also when memory runs out.
THEOREM Refinement == KeysTellApart => (Spec /\ []DibCounts => ImplementsKeyMap)
<1>1. SUFFICES ASSUME KeysTellApart
               PROVE  Spec /\ []DibCounts => ImplementsKeyMap
  OBVIOUS
<1>2. Init => KM!Init
  BY InitMapInv
<1>3. IInv /\ MapInv /\ IInv' /\ [Next]_vars => [KM!Next]_(KM!vars)
  BY <1>1, StepMap DEF AbstractStep
<1>4. Spec /\ []DibCounts => []MapInv
  BY <1>1, MapInvariance
<1> QED
  BY <1>2, <1>3, <1>4, Invariance, PTL DEF Spec, ImplementsKeyMap, KM!Spec

\* So the children of a directory, whose keys are names, are a map from names
\* to inodes as long as the table has fewer than 65535 buckets.
THEOREM NamesRefinement ==
    /\ \A a, b \in Keys : Matches(a, b) <=> a = b
    /\ \A n \in Sizes : n + 1 < DibMod
    => (Spec => ImplementsKeyMap)
<1>1. SUFFICES ASSUME \A a, b \in Keys : Matches(a, b) <=> a = b,
                      \A n \in Sizes : n + 1 < DibMod
               PROVE  Spec => ImplementsKeyMap
  OBVIOUS
<1>2. KeysTellApart
  BY <1>1 DEF KeysTellApart
<1>3. Spec => []DibCounts
  BY <1>1, SmallTablesCount
<1>4. Spec /\ []DibCounts => ImplementsKeyMap
  BY <1>2, Refinement
<1> QED
  BY <1>3, <1>4
=============================================================================
