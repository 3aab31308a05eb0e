----------------------------- MODULE HashMapInv -----------------------------
(***************************************************************************)
(* What has to hold of the hash table of lib/hashmap.c at every iteration  *)
(* of its loops for hashmap_get to be right and to stop.                   *)
(***************************************************************************)
EXTENDS HashMap, Termination

\* How many buckets s is past h, going round a table of n.
Dist(h, s, n) == IF s >= h THEN s - h ELSE s + n - h

Occupied(t) == {s \in DOMAIN t : t[s].dib # 0}

\* The bucket hashmap_delete is about to overwrite or to empty.
Gap == IF pc = "shift" THEN {i} ELSE {}

Live(t, gap) == Occupied(t) \ gap

-----------------------------------------------------------------------------

\* Every variable has the values of its type, and the loops of hashmap.c stay
\* in the table they walk (hashmap.c:197-218, 251-270, 281-290, 315-330).
TypeOK ==
    /\ nbuckets \in Sizes
    /\ cap \in Sizes /\ cap <= nbuckets
    /\ buckets \in [0 .. nbuckets-1 -> Bucket]
    /\ \A s \in Occupied(buckets) : buckets[s].key \in Keys /\ buckets[s].val \in Vals
    /\ count \in Nat
    /\ oom \in BOOLEAN
    /\ call \in Calls \cup {NoCall}
    /\ pc \in {"idle", "start", "insert", "find", "shift", "resize", "move"}
    /\ (pc = "idle") <=> (call = NoCall)
    /\ pc = "insert" => call.op = "set"
    /\ pc = "find" => call.op \in {"get", "delete"}
    /\ pc = "shift" => call.op = "delete"
    /\ pc \in {"resize", "move"} => call.op \in {"set", "delete"}
    /\ entry \in Bucket
    /\ pc \in {"insert", "move"} => entry.key \in Keys /\ entry.val \in Vals
    /\ pc \in {"insert", "find", "shift"} => i \in 0 .. nbuckets-1
    /\ pc = "move" => i \in 0 .. nfresh-1
    /\ spare \in Vals \cup {None}
    /\ nfresh \in Nat
    /\ pc \in {"resize", "move"} => nfresh \in Sizes /\ cap <= nfresh
    /\ fresh \in [0 .. nfresh-1 -> Bucket]
    /\ \A s \in Occupied(fresh) : fresh[s].key \in Keys /\ fresh[s].val \in Vals
    /\ src \in 0 .. nbuckets
    /\ pc = "move" => src < nbuckets /\ buckets[src].dib # 0
    /\ ret \in Vals \cup {None}

\* count is the number of items, at every step of every loop: the one being
\* inserted is not yet in it, the one being deleted still is, and resize
\* neither loses an item nor copies one twice.
CountExact ==
    /\ Cardinality(Live(buckets, Gap)) = IF pc = "shift" THEN count - 1 ELSE count
    /\ pc \in {"resize", "move"} =>
         Cardinality(Occupied(fresh)) + Cardinality({s \in Occupied(buckets) : s >= src}) = count

\* The table in use always keeps an empty bucket, the one that stops
\* hashmap_get: also once the item under way is in, when growing has failed,
\* and in the smaller table hashmap_delete shrinks to.
RoomLeft ==
    /\ count < nbuckets
    /\ pc = "insert" => count + 1 < nbuckets
    /\ pc \in {"resize", "move"} => count + 1 < nfresh

\* A bucket's dib says how far it is from home.
DibExact(t, n, gap) ==
    \A s \in Live(t, gap) : t[s].dib = Dist(Home(t[s].key, n), s, n) + 1

\* From an item's home to the bucket it is in, every bucket is at least as
\* far from its own home as the item was when it went by.
PathFull(t, n, gap, k, s) ==
    \A m \in (0 .. n-1) \ gap :
        Dist(Home(k, n), m, n) < Dist(Home(k, n), s, n)
            => t[m].dib >= Dist(Home(k, n), m, n) + 1

PathsFull(t, n, gap) == \A s \in Live(t, gap) : PathFull(t, n, gap, t[s].key, s)

\* e has probed t from its home up to bucket s, and is about to look at s.
OnItsWay(e, s, t, n) ==
    /\ e.dib = Dist(Home(e.key, n), s, n) + 1
    /\ PathFull(t, n, {}, e.key, s)

\* Every item can be reached from its home without crossing an empty bucket,
\* while items are displaced, shifted back over a gap or moved to new buckets.
RobinHood ==
    /\ DibExact(buckets, nbuckets, Gap)
    /\ PathsFull(buckets, nbuckets, Gap)
    /\ pc = "insert" => OnItsWay(entry, i, buckets, nbuckets)
    /\ pc \in {"resize", "move"} =>
         DibExact(fresh, nfresh, {}) /\ PathsFull(fresh, nfresh, {})
    /\ pc = "move" => OnItsWay(entry, i, fresh, nfresh)

\* The 16 bits of a dib count every bucket an item is carried past: the code
\* does not check it (hashmap.c:216, 269).
DibCounts ==
    /\ pc = "insert" => Carried(buckets[i], entry).dib + 1 < DibMod
    /\ pc = "move" => Carried(fresh[i], entry).dib + 1 < DibMod

-----------------------------------------------------------------------------

Empties(t) == {s \in DOMAIN t : t[s].dib = 0}

\* How many buckets a loop that is at s has to pass to come to one of E.
ToNearest(E, s, n) ==
    LET away == {Dist(s, m, n) : m \in E}
    IN  CHOOSE d \in away : \A e \in away : d <= e

\* The loops a call has still to run.
LoopsAhead ==
    CASE pc = "idle" -> 0
      [] pc = "insert" -> 1
      [] pc \in {"resize", "move"} -> IF call.op = "set" THEN 2 ELSE 1
      [] pc = "shift" -> 2
      [] pc = "find" -> 3
      [] pc = "start" -> 4

BucketsAhead == IF pc \in {"resize", "move"} THEN nbuckets - src ELSE 0

ProbesAhead ==
    CASE pc \in {"insert", "find"} -> ToNearest(Empties(buckets), i, nbuckets)
      [] pc = "shift" -> ToNearest(Empties(buckets) \ {i}, NextSlot(i, nbuckets), nbuckets)
      [] pc = "move" -> ToNearest(Empties(fresh), i, nfresh)
      [] pc = "resize" -> nfresh
      [] OTHER -> 0

Variant == <<LoopsAhead, BucketsAhead, ProbesAhead>>

\* Every step of a call brings the call closer to its end: each loop comes to
\* an empty bucket before it comes back to where it began, also while items are
\* displaced, shifted back and moved (hashmap.c:197-218, 251-270, 281-290,
\* 315-330).
LoopsEnd == [][pc # "idle" => Variant' \in Measures /\ Lower(Variant', Variant)]_vars

\* hashmap_set, _get, _delete and _clear behave as the map of KeyMap.
ImplementsKeyMap == KM!Spec

\* Every call returns: no probing loop goes round for ever.
CallsReturn == (pc # "idle") ~> (pc = "idle")
=============================================================================
