------------------------------- MODULE HashMap -------------------------------
(***************************************************************************)
(* The open-addressed Robin Hood hash table of lib/hashmap.c, which holds  *)
(* the metadata map, the file map and the children of every directory      *)
(* inode.  One action per iteration of each of its probing loops, so that  *)
(* the loops' invariants and their termination can be stated.              *)
(*                                                                         *)
(* An item is a key and a value.  The 48-bit hash kept in a bucket is      *)
(* always Hash[key] and is not stored a second time.  An empty bucket      *)
(* (dib = 0) is written EmptyBucket: nothing reads what else it holds.     *)
(***************************************************************************)
EXTENDS Integers, FiniteSets

CONSTANTS
    Keys, Vals, None,
    Hash,            \* Hash[k]: get_hash, already cut to 48 bits
    Matches(_, _),   \* Matches(a, b): compare(a, b) = 0
    Sizes,           \* bucket counts malloc can serve: powers of two from 16 up
    ShrinkDiv,       \* shrinkat is nbuckets * 0.10, so 10 in the code
    DibMod           \* dib is a 16-bit field, so 65536 in the code

ASSUME SizesAssumption ==
    /\ Sizes \subseteq Nat
    /\ \A n \in Sizes : n >= 4
    /\ \A m, n \in Sizes : m < n => n % 2 = 0 /\ n \div 2 \in Sizes /\ 2 * m <= n

ASSUME ConstantsAssumption ==
    /\ None \notin Keys \cup Vals
    /\ Hash \in [Keys -> Nat]
    /\ ShrinkDiv \in Nat /\ ShrinkDiv >= 4
    /\ DibMod \in Nat /\ DibMod > 1

VARIABLES
    buckets,   \* the table: 0 .. nbuckets-1 -> bucket
    nbuckets,
    cap,       \* the capacity the table never shrinks below
    count,
    oom,
    call,      \* the call under way
    pc,        \* where it is in its code
    entry,     \* edata in hashmap_set, the moved bucket in resize
    i,         \* the bucket a loop is at
    spare,     \* the item hashmap_delete will answer
    fresh,     \* map2->buckets while resize runs
    nfresh,    \* map2->nbuckets
    src,       \* the bucket resize copies from
    ret        \* the answer of the last call

mapVars    == <<buckets, nbuckets, cap, count, oom>>
resizeVars == <<fresh, nfresh, src>>
vars == <<mapVars, call, pc, entry, i, spare, resizeVars, ret>>

Bucket == [dib : Nat, key : Keys \cup {None}, val : Vals \cup {None}]

EmptyBucket == [dib |-> 0, key |-> None, val |-> None]
EmptyTable(n) == [s \in 0 .. n-1 |-> EmptyBucket]

\* The item under k in the table, and the map the whole state stands for: a
\* call takes effect when it returns, so an item hashmap_set has put down is
\* not in it while the one it displaced is still carried, and an item
\* hashmap_delete has taken out still is.
InTable(k) ==
    LET At == {s \in DOMAIN buckets : buckets[s].dib # 0 /\ buckets[s].key = k}
    IN  IF At = {} THEN None ELSE buckets[CHOOSE s \in At : TRUE].val

Contents ==
    [k \in Keys |->
        IF pc = "insert" /\ entry.key # call.key /\ k = call.key THEN None
        ELSE IF pc = "insert" /\ entry.key # call.key /\ k = entry.key THEN entry.val
        ELSE IF pc \in {"shift", "resize", "move"} /\ call.op = "delete" /\ k = call.key THEN spare
        ELSE InTable(k)]

KM == INSTANCE KeyMap WITH store <- Contents

NoCall == KM!NoCall
Calls  == KM!Calls

\* Mutant: the table is filled to the last bucket before it grows.
GrowWhenFull(n) == n

GrowAt(n)   == (3 * n) \div 4
ShrinkAt(n) == n \div ShrinkDiv

Home(k, n)   == Hash[k] % n
NextSlot(s, n) == IF s + 1 = n THEN 0 ELSE s + 1

NewEntry(k, v) == [dib |-> 1, key |-> k, val |-> v]

Bump(e) == [e EXCEPT !.dib = IF e.dib + 1 = DibMod THEN 0 ELSE e.dib + 1]

\* The Robin Hood swap: the bucket that is nearer its home goes on looking.
Settled(b, e) == IF b.dib < e.dib THEN e ELSE b
Carried(b, e) == IF b.dib < e.dib THEN b ELSE e

SameItem(k, b) == Hash[k] = Hash[b.key] /\ Matches(k, b.key)

-----------------------------------------------------------------------------

Init ==
    /\ cap \in Sizes
    /\ nbuckets = cap
    /\ buckets = EmptyTable(cap)
    /\ count = 0
    /\ oom = FALSE
    /\ call = NoCall
    /\ pc = "idle"
    /\ entry = EmptyBucket
    /\ i = 0
    /\ spare = None
    /\ fresh = EmptyTable(0)
    /\ nfresh = 0
    /\ src = 0
    /\ ret = None

\* The call returns v.  What the call's locals held is dead.
Return(v) ==
    /\ ret' = v
    /\ call' = NoCall
    /\ pc' = "idle"
    /\ entry' = EmptyBucket
    /\ i' = 0
    /\ spare' = None
    /\ fresh' = EmptyTable(0)
    /\ nfresh' = 0
    /\ src' = 0

Invoke(c) ==
    /\ pc = "idle"
    /\ call' = c
    /\ oom' = (oom /\ c.op \notin {"set", "delete"})
    /\ pc' = "start"
    /\ UNCHANGED <<buckets, nbuckets, cap, count, entry, i, spare, resizeVars, ret>>

-----------------------------------------------------------------------------
(* resize: every item is moved, one bucket after the other, to map2.       *)

\* A resize to n buckets begins, once both of map2's mallocs are served.
BeginResize(n) ==
    /\ n \in Sizes
    /\ fresh' = EmptyTable(n)
    /\ nfresh' = n
    /\ src' = 0
    /\ pc' = "resize"
    /\ UNCHANGED <<nbuckets, cap, call, entry, i, spare, ret>>

SkipEmpty ==
    /\ pc = "resize"
    /\ src < nbuckets
    /\ buckets[src].dib = 0
    /\ src' = src + 1
    /\ UNCHANGED <<mapVars, call, pc, entry, i, spare, fresh, nfresh, ret>>

TakeBucket ==
    /\ pc = "resize"
    /\ src < nbuckets
    /\ buckets[src].dib # 0
    /\ entry' = [buckets[src] EXCEPT !.dib = 1]
    /\ i' = Home(buckets[src].key, nfresh)
    /\ pc' = "move"
    /\ UNCHANGED <<mapVars, call, spare, resizeVars, ret>>

\* Mutant: the bucket is moved a second time.
MoveBucketAgain ==
    /\ pc = "move"
    /\ fresh[i].dib = 0
    /\ fresh' = [fresh EXCEPT ![i] = entry]
    /\ pc' = "resize"
    /\ UNCHANGED <<mapVars, call, entry, i, spare, nfresh, src, ret>>

MoveBucket ==
    /\ pc = "move"
    /\ fresh[i].dib = 0
    /\ fresh' = [fresh EXCEPT ![i] = entry]
    /\ src' = src + 1
    /\ pc' = "resize"
    /\ UNCHANGED <<mapVars, call, entry, i, spare, nfresh, ret>>

MoveOn ==
    /\ pc = "move"
    /\ fresh[i].dib # 0
    /\ fresh' = [fresh EXCEPT ![i] = Settled(fresh[i], entry)]
    /\ entry' = Bump(Carried(fresh[i], entry))
    /\ i' = NextSlot(i, nfresh)
    /\ UNCHANGED <<mapVars, call, pc, spare, nfresh, src, ret>>

\* Mutant: nbuckets and mask are not taken over.
TakeOverKeepsSize ==
    /\ pc = "resize"
    /\ src = nbuckets
    /\ buckets' = fresh
    /\ UNCHANGED <<nbuckets, cap, count, oom>>

\* The new buckets are taken over; hashmap_set goes on to its loop and
\* hashmap_delete, whose item is already out, returns.
TakeOver ==
    /\ pc = "resize"
    /\ src = nbuckets
    /\ buckets' = fresh
    /\ nbuckets' = nfresh
    /\ UNCHANGED <<cap, count, oom>>

FinishGrowing ==
    /\ TakeOver
    /\ call.op = "set"
    /\ entry' = NewEntry(call.key, call.val)
    /\ i' = Home(call.key, nfresh)
    /\ fresh' = EmptyTable(0)
    /\ nfresh' = 0
    /\ src' = 0
    /\ pc' = "insert"
    /\ UNCHANGED <<call, spare, ret>>

FinishShrinking ==
    /\ TakeOver
    /\ call.op = "delete"
    /\ Return(spare)

-----------------------------------------------------------------------------
(* hashmap_set                                                             *)

SetStart ==
    /\ pc = "start"
    /\ call.op = "set"
    /\ count # GrowAt(nbuckets)
    /\ entry' = NewEntry(call.key, call.val)
    /\ i' = Home(call.key, nbuckets)
    /\ pc' = "insert"
    /\ UNCHANGED <<mapVars, call, spare, resizeVars, ret>>

SetGrows ==
    /\ pc = "start"
    /\ call.op = "set"
    /\ count = GrowAt(nbuckets)
    /\ BeginResize(nbuckets * 2)
    /\ UNCHANGED <<buckets, count, oom>>

SetOutOfMemory ==
    /\ pc = "start"
    /\ call.op = "set"
    /\ count = GrowAt(nbuckets)
    /\ oom' = TRUE
    /\ UNCHANGED <<buckets, nbuckets, cap, count>>
    /\ Return(None)

SetPlaces ==
    /\ pc = "insert"
    /\ buckets[i].dib = 0
    /\ buckets' = [buckets EXCEPT ![i] = entry]
    /\ count' = count + 1
    /\ UNCHANGED <<nbuckets, cap, oom>>
    /\ Return(None)

SetReplaces ==
    /\ pc = "insert"
    /\ buckets[i].dib # 0
    /\ SameItem(entry.key, buckets[i])
    /\ buckets' = [buckets EXCEPT ![i].key = entry.key, ![i].val = entry.val]
    /\ UNCHANGED <<nbuckets, cap, count, oom>>
    /\ Return(buckets[i].val)

SetMovesOn ==
    /\ pc = "insert"
    /\ buckets[i].dib # 0
    /\ ~ SameItem(entry.key, buckets[i])
    /\ buckets' = [buckets EXCEPT ![i] = Settled(buckets[i], entry)]
    /\ entry' = Bump(Carried(buckets[i], entry))
    /\ i' = NextSlot(i, nbuckets)
    /\ UNCHANGED <<nbuckets, cap, count, oom, call, pc, spare, resizeVars, ret>>

-----------------------------------------------------------------------------
(* hashmap_get and hashmap_delete probe in the same way.                   *)

FindStart ==
    /\ pc = "start"
    /\ call.op \in {"get", "delete"}
    /\ i' = Home(call.key, nbuckets)
    /\ pc' = "find"
    /\ UNCHANGED <<mapVars, call, entry, spare, resizeVars, ret>>

FindMisses ==
    /\ pc = "find"
    /\ buckets[i].dib = 0
    /\ UNCHANGED mapVars
    /\ Return(None)

FindMovesOn ==
    /\ pc = "find"
    /\ buckets[i].dib # 0
    /\ ~ SameItem(call.key, buckets[i])
    /\ i' = NextSlot(i, nbuckets)
    /\ UNCHANGED <<mapVars, call, pc, entry, spare, resizeVars, ret>>

GetHits ==
    /\ pc = "find"
    /\ call.op = "get"
    /\ buckets[i].dib # 0
    /\ SameItem(call.key, buckets[i])
    /\ UNCHANGED mapVars
    /\ Return(buckets[i].val)

DeleteHits ==
    /\ pc = "find"
    /\ call.op = "delete"
    /\ buckets[i].dib # 0
    /\ SameItem(call.key, buckets[i])
    /\ spare' = buckets[i].val
    /\ buckets' = [buckets EXCEPT ![i] = EmptyBucket]
    /\ pc' = "shift"
    /\ UNCHANGED <<nbuckets, cap, count, oom, call, entry, i, resizeVars, ret>>

\* Mutant: the item moved back keeps its dib.
DeleteShiftsKeepingDib ==
    LET n == NextSlot(i, nbuckets) IN
    /\ pc = "shift"
    /\ buckets[n].dib > 1
    /\ buckets' = [buckets EXCEPT ![i] = buckets[n]]
    /\ i' = n
    /\ UNCHANGED <<nbuckets, cap, count, oom, call, pc, entry, spare, resizeVars, ret>>

\* Bucket i is the gap: its item is out, or has moved to the bucket before.
DeleteShifts ==
    LET n == NextSlot(i, nbuckets) IN
    /\ pc = "shift"
    /\ buckets[n].dib > 1
    /\ buckets' = [buckets EXCEPT ![i] = [buckets[n] EXCEPT !.dib = @ - 1]]
    /\ i' = n
    /\ UNCHANGED <<nbuckets, cap, count, oom, call, pc, entry, spare, resizeVars, ret>>

\* Mutants: the gap is closed under a run that goes on; the item is not counted out.
CloseGapAtOnce ==
    /\ pc = "shift"
    /\ buckets' = [buckets EXCEPT ![i] = EmptyBucket]
    /\ count' = count - 1

CloseGapUncounted ==
    /\ pc = "shift"
    /\ buckets[NextSlot(i, nbuckets)].dib <= 1
    /\ buckets' = [buckets EXCEPT ![i] = EmptyBucket]
    /\ count' = count

CloseGap ==
    /\ pc = "shift"
    /\ buckets[NextSlot(i, nbuckets)].dib <= 1
    /\ buckets' = [buckets EXCEPT ![i] = EmptyBucket]
    /\ count' = count - 1

MayShrink == nbuckets > cap /\ count - 1 <= ShrinkAt(nbuckets)

DeleteReturns ==
    /\ CloseGap
    /\ ~ MayShrink
    /\ UNCHANGED <<nbuckets, cap, oom>>
    /\ Return(spare)

DeleteShrinks ==
    /\ CloseGap
    /\ MayShrink
    /\ BeginResize(nbuckets \div 2)
    /\ UNCHANGED oom

\* The result of the shrinking resize is ignored.
DeleteCannotShrink ==
    /\ CloseGap
    /\ MayShrink
    /\ UNCHANGED <<nbuckets, cap, oom>>
    /\ Return(spare)

-----------------------------------------------------------------------------
(* hashmap_clear.  When the smaller block cannot be allocated the larger   *)
(* one is kept and only its first cap buckets are used from then on.       *)

Clear ==
    /\ pc = "start"
    /\ call.op \in {"clear", "recap"}
    /\ count' = 0
    /\ IF call.op = "recap"
       THEN cap' = nbuckets /\ UNCHANGED nbuckets
       ELSE nbuckets' = cap /\ UNCHANGED cap
    /\ buckets' = EmptyTable(nbuckets')
    /\ UNCHANGED oom
    /\ Return(None)

-----------------------------------------------------------------------------

Step ==
    \/ SkipEmpty \/ TakeBucket \/ MoveBucket \/ MoveOn
    \/ FinishGrowing \/ FinishShrinking
    \/ SetStart \/ SetGrows \/ SetOutOfMemory
    \/ SetPlaces \/ SetReplaces \/ SetMovesOn
    \/ FindStart \/ FindMisses \/ FindMovesOn \/ GetHits
    \/ DeleteHits \/ DeleteShifts
    \/ DeleteReturns \/ DeleteShrinks \/ DeleteCannotShrink
    \/ Clear

Next == (\E c \in Calls : Invoke(c)) \/ Step

Spec == Init /\ [][Next]_vars

\* A call that has been made is run by its thread until it returns.
FairSpec == Spec /\ WF_vars(Step)
=============================================================================
