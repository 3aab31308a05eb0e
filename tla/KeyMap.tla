------------------------------- MODULE KeyMap -------------------------------
(***************************************************************************)
(* What lib/hashmap.c promises its callers: a finite map from keys to      *)
(* values.  A call is made (Invoke), then answered by exactly one of the   *)
(* actions below, each of which changes the map and sets the answer at     *)
(* once.  The only licence an implementation has is that hashmap_set may   *)
(* fail for want of memory, leaving the map as it was and raising oom.     *)
(***************************************************************************)

CONSTANTS Keys,   \* the items' keys
          Vals,   \* what is stored under them
          None    \* "no item", a NULL answer

VARIABLES store,  \* the map
          call,   \* the call under way, or NoCall
          ret,    \* the answer of the last call
          oom     \* what hashmap_oom() reports

vars == <<store, call, ret, oom>>

NoCall == [op |-> "none", key |-> None, val |-> None]

Calls ==
    [op : {"set"}, key : Keys, val : Vals]
        \cup [op : {"get", "delete"}, key : Keys, val : {None}]
        \cup [op : {"clear", "recap"}, key : {None}, val : {None}]

Init ==
    /\ store = [k \in Keys |-> None]
    /\ call = NoCall
    /\ ret = None
    /\ oom = FALSE

Invoke(c) ==
    /\ call = NoCall
    /\ call' = c
    /\ oom' = (oom /\ c.op \notin {"set", "delete"})
    /\ UNCHANGED <<store, ret>>

\* Inserts or replaces; answers the item that was replaced.
Put ==
    /\ call.op = "set"
    /\ store' = [store EXCEPT ![call.key] = call.val]
    /\ ret' = store[call.key]
    /\ call' = NoCall
    /\ UNCHANGED oom

PutFails ==
    /\ call.op = "set"
    /\ ret' = None
    /\ oom' = TRUE
    /\ call' = NoCall
    /\ UNCHANGED store

Lookup ==
    /\ call.op = "get"
    /\ ret' = store[call.key]
    /\ call' = NoCall
    /\ UNCHANGED <<store, oom>>

Remove ==
    /\ call.op = "delete"
    /\ store' = [store EXCEPT ![call.key] = None]
    /\ ret' = store[call.key]
    /\ call' = NoCall
    /\ UNCHANGED oom

RemoveAll ==
    /\ call.op \in {"clear", "recap"}
    /\ store' = [k \in Keys |-> None]
    /\ ret' = None
    /\ call' = NoCall
    /\ UNCHANGED oom

Next ==
    \/ \E c \in Calls : Invoke(c)
    \/ Put
    \/ PutFails
    \/ Lookup
    \/ Remove
    \/ RemoveAll

Spec == Init /\ [][Next]_vars
=============================================================================
