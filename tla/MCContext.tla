------------------------------ MODULE MCContext ------------------------------
(***************************************************************************)
(* Small index files for WowsContext: two that agree (one redefines a file *)
(* of the other), one that cannot be mapped, one whose directories are in  *)
(* another file and that has an entry without a record, one whose file is  *)
(* named like a directory, and one with a file nested a level too deep and *)
(* one in a directory that is its own parent.  A directory of partial has  *)
(* the id of the root.                                                     *)
(***************************************************************************)
EXTENDS WowsContextInv

R(i, p, n) == [id |-> i, parent |-> p, name |-> n]

res == R("res", "top", "res")
gui == R("gui", "res", "gui")

AllMetadata ==
    [base    |-> <<res, gui, R("f1", "gui", "a")>>,
     patch   |-> <<R("f2", "res", "b"), R("f1", "gui", "a"), gui, res>>,
     broken  |-> <<res>>,
     partial |-> <<R("f5", "gui", "b"), R("zero", "top", "gui"), R("f7", "zero", "b")>>,
     clash   |-> <<R("f3", "top", "res")>>,
     tangled |-> <<res, gui, R("sub", "gui", "gui"), R("f4", "sub", "a"),
                   R("ring", "ring", "res"), R("f6", "ring", "a")>>]

AllEntries ==
    [base    |-> <<"f1">>,
     patch   |-> <<"f2", "f1">>,
     broken  |-> << >>,
     partial |-> <<"f5", "f7", "nowhere">>,
     clash   |-> <<"f3">>,
     tangled |-> <<"f4", "f6">>]

MCMetadata == [f \in IndexFiles |-> AllMetadata[f]]
MCEntries  == [f \in IndexFiles |-> AllEntries[f]]
MCIds   == {"top", "zero", "res", "gui", "sub", "ring", "nowhere",
            "f1", "f2", "f3", "f4", "f5", "f6", "f7"}
MCNames == {"res", "gui", "a", "b"}
=============================================================================
