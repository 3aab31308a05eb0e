----------------------------- MODULE MCHashMap ------------------------------
(***************************************************************************)
(* A small map of names, as an inode's children: names may share a hash,   *)
(* compare is strcmp.  Five names, three of them with one home, two of     *)
(* these with one hash, and homes at the end of the table so that probing  *)
(* wraps; tables of 4 and 8 buckets, so that it grows and shrinks.         *)
(***************************************************************************)
EXTENDS HashMapRefinement, TLC

CONSTANTS name1, name2, name3, name4, name5

NameKeys == {name1, name2, name3, name4, name5}
NameHash == name1 :> 7 @@ name2 :> 7 @@ name3 :> 15 @@ name4 :> 6 @@ name5 :> 0
NameMatches(x, y) == x = y
=============================================================================
