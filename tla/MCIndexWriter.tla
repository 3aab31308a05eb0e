---------------------------- MODULE MCIndexWriter ----------------------------
(***************************************************************************)
(* A directory of two files, the path of one of them cut to that of the    *)
(* other; a directory whose path leaves no room for a name, so that it is  *)
(* entered again; a file too long for its size to be counted; and a name   *)
(* that is cut to that of nothing.  The sizes of the structures are those  *)
(* of a 64-bit build.                                                      *)
(***************************************************************************)
EXTENDS IndexWriter

a   == <<"a">>
a_x == <<"a", "x">>
a_y == <<"a", "y">>
b   == <<"b">>
b_z == <<"b", "z">>
c   == <<"c">>
d   == <<"d">>

MCSource == [p \in {<< >>, a, a_x, a_y, b, b_z, c, d} |->
               IF p \in {<< >>, a, b} THEN "dir" ELSE "file"]
MCBytes    == [p \in {a_x, a_y, b_z, c, d} |-> IF p = c THEN 3 ELSE 2]
MCNameSize == [n \in {"a", "b", "c", "d", "x", "y", "z"} |->
                 CASE n = "b" -> 7 [] n = "d" -> 9 [] n = "x" -> 6 [] n = "y" -> 7 [] OTHER -> 1]
MCPathSize == [p \in DOMAIN MCSource |->
                 IF p = << >> THEN 1
                 ELSE IF Len(p) = 1 THEN 2 + MCNameSize[p[1]]
                 ELSE 3 + MCNameSize[p[1]] + MCNameSize[p[2]]]
MCCut == [p \in {a_y, b_z, d} |-> CASE p = a_y -> a_x [] p = b_z -> b [] p = d -> Nowhere]
=============================================================================
