----------------------------- MODULE Termination -----------------------------
(***************************************************************************)
(* Measures of what a call has still to do: three numbers, of which each   *)
(* counts for more than those after it.  A call each of whose steps lowers *)
(* its measure makes finitely many.                                        *)
(***************************************************************************)
EXTENDS Integers

Measures == Nat \X Nat \X Nat

Lower(a, b) ==
    \/ a[1] < b[1]
    \/ a[1] = b[1] /\ a[2] < b[2]
    \/ a[1] = b[1] /\ a[2] = b[2] /\ a[3] < b[3]
=============================================================================
