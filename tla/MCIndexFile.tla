----------------------------- MODULE MCIndexFile -----------------------------
(***************************************************************************)
(* A memory of W bytes with an index file of any length up to MaxLength    *)
(* mapped near its start and at its very end, or not mapped at all.        *)
(***************************************************************************)
EXTENDS IndexFile

CONSTANT MaxLength

MCMappedFiles ==
    {[base |-> b, length |-> n] : b \in {1, MapFailed}, n \in 0 .. MaxLength}
      \cup {[base |-> W - 1 - n, length |-> n] : n \in 1 .. MaxLength}
=============================================================================
