---------------------------- MODULE MCCommandLine ----------------------------
(***************************************************************************)
(* A directory of an old build, two entries with the next number, of which *)
(* one may be a file, and one without a number, file or directory; with or *)
(* without the idx of the later builds; and every set of options.          *)
(***************************************************************************)
EXTENDS CommandLine

MCBuild == [n \in Entries |-> CASE n = "v1" -> 1 [] n \in {"v2", "v2b"} -> 2 [] OTHER -> 0]

MCDisks ==
    {d \in [kind : [Entries -> {"dir", "file"}], idx : [Entries -> {"dir", "file", "none"}]] :
       /\ d.kind["v1"] = "dir" /\ d.idx["v1"] = "dir"
       /\ d.kind["v2b"] = "dir" /\ d.idx["v2b"] # "file"
       /\ d.idx["res"] = "none"
       /\ d.kind["v2"] = "file" => d.idx["v2"] = "none"}

MCOptions == SUBSET {"i", "I", "W", "o", "O", "s", "e", "p"}
=============================================================================
