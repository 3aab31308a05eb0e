---------------------------- MODULE MCExtraction ----------------------------
(***************************************************************************)
(* An archive of files in two packages, one of them compressed and two     *)
(* directories deep, and output directories with any part of it there      *)
(* already.  A file has its directory in its name and belongs where        *)
(* another one does; a directory has the name "..".                        *)
(***************************************************************************)
EXTENDS Extraction

d   == <<"d">>
d_e == <<"d", "e">>
d_f == <<"d", "f">>
g   == <<"d", "e", "g">>
eg  == <<"d", "e/g">>
up  == <<"..">>
k   == <<"..", "k">>

MCNames == {"d", "e", "f", "g", "e/g", "k", "x", "out", "single", ".", ".."}

MCSplit == [n \in MCNames |-> IF n = "e/g" THEN <<"e", "g">> ELSE <<n>>]

\* Where components lead from the root of the file system.
MCPlace(x) ==
    FoldLeft(LAMBDA at, n : IF n = "." THEN at
                            ELSE IF n = ".." THEN SubSeq(at, 1, Len(at) - 1)
                            ELSE Append(at, n), << >>, x)

MCFiles == {d_f, g, eg, k}

MCTree == [p \in {<< >>, d, d_e, up} \cup MCFiles |->
             [type |-> IF p \in MCFiles THEN "file" ELSE "dir", id |-> p]]

MCPackage == [p \in MCFiles |-> IF p = g THEN "pkg2" ELSE "pkg1"]
MCStored  == {d_f, k}
MCFileMaps == {MCFiles, MCFiles \ {k}}
MCBlocks  == [p \in MCFiles |-> IF p \in {d_f, g} THEN 2 ELSE 1]

MCStrings == {<<Sep>>, d, <<"d", Sep>>, <<"d", Sep, "f">>, <<"d", Sep, "e">>,
              <<"d", Sep, "e", Sep, "g">>, <<"x">>, up, <<"..", Sep, "k">>,
              <<"..", Sep, "k", Sep, "x">>}

MCOutDir   == <<"out">>
MCOutFiles == {<<"single">>, <<"out">>}

OutDirs == {<< >>, MCOutDir, MCOutDir \o d, MCOutDir \o d_e}
OutLeaves == {MCOutDir \o p : p \in {d_f, g}} \cup {<<"single">>, <<"k">>}

Old == Data(<<"old">>, 1)

\* Directories down to one, and old files that have theirs.
MCOldOutputs ==
    {o \in [OutDirs \cup OutLeaves -> {Absent, Directory, Old}] :
       /\ o[<< >>] = Directory
       /\ \A x \in DOMAIN o : o[x] # Absent /\ Len(x) > 1 => o[Front(x)] = Directory
       /\ \A x \in OutLeaves \ {MCOutDir \o d_f} : o[x] # Directory
       /\ o[<<"k">>] = Absent}
=============================================================================
