----------------------------- MODULE CommandLine -----------------------------
(***************************************************************************)
(* The command wows-depack-cli (wows-depack.c): the index directory of the *)
(* latest build is looked for (wows_get_latest_idx_dir, lib/utils.c), the  *)
(* index files parsed, and what the options ask for done call by call.     *)
(*                                                                         *)
(* The calls of the library answer as WowsContext, WowsArchive and         *)
(* Extraction say they may; of their errors only that there is one counts. *)
(***************************************************************************)
EXTENDS Integers, FiniteSets

CONSTANTS
    Entries,    \* what readdir gives of the directory bin
    Build,      \* Build[n]: atoi of the name n
    Disks,      \* [kind, idx]: what stat finds at the path made of entry n,
                \* which is cut at 1023 bytes, and at that path with /idx
    Options,    \* sets of the options that may be given
    None

ASSUME CommandAssumption ==
    /\ IsFiniteSet(Entries) /\ {None, "I"} \cap Entries = {} /\ None # "I"
    /\ Build \in [Entries -> Nat]
    /\ Disks \subseteq [kind : [Entries -> {"dir", "file"}],
                        idx  : [Entries -> {"dir", "file", "none"}]]
    /\ Options \subseteq SUBSET {"i", "I", "W", "o", "O", "s", "e", "p"}

VARIABLES
    disk,
    args,            \* the options given
    todo,            \* what readdir has still to give
    seen,            \* history: the entries whose stat worked
    info,            \* st_mode of the last stat that worked
    current_build,
    out,             \* the entry of the highest build so far
    input_dir,       \* what args->input_dir names
    pc,
    ret,
    results,         \* history: the calls made and what they returned
    status           \* how main ended

disks == <<disk, args>>
latest == <<todo, seen, info, current_build, out>>
vars == <<disks, latest, input_dir, pc, ret, results, status>>

Calls == {"parse_file", "parse_dir", "print", "search", "extract_file", "extract_dir"}
Answers == {"not_made", "ok", "error"}

Init ==
    /\ disk \in Disks
    /\ args \in Options
    /\ todo = Entries
    /\ seen = {}
    /\ info = "unset"
    /\ current_build = 0
    /\ out = None
    /\ input_dir = None
    /\ pc = "start"
    /\ ret = "ok"
    /\ results = [c \in Calls |-> "not_made"]
    /\ status = "running"

\* Mutant: an error leads to the common end of main.
ExitThroughEnd(how) ==
    /\ pc' = "finish"
    /\ status' = how

Exit(how) ==
    /\ pc' = "exit"
    /\ status' = how

GoTo(next) ==
    /\ pc' = next
    /\ UNCHANGED status

-----------------------------------------------------------------------------
(* wows_get_latest_idx_dir                                                 *)

NoBaseDir ==
    /\ pc = "start"
    /\ "W" \notin args
    /\ input_dir' = IF "I" \in args THEN "I" ELSE None
    /\ GoTo("check")
    /\ UNCHANGED <<disks, latest, ret, results>>

BaseDir ==
    /\ pc = "start"
    /\ "W" \in args
    /\ GoTo("readdir")
    /\ UNCHANGED <<disks, latest, input_dir, ret, results>>

BaseDirUnopened ==
    /\ pc = "start"
    /\ "W" \in args
    /\ Exit("error")
    /\ UNCHANGED <<disks, latest, input_dir, ret, results>>

\* stat fails; info keeps what it held.
SkipEntry(n) ==
    /\ pc = "readdir"
    /\ n \in todo
    /\ todo' = todo \ {n}
    /\ UNCHANGED <<disks, seen, info, current_build, out, input_dir, pc, ret, results, status>>

\* Mutant: the highest build is not kept.
ReadEntryUnkept(n) ==
    /\ pc = "readdir"
    /\ n \in todo
    /\ todo' = todo \ {n}
    /\ seen' = seen \cup {n}
    /\ info' = disk.kind[n]
    /\ out' = IF disk.kind[n] = "dir" /\ Build[n] > current_build THEN n ELSE out
    /\ UNCHANGED <<disks, current_build, input_dir, pc, ret, results, status>>

ReadEntry(n) ==
    /\ pc = "readdir"
    /\ n \in todo
    /\ todo' = todo \ {n}
    /\ seen' = seen \cup {n}
    /\ info' = disk.kind[n]
    /\ IF disk.kind[n] = "dir" /\ Build[n] > current_build
       THEN current_build' = Build[n] /\ out' = n
       ELSE UNCHANGED <<current_build, out>>
    /\ UNCHANGED <<disks, input_dir, pc, ret, results, status>>

NoBuild ==
    /\ pc = "readdir"
    /\ todo = {}
    /\ out = None
    /\ Exit("error")
    /\ UNCHANGED <<disks, latest, input_dir, ret, results>>

\* out is taken unless its stat fails and the last one that worked was not of
\* a directory.
TakeIdxDir ==
    /\ pc = "readdir"
    /\ todo = {}
    /\ out # None
    /\ disk.idx[out] # "none" \/ info = "dir"
    /\ input_dir' = out
    /\ GoTo("check")
    /\ UNCHANGED <<disks, latest, ret, results>>

RefuseIdxDir ==
    /\ pc = "readdir"
    /\ todo = {}
    /\ out # None
    /\ info # "dir"
    /\ Exit("error")
    /\ UNCHANGED <<disks, latest, input_dir, ret, results>>

-----------------------------------------------------------------------------
(* main                                                                    *)

BadUsage ==
    \/ "i" \notin args /\ input_dir = None
    \/ {"o", "O"} \cap args # {} /\ "e" \notin args
    \/ {"o", "O"} \cap args = {} /\ "e" \in args

CheckUsage ==
    /\ pc = "check"
    /\ IF BadUsage THEN Exit("usage") ELSE GoTo("parse_file")
    /\ UNCHANGED <<disks, latest, input_dir, ret, results>>

\* A call of the library that main makes, or skips where it is not asked for.
Call(c, asked, next, result) ==
    /\ pc = c
    /\ result \in IF asked THEN {"ok", "error"} ELSE {"not_made"}
    /\ results' = [results EXCEPT ![c] = result]
    /\ ret' = IF asked THEN result ELSE ret
    /\ GoTo(next)
    /\ UNCHANGED <<disks, latest, input_dir>>

ParseFile(result) == Call("parse_file", "i" \in args, "parse_dir", result)

\* Its result takes the place of parse_file's.  A directory that is not there
\* is not opened.
ParseDir(result) ==
    /\ (result = "ok" /\ input_dir \in Entries) => disk.idx[input_dir] = "dir"
    /\ Call("parse_dir", input_dir # None, "parsed", result)

\* Mutant: the result is not looked at.
ParsedUnchecked ==
    /\ pc = "parsed"
    /\ GoTo("print")
    /\ UNCHANGED <<disks, latest, input_dir, ret, results>>

Parsed ==
    /\ pc = "parsed"
    /\ IF ret # "ok" THEN Exit("error") ELSE GoTo("print")
    /\ UNCHANGED <<disks, latest, input_dir, ret, results>>

PrintFlat(result) ==
    /\ result # "error"
    /\ Call("print", "p" \in args, "search", result)

Search(result) ==
    /\ result # "error"
    /\ Call("search", "s" \in args, "extract_file", result)

\* The pattern does not compile: wows_search has set neither the count nor the
\* results, which main prints and frees before it looks at what it returned.
SearchFails ==
    /\ pc = "search"
    /\ "s" \in args
    /\ results' = [results EXCEPT !["search"] = "error"]
    /\ ret' = "error"
    /\ (Exit("error") \/ Exit("crash"))
    /\ UNCHANGED <<disks, latest, input_dir>>

\* An extraction that fails ends main.
Extract(c, asked, next, result) ==
    \/ result # "error" /\ Call(c, asked, next, result)
    \/ /\ pc = c /\ asked /\ result = "error"
       /\ results' = [results EXCEPT ![c] = result]
       /\ ret' = result
       /\ Exit("error")
       /\ UNCHANGED <<disks, latest, input_dir>>

\* Mutant: a file and a directory are not both extracted.
ExtractFileOnly(result) ==
    Extract("extract_file", {"o", "e"} \subseteq args,
            IF "o" \in args THEN "finish" ELSE "extract_dir", result)

ExtractFile(result) ==
    Extract("extract_file", {"o", "e"} \subseteq args, "extract_dir", result)

ExtractDir(result) ==
    Extract("extract_dir", {"O", "e"} \subseteq args, "finish", result)

Finish ==
    /\ pc = "finish"
    /\ Exit("ok")
    /\ UNCHANGED <<disks, latest, input_dir, ret, results>>

-----------------------------------------------------------------------------

Next ==
    \/ NoBaseDir \/ BaseDir \/ BaseDirUnopened
    \/ \E n \in Entries : ReadEntry(n) \/ SkipEntry(n)
    \/ NoBuild \/ TakeIdxDir \/ RefuseIdxDir
    \/ CheckUsage
    \/ \E result \in Answers :
         \/ ParseFile(result) \/ ParseDir(result) \/ PrintFlat(result)
         \/ Search(result) \/ ExtractFile(result) \/ ExtractDir(result)
    \/ Parsed \/ SearchFails \/ Finish

Spec == Init /\ [][Next]_vars

-----------------------------------------------------------------------------
(* Properties                                                              *)

\* Every variable has its type, and main has ended when it has a status.
TypeOK ==
    /\ disk \in Disks /\ args \in Options
    /\ todo \subseteq Entries /\ seen \subseteq Entries \ todo
    /\ info \in {"unset", "dir", "file"}
    /\ current_build \in Nat
    /\ out \in Entries \cup {None}
    /\ input_dir \in Entries \cup {"I", None}
    /\ pc \in Calls \cup {"start", "readdir", "check", "parsed", "finish", "exit"}
    /\ ret \in {"ok", "error"}
    /\ results \in [Calls -> Answers]
    /\ status \in {"running", "ok", "error", "usage", "crash"}
    /\ (status = "running") <=> (pc # "exit")

\* Whatever the order of the directory and whichever entries could not be
\* looked at, -W takes the directory of the highest build of those that could,
\* and only when there is one (utils.c:155-177).
LatestWins ==
    LET builds == {n \in seen : disk.kind[n] = "dir" /\ Build[n] > 0} IN
    /\ input_dir \in Entries =>
         input_dir \in builds /\ \A n \in builds : Build[n] <= Build[input_dir]
    /\ pc \in Calls /\ "W" \in args => input_dir \in Entries

Asked ==
    (IF "i" \in args THEN {"parse_file"} ELSE {})
      \cup (IF {"I", "W"} \cap args # {} THEN {"parse_dir"} ELSE {})
      \cup (IF "p" \in args THEN {"print"} ELSE {})
      \cup (IF "s" \in args THEN {"search"} ELSE {})
      \cup (IF {"o", "e"} \subseteq args THEN {"extract_file"} ELSE {})
      \cup (IF {"O", "e"} \subseteq args THEN {"extract_dir"} ELSE {})

\* When the command ends with 0 all that was asked for was done, and each call
\* returned 0, but for the parsing of a file, whose result is lost when a
\* directory is parsed after it (wows-depack.c:143-159, 188-213).
ExitHonest ==
    status = "ok" =>
      \A c \in Calls :
        \/ results[c] = (IF c \in Asked THEN "ok" ELSE "not_made")
        \/ c = "parse_file" /\ "parse_dir" \in Asked /\ results[c] = "error"

\* -W never ends with 0, nor prints or extracts anything, on a build without
\* an index directory, although wows_get_latest_idx_dir may take one: the type
\* it looks at may be that of another entry (utils.c:179), and what is missing
\* is only found when it is opened (wows-depack.c:147-159).
MissingIdxReported ==
    /\ pc \in {"print", "search", "extract_file", "extract_dir", "finish"} \/ status = "ok"
    /\ input_dir \in Entries
    => disk.idx[input_dir] = "dir"

\* A pattern that does not compile is an error like any other: the library has
\* a code for it (inc/wows-depack.h:24, "failure to compile regex pattern"),
\* which main means to print and to return (wows-depack.c:175-185).
SearchErrorReported == status # "crash"
=============================================================================
