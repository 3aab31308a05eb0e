-------------------------- MODULE CommandLineProofs --------------------------
(***************************************************************************)
(* Proofs about CommandLine: for any directory of builds, read in any      *)
(* order, any set of options and any answers of the library.               *)
(***************************************************************************)
EXTENDS CommandLine, TLAPS

-----------------------------------------------------------------------------
(* Type correctness                                                        *)

\* Every reachable state of the command has its type, and main has a status
\* exactly when it has ended (wows-depack.c:101-221).
THEOREM TypeCorrect == Spec => []TypeOK
<1>1. Init => TypeOK
  BY CommandAssumption DEF Init, TypeOK, Calls, Answers
<1>2. TypeOK /\ [Next]_vars => TypeOK'
  <2> SUFFICES ASSUME TypeOK, [Next]_vars PROVE TypeOK'
    OBVIOUS
  <2>1. CASE NoBaseDir \/ BaseDir \/ BaseDirUnopened
    BY <2>1 DEF NoBaseDir, BaseDir, BaseDirUnopened, Exit, GoTo, TypeOK, Calls, disks, latest
  <2>2. ASSUME NEW n \in Entries, ReadEntry(n) PROVE TypeOK'
    <3>1. disk.kind[n] \in {"dir", "file"} /\ Build[n] \in Nat
      BY CommandAssumption DEF TypeOK
    <3> QED
      BY <2>2, <3>1 DEF ReadEntry, TypeOK, disks
  <2>3. ASSUME NEW n \in Entries, SkipEntry(n) PROVE TypeOK'
    BY <2>3 DEF SkipEntry, TypeOK, disks
  <2>4. CASE NoBuild \/ TakeIdxDir \/ RefuseIdxDir
    BY <2>4 DEF NoBuild, TakeIdxDir, RefuseIdxDir, Exit, GoTo, TypeOK, Calls, disks, latest
  <2>5. CASE CheckUsage \/ Parsed \/ Finish
    BY <2>5 DEF CheckUsage, Parsed, Finish, Exit, GoTo, TypeOK, Calls, disks, latest
  <2>6. ASSUME pc # "exit", UNCHANGED <<disks, latest, input_dir>>, ret' \in {"ok", "error"},
               NEW c \in Calls, NEW result \in Answers,
               results' = [results EXCEPT ![c] = result],
               \/ pc' \in Calls \cup {"parsed", "finish"} /\ UNCHANGED status
               \/ pc' = "exit" /\ status' \in {"error", "crash"}
        PROVE  TypeOK'
    BY <2>6 DEF TypeOK, Calls, disks, latest
  <2>7. ASSUME NEW c \in Calls, NEW next \in Calls \cup {"parsed", "finish"},
               NEW asked, NEW result \in Answers, Call(c, asked, next, result)
        PROVE  TypeOK'
    <3>1. ret' \in {"ok", "error"}
      BY <2>7 DEF Call, TypeOK
    <3> QED
      BY <2>6, <2>7, <3>1 DEF Call, GoTo, Calls
  <2>8. ASSUME NEW result \in Answers,
               ParseFile(result) \/ ParseDir(result) \/ PrintFlat(result) \/ Search(result)
        PROVE  TypeOK'
    <3>1. {"parse_file", "parse_dir", "print", "search", "extract_file"} \subseteq Calls
      BY DEF Calls
    <3> QED
      BY <2>7, <2>8, <3>1 DEF ParseFile, ParseDir, PrintFlat, Search
  <2>9. ASSUME NEW c \in Calls, NEW next \in Calls \cup {"finish"},
               NEW asked, NEW result \in Answers, Extract(c, asked, next, result)
        PROVE  TypeOK'
    <3>1. CASE Call(c, asked, next, result)
      BY <2>7, <3>1
    <3>2. CASE ~ Call(c, asked, next, result)
      BY <2>6, <2>9, <3>2 DEF Extract, Exit, Calls
    <3> QED
      BY <3>1, <3>2
  <2>10. ASSUME NEW result \in Answers, ExtractFile(result) \/ ExtractDir(result)
         PROVE  TypeOK'
    <3>1. {"extract_file", "extract_dir"} \subseteq Calls
      BY DEF Calls
    <3> QED
      BY <2>9, <2>10, <3>1 DEF ExtractFile, ExtractDir
  <2>11. CASE SearchFails
    <3>1. "search" \in Calls /\ "error" \in Answers
      BY DEF Calls, Answers
    <3> QED
      BY <2>6, <2>11, <3>1 DEF SearchFails, Exit
  <2>12. CASE UNCHANGED vars
    BY <2>12 DEF vars, TypeOK, disks, latest
  <2> QED
    BY <2>1, <2>2, <2>3, <2>4, <2>5, <2>8, <2>10, <2>11, <2>12 DEF Next
<1> QED
  BY <1>1, <1>2, PTL DEF Spec

-----------------------------------------------------------------------------
(* The latest build                                                        *)

Builds == {n \in seen : disk.kind[n] = "dir" /\ Build[n] > 0}

\* The scan has kept the greatest of the builds it has seen, and what was
\* taken is what it kept.
ScanInv ==
    /\ out = None => Builds = {} /\ current_build = 0
    /\ out # None => /\ out \in Builds /\ current_build = Build[out]
                     /\ \A n \in Builds : Build[n] <= current_build
    /\ pc \in {"start", "readdir"} => input_dir = None
    /\ input_dir \in Entries => input_dir = out
    /\ pc \in Calls \cup {"check", "parsed", "finish"} /\ "W" \in args => input_dir \in Entries

LEMMA ScanStep == TypeOK /\ ScanInv /\ [Next]_vars => ScanInv'
<1> SUFFICES ASSUME TypeOK, ScanInv, [Next]_vars PROVE ScanInv'
  OBVIOUS
<1>0. None \notin Entries /\ "I" \notin Entries
  BY CommandAssumption
<1>1. ASSUME NEW n \in Entries, ReadEntry(n) PROVE ScanInv'
  <2>1. /\ \A k \in Entries : Build[k] \in Nat
        /\ current_build \in Nat /\ seen \subseteq Entries /\ out \in Entries \cup {None}
    BY CommandAssumption DEF TypeOK
  <2>2. Builds' = IF disk.kind[n] = "dir" /\ Build[n] > 0 THEN Builds \cup {n} ELSE Builds
    BY <1>1 DEF ReadEntry, Builds, disks
  <2>3. input_dir' = None /\ pc' = "readdir"
    BY <1>1 DEF ReadEntry, ScanInv
  <2>4. CASE disk.kind[n] = "dir" /\ Build[n] > current_build
    <3>1. current_build' = Build[n] /\ out' = n /\ Builds' = Builds \cup {n}
      BY <1>1, <2>1, <2>2, <2>4 DEF ReadEntry
    <3>2. \A k \in Builds : k \in Entries /\ Build[k] <= current_build
      BY <2>1 DEF ScanInv, Builds
    <3>3. \A k \in Builds' : Build[k] <= Build[n]
      BY <2>1, <2>4, <3>1, <3>2
    <3> QED
      BY <1>0, <2>3, <3>1, <3>3 DEF ScanInv, Calls
  <2>5. CASE ~ (disk.kind[n] = "dir" /\ Build[n] > current_build)
    <3>1. current_build' = current_build /\ out' = out
      BY <1>1, <2>5 DEF ReadEntry
    <3>2. CASE out = None
      <4>1. Builds' = {}
        BY <2>2, <2>5, <3>2 DEF ScanInv
      <4> QED
        BY <1>0, <2>3, <3>1, <3>2, <4>1 DEF ScanInv, Calls
    <3>3. CASE out # None
      <4>1. \A k \in Builds' : Build[k] <= current_build
        BY <2>1, <2>2, <2>5, <3>3 DEF ScanInv
      <4>2. out \in Builds'
        BY <2>2, <3>3 DEF ScanInv
      <4> QED
        BY <1>0, <2>3, <3>1, <3>3, <4>1, <4>2 DEF ScanInv, Calls
    <3> QED
      BY <3>2, <3>3
  <2> QED
    BY <2>4, <2>5
<1>2. ASSUME NEW n \in Entries, SkipEntry(n) PROVE ScanInv'
  BY <1>2 DEF SkipEntry, ScanInv, Builds, disks
<1>3. CASE NoBaseDir
  <2>1. input_dir' \notin Entries /\ pc' = "check" /\ "W" \notin args'
    BY <1>0, <1>3 DEF NoBaseDir, GoTo, disks
  <2> QED
    BY <1>3, <2>1 DEF NoBaseDir, ScanInv, Builds, disks, latest
<1>4. CASE BaseDir \/ BaseDirUnopened \/ NoBuild \/ RefuseIdxDir
  BY <1>0, <1>4 DEF BaseDir, BaseDirUnopened, NoBuild, RefuseIdxDir, Exit, GoTo,
                    ScanInv, Builds, disks, latest, Calls
<1>5. CASE TakeIdxDir
  BY <1>0, <1>5 DEF TakeIdxDir, GoTo, ScanInv, Builds, disks, latest, TypeOK
<1> DEFINE Main == pc \in Calls \cup {"check", "parsed", "finish"} /\ UNCHANGED <<disks, latest, input_dir>>
<1>6. ASSUME Main, pc' \notin {"start", "readdir"} PROVE ScanInv'
  BY <1>6 DEF ScanInv, Builds, disks, latest, Calls
<1>7. CASE CheckUsage \/ Parsed \/ Finish \/ SearchFails
  BY <1>6, <1>7 DEF CheckUsage, Parsed, Finish, SearchFails, Exit, GoTo, Calls
<1>8. ASSUME NEW result \in Answers,
             \/ ParseFile(result) \/ ParseDir(result) \/ PrintFlat(result)
             \/ Search(result) \/ ExtractFile(result) \/ ExtractDir(result)
      PROVE  ScanInv'
  BY <1>6, <1>8 DEF ParseFile, ParseDir, PrintFlat, Search, ExtractFile, ExtractDir,
                    Extract, Call, Exit, GoTo, Calls
<1>9. CASE UNCHANGED vars
  BY <1>9 DEF vars, disks, latest, ScanInv, Builds
<1> QED
  BY <1>1, <1>2, <1>3, <1>4, <1>5, <1>7, <1>8, <1>9 DEF Next

\* Whatever the order of the directory and whichever entries could not be
\* looked at, -W takes the directory of the highest build of those that could,
\* and only when there is one (utils.c:155-177).
THEOREM LatestAlwaysWins == Spec => []LatestWins
<1>1. Init => ScanInv
  BY CommandAssumption DEF Init, ScanInv, Builds, Calls
<1>2. TypeOK /\ ScanInv => LatestWins
  <2> SUFFICES ASSUME TypeOK, ScanInv PROVE LatestWins
    OBVIOUS
  <2>1. ASSUME input_dir \in Entries
        PROVE  input_dir \in Builds /\ \A n \in Builds : Build[n] <= Build[input_dir]
    BY <2>1, CommandAssumption DEF ScanInv
  <2> QED
    BY <2>1 DEF LatestWins, Builds, ScanInv
<1> QED
  BY <1>1, <1>2, ScanStep, TypeCorrect, PTL DEF Spec

-----------------------------------------------------------------------------
(* The results of the calls                                                *)

\* What a call may have returned where main goes on after it.
Expected(c) == results[c] = (IF c \in Asked THEN "ok" ELSE "not_made")

Parsing == {"start", "readdir", "check", "parse_file"}
AfterParsing == {"print", "search", "extract_file", "extract_dir", "finish"}

\* The history of the parsing calls where main has not yet looked at ret: it is
\* what the last one that was asked for returned.
ParsingInv ==
    /\ pc \in Parsing => ret = "ok"
    /\ pc \in {"parse_dir", "parsed"} =>
         results["parse_file"] \in IF "parse_file" \in Asked THEN {"ok", "error"} ELSE {"not_made"}
    /\ pc = "parse_dir" =>
         IF "parse_file" \in Asked THEN ret = results["parse_file"] ELSE ret = "ok"
    /\ pc = "parsed" =>
         IF "parse_dir" \in Asked THEN ret = results["parse_dir"]
         ELSE /\ results["parse_dir"] = "not_made"
              /\ "parse_file" \in Asked => ret = results["parse_file"]

\* A directory is parsed exactly when an option asks for one.
DirAsked ==
    /\ pc = "readdir" => "W" \in args
    /\ pc \in Calls \cup {"check", "parsed"} => (input_dir # None <=> "parse_dir" \in Asked)

\* Where main goes on, what it has passed is as it should be.
PassedInv ==
    LET parsed == pc \in AfterParsing \/ status = "ok" IN
    /\ parsed => Expected("parse_dir")
    /\ parsed => \/ Expected("parse_file")
                 \/ "parse_dir" \in Asked /\ results["parse_file"] = "error"
    /\ pc \in AfterParsing \ {"print"} \/ status = "ok" => Expected("print")
    /\ pc \in {"extract_file", "extract_dir", "finish"} \/ status = "ok" => Expected("search")
    /\ pc \in {"extract_dir", "finish"} \/ status = "ok" => Expected("extract_file")
    /\ pc = "finish" \/ status = "ok" => Expected("extract_dir")

\* A directory that was parsed was there.
IdxInv ==
    /\ pc = "parsed" /\ input_dir \in Entries /\ ret = "ok" => disk.idx[input_dir] = "dir"
    /\ MissingIdxReported

ResultsInv == ParsingInv /\ DirAsked /\ PassedInv /\ IdxInv

LEMMA ResultsInit == Init => TypeOK /\ ResultsInv
BY CommandAssumption DEF Init, ResultsInv, ParsingInv, DirAsked, PassedInv, IdxInv, MissingIdxReported,
   Parsing, AfterParsing, Calls, Answers, TypeOK

LEMMA ResultsBefore ==
    ASSUME TypeOK, ResultsInv,
           \/ NoBaseDir \/ BaseDir \/ BaseDirUnopened \/ NoBuild \/ TakeIdxDir \/ RefuseIdxDir
           \/ CheckUsage \/ \E n \in Entries : ReadEntry(n) \/ SkipEntry(n)
    PROVE  ResultsInv'
<1> DEFINE Scanning == {"start", "readdir", "check"}
<1>1. /\ pc \in Scanning /\ UNCHANGED <<disks, ret, results>>
      /\ pc' \in {"readdir", "check", "parse_file", "exit"}
      /\ pc' # "exit" => UNCHANGED status
      /\ pc' = "exit" => status' # "ok"
  BY DEF NoBaseDir, BaseDir, BaseDirUnopened, NoBuild, TakeIdxDir, RefuseIdxDir, CheckUsage,
         ReadEntry, SkipEntry, Exit, GoTo
<1>2. status' # "ok"
  BY <1>1 DEF TypeOK
<1>3. ParsingInv' /\ PassedInv' /\ IdxInv'
  BY <1>1, <1>2 DEF ResultsInv, ParsingInv, PassedInv, IdxInv, MissingIdxReported, Parsing, AfterParsing
<1>4. DirAsked'
  <2>1. CASE NoBaseDir
    <3>1. pc' = "check" /\ "W" \notin args /\ args' = args /\ (input_dir' # None <=> "I" \in args)
      BY <2>1, CommandAssumption DEF NoBaseDir, GoTo, disks
    <3> QED
      BY <3>1 DEF DirAsked, Asked
  <2>2. CASE TakeIdxDir
    <3>1. pc' = "check" /\ "W" \in args /\ args' = args /\ input_dir' # None
      BY <2>2 DEF TakeIdxDir, GoTo, disks, ResultsInv, DirAsked
    <3> QED
      BY <3>1 DEF DirAsked, Asked
  <2>3. CASE CheckUsage
    BY <2>3 DEF CheckUsage, Exit, GoTo, disks, ResultsInv, DirAsked, Asked, Calls
  <2>4. CASE BaseDir \/ BaseDirUnopened \/ NoBuild \/ RefuseIdxDir
    BY <2>4 DEF BaseDir, BaseDirUnopened, NoBuild, RefuseIdxDir, Exit, GoTo, disks, DirAsked, Calls
  <2>5. ASSUME NEW n \in Entries, ReadEntry(n) \/ SkipEntry(n) PROVE DirAsked'
    BY <2>5 DEF ReadEntry, SkipEntry, disks, ResultsInv, DirAsked, Calls
  <2> QED
    BY <2>1, <2>2, <2>3, <2>4, <2>5
<1> QED
  BY <1>3, <1>4 DEF ResultsInv

LEMMA AskedKept == args' = args => Asked' = Asked
BY DEF Asked

LEMMA DirAskedKept ==
    ASSUME ResultsInv, pc \in Calls \cup {"parsed"}, pc' \notin {"readdir", "check"},
           args' = args, input_dir' = input_dir
    PROVE  DirAsked'
BY AskedKept DEF ResultsInv, DirAsked

LEMMA ResultsParsing ==
    ASSUME TypeOK, ResultsInv, NEW result \in Answers, ParseFile(result) \/ ParseDir(result)
    PROVE  ResultsInv'
<1>0. /\ "parse_file" \in Calls /\ "parse_dir" \in Calls
      /\ "i" \in args <=> "parse_file" \in Asked
  BY DEF Calls, Asked
<1>1. CASE ParseFile(result)
  <2>1. /\ pc = "parse_file" /\ pc' = "parse_dir" /\ status' = "running" /\ args' = args
        /\ input_dir' = input_dir /\ Asked' = Asked /\ results'["parse_file"] = result
        /\ "parse_file" \in Asked => result \in {"ok", "error"} /\ ret' = result
        /\ "parse_file" \notin Asked => result = "not_made" /\ ret' = ret
    BY <1>0, <1>1, AskedKept DEF ParseFile, Call, GoTo, disks, TypeOK, Calls
  <2>2. ret = "ok"
    BY <2>1 DEF ResultsInv, ParsingInv, Parsing
  <2>3. ParsingInv' /\ PassedInv' /\ IdxInv'
    BY <2>1, <2>2 DEF ParsingInv, PassedInv, IdxInv, MissingIdxReported, Parsing, AfterParsing
  <2>4. DirAsked'
    BY <1>0, <2>1, DirAskedKept
  <2> QED
    BY <2>3, <2>4 DEF ResultsInv
<1>2. CASE ParseDir(result)
  <2>1. /\ pc = "parse_dir" /\ pc' = "parsed" /\ status' = "running" /\ args' = args /\ disk' = disk
        /\ input_dir' = input_dir /\ Asked' = Asked /\ results'["parse_dir"] = result
        /\ results'["parse_file"] = results["parse_file"]
        /\ input_dir # None => result \in {"ok", "error"} /\ ret' = result
        /\ input_dir = None => result = "not_made" /\ ret' = ret
    BY <1>0, <1>2, AskedKept DEF ParseDir, Call, GoTo, disks, TypeOK, Calls
  <2>2. input_dir # None <=> "parse_dir" \in Asked
    BY <1>0, <2>1 DEF ResultsInv, DirAsked
  <2>3. ParsingInv'
    BY <2>1, <2>2 DEF ResultsInv, ParsingInv, Parsing
  <2>4. PassedInv'
    BY <2>1 DEF PassedInv, AfterParsing
  <2>5. IdxInv'
    <3>1. input_dir \in Entries => input_dir # None
      BY CommandAssumption
    <3> QED
      BY <1>2, <2>1, <3>1 DEF ParseDir, IdxInv, MissingIdxReported
  <2>6. DirAsked'
    BY <1>0, <2>1, DirAskedKept
  <2> QED
    BY <2>3, <2>4, <2>5, <2>6 DEF ResultsInv
<1> QED
  BY <1>1, <1>2

LEMMA ResultsParsed ==
    ASSUME TypeOK, ResultsInv, Parsed \/ SearchFails \/ Finish
    PROVE  ResultsInv'
<1>1. /\ pc \in {"parsed", "search", "finish"} /\ pc' \in {"print", "exit"}
      /\ args' = args /\ disk' = disk /\ input_dir' = input_dir /\ Asked' = Asked
  BY DEF Parsed, SearchFails, Finish, Exit, GoTo, disks, Asked
<1>2. ParsingInv'
  BY <1>1 DEF ParsingInv, Parsing
<1>3. DirAsked'
  <2>1. pc' = "print" => pc = "parsed"
    BY DEF Parsed, SearchFails, Finish, Exit
  <2> QED
    BY <1>1, <2>1 DEF ResultsInv, DirAsked, Calls
<1>4. CASE Parsed
  <2>1. pc = "parsed" /\ results' = results /\ status' # "ok"
        /\ (pc' # "exit" => ret = "ok")
    BY <1>4 DEF Parsed, Exit, GoTo, TypeOK
  <2>2. PassedInv'
    BY <1>1, <2>1 DEF ResultsInv, ParsingInv, PassedInv, Expected, AfterParsing
  <2>3. IdxInv'
    BY <1>1, <2>1 DEF ResultsInv, IdxInv, MissingIdxReported
  <2> QED
    BY <1>2, <1>3, <2>2, <2>3 DEF ResultsInv
<1>5. CASE SearchFails
  <2>1. pc' = "exit" /\ status' # "ok"
    BY <1>5 DEF SearchFails, Exit
  <2>2. PassedInv' /\ IdxInv'
    BY <2>1 DEF PassedInv, AfterParsing, IdxInv, MissingIdxReported
  <2> QED
    BY <1>2, <1>3, <2>2 DEF ResultsInv
<1>6. CASE Finish
  <2>1. pc = "finish" /\ pc' = "exit" /\ results' = results
    BY <1>6 DEF Finish, Exit
  <2>2. PassedInv'
    BY <1>1, <2>1 DEF ResultsInv, PassedInv, Expected, AfterParsing
  <2>3. IdxInv'
    BY <1>1, <2>1 DEF ResultsInv, IdxInv, MissingIdxReported
  <2> QED
    BY <1>2, <1>3, <2>2, <2>3 DEF ResultsInv
<1> QED
  BY <1>4, <1>5, <1>6

\* A call after the parsing goes on only where it did what it was asked for.
LEMMA ResultsCalled ==
    ASSUME TypeOK, ResultsInv, NEW result \in Answers,
           PrintFlat(result) \/ Search(result) \/ ExtractFile(result) \/ ExtractDir(result),
           pc' # "exit"
    PROVE  ResultsInv'
<1> DEFINE Following(c) == CASE c = "print" -> "search"
                             [] c = "search" -> "extract_file"
                             [] c = "extract_file" -> "extract_dir"
                             [] OTHER -> "finish"
<1>1. PICK c \in {"print", "search", "extract_file", "extract_dir"} :
        /\ result # "error"
        /\ Call(c, c \in Asked, Following(c), result)
  <2>1. /\ "p" \in args <=> "print" \in Asked
        /\ "s" \in args <=> "search" \in Asked
        /\ {"o", "e"} \subseteq args <=> "extract_file" \in Asked
        /\ {"O", "e"} \subseteq args <=> "extract_dir" \in Asked
    BY DEF Asked
  <2>2. CASE PrintFlat(result)
    BY <2>1, <2>2 DEF PrintFlat, Call
  <2>3. CASE Search(result)
    BY <2>1, <2>3 DEF Search, Call
  <2>4. CASE ExtractFile(result)
    BY <2>1, <2>4 DEF ExtractFile, Extract, Exit, Call
  <2>5. CASE ExtractDir(result)
    BY <2>1, <2>5 DEF ExtractDir, Extract, Exit, Call
  <2> QED
    BY <2>2, <2>3, <2>4, <2>5
<1>2. c \in Calls /\ Following(c) \in Calls \cup {"finish"} /\ Following(c) \in AfterParsing \ {"print"}
  BY DEF Calls, AfterParsing
<1>3. /\ pc = c /\ pc' = Following(c) /\ status' = "running" /\ args' = args /\ disk' = disk
      /\ input_dir' = input_dir /\ Asked' = Asked
      /\ results'[c] = (IF c \in Asked THEN "ok" ELSE "not_made")
      /\ \A d \in Calls \ {c} : results'[d] = results[d]
  BY <1>1, <1>2, AskedKept DEF Call, GoTo, disks, TypeOK, Calls
<1>4. ParsingInv'
  BY <1>2, <1>3 DEF ParsingInv, Parsing, AfterParsing
<1>5. DirAsked'
  BY <1>2, <1>3 DEF ResultsInv, DirAsked, AfterParsing, Calls
<1>6. PassedInv'
  <2>1. CASE c = "print"
    BY <1>3, <2>1 DEF ResultsInv, PassedInv, Expected, AfterParsing, Calls
  <2>2. CASE c = "search"
    BY <1>3, <2>2 DEF ResultsInv, PassedInv, Expected, AfterParsing, Calls
  <2>3. CASE c = "extract_file"
    BY <1>3, <2>3 DEF ResultsInv, PassedInv, Expected, AfterParsing, Calls
  <2>4. CASE c = "extract_dir"
    BY <1>3, <2>4 DEF ResultsInv, PassedInv, Expected, AfterParsing, Calls
  <2> QED
    BY <2>1, <2>2, <2>3, <2>4
<1>7. IdxInv'
  BY <1>1, <1>2, <1>3 DEF ResultsInv, IdxInv, MissingIdxReported, AfterParsing
<1> QED
  BY <1>4, <1>5, <1>6, <1>7 DEF ResultsInv

\* An extraction that fails ends main with an error.
LEMMA ResultsFailed ==
    ASSUME TypeOK, ResultsInv, NEW result \in Answers,
           PrintFlat(result) \/ Search(result) \/ ExtractFile(result) \/ ExtractDir(result),
           pc' = "exit"
    PROVE  ResultsInv'
<1>1. /\ status' # "ok" /\ args' = args
  BY DEF PrintFlat, Search, ExtractFile, ExtractDir, Extract, Call, Exit, GoTo, disks
<1> QED
  BY <1>1 DEF ResultsInv, ParsingInv, DirAsked, PassedInv, IdxInv, MissingIdxReported,
              Parsing, AfterParsing, Calls

LEMMA ResultsStep == TypeOK /\ ResultsInv /\ [Next]_vars => ResultsInv'
<1> SUFFICES ASSUME TypeOK, ResultsInv, [Next]_vars PROVE ResultsInv'
  OBVIOUS
<1>1. CASE UNCHANGED vars
  BY <1>1 DEF vars, disks, latest, ResultsInv, ParsingInv, DirAsked, PassedInv, Expected, Asked,
              IdxInv, MissingIdxReported
<1>2. CASE \/ NoBaseDir \/ BaseDir \/ BaseDirUnopened \/ NoBuild \/ TakeIdxDir \/ RefuseIdxDir
           \/ CheckUsage \/ \E n \in Entries : ReadEntry(n) \/ SkipEntry(n)
  BY <1>2, ResultsBefore
<1>3. CASE Parsed \/ SearchFails \/ Finish
  BY <1>3, ResultsParsed
<1>4. ASSUME NEW result \in Answers, ParseFile(result) \/ ParseDir(result)
      PROVE  ResultsInv'
  BY <1>4, ResultsParsing
<1>5. ASSUME NEW result \in Answers,
             PrintFlat(result) \/ Search(result) \/ ExtractFile(result) \/ ExtractDir(result)
      PROVE  ResultsInv'
  BY <1>5, ResultsCalled, ResultsFailed
<1> QED
  BY <1>1, <1>2, <1>3, <1>4, <1>5 DEF Next

LEMMA ResultsInductive == Spec => [](TypeOK /\ ResultsInv)
BY ResultsInit, ResultsStep, TypeCorrect, PTL DEF Spec

\* When the command ends with 0 all that was asked for was done, and each call
\* returned 0, but for the parsing of a file before that of a directory
\* (wows-depack.c:143-159, 188-213).
THEOREM ExitIsHonest == Spec => []ExitHonest
<1>1. TypeOK /\ ResultsInv => ExitHonest
  BY DEF ResultsInv, PassedInv, Expected, ExitHonest, Calls
<1> QED
  BY <1>1, ResultsInductive, PTL

\* -W never goes on to print, search or extract, nor ends with 0, on a build
\* without an index directory (utils.c:179, wows-depack.c:147-159).
THEOREM MissingIdxIsReported == Spec => []MissingIdxReported
<1>1. TypeOK /\ ResultsInv => MissingIdxReported
  BY DEF ResultsInv, IdxInv
<1> QED
  BY <1>1, ResultsInductive, PTL
=============================================================================
