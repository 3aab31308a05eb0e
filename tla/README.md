# wows-depack, in TLA+

Models, model checks and proofs of the library of this repository
(`src/lib`, `src/inc`), which reads the index files of a game's resource
archives, keeps the tree of the files they list, answers questions about it,
extracts files from it and writes archives of its own; and of the command that
uses it (`src/wows-depack.c`).

Contents: 1 the system; 2 the hard parts; 3 the modules and how they correspond
to the code; 4 the runs and their bounds; 5 where code and documentation
disagree; 6 the proofs; 7 what is not modelled; 8 the plan.

## 1. The system

The library is single-threaded: a caller makes a context, has index files parsed
into it, asks questions, extracts, and frees it. Nothing is persisted. What makes
it hard is not concurrency but partial failure (a file or an entry that fails
leaves what came before it in place), the order in which a directory lists its
files, state kept in two places, and the invariants of an open-addressed table.

| component | code | state | operations | used by |
|---|---|---|---|---|
| hash map | `lib/hashmap.c`, `lib/hashmap-helpers.c` | buckets, count, capacity, oom | set, get, delete, clear, resize, scan | context (metadata and file maps), every directory inode |
| context, index registration | `lib/index-parser.c` 202-342 | metadata_map, file_map, indexes | parse a directory, a file, a buffer | caller |
| index file layout | `lib/index-parser.c` 34-199 | one WOWS_INDEX | map the sections of a file, reject it | registration |
| inode tree | `lib/inode.c` | tree of directory and file inodes | build from an index, find a child, path of an inode | registration, lookup, search |
| path lookup | `lib/utils.c` 25-139, `lib/inflate.c` 24-83 | none | take a string apart, walk the tree | stat, readdir, extraction |
| stat, readdir, search | `lib/stat.c`, `lib/search.c`, `lib/regex-helpers.c` | result arrays | questions about the tree | caller |
| extraction | `lib/inflate.c` 85-334 | output files | extract a file, a directory | caller |
| writer | `lib/deflate.c` | an index being built, the package's offset, the stack of directories | pack a directory, write the index | caller |
| memory | `lib/memory-helpers.c` | allocations | free an index, a context | all |
| latest index directory | `lib/utils.c` 141-190 | none | scan a directory for the greatest version | command line |
| error strings, debug | `lib/error-helpers.c`, `lib/debug.c` | err_msg | formatting | all |
| command line | `wows-depack.c` | options | one sequence of calls | user |

How they interact: `wows_parse_index_dir` calls `wows_parse_index_file` for each
regular file, which maps it, has `map_index_file` check and read its sections,
puts a pointer to every record in `metadata_map` and to every data entry in
`file_map`, appends the index to `context->indexes`, and calls
`build_inode_tree`. That follows, for each data entry, the chain of parents in
`metadata_map` up to the root, then creates the missing directories from the root
down and the file last. A file inode keeps the id of its record and the number of
the index; extraction takes the package from the index and the offset from
`file_map`, so the two have to agree. Lookup, search and readdir only read.
`wows_write_pkg` walks a directory recursively, appends each file's compressed
data to the package and a record of each file and directory to the tables of an
index, and writes these out at the end. The command parses what its options
name, prints, searches and extracts, in this order.

What makes each component correct:

- hash map: it answers as a finite map does, whatever the collisions, resizes and
  failed allocations; every call returns.
- context and tree: the tree is a tree; everything it refers to exists; index
  files that agree give one tree in every order; a file's offset and package come
  from one index; failures are reported.
- lookup: a string names the inode its names lead to, and an error says why there
  is none; what one function returns another accepts.
- layout: every read is inside the file; an index is accepted whole or rejected
  and released.
- extraction: success means complete data, and nothing is written but the files
  asked for, each where its path leads, and the directories on the way.
- writer: every entry gives the bytes of its own file, the parents of the records
  lead back to the paths packed, every offset leads to what it names, the walk of
  the directory ends; what is written can be read back (it cannot, see 5).
- result arrays: nothing is written past their end.
- command: an exit with 0 means that what was asked for was done; the latest build
  is the latest.

## 2. The hard parts

`PROJECT.json` lists them as hazards, each at its line, with the properties that
cover it or the reason why none does yet. The main ones: the displacement and
backward shift of the table and its growth and shrink boundaries; allocation
failure in the middle of a call; the 16-bit dib and the 48-bit hash; a file that
fails half way through registration; directory order; a record or a data entry
defined by two indexes; chains of parents that are cyclic or too deep; file and
directory of one name; strings with repeated or trailing separators; sections
whose bounds are sums of counts and offsets taken from the file; packages and
writes that fail in the middle of an extraction; two ways of counting one
position (`ftell` and an offset kept beside it) when the writing of a file's data
fails; paths cut off by the buffer they are built in; names of the index joined
into paths as they are; offsets computed before what they name is written; errors kept in a
variable that a later call assigns.

## 3. The modules

| module | models | rests on |
|---|---|---|
| `KeyMap` | what the hash map promises: a map, answered atomically | |
| `HashMap` | `lib/hashmap.c`, one action per loop iteration | `KeyMap` (refinement mapping `Contents`) |
| `Termination` | measures of what a call has still to do | |
| `HashMapInv` | its invariants and properties | `HashMap`, `Termination` |
| `HashMapProofs` | theorems and proofs: the table | `HashMapInv` |
| `HashMapRefinement` | theorems and proofs: the table is a map | `HashMapProofs` |
| `WowsContext` | `lib/index-parser.c` 202-342, `lib/inode.c` | |
| `WowsContextInv` | its invariants and properties | `WowsContext` |
| `PathLookup` | `decompose_path`, `join_path`, `get_path_inode`, `get_inode` as operators | |
| `LookupProofs` | lemmas and proofs about these operators | `PathLookup` |
| `WowsArchive` | stat, readdir, search and the flat listing between parsing calls, and their properties | `WowsContextInv`, `PathLookup` |
| `ArchiveProofs` | theorems and proofs about the tree and the answers | `WowsArchive`, `LookupProofs` |
| `IndexFile` | `map_index_file`, `checkOutOfIndex`, `wows_free_index`, and their properties | |
| `IndexFileProofs` | theorems and proofs | `IndexFile` |
| `Extraction` | `lib/inflate.c` 85-334, and its properties | `PathLookup`, `Termination` |
| `ExtractionProofs` | theorems and proofs | `Extraction`, `LookupProofs` |
| `IndexWriter` | `lib/deflate.c`, and its properties | `Termination` |
| `IndexWriterProofs` | theorems and proofs | `IndexWriter` |
| `CommandLine` | `wows_get_latest_idx_dir` and `main`, and their properties | |
| `CommandLineProofs` | theorems and proofs | `CommandLine` |
| `MC*` | constants of the small instances | |

**HashMap.** `buckets`, `nbuckets`, `cap`, `count`, `oom` are the fields of
`struct hashmap`; `mask`, `growat` and `shrinkat` are functions of `nbuckets`.
`entry`, `i`, `spare`, `fresh`, `nfresh` and `src` are the locals of the call
under way (`edata`, the loop index, `spare`, `map2->buckets`, `map2->nbuckets`
and resize's index), `pc` says which loop it is in. `SetMovesOn`, `MoveOn`,
`FindMovesOn` and `DeleteShifts` are one iteration each. An allocation fails in
`SetOutOfMemory` and `DeleteCannotShrink`. The `recap` call is `hashmap_clear`
with `update_cap`. A bucket's hash is not stored: it is always that of its key.
`Matches` is the comparison function, so that the maps of names (`strcmp`) and of
ids (`a->id > b->id`) are instances of one module. `spare` and `edata` belong to
the map and not to the call in the code, but no call reads what an earlier one
left there.

**WowsContext.** The hash maps are maps from ids, and the tree is a function from
paths (the names from the root down) to inodes: the inodes reachable from the
root. An inode that is replaced takes what is below it out of the domain. One
action per file read, rejected or registered and per data entry built, because a
failure at any of these points leaves the earlier ones in place.
`FileParsed` is the return of `wows_parse_index_buffer` into either of its
callers: `wows_parse_index_dir` drops the result. `failed` is a history variable
with what was dropped. `index` in a record or an inode counts from 1, so 0 is no
index. Allocations succeed in this module. `RootId` is the id of the root, which
a record may have.

**PathLookup.** A string is a sequence of names and separators; no two names are
adjacent. `MAX_DIRS` limits both the directories kept and the separators skipped,
as in the code. `Walk` is the loop of `get_inode`, which goes on to the end of
the string wherever it is. `ParentNames` is `get_path_inode`, which goes up until
it meets an id of the root, be it the root's or not. Names hold no separator, as
the names of files do not: the code looks for none in the names of an index. Of one
that holds one, only `Extraction` says where it leads; its line in the flat listing
and its search results read as other names (see 5).

**WowsArchive.** Each query is one action, enabled whenever no parsing call is
under way, after parsing calls that succeeded or failed; a pattern is the set of
the strings it matches. `Answered` is the caller reading the answer: queries
change nothing, so runs of them add nothing. `Room` is the size of an array of
results when an element is written, after the growth the code does at each
chunk; `overrun` is what was written past it. `PrintFlat` is the listing of
`lib/debug.c`, as lines.

**IndexFile.** Addresses are numbers modulo `W`; `Plus` is pointer addition. A
file is a base and a length; `MapFailed` is the address `mmap` gives when it
fails, whose result the code does not look at. What the file says is chosen when
it is read: counts, sizes and offsets of any value. One action per section
checked, read or rejected and per name, in the order of the code. `reads` holds
the parts of the contents the last step read, `blocks` and `names` what the index
points to, `stray` the name allocated before its bounds are checked. `Free` is
`wows_free_index`; where its loop would follow the null `metadata` it is
`FreeCrashes`. Counts are at most 2^25 when they are multiplied, so the products
do not leave 32 bits and are plain. What `WowsContext` calls `Corrupted` are the
files this module rejects; `Register` starts from `accepted`.

**Extraction.** The tree is a constant and lookup is `GetInode` of `PathLookup`.
`file_map` is the set of files whose entry is there (an entry is missing if
`hashmap_set` had no memory), `packages` says what is left of each package.
`output` is the file system: for each path nothing, a directory, or a file, with
the file of the archive its data is of and the number of blocks. `todo` is the
stack of `hashmap_scan`s, each with the children not yet visited, in any order.
`made` and `written` are the loops of `open_file_with_parents` and of `copy_data`
or `inflate`. Any `mkdir`, `fopen`, `fwrite` or `fread` may fail. `FileDone` is
the `fclose` that follows, which may lose blocks without anyone noticing, and the
return into `wows_extract_file`, which passes the result on, or
`extract_recursive`, which drops it. `trouble` is a history variable with what
was dropped. A package is whole, ends inside the last block of each of its files,
or is missing.

The names in an output path are those of the index, joined as they are. So an
output path is the sequence of the components the file system reads in it: `Split`
says of which a name consists (`e/g` of two, an empty one of `.`), and `Place` what
the components lead to, by `.`, `..` or whatever. Every access to `output` goes
through `Place`. A file is `Plain` if all its names are `Ordinary`, of one component
that is neither `.` nor `..`; then it belongs at its own path below the output
directory. `Home` is where a file belongs, and `Alone` says that no other file of
the extraction belongs there: `DirComplete` and `OthersUntouched` speak of all
files, plain or not.

**IndexWriter.** `Source` is the disk. `full_path` is a buffer of 1024 bytes, so what
`stat`, `opendir` and `fopen` see is the first `PathRoom` bytes of the path:
`Leads(q)` is what the names `q` the recursion has come by reach. A path that fits
leads to itself. One that does not (`Cuts`) leads to its own directory if the cut
is before the name, and otherwise to whatever has the beginning of the name for a
name, or nowhere. `Spelled` are the paths the recursion can come by: below a
directory that its own entries lead back to, that directory again and again, as
deep as directories can be open at once (`MaxOpen`: `opendir` runs out of
descriptors, `EnterDirTooDeep`). `Packed`, `Files`, records and the stack are of
these paths. `stack` is the recursion of `recursive_writer`: for each call the
directory, its id and the entries `readdir` has still to give, in any order.
`package` is the sequence of the owners of its bytes, so `Len(package)` is
`ftell`; `pkg_cur_offset` is the variable of that name, which a failed
`write_data_blob` does not move. `metadata` and `entries` are the tables, with the
room allocated for each. A record keeps the path it was made for, which the code
does not: only properties compare it with the one the parents give. The index
file is written by one action per record, name and entry; of it, only where each
part starts and the offsets the records and the header hold are kept.
`PassOver` is an entry whose cut path leads nowhere or that is of another kind.
`random_uint64` is taken not to repeat itself. `fopen`, `stat`, `opendir`, reads
and writes of data may fail (`Fault`); writes of the index, which the code does
not check, do not.

**CommandLine.** `disk` says what `stat` finds at the path made of each entry of
`bin`, and at that path with `idx` behind it; the first path is cut at 1023 bytes
(`utils.c:156`), so below a very long base directory it may be another one's, and
the properties are of what is found there. `args` which options are given. `info` is the `struct stat` that
`wows_get_latest_idx_dir` uses for every entry and, unchanged by a call that
fails, for its last test. `main` is a sequence of calls of the library, each of
which answers or fails (`Call`, `Extract`); `results` is the history of what they
returned. Of the library only this is assumed: a directory that is not there
cannot be parsed.

## 4. The runs

| run | question | bounds |
|---|---|---|
| `hash_map` | Does the table stay a Robin Hood table and answer as a map; does every step of a call bring it nearer its end, and does the call return? | five names, homes 7, 7, 7 (15), 6 and 0 modulo 8; tables of 4 and 8 buckets; two values |
| `archive` | Tree shape, resolution, completeness, package consistency; do lookups answer exactly, do results, listings and lines resolve, do answers fit their arrays? | six index files, at most three registrations, two levels; every string of up to six tokens, two directories, asked of trees of up to two registrations (`MaxAsked`); chunks of 1 and 2 |
| `context_dir_result` | Is the failure of a file reported? (violated) | one index file, which is rejected |
| `archive_deep` | Is a path that exists found? (violated) | one index file; one directory kept |
| `index_file` | Is every read in the file, and an index whole or released? | memory of 10 bytes, files of 0 to 5 at its start and at its end, counts up to 3 with 2 allowed, every offset |
| `index_file_reject` | Is each broken file given its error? (violated) | the same |
| `extraction` | Is a directory recreated whole, a stored file copied, nothing else touched; does each step bring a call nearer its end, and does it return? | four files and three directories, one name of two components and one `..`, 32 states of the output, each package whole, short or missing, one call |
| `extraction_result` | Are failures reported? (violated) | the same |
| `writer` | Are entries exact, parents right, offsets closed, arrays large enough; does each step bring the call nearer its end, and does it return? | two directories and five files of 2 or 3 bytes, sizes modulo 3; paths of 10 bytes (`PathRoom`), three of which are longer; at most 3 directories open; tables growing by two |
| `writer_read_back` | Does the reader find what was written? (violated) | the same |
| `command_line` | Is the latest build taken, is an exit with 0 honest, is a missing index reported? | four entries of `bin` in any order, all 256 sets of options |
| `command_search` | Is a bad pattern an error like others? (violated) | the same |

Why these bounds are enough. *Hash map*: with tables of 4 and 8 growth happens at
3 items and shrinking at 2, so five names reach both from each side; two of the
names share the full hash, three share a home, and the homes lie at the end of
the table, so runs wrap round; runs of four buckets exercise displacement twice
over. `ShrinkDiv` is 4 in place of 10 so that the boundary is inside these sizes.
*Archive*: the four bad files each exercise one failure (rejected; entry without a
record, directories in another file and a directory with the id of the root; file
named like a directory; chain too deep or cyclic); three registrations allow a
file before, between and after two others, and a file parsed twice. Questions are
asked after up to two of them: all kinds of trees are there by then, and the third
would only combine them. Six tokens hold three directories with `MaxDirs` 2,
leading, repeated and trailing separators. Listings and results of several names make
arrays with chunks of 1 and 2 grow while they are filled. `HashMapRefinement` and
`ArchiveProofs` remove these bounds. *Index file*: the sizes
(header 1, metadata entry 1, data entry 2, footer 1, section offset 1, name 1)
let an accepted file hold two names and a data entry, and every section begin
before, in, at the end of and behind the file, round the end of memory too;
`IndexFileProofs` removes the bounds. *Extraction*: the archive has a stored and a
compressed file below a directory, nested directories and a file beside them, so
the scan goes down, comes back and goes on. The file `e/g` of `d` belongs where the
file `g` of `d/e` does, and what is in `..` belongs beside the output directory. The
first output is any combination
of directories made, files in their way and old files, which is what an earlier
call can leave, so one call is enough; `ExtractionProofs` removes the bounds.
*Writer*: a directory with two files, so
that an entry follows another in it, the path of one of them cut to that of the
other; a directory whose path leaves no room for a name, so that the file in it is
taken for the directory, three levels deep; a name cut to that of nothing; a file
of `SizeMod` bytes, whose size is then 0; the tables pass a chunk's boundary twice.
Any subset of files and directories may fail, so a failed file comes before, between
and after others, as many times as there are files. `MaxOpen` is some thousand in
the code's environment; with 3 a directory is entered from itself twice.
`IndexWriterProofs` removes the bounds. *Command*: an entry below another, one equal
to it, one without a number; the entries can be files, so what is found last can
be of the type the last test asks for or not.

Fairness: `hash_map`, `extraction` and `writer` assume weak fairness of `Step`. A
call is run by its caller's thread until it returns and waits for nothing but the
file system, so a step that stays possible is taken. New calls need not be made.
In `writer` failures are not in `Step`: nothing makes them happen. An entry that is
neither a file nor a directory is skipped as a matter of course, and a directory
cannot be opened when too many are open, so these are fair too.

Deadlock is checked in the runs of the hash map and the archive, which can always be called again. The runs of `IndexFile` end with the parsing of
the one file, those of `Extraction` with the one call (`MaxCalls`), those of the
writer and of the command with the call and the process: they say
`CHECK_DEADLOCK FALSE`. That a call does not stop half way is `CallsReturn` of
`Extraction` and `WriteReturns` of `IndexWriter`.

Non-vacuity: every property has a mutant in `PROJECT.json`, a change of a modelled
definition that a plausible slip in the code would be, under which the property's
run finds it violated. Mutants stand in the modules next to what they change.

## 5. Where code and documentation disagree

Each is a run with `expect: violation` and an entry under `findings`.

1. `context_dir_result`: `wows_parse_index_dir` returns 0 whatever happened to
   the files.
2. `archive_deep`: `decompose_path` keeps 10 directories, the tree has up to 32.
3. `index_file_reject`: an index rejected before its metadata is allocated, but
   after its counts are read, is released through a null pointer.
4. `extraction_result`: errors of the inflate loop, a package that ends too soon
   and a failed `fclose` are reported as success, and `wows_extract_dir` returns 0
   whatever happened to the files.
5. `writer_read_back`: the writer steps by the sizes of the C structures (40 and
   56), the reader by those of the format (32 and 48), so that an index with more
   than one record is not read back as it was written.
6. `command_search`: `main` prints and frees the results of a search before it
   looks whether there are any.

Others seen while modelling, in the modules as the code has them and without a run
of their own:

- `metadata_compare` and `file_compare` return `a->id > b->id`, and the hash keeps
  48 bits: a lookup may return the record of another id (`Matches` of `HashMap` is
  the comparison; the run has one that is an equality).
- A file replaces a directory of its name without an error, and everything below
  it is out of reach (`BuildFile`); only the opposite collision is reported.
- A directory whose record has the id of the root cuts the paths of everything
  below it short (`ParentNames`); `ResultsResolve` and `PrintedResolve` except
  such trees (`RootIdUnused`).
- Chains longer than `WOWS_DIR_MAX_LEVEL` lose their upper directories and
  `WOWS_ERROR_MAX_LEVEL_REACHED` is never returned (`Ancestors`).
- `file/nothing/` is answered with `file` (`Walk`, which `LookupExact` therefore
  excepts).
- 65536 items with one home wrap the 16-bit `dib` to "empty" (`DibCounts`).
- Names without a terminating zero are accepted, and the writer writes none.
- A file packed next to the data of one that could not be written whole is given
  the bytes of both (`AfterPartly`, which `EntriesExact` excepts), and one of 4 GB
  or more the size that is left of 32 bits. `wows_write_pkg` drops the errors of
  everything below it.
- The writer cuts paths at 1023 bytes. Below a directory whose path is that long or
  one byte shorter, each entry is the directory again, which is packed once more
  below itself for every entry it has, until no more directories can be open: the
  records grow exponentially with the depth. Where the cut is inside a name, the data
  of a sibling with the shorter name is packed under the longer (`Leads`). An
  `in_path` of more than 1023 bytes, which is opened whole, is left out
  (`PathAssumption`). The scan for the latest build cuts paths in the same way.
- The names of an index are joined into output paths as they are (`OutPath`): a name
  may have several components, or be `..`, so that files may have one output, and
  what is extracted may be outside of the output directory. Nor do the listing and
  the search look for a separator in a name: the string they give is then taken
  apart at other places.
- A package stays open when the entry of its file is missing (`Refuse`), and the
  directory of builds when `wows_get_latest_idx_dir` returns an error; inodes that
  are replaced are never freed.
- A parse error of `-i` is lost when a directory is given too (`ExitHonest` excepts
  it); the last test of `wows_get_latest_idx_dir` may look at the type of another
  entry (`TakeIdxDir`), which only the parsing of the directory makes up for
  (`MissingIdxReported`).

## 6. The proofs

Every safety property that a passing run checks is also a theorem, for all values
of the constants that its assumptions allow. What is left to TLC is named at the
end of this section.

`HashMapProofs` proves for every set of keys, every hash, every comparison and
every growth and shrink history, as long as no `dib` wraps:

- `TypeCorrect`: `Spec /\ []DibCounts => []TypeOK`
- `CountIsExact`: `Spec /\ []DibCounts => []CountExact`
- `AlwaysRoom`: `Spec /\ []DibCounts => []RoomLeft`
- `RobinHoodHolds`: `Spec /\ []DibCounts => []RobinHood`
- `LoopsAlwaysEnd`: `Spec /\ []DibCounts => LoopsEnd`
- `SmallTablesCount`: where no size is above 65534, `Spec => []DibCounts`

Assumptions: `SizesAssumption` and `ConstantsAssumption` of `HashMap` (sizes are
numbers from 4 up, and a size that is greater than another is even, at least its
double, and has its half among the sizes, which powers of two satisfy). Nothing in
the code keeps a table below 65536 buckets, nor a `dib` in 16 bits: `DibCounts` is
a premise on the behaviour and not an assumption, and says of the state that the
next step of an item does not wrap its `dib`. `SmallTablesCount` proves it of
tables that 16 bits can count. For larger ones it may fail, and the theorems say
nothing of what comes after.

The argument. `RobinHood` alone is not inductive. `IInv` is the conjunction of
`TypeOK`, `GrowRoom`, `CountExact` and `RobinHood`, each of which already
speaks of the inside of the loops: the gap `hashmap_delete` carries is left out
of the items (`Gap`, `Live`), and the item under way is `OnItsWay`, at the
distance from home its `dib` says with full buckets behind it. `GrowRoom`
is that `growat` bounds `count`, at every point of a call; `RoomLeft` follows from
it and `CountExact` (growth is triggered by an equality on `count`), `TypeOK` needs
`RoomLeft` (an index stays in the table because sizes are exact), and that a
`dib` does not wrap needs `RobinHood` (it is a distance). `Invariance` is
`Init => IInv`, one lemma per group of actions (`StepIInv`), and PTL; the lemmas
before them are about `Dist` on a ring, about putting an item in a bucket and
about shifting a run by one.

`HashMapRefinement` proves that the table is a map:

- `MapInvariance`: `KeysTellApart => (Spec /\ []DibCounts => []MapInv)`
- `Refinement`: `KeysTellApart => (Spec /\ []DibCounts => ImplementsKeyMap)`
- `NamesRefinement`: where the comparison is equality and no size is above 65534,
  `Spec => ImplementsKeyMap`

`KeysTellApart` is that of two keys of one hash the comparison finds equal those
that are. It holds of `strcmp`, so `NamesRefinement` is what the children of a
directory rely on; of the comparison of ids it holds as long as no two ids share the
48 bits of the hash, which the code does not guarantee (see 5): of `metadata_map`
and `file_map` the theorem says that they are maps for ids that do not.

The argument. A Robin Hood table says where a key must be if it is there (`Passed`:
a probe that meets an empty bucket or an item nearer to its home may stop), not that
it is there once. `MapInv` says, for each loop, what has become of the items it has
passed: a key is in the table at most once, but for the item a backward shift has
copied and not yet cleared (`ItemsOnce`); the item `hashmap_delete` takes out is
nowhere (`ItemOut`); `hashmap_set` carries its own item past no other of its key, or
carries one it has displaced while its own is down where the loop does not come back
to (`Carrying`); the new table of a resize holds the items of the buckets gone
through and the one being moved (`Moved`). Each action is then a step of `KeyMap` or
none: the lemma of each is about `Contents` before and after.

`IndexFileProofs` proves for a memory of any size, files of any length mapped
anywhere or not at all, sections of any size, and any counts, sizes and offsets:

- `TypeCorrect`: `Spec => []TypeOK`
- `ReadsStayInside`: `Spec => []ReadsInside`
- `AcceptedIsWhole`: `Spec => []AcceptedWhole`
- `FreedIsWhole`: `Spec => []FreedWhole`

Assumptions: `SizesAssumption` (sizes are numbers, the header's is not 0, the
section offset is an address) and `MappingAssumption`: a mapping does not go
round the end of memory, and its length plus that of the largest section is less
than the size of memory (sections have at most 2^25 entries of 48 bytes, and a
mapping on a 64-bit system is far shorter than 2^64). The second is what makes
`checkOutOfIndex` sound: it compares a start and an end that were computed modulo
`W`, and never that the end is not before the start.

The argument. A single check is sound by `InsideIndex`, and a failed `mmap` never
passes the first (`HeaderInside`). The entries of the metadata and of the data
section are read without a check of their own, so `ReadsInside` needs
`MetadataChecked` (the whole section ends inside the file, as long as its loop
runs) and `CountsChecked` (the counts were limited before they were multiplied);
`EntryFits` is the arithmetic. `NamesKept` and `BlocksKept` say what is allocated
at each point: names are those of the entries passed, and where there is a name
there is a header that counts it, which is why `Free` leaves none.

`ArchiveProofs` proves for every set of index files, whatever their records,
entries and ids, for every limit and every chunk:

- `TreeIsATree`: `ArchiveSpec => []TreeShape`
- `ContextTyped`: `ArchiveSpec => []TypeOK`
- `AlwaysResolvable`: `ArchiveSpec => []Resolvable`
- `TreeAlwaysComplete`: `ArchiveSpec => []TreeComplete`
- `PackagesAlwaysAgree`: `ArchiveSpec => []PkgConsistent`
- `LookupAlwaysExact`: `ArchiveSpec => []LookupExact`
- `ListedAlwaysResolve`: `ArchiveSpec => []ListedResolve`
- `ResultsAlwaysResolve`: `ArchiveSpec => []ResultsResolve`
- `PrintedAlwaysResolve`: `ArchiveSpec => []PrintedResolve` (the names of the lines
  are the paths of the files, all of them and nothing else, and a line short enough
  to be taken apart is answered with its file)
- `AnswersAlwaysFit`: `ArchiveSpec => []AnswersFit`

Assumptions: `ContextAssumption` (the sections hold records and ids, and the value
for "no record" is none of these), `LookupAssumption` (`MAX_DIRS` is not 0) and
`ArchiveAssumption` (the separator is not a name, no two names of a string are
adjacent, chunks are not empty).

The argument. `TreeInv` adds to `TreeShape` that paths are sequences and that
there are finitely many. The first is what makes "the directory above" of a path
the path of a step before it; the second gives listings and searches a count.
Only `BuildFile` changes the tree (`TreeBuildFile`): the paths it adds are the
prefixes of one path, so each but the first has the one before it above, and the
inodes it takes out are those below the file, so what stays keeps what is above
it. That the chain of parents may be cut off or cyclic does not matter. For the
arrays, of any `chunk` places in a row one is the last of its chunk
(`LastOfChunk`), so the last growth before an element is less than a chunk away
(`RoomCovers`).

`Resolvable` is inductive with `TypeOK` and `Located` (`ContextInv`): a record is
found under its own id, an inode names an index there is, and while the tree of a
file is built its entries are in `file_map`. The last is the order of the code,
maps first and tree after.

`TreeComplete` and `PkgConsistent` speak of a context between two calls, of index
files that agree. `CompleteInv` says what holds inside of one: what is registered
is in the maps (`MapsComplete`), and the tree is that of the entries it has been
built of (`TreeIsBuilt`), with `Built` those of the earlier indexes and of the
present one up to `entry`, and `Coming` the rest. A file of an entry still to come
may name an older index than `file_map` does, and no other may. Three things carry
the proof. Going up from a record and going down to it meet the same ids
(`PathOfChain`): so `get_path`, which goes up, and `FilePaths`, which is defined
going down, speak of the same paths. Files that agree did so before the last of
them was registered, and it leaves the paths of their files where they were
(`AgreedBefore`): this is what makes the order of the directory irrelevant. And no
entry of files that agree is refused, nor does one replace a directory
(`NeverRefused`, `NothingBelow`).

The answers are computed by the operators of `PathLookup`, about which
`LookupProofs` proves what is needed for every tree, string and limit. Their
recursive functions are taken apart by proving that a function that satisfies the
equation exists (`RecursionExists`, by induction over the sets of numbers up to a
bound, `BoundedInduction`) and never from what they compute. `GetInodeExact` says
that a string short enough to be taken apart leads where its names do and that an
error is the right one; `PathStringResolves` that the string made of an inode's
path, by going up to the root, leads back to it, where no directory but the root
has its id (`RootIdOnce`). `AnswerInv` says that the last answer is still that of
the tree as it is. The exceptions of the properties, what is below a file and
trees with `RootId` on another directory, are real (see 5).

`ExtractionProofs` proves for every archive, package, output directory and
whatever the file system refuses, over any number of calls:

- `ExtractionTyped`: `Spec => []TypeOK`
- `StoredAlwaysCopied`: `Spec => []StoredIsCopied`
- `OthersAlwaysUntouched`: `RootIdOnce(Tree)` implies `Spec => OthersUntouched`
- `DirAlwaysComplete`: `RootIdOnce(Tree)` implies `Spec => []DirComplete`
- `CallsAlwaysEnd`: `Spec => CallsEnd`

Assumptions: `ExtractionAssumption` (the archive is a tree, as `TreeIsATree` says,
of finitely many inodes, as `TreeInv` does, and only files have data; a name has at
least one component; paths that are asked for are of names of one component) and
`FileSystemAssumption`: the output file of `wows_extract_file`, the output
directory, and ordinary names below it lead to themselves. There are no links. Of
what other paths lead to nothing is assumed: `Place` is any function.
`RootIdOnce` is needed: where another directory has the id of the root the
paths of the files below it lose what is above it, and two files may be written to
one place. The argument. `CallInv` is about the loops over directories and blocks:
what is opened is a file and stays one while it is written, and a stored file has
been given as many blocks as were read. `ScopeInv` says that what is still to scan
is below the directory asked for, and that the output file is that of the file at
hand. `DirInv` says that, as long as nothing failed, each file below it is waiting
or has all its data: `Waiting` is that it is the file at hand or below something
a scan has still to visit. Going into a directory and coming back keeps it waiting,
and no other file is written to its place if it is `Alone`. What a file of ordinary
names gives when it is joined and taken apart again is its own path (`FlattenOnes`).
While proving `TypeOK` it came out that the model left in `made` the count of an
earlier call when a single file is extracted; in the code it is a local, and
`ExtractFile` now resets it.

`IndexWriterProofs` proves for every directory, with files, names and structures
of any size, whatever fails:

- `TypeCorrect`: `Spec => []TypeOK`
- `ArraysAlwaysFit`: `Spec => []ArraysFit`
- `EntriesAreExact`: `Spec => []EntriesExact`
- `LayoutIsClosed`: `Spec => []LayoutClosed`
- `TreeIsWritten`: `Spec => []TreeWritten`
- `WorkAlwaysEnds`: `Spec => WorkEnds`

Assumptions: `WriterAssumption` (the disk is a directory tree: each path has a
directory above it, and there are finitely many, also of the paths the recursion can
come by, as only so many directories can be open; sizes are numbers; the marker is
not a file) and `PathAssumption` (a path is one byte and a name longer than its
directory's; `in_path` fits `full_path`; a path cut before its name leads to its
directory).
`EntriesExact` is not inductive: `EntriesInv` adds that each entry belongs to a
record (`EntryIds`), that the offset is the end of the package unless the last
file opened failed half way (`OffsetKept`), and that what is in the package from
the start of the file being written is that file's (`BlobKept`). `LayoutInv` says
what each offset computed so far promises: `NamesPromised` where each record's
name will be, as a distance from the record, `NextPosition` that the next name is
where the last ended, and `DataPlaced` where the entries stand. `TreeWritten` follows from
`WalkInv`: each path is recorded, missed, still to be read or the file being
written, and one of these only (`Accounted`); the directories on the stack lie one
in another and have their record (`FramesIn`), and what they have still to read
does not overlap (`ApartIn`); a record's parent has a smaller id and is the record
of the directory (`RecordsLead`). From the last, going up the parents leads through
the path and ends, which is what the recursive function `PathOf` computes. That what
is on the disk under paths that fit is among the paths the recursion comes by is
`WholeSpelled`: each directory on the way fits too, and leads to itself.

`CommandLineProofs` proves for every directory of builds, every set of options and
whatever the library answers:

- `TypeCorrect`: `Spec => []TypeOK`
- `LatestAlwaysWins`: `Spec => []LatestWins`
- `ExitIsHonest`: `Spec => []ExitHonest`
- `MissingIdxIsReported`: `Spec => []MissingIdxReported`

Assumption: `CommandAssumption` (names of entries are not the value of `-I`; there
are finitely many). `ScanInv` is the loop of `wows_get_latest_idx_dir`: what is kept
is the greatest of the builds seen. `ResultsInv` follows `main`: where the parsing
is not yet over, `ret` is what the last call that was asked for returned
(`ParsingInv`); after it, each call that is passed did what it was asked for
(`PassedInv`), because the test after the parsing looks at `ret` and an extraction
that fails ends `main`; and a directory that was parsed was there (`IdxInv`).

That calls end. `LoopsEnd`, `CallsEnd` and `WorkEnds` say that each step of a call
lowers its `Variant`, three numbers of which each counts for more than those after
it, which cannot go on for ever. In the hash map these are the loops still to run,
the buckets a resize has still to go through, and the distance to the nearest empty
bucket ahead. There is one because `count` is exact and below the size (`RoomLeft`),
and a loop fills no empty bucket but the one it ends at; in a backward shift the gap
carried along does not count. In an extraction they are the
inodes below what the scan has still to visit and the depth of its stack; the stages
of a file; and the directories or blocks left in its loop. The scans do not overlap
(`Apart`), so entering a directory takes it from what is ahead. In the writer they
are the parts of the call (the walk, the two tables); the paths still to come
(`ComingOf`), of which a directory that is entered from itself has a new one each
time, and finitely many in all, and the directories on the stack, or the records,
names and entries still to be written; and the bytes of the file at hand, of which no
more than its size are written (`BlobFits`).

Only model-checked: `CallsReturn` of `HashMapInv` and of `Extraction` and
`WriteReturns` of `IndexWriter`, which are liveness under fairness and out of the
prover's reach. What is proved is their larger half, that a call cannot take steps
for ever; what the runs add is that it never stands still before its return (some
step is enabled, which is about ENABLED) and that fairness then takes the step. The runs that expect a violation are counterexamples, and there is
nothing to prove of them.

## 7. What is not modelled

- The release of a whole context (`wows_free_context`), which frees every index and
  then every inode that the tree reaches. Inodes that were replaced are not reached
  and stay allocated.
- The order of the bytes of an index file (`context->is_le`), which is set from
  each file before anything depends on it.
- `wows_extract_file_fp` as a call of its own, and the `FILE` argument of
  `internal_wows_extract_dir`, a hook of the tests.
- Names of an index that hold a separator, but for where their files are extracted to;
  symbolic links in the output directory.
- The value of a size, and `get_pkg_filepath`, which makes the name of a package
  from that of its index.
- Failed writes of an index file, which the writer does not look at; that the ids
  it draws may repeat; links in the packed directory that lead back to it.
- `hashmap_scan`, `hashmap_iter` and `hashmap_probe` read the table and nothing
  else; the context's maps never delete, so no cursor is invalidated. The hash
  functions are the constant `Hash`.
- Out-of-memory outside the hash map, where the code mostly does not handle it.
- Error strings and the other debug output are formatting; a message left by an
  earlier call stays in `err_msg`. `deps/` is third-party code;
  zlib, pcre2 and the C library are external.

## 8. The plan

In this order, the most important behaviour first:

1. `KeyMap`, `HashMap`, `HashMapInv`, `HashMapProofs` (done).
2. `WowsContext`, `WowsContextInv` (done): registration and tree.
3. `PathLookup`, `WowsArchive` (done): questions.
4. `IndexFile`, `IndexFileProofs` (done): the layout of an index file.
5. `Extraction` (done): files and directories, with I/O errors at each step.
6. `IndexWriter`, `IndexWriterProofs` (done): the writer and the layout it gives.
7. `CommandLine`, `CommandLineProofs`, result arrays, flat listing (done).
8. `ArchiveProofs` (done): the tree and the arrays.

9. `LookupProofs`, `HashMapRefinement`, `ExtractionProofs` (done), and the rest of
   `ArchiveProofs` and `IndexWriterProofs` (done).
10. `Termination`: measures of what a call has still to do, and the proofs that
   every step lowers them (done).

To add: an abstract specification of the context (a tree that files are put into,
or that is left as it was) for `WowsContext` to implement; the release of a
context.
