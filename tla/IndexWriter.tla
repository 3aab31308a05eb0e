----------------------------- MODULE IndexWriter -----------------------------
(***************************************************************************)
(* wows_write_pkg (lib/deflate.c): a directory is walked, the data of each *)
(* file appended to the package and a record of each file and directory to *)
(* the tables of the index, which is then written out.  Directories and    *)
(* files may fail to open, reads and writes of data may fail part of the   *)
(* way.                                                                    *)
(*                                                                         *)
(* The package is the sequence of the owners of its bytes.  Of the index   *)
(* file only where its parts start is kept.  random_uint64 is taken not to *)
(* repeat itself: an id is the number of its record.                       *)
(*                                                                         *)
(* Paths are built in a buffer that cuts them off.  A path of the module   *)
(* is the names the recursion has come by, and Leads says what of the disk *)
(* the cut path reaches.                                                   *)
(***************************************************************************)
EXTENDS Integers, Sequences, FiniteSets, SequencesExt, Termination

CONSTANTS
    Source,      \* path -> "dir", "file" or "other", as stat has it: what is packed
    Bytes,       \* Bytes[p]: the compressed size of file p
    NameSize,    \* NameSize[n]: strlen of name n
    PathSize,    \* PathSize[p]: strlen of the path of p, in_path and all
    PathRoom,    \* 1023, what full_path has room for
    Cut,         \* Cut[p]: what stat finds at the first PathRoom bytes of p
    Nowhere,     \* Cut[p] where stat finds nothing
    MaxOpen,     \* how many directories can be open at once
    SizeMod,     \* 2^32, what size_pkg_data can count
    Marker,      \* the id after the data of a file, a WOWS_PKG_ID_ENTRY
    Chunk,       \* CHUNK_FILE
    HeaderSize, MetadataSize, DataSize,   \* sizeof the C structures
    ReadMetadataSize, ReadDataSize,       \* SIZE_WOWS_INDEX_* of the reader
    MagicOffset  \* MAGIC_SECTION_OFFSET

OnDisk == DOMAIN Source \ {<< >>}
Names  == UNION {ToSet(p) : p \in DOMAIN Source}

\* The paths full_path has room for, and the first ones it has none for.
Whole == {p \in DOMAIN Source : PathSize[p] <= PathRoom}
Cuts  == {p \in OnDisk : p \notin Whole /\ Front(p) \in Whole}

\* Where stat, opendir and fopen get to by the path q of names the recursion
\* has come by: each full_path is the first PathRoom bytes of it.
Leads(q) ==
    IF q \in Whole THEN q ELSE Cut[CHOOSE p \in Cuts : IsPrefix(p, q)]

\* The paths the recursion can come by.  Below a directory whose path leaves no
\* room for a name, each name leads to that directory again.
Spelled ==
    {q \in BoundedSeq(Names, MaxOpen) :
       \A k \in DOMAIN q :
         LET dir == Leads(SubSeq(q, 1, k - 1))
         IN  dir # Nowhere /\ Append(dir, q[k]) \in OnDisk}

Kind(q) == IF Leads(q) = Nowhere THEN "none" ELSE Source[Leads(q)]

Packed == Spelled \ {<< >>}
Files  == {p \in Packed : Kind(p) = "file"}

\* Whatever is in a file system is in a directory of it, and a file system ends.
ASSUME WriterAssumption ==
    /\ IsFiniteSet(DOMAIN Source) /\ IsFiniteSet(Spelled)
    /\ << >> \in DOMAIN Source /\ DOMAIN Source \subseteq Seq(Names)
    /\ \A p \in OnDisk : Front(p) \in DOMAIN Source /\ Source[Front(p)] = "dir"
    /\ Bytes \in [{p \in DOMAIN Source : Source[p] = "file"} -> Nat]
    /\ Marker \notin DOMAIN Source
    /\ {SizeMod, Chunk, MaxOpen} \subseteq Nat \ {0}
    /\ {HeaderSize, MetadataSize, DataSize, MagicOffset,
        ReadMetadataSize, ReadDataSize} \subseteq Nat
    /\ MagicOffset <= HeaderSize

\* A path is in_path, and a separator and a name for each step down.  Cut off
\* before the name, or with nothing of it, it leads to the directory itself;
\* within the name, to whatever has that beginning of it for a name, or nowhere.
ASSUME PathAssumption ==
    /\ NameSize \in [Names -> Nat]
    /\ PathSize \in [DOMAIN Source -> Nat] /\ PathRoom \in Nat
    /\ PathSize[<< >>] <= PathRoom
    /\ \A p \in OnDisk : PathSize[p] = PathSize[Front(p)] + 1 + NameSize[Last(p)]
    /\ Nowhere \notin DOMAIN Source
    /\ Cut \in [Cuts -> DOMAIN Source \cup {Nowhere}]
    /\ \A p \in Cuts : PathSize[Front(p)] + 1 >= PathRoom => Cut[p] = Front(p)

VARIABLES
    stack,           \* the calls of recursive_writer: path, id, entries still to read
    blob,            \* the file of write_data_blob, start_offset and start
    package,         \* what is written of the package
    pkg_cur_offset,
    metadata,        \* index->metadata
    metadata_room,   \* metadata_section_size, in records
    entries,         \* index->data_file_entry
    entries_room,    \* file_section_size, in entries
    general_offset,
    string_start,
    position,        \* ftell(idx_fp)
    out_metadata,    \* the records written: where, and offset_idx_file_name
    out_names,       \* where the names were written
    out_data,        \* where the data entries were written
    out_header,      \* the offsets of the header and where the footer is
    pc,
    missed,          \* history: what was skipped or could not be read
    outcome          \* history: how the data of each entry was written

walk == <<stack, blob>>
pkg == <<package, pkg_cur_offset>>
tables == <<metadata, metadata_room, entries, entries_room>>
dump == <<general_offset, string_start, position, out_metadata, out_names, out_data, out_header>>
history == <<missed, outcome>>
vars == <<walk, pkg, tables, dump, pc, history>>

\* Mutant: the entry "." of a directory is not passed over.
ChildrenAndItself(p) == {q \in Packed : Front(q) = p \/ q = p}

Children(p) == {q \in Packed : Front(q) = p}
NoBlob == [path |-> << >>, offset |-> 0, start |-> 0]

Init ==
    /\ stack = << >>
    /\ blob = NoBlob
    /\ package = << >>
    /\ pkg_cur_offset = 0
    /\ metadata = << >> /\ metadata_room = 0
    /\ entries = << >> /\ entries_room = 0
    /\ general_offset = 0
    /\ string_start = 0
    /\ position = 0
    /\ out_metadata = << >>
    /\ out_names = << >>
    /\ out_data = << >>
    /\ out_header = [data |-> 0, footer |-> 0, footer_at |-> 0]
    /\ pc = "idle"
    /\ missed = {}
    /\ outcome = << >>

-----------------------------------------------------------------------------
(* The tables                                                              *)

\* Mutant: the array grows only once it is too small.
RoomOnceLate(room, count) == IF room < count THEN room + Chunk ELSE room

\* The array has room for one more after its size and count are compared.
RoomFor(room, count) == IF room - count = 0 THEN room + Chunk ELSE room

NewId == Len(metadata) + 1

PutMetadata(p, parent) ==
    /\ metadata' = Append(metadata, [id |-> NewId, parent |-> parent, path |-> p])
    /\ metadata_room' = RoomFor(metadata_room, Len(metadata))

PutEntry(offset, size) ==
    /\ entries' = Append(entries, [id |-> NewId, offset |-> offset, size |-> size])
    /\ entries_room' = RoomFor(entries_room, Len(entries))

-----------------------------------------------------------------------------
(* recursive_writer                                                        *)

Walking == pc = "walk" /\ stack # << >>
Top == Last(stack)
Enter(p, id) == [dir |-> p, id |-> id, todo |-> Children(p)]
Left(p) == [Top EXCEPT !.todo = @ \ {p}]

\* The next entry readdir gives, in any order.
Take(p) == Walking /\ p \in Top.todo
GoOn(p) == stack' = Append(Front(stack), Left(p))

WritePkg ==
    /\ pc = "idle"
    /\ stack' = <<Enter(<< >>, 0)>>
    /\ pc' = "walk"
    /\ UNCHANGED <<blob, pkg, tables, dump, history>>

\* The result of recursive_writer is dropped: an empty package is written.
WritePkgUnopened ==
    /\ pc = "idle"
    /\ pc' = "walk"
    /\ missed' = Packed
    /\ UNCHANGED <<walk, pkg, tables, dump, outcome>>

\* stat fails, which goes unreported.
SkipEntry(p) ==
    /\ Take(p)
    /\ GoOn(p)
    /\ missed' = missed \cup {q \in Packed : IsPrefix(p, q)}
    /\ UNCHANGED <<blob, pkg, tables, dump, pc, outcome>>

\* The cut path leads nowhere, or the entry is of another kind.
PassOver(p) == Kind(p) \notin {"dir", "file"} /\ SkipEntry(p)

\* Mutant: what a directory holds is given the directory's own parent.
EnterDirAside(p) ==
    /\ Take(p)
    /\ Kind(p) = "dir"
    /\ Len(stack) < MaxOpen
    /\ PutMetadata(p, Top.id)
    /\ stack' = Append(Append(Front(stack), Left(p)), [Enter(p, NewId) EXCEPT !.id = Top.id])
    /\ UNCHANGED <<blob, pkg, entries, entries_room, dump, pc, history>>

EnterDir(p) ==
    /\ Take(p)
    /\ Kind(p) = "dir"
    /\ Len(stack) < MaxOpen
    /\ PutMetadata(p, Top.id)
    /\ stack' = Append(Append(Front(stack), Left(p)), Enter(p, NewId))
    /\ UNCHANGED <<blob, pkg, entries, entries_room, dump, pc, history>>

\* The directory has its record by the time it cannot be opened.
EnterDirUnopened(p) ==
    /\ Take(p)
    /\ Kind(p) = "dir"
    /\ PutMetadata(p, Top.id)
    /\ GoOn(p)
    /\ missed' = missed \cup {q \in Packed : IsStrictPrefix(p, q)}
    /\ UNCHANGED <<blob, pkg, entries, entries_room, dump, pc, outcome>>

\* A directory stays open while what it holds is read: at some depth opendir
\* is out of descriptors.
EnterDirTooDeep(p) == Len(stack) = MaxOpen /\ EnterDirUnopened(p)

CloseDir ==
    /\ Walking
    /\ Top.todo = {}
    /\ stack' = Front(stack)
    /\ UNCHANGED <<blob, pkg, tables, dump, pc, history>>

-----------------------------------------------------------------------------
(* write_data_blob, and the record and entry of the file after it          *)

PutFile(p, offset, size, how) ==
    /\ PutMetadata(p, Top.id)
    /\ PutEntry(offset, size)
    /\ outcome' = Append(outcome, how)
    /\ UNCHANGED missed

\* fopen or deflateInit2 fails: the entry is written all the same.
BlobUnopened(p) ==
    /\ Take(p)
    /\ Kind(p) = "file"
    /\ GoOn(p)
    /\ PutFile(p, pkg_cur_offset, 0, "unopened")
    /\ UNCHANGED <<blob, pkg, dump, pc>>

OpenBlob(p) ==
    /\ Take(p)
    /\ Kind(p) = "file"
    /\ GoOn(p)
    /\ blob' = [path |-> p, offset |-> pkg_cur_offset, start |-> Len(package)]
    /\ pc' = "blob"
    /\ UNCHANGED <<pkg, tables, dump, history>>

BytesDone == Len(package) - blob.start

\* The compressed size of the file the path leads to.
BlobSize == Bytes[Leads(blob.path)]

\* A byte of the compressed data is written.
WriteByte ==
    /\ pc = "blob"
    /\ BytesDone < BlobSize
    /\ package' = Append(package, Leads(blob.path))
    /\ UNCHANGED <<walk, pkg_cur_offset, tables, dump, pc, history>>

\* Reading or writing fails: the bytes written stay, the offset does not move.
BlobFails ==
    /\ pc = "blob"
    /\ PutFile(blob.path, blob.offset, 0, "partly")
    /\ pc' = "walk"
    /\ UNCHANGED <<walk, pkg, dump>>

\* Mutant: the loop waits for a byte more than there is.
BlobDoneLate ==
    /\ pc = "blob"
    /\ BytesDone > BlobSize
    /\ PutFile(blob.path, blob.offset, BytesDone % SizeMod, "whole")
    /\ pc' = "walk"
    /\ UNCHANGED <<walk, pkg, dump>>

\* Mutant: the offset is taken before the marker is written.
BlobDoneUnmarked ==
    /\ pc = "blob"
    /\ BytesDone = BlobSize
    /\ package' = Append(package, Marker)
    /\ pkg_cur_offset' = Len(package)
    /\ PutFile(blob.path, blob.offset, BytesDone % SizeMod, "whole")
    /\ pc' = "walk"
    /\ UNCHANGED <<walk, dump>>

\* The write of the marker is not checked.
BlobDone ==
    /\ pc = "blob"
    /\ BytesDone = BlobSize
    /\ package' \in {package, Append(package, Marker)}
    /\ pkg_cur_offset' = Len(package')
    /\ PutFile(blob.path, blob.offset, BytesDone % SizeMod, "whole")
    /\ pc' = "walk"
    /\ UNCHANGED <<walk, dump>>

-----------------------------------------------------------------------------
(* wows_dump_index_to_file                                                 *)

DumpHeader ==
    /\ pc = "walk" /\ stack = << >>
    /\ position' = HeaderSize
    /\ general_offset' = HeaderSize
    /\ string_start' = MetadataSize * Len(metadata)
    /\ pc' = "metadata"
    /\ UNCHANGED <<walk, pkg, tables, out_metadata, out_names, out_data, out_header, history>>

\* Mutant: the distance to the name is not shortened by the record passed.
NextStringKept(n) == string_start + NameSize[Last(metadata[n].path)]

\* From the next record its name is a record nearer, and after this one's.
NextString(n) == string_start - MetadataSize + NameSize[Last(metadata[n].path)]

DumpMetadata ==
    LET n == Len(out_metadata) + 1 IN
    /\ pc = "metadata"
    /\ n <= Len(metadata)
    /\ out_metadata' = Append(out_metadata, [at |-> position, offset |-> string_start])
    /\ position' = position + MetadataSize
    /\ general_offset' = general_offset + MetadataSize
    /\ string_start' = NextString(n)
    /\ UNCHANGED <<walk, pkg, tables, out_names, out_data, out_header, pc, history>>

\* A name is written without its terminating zero.
DumpName ==
    LET n == Len(out_names) + 1
        size == NameSize[Last(metadata[n].path)]
    IN
    /\ pc = "metadata"
    /\ Len(out_metadata) = Len(metadata)
    /\ n <= Len(metadata)
    /\ out_names' = Append(out_names, [at |-> position, size |-> size])
    /\ position' = position + size
    /\ general_offset' = general_offset + size
    /\ UNCHANGED <<walk, pkg, tables, string_start, out_metadata, out_data, out_header, pc, history>>

\* start_data
StartData ==
    /\ pc = "metadata"
    /\ Len(out_names) = Len(metadata)
    /\ out_header' = [out_header EXCEPT !.data = general_offset - MagicOffset]
    /\ pc' = "data"
    /\ UNCHANGED <<walk, pkg, tables, general_offset, string_start, position,
                   out_metadata, out_names, out_data, history>>

\* Mutant: the loop goes by the count of the records.
DumpDataByRecords ==
    /\ pc = "data"
    /\ Len(out_data) < Len(metadata)
    /\ out_data' = Append(out_data, position)
    /\ position' = position + DataSize
    /\ general_offset' = general_offset + DataSize
    /\ UNCHANGED <<walk, pkg, tables, string_start, out_metadata, out_names, out_header, pc, history>>

DumpData ==
    /\ pc = "data"
    /\ Len(out_data) < Len(entries)
    /\ out_data' = Append(out_data, position)
    /\ position' = position + DataSize
    /\ general_offset' = general_offset + DataSize
    /\ UNCHANGED <<walk, pkg, tables, string_start, out_metadata, out_names, out_header, pc, history>>

\* The footer, the name of the package, and the header over the first one.
DumpFooter ==
    /\ pc = "data"
    /\ Len(out_data) = Len(entries)
    /\ out_header' = [out_header EXCEPT !.footer = general_offset - MagicOffset,
                                        !.footer_at = position]
    /\ pc' = "done"
    /\ UNCHANGED <<walk, pkg, tables, general_offset, string_start, position,
                   out_metadata, out_names, out_data, history>>

-----------------------------------------------------------------------------

Step ==
    \/ WritePkg \/ CloseDir
    \/ \E p \in Packed : PassOver(p) \/ EnterDir(p) \/ EnterDirTooDeep(p) \/ OpenBlob(p)
    \/ WriteByte \/ BlobDone
    \/ DumpHeader \/ DumpMetadata \/ DumpName \/ StartData \/ DumpData \/ DumpFooter

Fault ==
    \/ WritePkgUnopened \/ BlobFails
    \/ \E p \in Packed : SkipEntry(p) \/ EnterDirUnopened(p) \/ BlobUnopened(p)

Next == Step \/ Fault

Spec == Init /\ [][Next]_vars

\* The loops go on; nothing is assumed of what fails by chance.
FairSpec == Spec /\ WF_vars(Step)

-----------------------------------------------------------------------------
(* Properties                                                              *)

WalkType ==
    /\ stack \in Seq([dir : Spelled, id : Nat, todo : SUBSET Packed])
    /\ blob \in [path : Spelled, offset : Nat, start : Nat]
    /\ missed \subseteq Packed
    /\ pc \in {"idle", "walk", "blob", "metadata", "data", "done"}
    /\ pc = "blob" => blob.path \in Files /\ stack # << >> /\ blob.start <= Len(package)

TablesType ==
    /\ package \in Seq(DOMAIN Source \cup {Marker})
    /\ pkg_cur_offset \in Nat
    /\ metadata \in Seq([id : Nat, parent : Nat, path : Packed])
    /\ entries \in Seq([id : Nat, offset : Nat, size : 0 .. SizeMod - 1])
    /\ metadata_room \in Nat
    /\ entries_room \in Nat
    /\ outcome \in Seq({"whole", "partly", "unopened"})
    /\ Len(outcome) = Len(entries)

DumpType ==
    /\ general_offset \in Nat
    /\ position \in Nat
    /\ string_start \in Int
    /\ out_metadata \in Seq([at : Nat, offset : Int]) /\ Len(out_metadata) <= Len(metadata)
    /\ out_names \in Seq([at : Nat, size : Nat]) /\ Len(out_names) <= Len(metadata)
    /\ out_data \in Seq(Nat) /\ Len(out_data) <= Len(entries)
    /\ out_header \in [data : Int, footer : Int, footer_at : Nat]

\* Every variable has its type; the file being written is one of Source and
\* its data is at the end of the package; the loops stay inside their arrays.
TypeOK == WalkType /\ TablesType /\ DumpType

\* The last file before the n-th that was opened could not be written whole.
AfterPartly(n) ==
    \E k \in 1 .. n - 1 :
      outcome[k] = "partly" /\ \A j \in k + 1 .. n - 1 : outcome[j] = "unopened"

EntryExact(n) ==
    LET e == entries[n]
        f == Leads(metadata[e.id].path)
    IN
    /\ e.offset + e.size <= Len(package)
    /\ outcome[n] = "whole" /\ ~ AfterPartly(n) /\ Bytes[f] < SizeMod =>
         /\ e.size = Bytes[f]
         /\ \A k \in 1 .. e.size : package[e.offset + k] = f

\* Every entry lies in the package, and the bytes an entry gives are those of
\* the file its path leads to, its own unless the path is cut, whatever was
\* skipped or failed before, but for the one file written next to the data of a
\* failed one: write_data_blob takes the size from ftell, the caller the offset
\* from pkg_cur_offset, and a failure moves only the first (deflate.c:119, 145,
\* 160, 168, 176, 300-308).
EntriesExact == \A n \in DOMAIN entries : EntryExact(n)

\* The path the parents of a record lead to.
PathOf ==
    LET path[n \in 0 .. Len(metadata)] ==
          IF n = 0 THEN << >>
          ELSE Append(path[metadata[n].parent], Last(metadata[n].path))
    IN  path

\* The parents of the records lead back to the paths the recursion came by,
\* each once, directories before what they hold, and there is an entry for each
\* file and for nothing else, whatever could not be read.  What is on the disk
\* under paths that are not cut is among them, as deep as directories can be
\* opened; under a cut path the index holds what the cut path leads to, the
\* same directory once more below itself included (deflate.c:275-310).
TreeWritten ==
    pc = "done" =>
      /\ \A n \in DOMAIN metadata : metadata[n].parent < n
      /\ {PathOf[n] : n \in DOMAIN metadata} = Packed \ missed
      /\ \A m, n \in DOMAIN metadata : PathOf[m] = PathOf[n] => m = n
      /\ {PathOf[entries[n].id] : n \in DOMAIN entries} = Files \ missed
      /\ \A m, n \in DOMAIN entries : entries[m].id = entries[n].id => m = n
      /\ \A p \in Whole \ (missed \cup {<< >>}) :
           Len(p) <= MaxOpen => \E n \in DOMAIN metadata : PathOf[n] = p

\* The next record or entry is never put past the end of its array: the room
\* counted is the room there is (deflate.c:87-90, 195-199).
ArraysFit == Len(metadata) <= metadata_room /\ Len(entries) <= entries_room

\* What the index says of itself is where it was written: each record's offset
\* leads from the record to its own name, and the header's to the data entries
\* and the footer.  The offsets are computed one from the other before any
\* name is written (deflate.c:329-336, 348, 357, 369-370).
LayoutClosed ==
    pc = "done" =>
      /\ \A n \in DOMAIN metadata :
           /\ out_metadata[n].at + out_metadata[n].offset = out_names[n].at
           /\ out_names[n].size = NameSize[Last(metadata[n].path)]
      /\ entries # << >> => out_header.data + MagicOffset = out_data[1]
      /\ out_header.footer + MagicOffset = out_header.footer_at

\* What the directories of a stack have still to read, and all below it.
ComingOf(st) == {x \in Packed : \E k \in DOMAIN st : \E q \in st[k].todo : IsPrefix(q, x)}

\* The parts of wows_write_pkg still to run.
PartsAhead ==
    CASE pc = "idle" -> 4
      [] pc \in {"walk", "blob"} -> 3
      [] pc = "metadata" -> 2
      [] pc = "data" -> 1
      [] pc = "done" -> 0

\* What the part under way has still to go through: a path still to come is
\* taken and, if it is a directory, closed, or if it is a file, ended.
WorkAhead ==
    CASE pc = "walk" -> 2 * Cardinality(ComingOf(stack)) + Len(stack)
      [] pc = "blob" -> 2 * Cardinality(ComingOf(stack)) + Len(stack) + 1
      [] pc = "metadata" -> (Len(metadata) - Len(out_metadata)) + (Len(metadata) - Len(out_names))
      [] pc = "data" -> Len(entries) - Len(out_data)
      [] OTHER -> 0

BytesAhead == IF pc = "blob" THEN BlobSize - BytesDone ELSE 0

Variant == <<PartsAhead, WorkAhead, BytesAhead>>

\* Every step of wows_write_pkg brings it closer to its end, whatever fails:
\* nothing is read twice under the same names, a directory that is entered
\* again below itself is so only as deep as directories can be open, and no
\* file's data goes on past its end (deflate.c:142-165, 275-312, 329-370).
WorkEnds == [][Variant' \in Measures /\ Lower(Variant', Variant)]_vars

\* wows_write_pkg returns, whatever fails and also when a cut path leads back
\* to the directory it is of: every directory entered is left and every file's
\* data ends (deflate.c:142-165, 275-312).
WriteReturns == pc # "idle" ~> pc = "done"

\* README.md:332: "wows-depack provides experimental write support for creating
\* index and pkg files".  The reader, which goes by the sizes of the format,
\* finds each record and each entry where it was written.
ReadBack ==
    pc = "done" =>
      /\ \A n \in DOMAIN metadata :
           out_metadata[n].at = HeaderSize + (n - 1) * ReadMetadataSize
      /\ \A n \in DOMAIN entries :
           out_data[n] = out_header.data + MagicOffset + (n - 1) * ReadDataSize
=============================================================================
