------------------------------ MODULE IndexFile ------------------------------
(***************************************************************************)
(* map_index_file of lib/index-parser.c: the sections of an index file are *)
(* found at offsets that the file itself gives, checked against the bounds *)
(* of the mapped contents and copied; and wows_free_index of               *)
(* lib/memory-helpers.c, which releases an index that is rejected.         *)
(*                                                                         *)
(* Addresses are numbers modulo W.  What the file says is chosen when it   *)
(* is read.  The step is one section, or one name of the metadata section. *)
(***************************************************************************)
EXTENDS Naturals, FiniteSets

CONSTANTS
    W,               \* 2^64
    MappedFiles,     \* contents and length given to map_index_file
    Counts,          \* the values of a 32-bit count
    NameSizes,       \* the values of a name's 64-bit size
    HeaderSize,      \* SIZE_WOWS_INDEX_HEADER, 56
    MetadataSize,    \* SIZE_WOWS_INDEX_METADATA_ENTRY, 32
    DataSize,        \* SIZE_WOWS_INDEX_DATA_FILE_ENTRY, 48
    FooterSize,      \* SIZE_WOWS_INDEX_FOOTER, 24
    SectionOffset,   \* MAGIC_SECTION_OFFSET, 16
    PathMax,         \* WOWS_PATH_MAX, 4096
    MaxEntries       \* WOWS_FILE_DIR_MAX, 2^25

Addresses == 0 .. W - 1

\* MAP_FAILED: mmap's result is not looked at.
MapFailed == W - 1

ASSUME SizesAssumption ==
    /\ W \in Nat \ {0}
    /\ HeaderSize \in Nat \ {0} /\ MetadataSize \in Nat /\ DataSize \in Nat
    /\ FooterSize \in Nat /\ SectionOffset \in 0 .. W - 1
    /\ PathMax \in Nat /\ MaxEntries \in Nat
    /\ Counts \subseteq Nat /\ NameSizes \subseteq Nat

\* A mapping does not go round the end of memory, and neither does a section
\* of the largest size that starts in it.
ASSUME MappingAssumption ==
    \A f \in MappedFiles :
      /\ f \in [base : Addresses, length : Nat]
      /\ f.base # MapFailed => f.base + f.length < W
      /\ \A size \in {HeaderSize, FooterSize, PathMax} : f.length + size < W
      /\ \A size \in {MetadataSize, DataSize} : f.length + MaxEntries * size < W

VARIABLES
    mapped,    \* the contents being parsed, MapFailed or an address, and the length
    header,    \* what header holds: zeros until it is read
    at,        \* the metadata entry the loop is at
    blocks,    \* what the index points to: the blocks allocated for it,
    names,     \* and the metadata entries whose _file_name is set
    stray,     \* a name was allocated to which nothing points
    reads,     \* the blocks of the contents read by the last step
    pc,
    ret

vars == <<mapped, header, at, blocks, names, stray, reads, pc, ret>>

Headers == [dirs : Counts, files : Counts, data : Addresses, footer : Addresses]

Init ==
    /\ mapped \in MappedFiles
    /\ header = [dirs |-> 0, files |-> 0, data |-> 0, footer |-> 0]
    /\ at = 0
    /\ blocks = {"index"}
    /\ names = {}
    /\ stray = FALSE
    /\ reads = {}
    /\ pc = "header"
    /\ ret = "ok"

-----------------------------------------------------------------------------

\* Adding to an address goes round the end of memory, at most once.
Plus(a, n) == IF a + n < W THEN a + n ELSE a + n - W

\* Mutant: only the start of a section is checked against the end.
OutOfIndexStart(start, size) ==
    \/ mapped.base > start \/ Plus(mapped.base, mapped.length) < start
    \/ mapped.base > Plus(start, size)

\* checkOutOfIndex, with the end given by the size.
OutOfIndex(start, size) ==
    \/ mapped.base > start \/ Plus(mapped.base, mapped.length) < start
    \/ mapped.base > Plus(start, size)
    \/ Plus(mapped.base, mapped.length) < Plus(start, size)

MetadataSection == Plus(mapped.base, HeaderSize)
MetadataEntry   == Plus(MetadataSection, at * MetadataSize)
DataSection     == Plus(Plus(mapped.base, header.data), SectionOffset)
FooterSection   == Plus(Plus(mapped.base, header.footer), SectionOffset)

Block(start, size) == [start |-> start, size |-> size]

\* map_index_file returns an error, and its caller frees the index.
Reject(error) ==
    /\ pc' = "rejected"
    /\ ret' = error

Continue(next) ==
    /\ pc' = next
    /\ UNCHANGED ret

-----------------------------------------------------------------------------
(* The header                                                              *)

HeaderOutside ==
    /\ pc = "header"
    /\ OutOfIndex(mapped.base, HeaderSize)
    /\ reads' = {}
    /\ Reject("corrupted")
    /\ UNCHANGED <<mapped, header, at, blocks, names, stray>>

BadMagic ==
    /\ pc = "header"
    /\ ~ OutOfIndex(mapped.base, HeaderSize)
    /\ blocks' = blocks \cup {"header"}
    /\ reads' = {Block(mapped.base, HeaderSize)}
    /\ Reject("bad_magic")
    /\ UNCHANGED <<mapped, header, at, names, stray>>

ReadHeader(h) ==
    /\ pc = "header"
    /\ ~ OutOfIndex(mapped.base, HeaderSize)
    /\ blocks' = blocks \cup {"header"}
    /\ header' = h
    /\ reads' = {Block(mapped.base, HeaderSize)}
    /\ IF h.dirs > MaxEntries \/ h.files > MaxEntries
       THEN Reject("max_file")
       ELSE Continue("metadata")
    /\ UNCHANGED <<mapped, at, names, stray>>

-----------------------------------------------------------------------------
(* The metadata section: its bounds, then each entry and its name          *)

MetadataOutside ==
    /\ pc = "metadata"
    /\ OutOfIndex(MetadataSection, header.dirs * MetadataSize)
    /\ reads' = {}
    /\ Reject("corrupted")
    /\ UNCHANGED <<mapped, header, at, blocks, names, stray>>

EnterMetadata ==
    /\ pc = "metadata"
    /\ ~ OutOfIndex(MetadataSection, header.dirs * MetadataSize)
    /\ blocks' = blocks \cup {"metadata"}
    /\ reads' = {}
    /\ Continue("names")
    /\ UNCHANGED <<mapped, header, at, names, stray>>

\* Mutant: the loop over the entries is one too long.
AtNameInclusive == pc = "names" /\ at <= header.dirs

AtName == pc = "names" /\ at < header.dirs

NameTooLong(size) ==
    /\ AtName
    /\ size > PathMax
    /\ reads' = {Block(MetadataEntry, MetadataSize)}
    /\ Reject("path_too_long")
    /\ UNCHANGED <<mapped, header, at, blocks, names, stray>>

\* The name is allocated before its bounds are checked.
NameOutside(size, offset) ==
    /\ AtName
    /\ size <= PathMax
    /\ OutOfIndex(Plus(MetadataEntry, offset), size)
    /\ stray' = TRUE
    /\ reads' = {Block(MetadataEntry, MetadataSize)}
    /\ Reject("corrupted")
    /\ UNCHANGED <<mapped, header, at, blocks, names>>

ReadName(size, offset) ==
    /\ AtName
    /\ size <= PathMax
    /\ ~ OutOfIndex(Plus(MetadataEntry, offset), size)
    /\ names' = names \cup {at}
    /\ at' = at + 1
    /\ reads' = {Block(MetadataEntry, MetadataSize), Block(Plus(MetadataEntry, offset), size)}
    /\ Continue("names")
    /\ UNCHANGED <<mapped, header, blocks, stray>>

-----------------------------------------------------------------------------
(* The data section, once the names are read                               *)

\* Mutant: the loop over the names counts the files.
NamesReadByFiles == pc = "names" /\ at = header.files

NamesRead == pc = "names" /\ at = header.dirs

DataOutside ==
    /\ NamesRead
    /\ OutOfIndex(DataSection, header.files * DataSize)
    /\ reads' = {}
    /\ Reject("corrupted")
    /\ UNCHANGED <<mapped, header, at, blocks, names, stray>>

ReadData ==
    /\ NamesRead
    /\ ~ OutOfIndex(DataSection, header.files * DataSize)
    /\ blocks' = blocks \cup {"data_file_entry"}
    /\ reads' = {Block(Plus(DataSection, i * DataSize), DataSize) : i \in 0 .. header.files - 1}
    /\ Continue("footer")
    /\ UNCHANGED <<mapped, header, at, names, stray>>

-----------------------------------------------------------------------------
(* The footer, and the name of the package behind it                       *)

FooterOutside ==
    /\ pc = "footer"
    /\ OutOfIndex(FooterSection, FooterSize)
    /\ reads' = {}
    /\ Reject("corrupted")
    /\ UNCHANGED <<mapped, header, at, blocks, names, stray>>

FooterTooLong(size) ==
    /\ pc = "footer"
    /\ ~ OutOfIndex(FooterSection, FooterSize)
    /\ size > PathMax
    /\ blocks' = blocks \cup {"footer"}
    /\ reads' = {Block(FooterSection, FooterSize)}
    /\ Reject("path_too_long")
    /\ UNCHANGED <<mapped, header, at, names, stray>>

PkgName == Plus(FooterSection, FooterSize)

FooterNameOutside(size) ==
    /\ pc = "footer"
    /\ ~ OutOfIndex(FooterSection, FooterSize)
    /\ size <= PathMax
    /\ OutOfIndex(PkgName, size)
    /\ blocks' = blocks \cup {"footer", "pkg_name"}
    /\ reads' = {Block(FooterSection, FooterSize)}
    /\ Reject("corrupted")
    /\ UNCHANGED <<mapped, header, at, names, stray>>

ReadFooter(size) ==
    /\ pc = "footer"
    /\ ~ OutOfIndex(FooterSection, FooterSize)
    /\ size <= PathMax
    /\ ~ OutOfIndex(PkgName, size)
    /\ blocks' = blocks \cup {"footer", "pkg_name"}
    /\ reads' = {Block(FooterSection, FooterSize), Block(PkgName, size)}
    /\ Continue("accepted")
    /\ UNCHANGED <<mapped, header, at, names, stray>>

-----------------------------------------------------------------------------
(* wows_free_index: a loop over the names, as many as the header says      *)

NamesToFree == IF "header" \in blocks THEN 0 .. header.dirs - 1 ELSE {}

\* Mutant: the last name is left.
FreeOneShort ==
    /\ pc = "rejected"
    /\ NamesToFree # {} => "metadata" \in blocks
    /\ blocks' = {}
    /\ names' = names \ {n \in NamesToFree : n + 1 \in NamesToFree}
    /\ reads' = {}
    /\ Continue("freed")
    /\ UNCHANGED <<mapped, header, at, stray>>

Free ==
    /\ pc = "rejected"
    /\ NamesToFree # {} => "metadata" \in blocks
    /\ blocks' = {}
    /\ names' = names \ NamesToFree
    /\ reads' = {}
    /\ Continue("freed")
    /\ UNCHANGED <<mapped, header, at, stray>>

\* index->metadata[0] is read through a null pointer.
FreeCrashes ==
    /\ pc = "rejected"
    /\ NamesToFree # {} /\ "metadata" \notin blocks
    /\ reads' = {}
    /\ Continue("crashed")
    /\ UNCHANGED <<mapped, header, at, blocks, names, stray>>

-----------------------------------------------------------------------------

Next ==
    \/ HeaderOutside \/ BadMagic \/ \E h \in Headers : ReadHeader(h)
    \/ MetadataOutside \/ EnterMetadata
    \/ \E size \in NameSizes : NameTooLong(size)
    \/ \E size \in NameSizes, offset \in Addresses :
         NameOutside(size, offset) \/ ReadName(size, offset)
    \/ DataOutside \/ ReadData
    \/ FooterOutside
    \/ \E size \in NameSizes :
         FooterTooLong(size) \/ FooterNameOutside(size) \/ ReadFooter(size)
    \/ Free \/ FreeCrashes

Spec == Init /\ [][Next]_vars

-----------------------------------------------------------------------------
(* Properties                                                              *)

Phases == {"header", "metadata", "names", "footer", "accepted", "rejected", "freed", "crashed"}

\* Every variable has its type.
TypeOK ==
    /\ mapped \in MappedFiles
    /\ header \in [dirs : Nat, files : Nat, data : Addresses, footer : Addresses]
    /\ at \in 0 .. header.dirs
    /\ blocks \subseteq {"index", "header", "metadata", "data_file_entry", "footer", "pkg_name"}
    /\ names \subseteq Nat
    /\ stray \in BOOLEAN
    /\ reads \subseteq [start : Addresses, size : Nat]
    /\ pc \in Phases
    /\ ret \in {"ok", "corrupted", "bad_magic", "max_file", "path_too_long"}

\* No byte is read that is not of the mapped file, whatever counts, offsets
\* and sizes the file gives and wherever it is mapped, and none at all when
\* mmap failed: the checks are made on pointers that may have gone round the
\* end of memory, and the entries of a section are read without a check of
\* their own (index-parser.c:96-197, memory-helpers.c:15-23).
ReadsInside ==
    \A r \in reads :
      /\ mapped.base # MapFailed
      /\ mapped.base <= r.start
      /\ r.start + r.size <= mapped.base + mapped.length

\* An index that is accepted is whole: every metadata entry of its header has
\* its name, and no section is missing, so that registration, lookups and the
\* release of the context may follow every pointer (index-parser.c:324-334,
\* memory-helpers.c:44-60).
AcceptedWhole ==
    pc = "accepted" =>
      /\ names = 0 .. header.dirs - 1
      /\ {"header", "metadata", "data_file_entry", "footer", "pkg_name"} \subseteq blocks
      /\ ~ stray /\ ret = "ok"

\* Wherever the parsing stopped, the release of a rejected index leaves
\* nothing of it allocated but the one name whose bounds failed
\* (index-parser.c:301-307, memory-helpers.c:44-60).
FreedWhole ==
    pc = "freed" =>
      /\ blocks = {} /\ names = {} /\ ret # "ok"
      /\ stray => ret = "corrupted"

\* inc/wows-depack.h:154: wows_parse_index_buffer returns "0 on success, or an
\* error code if an error occurred".
RejectionReturns == pc # "crashed"
=============================================================================
