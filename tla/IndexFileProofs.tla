--------------------------- MODULE IndexFileProofs ---------------------------
(***************************************************************************)
(* Proofs about IndexFile: for a memory of any size, files of any length   *)
(* mapped anywhere and any sizes of the sections, within the assumptions   *)
(* of the module, an index file is read inside its bounds.                 *)
(***************************************************************************)
EXTENDS IndexFile, TLAPS

\* What has been checked by the time the parsing comes to pc: the counts, and
\* that the metadata section ends inside the file.  The reads of an entry are
\* not checked one by one and depend on it.
CountsChecked ==
    pc \in {"metadata", "names", "footer", "accepted"} =>
      /\ mapped.base # MapFailed
      /\ HeaderSize <= mapped.length
      /\ header.dirs <= MaxEntries /\ header.files <= MaxEntries

MetadataChecked ==
    pc \in {"names", "footer", "accepted"} =>
      HeaderSize + header.dirs * MetadataSize <= mapped.length

\* What is allocated by then.
NamesKept ==
    /\ names = IF pc = "freed" THEN {} ELSE 0 .. at - 1
    /\ pc \in {"header", "metadata"} => at = 0
    /\ pc \in {"footer", "accepted"} => at = header.dirs
    /\ stray => ret = "corrupted"
    /\ pc \in {"header", "metadata", "names", "footer", "accepted"} => ret = "ok" /\ ~ stray
    /\ pc \in {"rejected", "freed", "crashed"} => ret # "ok"
    /\ pc = "freed" => blocks = {}

BlocksKept ==
    /\ pc \in {"metadata", "names", "footer", "accepted"} => "header" \in blocks
    /\ pc \in {"names", "footer", "accepted"} => "metadata" \in blocks
    /\ pc \in {"footer", "accepted"} => "data_file_entry" \in blocks
    /\ pc = "accepted" => {"footer", "pkg_name"} \subseteq blocks
    /\ pc = "rejected" /\ at > 0 => "header" \in blocks

IInv ==
    /\ TypeOK
    /\ ReadsInside
    /\ CountsChecked
    /\ MetadataChecked
    /\ NamesKept
    /\ BlocksKept

-----------------------------------------------------------------------------
(* Addresses                                                               *)

\* Addition goes round the end of memory at most once.
LEMMA PlusType ==
    ASSUME NEW a \in Addresses, NEW b \in Addresses
    PROVE  Plus(a, b) \in Addresses
BY SizesAssumption DEF Plus, Addresses

\* An entry of an array ends inside the array.
LEMMA EntryFits ==
    ASSUME NEW i \in Nat, NEW n \in Nat, NEW size \in Nat, i < n
    PROVE  i * size \in Nat /\ n * size \in Nat /\ i * size + size <= n * size
<1>1. i * size \in Nat /\ n * size \in Nat /\ (i + 1) * size \in Nat
  OBVIOUS
<1>2. (i + 1) * size = i * size + size
  OBVIOUS
<1>3. (i + 1) * size <= n * size
  <2> DEFINE d == n - (i + 1)
  <2>1. d \in Nat /\ n = (i + 1) + d
    OBVIOUS
  <2>2. n * size = (i + 1) * size + d * size
    BY <2>1
  <2>3. d * size \in Nat
    BY <2>1
  <2> QED
    BY <2>2, <2>3, <1>1
<1> QED
  BY <1>1, <1>2, <1>3

\* A product with a smaller count is no greater.
LEMMA CountFits ==
    ASSUME NEW i \in Nat, NEW n \in Nat, NEW size \in Nat, i <= n
    PROVE  i * size \in Nat /\ n * size \in Nat /\ i * size <= n * size
<1>1. CASE i = n
  BY <1>1
<1>2. CASE i < n
  BY <1>2, EntryFits
<1> QED
  BY <1>1, <1>2

\* checkOutOfIndex does what it is for: a section that passes it lies in the
\* file, although its end may have been computed round the end of memory.
LEMMA InsideIndex ==
    ASSUME mapped \in MappedFiles, mapped.base # MapFailed,
           NEW start \in Addresses, NEW size \in Nat,
           mapped.length + size < W,
           ~ OutOfIndex(start, size)
    PROVE  /\ mapped.base <= start
           /\ start + size <= mapped.base + mapped.length
           /\ Plus(start, size) = start + size
<1>1. mapped.base \in Addresses /\ mapped.length \in Nat
      /\ mapped.base + mapped.length < W
  BY MappingAssumption
<1>2. Plus(mapped.base, mapped.length) = mapped.base + mapped.length
  BY <1>1 DEF Plus
<1> QED
  BY <1>1, <1>2, SizesAssumption DEF OutOfIndex, Plus, Addresses

\* When mmap failed the header is found out of bounds.
LEMMA HeaderInside ==
    ASSUME mapped \in MappedFiles, ~ OutOfIndex(mapped.base, HeaderSize)
    PROVE  /\ mapped.base # MapFailed
           /\ HeaderSize <= mapped.length
<1>1. mapped.base \in Addresses /\ mapped.length \in Nat /\ HeaderSize \in Nat \ {0}
      /\ mapped.length + HeaderSize < W
  BY MappingAssumption, SizesAssumption
<1>2. mapped.base # MapFailed
  BY <1>1, SizesAssumption DEF OutOfIndex, Plus, MapFailed, Addresses
<1>3. mapped.base + HeaderSize <= mapped.base + mapped.length
  BY <1>1, <1>2, InsideIndex
<1> QED
  BY <1>1, <1>2, <1>3 DEF Addresses

-----------------------------------------------------------------------------
(* The invariant                                                           *)

LEMMA InitInvariant == Init => IInv
<1> SUFFICES ASSUME Init PROVE IInv
  OBVIOUS
<1> USE SizesAssumption DEF Init
<1>1. TypeOK
  <2>1. 0 \in Addresses
    BY DEF Addresses
  <2>2. header \in [dirs : Nat, files : Nat, data : Addresses, footer : Addresses]
    BY <2>1
  <2>3. header.dirs = 0 /\ at \in 0 .. header.dirs
    OBVIOUS
  <2> QED
    BY <2>2, <2>3 DEF TypeOK, Phases
<1>2. ReadsInside
  BY DEF ReadsInside
<1>3. NamesKept /\ BlocksKept /\ CountsChecked /\ MetadataChecked
  BY DEF NamesKept, BlocksKept, CountsChecked, MetadataChecked
<1> QED
  BY <1>1, <1>2, <1>3 DEF IInv

\* The address and the size of the entry the loop over the names is at.
LEMMA EntryInside ==
    ASSUME IInv, AtName
    PROVE  /\ MetadataEntry \in Addresses
           /\ mapped.base <= MetadataEntry
           /\ MetadataEntry + MetadataSize <= mapped.base + mapped.length
<1>1. /\ mapped \in MappedFiles /\ mapped.base # MapFailed
      /\ at \in Nat /\ header.dirs \in Nat /\ at < header.dirs
      /\ HeaderSize + header.dirs * MetadataSize <= mapped.length
  BY DEF IInv, TypeOK, CountsChecked, MetadataChecked, AtName
<1>2. /\ mapped.base \in Addresses /\ mapped.length \in Nat
      /\ mapped.base + mapped.length < W
  BY <1>1, MappingAssumption
<1>3. /\ at * MetadataSize \in Nat /\ header.dirs * MetadataSize \in Nat
      /\ at * MetadataSize + MetadataSize <= header.dirs * MetadataSize
  BY <1>1, EntryFits, SizesAssumption
<1> HIDE DEF Addresses
<1> DEFINE m == at * MetadataSize
           n == header.dirs * MetadataSize
<1>4. /\ m \in Nat /\ n \in Nat /\ m + MetadataSize <= n
      /\ HeaderSize + n <= mapped.length
  BY <1>1, <1>3
<1>5. MetadataEntry = Plus(Plus(mapped.base, HeaderSize), m)
  BY DEF MetadataEntry, MetadataSection
<1> HIDE DEF m, n
<1>6. MetadataEntry = mapped.base + HeaderSize + m
  BY <1>2, <1>4, <1>5, SizesAssumption DEF Plus, Addresses
<1> QED
  BY <1>2, <1>4, <1>6, SizesAssumption DEF Addresses

\* A step that rejects or goes on without reading or allocating anything.
LEMMA HeaderSteps ==
    ASSUME IInv, HeaderOutside \/ BadMagic \/ \E h \in Headers : ReadHeader(h)
    PROVE  IInv'
<1> USE DEF IInv
<1>1. CASE HeaderOutside
  <2> USE <1>1 DEF HeaderOutside, Reject
  <2>1. TypeOK'
    BY DEF TypeOK, Phases
  <2>2. ReadsInside'
    BY DEF ReadsInside
  <2>3. CountsChecked' /\ MetadataChecked'
    BY DEF CountsChecked, MetadataChecked
  <2>4. NamesKept' /\ BlocksKept'
    BY DEF NamesKept, BlocksKept
  <2> QED
    BY <2>1, <2>2, <2>3, <2>4
<1>2. CASE BadMagic
  <2> USE <1>2 DEF BadMagic, Reject
  <2>1. mapped.base # MapFailed /\ HeaderSize <= mapped.length
    BY HeaderInside DEF TypeOK
  <2>2. mapped.base \in Addresses /\ mapped.length \in Nat
    BY MappingAssumption DEF TypeOK
  <2>3. TypeOK'
    BY <2>2, SizesAssumption DEF TypeOK, Phases, Block
  <2>4. ReadsInside'
    BY <2>1, <2>2, SizesAssumption DEF ReadsInside, Block, Addresses
  <2>5. CountsChecked' /\ MetadataChecked'
    BY DEF CountsChecked, MetadataChecked
  <2>6. NamesKept' /\ BlocksKept'
    BY DEF NamesKept, BlocksKept
  <2> QED
    BY <2>3, <2>4, <2>5, <2>6
<1>3. CASE \E h \in Headers : ReadHeader(h)
  <2> PICK h \in Headers : ReadHeader(h)
    BY <1>3
  <2> USE DEF ReadHeader, Reject, Continue
  <2>1. mapped.base # MapFailed /\ HeaderSize <= mapped.length
    BY HeaderInside DEF TypeOK
  <2>2. mapped.base \in Addresses /\ mapped.length \in Nat
    BY MappingAssumption DEF TypeOK
  <2>3. /\ h.dirs \in Nat /\ h.files \in Nat
        /\ h \in [dirs : Nat, files : Nat, data : Addresses, footer : Addresses]
    BY SizesAssumption DEF Headers
  <2>4. TypeOK'
    BY <2>2, <2>3, SizesAssumption DEF TypeOK, Phases, Block, NamesKept
  <2>5. ReadsInside'
    BY <2>1, <2>2, SizesAssumption DEF ReadsInside, Block, Addresses
  <2>6. CountsChecked' /\ MetadataChecked'
    BY <2>1, <2>3, SizesAssumption DEF CountsChecked, MetadataChecked
  <2>7. NamesKept' /\ BlocksKept'
    BY DEF NamesKept, BlocksKept
  <2> QED
    BY <2>4, <2>5, <2>6, <2>7
<1> QED
  BY <1>1, <1>2, <1>3

\* The metadata section is entered only when it ends inside the file.
LEMMA MetadataSteps ==
    ASSUME IInv, MetadataOutside \/ EnterMetadata
    PROVE  IInv'
<1> USE DEF IInv
<1>1. CASE MetadataOutside
  <2> USE <1>1 DEF MetadataOutside, Reject
  <2>1. TypeOK'
    BY DEF TypeOK, Phases
  <2>2. ReadsInside'
    BY DEF ReadsInside
  <2>3. CountsChecked' /\ MetadataChecked'
    BY DEF CountsChecked, MetadataChecked
  <2>4. NamesKept' /\ BlocksKept'
    BY DEF NamesKept, BlocksKept
  <2> QED
    BY <2>1, <2>2, <2>3, <2>4
<1>2. CASE EnterMetadata
  <2> USE <1>2 DEF EnterMetadata, Continue
  <2>1. TypeOK'
    BY DEF TypeOK, Phases
  <2>2. ReadsInside'
    BY DEF ReadsInside
  <2>3. CountsChecked'
    BY DEF CountsChecked
  <2>4. MetadataChecked'
    <3> DEFINE n == header.dirs * MetadataSize
    <3>1. /\ mapped \in MappedFiles /\ mapped.base # MapFailed
          /\ HeaderSize <= mapped.length
          /\ header.dirs \in Nat /\ header.dirs <= MaxEntries
      BY DEF TypeOK, CountsChecked
    <3>2. /\ mapped.base \in Addresses /\ mapped.length \in Nat
          /\ mapped.base + mapped.length < W
          /\ mapped.length + MaxEntries * MetadataSize < W
      BY <3>1, MappingAssumption
    <3>3. n \in Nat /\ MaxEntries * MetadataSize \in Nat /\ n <= MaxEntries * MetadataSize
      BY <3>1, CountFits, SizesAssumption
    <3>4. mapped.length + n < W
      BY <3>2, <3>3, SizesAssumption
    <3>5. MetadataSection = mapped.base + HeaderSize /\ MetadataSection \in Addresses
      BY <3>1, <3>2, SizesAssumption DEF MetadataSection, Plus, Addresses
    <3>6. ~ OutOfIndex(MetadataSection, n)
      OBVIOUS
    <3> HIDE DEF n
    <3>7. MetadataSection + n <= mapped.base + mapped.length
      BY <3>1, <3>3, <3>4, <3>5, <3>6, InsideIndex
    <3>8. HeaderSize + n <= mapped.length
      BY <3>2, <3>3, <3>5, <3>7, SizesAssumption DEF Addresses
    <3> QED
      BY <3>8 DEF MetadataChecked, n
  <2>5. NamesKept' /\ BlocksKept'
    BY DEF NamesKept, BlocksKept, TypeOK
  <2> QED
    BY <2>1, <2>2, <2>3, <2>4, <2>5
<1> QED
  BY <1>1, <1>2

\* A name is read once its entry, of the section checked, and the name's own
\* bounds are known to be inside the file.
LEMMA NameSteps ==
    ASSUME IInv, NEW size \in NameSizes, NEW offset \in Addresses,
           NameTooLong(size) \/ NameOutside(size, offset) \/ ReadName(size, offset)
    PROVE  IInv'
<1> USE DEF IInv
<1>1. size \in Nat /\ MetadataSize \in Nat
  BY SizesAssumption
<1>2. AtName
  BY DEF NameTooLong, NameOutside, ReadName
<1>3. /\ MetadataEntry \in Addresses
      /\ mapped.base # MapFailed /\ mapped.base <= MetadataEntry
      /\ MetadataEntry + MetadataSize <= mapped.base + mapped.length
  BY <1>2, EntryInside DEF AtName, CountsChecked
<1>4. at \in Nat /\ header.dirs \in Nat /\ at < header.dirs
  BY <1>2 DEF AtName, TypeOK
<1>5. CASE NameTooLong(size)
  <2> USE <1>5 DEF NameTooLong, Reject
  <2>1. TypeOK'
    BY <1>1, <1>3 DEF TypeOK, Phases, Block
  <2>2. ReadsInside'
    BY <1>3 DEF ReadsInside, Block
  <2>3. CountsChecked' /\ MetadataChecked'
    BY DEF CountsChecked, MetadataChecked
  <2>4. NamesKept' /\ BlocksKept'
    BY <1>2 DEF NamesKept, BlocksKept, AtName
  <2> QED
    BY <2>1, <2>2, <2>3, <2>4
<1>6. CASE NameOutside(size, offset)
  <2> USE <1>6 DEF NameOutside, Reject
  <2>1. TypeOK'
    BY <1>1, <1>3 DEF TypeOK, Phases, Block
  <2>2. ReadsInside'
    BY <1>3 DEF ReadsInside, Block
  <2>3. CountsChecked' /\ MetadataChecked'
    BY DEF CountsChecked, MetadataChecked
  <2>4. NamesKept' /\ BlocksKept'
    BY <1>2 DEF NamesKept, BlocksKept, AtName
  <2> QED
    BY <2>1, <2>2, <2>3, <2>4
<1>7. CASE ReadName(size, offset)
  <2> DEFINE name == Plus(MetadataEntry, offset)
  <2>1. mapped.length + size < W /\ mapped \in MappedFiles
    <3>1. mapped \in MappedFiles /\ size <= PathMax
      BY <1>7 DEF ReadName, TypeOK
    <3>2. mapped.length \in Nat /\ mapped.length + PathMax < W
      BY <3>1, MappingAssumption
    <3> QED
      BY <1>1, <3>1, <3>2, SizesAssumption
  <2>2. name \in Addresses
    BY <1>3, PlusType
  <2>3. ~ OutOfIndex(name, size)
    BY <1>7 DEF ReadName
  <2> HIDE DEF name
  <2>4. /\ mapped.base <= name
        /\ name + size <= mapped.base + mapped.length
    BY <1>1, <1>3, <2>1, <2>2, <2>3, InsideIndex
  <2>5. reads' = {Block(MetadataEntry, MetadataSize), Block(name, size)}
        /\ mapped' = mapped /\ header' = header /\ blocks' = blocks /\ stray' = stray
        /\ pc' = "names" /\ ret' = ret /\ at' = at + 1
        /\ names' = names \cup {at}
    BY <1>7 DEF ReadName, Continue, name
  <2>6. TypeOK'
    <3>1. reads' \subseteq [start : Addresses, size : Nat]
      BY <1>1, <1>3, <2>2, <2>5 DEF Block
    <3>2. at' \in 0 .. header'.dirs
      BY <1>4, <2>5
    <3>3. names' \subseteq Nat
      BY <1>4, <2>5 DEF TypeOK
    <3> QED
      BY <2>5, <3>1, <3>2, <3>3 DEF TypeOK, Phases
  <2>7. ReadsInside'
    BY <1>3, <2>4, <2>5 DEF ReadsInside, Block
  <2>8. CountsChecked' /\ MetadataChecked'
    BY <1>2, <2>5 DEF CountsChecked, MetadataChecked, AtName
  <2>9. NamesKept' /\ BlocksKept'
    <3>1. names' = 0 .. at' - 1
      BY <1>2, <1>4, <2>5 DEF NamesKept, AtName
    <3> QED
      BY <1>2, <2>5, <3>1 DEF NamesKept, BlocksKept, AtName
  <2> QED
    BY <2>6, <2>7, <2>8, <2>9
<1> QED
  BY <1>5, <1>6, <1>7

\* The entries of the data section are inside it, and it is inside the file.
LEMMA DataSteps ==
    ASSUME IInv, DataOutside \/ ReadData
    PROVE  IInv'
<1> USE DEF IInv
<1>1. CASE DataOutside
  <2> USE <1>1 DEF DataOutside, NamesRead, Reject
  <2>1. TypeOK'
    BY DEF TypeOK, Phases
  <2>2. ReadsInside'
    BY DEF ReadsInside
  <2>3. CountsChecked' /\ MetadataChecked'
    BY DEF CountsChecked, MetadataChecked
  <2>4. NamesKept' /\ BlocksKept'
    BY DEF NamesKept, BlocksKept
  <2> QED
    BY <2>1, <2>2, <2>3, <2>4
<1>2. CASE ReadData
  <2> DEFINE n == header.files * DataSize
             e(i) == i * DataSize
             s == DataSection
  <2>1. /\ mapped \in MappedFiles /\ mapped.base # MapFailed
        /\ header.files \in Nat /\ header.files <= MaxEntries /\ DataSize \in Nat
    BY <1>2, SizesAssumption DEF ReadData, NamesRead, TypeOK, CountsChecked
  <2>2. /\ mapped.base \in Addresses /\ mapped.length \in Nat
        /\ mapped.base + mapped.length < W
        /\ mapped.length + MaxEntries * DataSize < W
    BY <2>1, MappingAssumption
  <2>3. n \in Nat /\ MaxEntries * DataSize \in Nat /\ n <= MaxEntries * DataSize
    BY <2>1, CountFits, SizesAssumption
  <2>4. \A i \in 0 .. header.files - 1 : e(i) \in Nat /\ e(i) + DataSize <= n
    BY <2>1, EntryFits
  <2>5. s \in Addresses
    <3>1. header.data \in Addresses
      BY DEF TypeOK
    <3>2. Plus(mapped.base, header.data) \in Addresses /\ SectionOffset \in Addresses
      BY <2>2, <3>1, PlusType, SizesAssumption DEF Addresses
    <3> QED
      BY <3>2, PlusType DEF DataSection
  <2>6. /\ reads' = {Block(Plus(s, e(i)), DataSize) : i \in 0 .. header.files - 1}
        /\ ~ OutOfIndex(s, n)
        /\ UNCHANGED <<mapped, header, at, names, stray, ret>>
        /\ blocks' = blocks \cup {"data_file_entry"}
        /\ pc' = "footer" /\ pc = "names" /\ at = header.dirs
    BY <1>2 DEF ReadData, NamesRead, Continue
  <2> HIDE DEF n, e, s
  <2>7. mapped.length + n < W
    BY <2>2, <2>3, SizesAssumption
  <2>8. /\ mapped.base <= s
        /\ s + n <= mapped.base + mapped.length
    BY <2>1, <2>3, <2>5, <2>6, <2>7, InsideIndex
  <2>9. \A i \in 0 .. header.files - 1 :
          /\ Plus(s, e(i)) = s + e(i)
          /\ Plus(s, e(i)) \in Addresses
          /\ mapped.base <= Plus(s, e(i))
          /\ Plus(s, e(i)) + DataSize <= mapped.base + mapped.length
    BY <2>1, <2>2, <2>3, <2>4, <2>5, <2>8, SizesAssumption DEF Plus, Addresses
  <2>10. TypeOK'
    <3>1. reads' \subseteq [start : Addresses, size : Nat]
      BY <2>1, <2>6, <2>9 DEF Block
    <3> QED
      BY <2>6, <3>1 DEF TypeOK, Phases
  <2>11. ReadsInside'
    BY <2>1, <2>6, <2>9 DEF ReadsInside, Block
  <2>12. CountsChecked' /\ MetadataChecked'
    BY <2>6 DEF CountsChecked, MetadataChecked
  <2>13. NamesKept' /\ BlocksKept'
    BY <2>6 DEF NamesKept, BlocksKept
  <2> QED
    BY <2>10, <2>11, <2>12, <2>13
<1> QED
  BY <1>1, <1>2

\* The footer and the name behind it are checked before they are read.
LEMMA FooterSteps ==
    ASSUME IInv,
           \/ FooterOutside
           \/ \E size \in NameSizes :
                FooterTooLong(size) \/ FooterNameOutside(size) \/ ReadFooter(size)
    PROVE  IInv'
<1> USE DEF IInv
<1> DEFINE s == FooterSection
<1>1. CASE FooterOutside
  <2> USE <1>1 DEF FooterOutside, Reject
  <2>1. TypeOK'
    BY DEF TypeOK, Phases
  <2>2. ReadsInside'
    BY DEF ReadsInside
  <2>3. CountsChecked' /\ MetadataChecked'
    BY DEF CountsChecked, MetadataChecked
  <2>4. NamesKept' /\ BlocksKept'
    BY DEF NamesKept, BlocksKept
  <2> QED
    BY <2>1, <2>2, <2>3, <2>4
<1>2. CASE \E size \in NameSizes :
             FooterTooLong(size) \/ FooterNameOutside(size) \/ ReadFooter(size)
  <2> PICK size \in NameSizes :
             FooterTooLong(size) \/ FooterNameOutside(size) \/ ReadFooter(size)
    BY <1>2
  <2>1. /\ mapped \in MappedFiles /\ mapped.base # MapFailed
        /\ size \in Nat /\ FooterSize \in Nat
    BY SizesAssumption
       DEF FooterTooLong, FooterNameOutside, ReadFooter, TypeOK, CountsChecked
  <2>2. /\ mapped.base \in Addresses /\ mapped.length \in Nat
        /\ mapped.length + FooterSize < W /\ mapped.length + PathMax < W
    BY <2>1, MappingAssumption
  <2>3. s \in Addresses
    <3>1. header.footer \in Addresses
      BY DEF TypeOK
    <3>2. Plus(mapped.base, header.footer) \in Addresses /\ SectionOffset \in Addresses
      BY <2>2, <3>1, PlusType, SizesAssumption DEF Addresses
    <3> QED
      BY <3>2, PlusType DEF FooterSection
  <2>4. ~ OutOfIndex(s, FooterSize)
    BY DEF FooterTooLong, FooterNameOutside, ReadFooter
  <2>5. PkgName = Plus(s, FooterSize)
    BY DEF PkgName
  <2>6. /\ UNCHANGED <<mapped, header, at, names, stray>>
        /\ pc = "footer"
        /\ blocks' = blocks \cup {"footer"} \/ blocks' = blocks \cup {"footer", "pkg_name"}
    BY DEF FooterTooLong, FooterNameOutside, ReadFooter
  <2> HIDE DEF s
  <2>7. /\ mapped.base <= s
        /\ s + FooterSize <= mapped.base + mapped.length
    BY <2>1, <2>2, <2>3, <2>4, InsideIndex
  <2>8. PkgName \in Addresses
    <3>1. FooterSize \in Addresses
      BY <2>1, <2>2, SizesAssumption DEF Addresses
    <3> QED
      BY <2>3, <2>5, <3>1, PlusType
  <2>9. CASE FooterTooLong(size) \/ FooterNameOutside(size)
    <3>1. /\ reads' = {Block(s, FooterSize)}
          /\ pc' = "rejected" /\ ret' \in {"path_too_long", "corrupted"}
      BY <2>9 DEF FooterTooLong, FooterNameOutside, Reject, s
    <3>2. TypeOK'
      <4>1. reads' \subseteq [start : Addresses, size : Nat]
        BY <2>1, <2>3, <3>1 DEF Block
      <4>2. blocks' \subseteq {"index", "header", "metadata", "data_file_entry", "footer", "pkg_name"}
        BY <2>6 DEF TypeOK
      <4> QED
        BY <2>6, <3>1, <4>1, <4>2 DEF TypeOK, Phases
    <3>3. ReadsInside'
      BY <2>1, <2>6, <2>7, <3>1 DEF ReadsInside, Block
    <3>4. CountsChecked' /\ MetadataChecked'
      BY <3>1 DEF CountsChecked, MetadataChecked
    <3>5. NamesKept' /\ BlocksKept'
      BY <2>6, <3>1 DEF NamesKept, BlocksKept
    <3> QED
      BY <3>2, <3>3, <3>4, <3>5
  <2>10. CASE ReadFooter(size)
    <3>1. /\ reads' = {Block(s, FooterSize), Block(PkgName, size)}
          /\ blocks' = blocks \cup {"footer", "pkg_name"}
          /\ pc' = "accepted" /\ ret' = ret
          /\ size <= PathMax /\ ~ OutOfIndex(PkgName, size)
      BY <2>10 DEF ReadFooter, Continue, s
    <3>2. mapped.length + size < W
      BY <2>1, <2>2, <3>1, SizesAssumption
    <3>3. /\ mapped.base <= PkgName
          /\ PkgName + size <= mapped.base + mapped.length
      BY <2>1, <2>8, <3>1, <3>2, InsideIndex
    <3>4. TypeOK'
      BY <2>1, <2>3, <2>6, <2>8, <3>1 DEF TypeOK, Phases, Block
    <3>5. ReadsInside'
      BY <2>1, <2>6, <2>7, <3>1, <3>3 DEF ReadsInside, Block
    <3>6. CountsChecked' /\ MetadataChecked'
      BY <2>6, <3>1 DEF CountsChecked, MetadataChecked
    <3>7. NamesKept' /\ BlocksKept'
      BY <2>6, <3>1 DEF NamesKept, BlocksKept
    <3> QED
      BY <3>4, <3>5, <3>6, <3>7
  <2> QED
    BY <2>9, <2>10
<1> QED
  BY <1>1, <1>2

\* The release of a rejected index.
LEMMA FreeSteps ==
    ASSUME IInv, Free \/ FreeCrashes
    PROVE  IInv'
<1> USE DEF IInv
<1>1. CASE Free
  <2> USE <1>1 DEF Free, Continue
  <2>1. TypeOK'
    BY DEF TypeOK, Phases
  <2>2. ReadsInside'
    BY DEF ReadsInside
  <2>3. CountsChecked' /\ MetadataChecked'
    BY DEF CountsChecked, MetadataChecked
  <2>4. names' = {}
    <3>1. at \in 0 .. header.dirs /\ header.dirs \in Nat /\ names = 0 .. at - 1
      BY DEF TypeOK, NamesKept
    <3>2. CASE at > 0
      <4>1. NamesToFree = 0 .. header.dirs - 1
        BY <3>2 DEF NamesToFree, BlocksKept
      <4> QED
        BY <3>1, <4>1
    <3>3. CASE ~ (at > 0)
      BY <3>1, <3>3
    <3> QED
      BY <3>2, <3>3
  <2>5. NamesKept' /\ BlocksKept'
    BY <2>4 DEF NamesKept, BlocksKept
  <2> QED
    BY <2>1, <2>2, <2>3, <2>5
<1>2. CASE FreeCrashes
  <2> USE <1>2 DEF FreeCrashes, Continue
  <2>1. TypeOK'
    BY DEF TypeOK, Phases
  <2>2. ReadsInside'
    BY DEF ReadsInside
  <2>3. CountsChecked' /\ MetadataChecked'
    BY DEF CountsChecked, MetadataChecked
  <2>4. NamesKept' /\ BlocksKept'
    BY DEF NamesKept, BlocksKept
  <2> QED
    BY <2>1, <2>2, <2>3, <2>4
<1> QED
  BY <1>1, <1>2

\* Every step keeps the invariant.
LEMMA NextInvariant == IInv /\ [Next]_vars => IInv'
<1> SUFFICES ASSUME IInv, [Next]_vars PROVE IInv'
  OBVIOUS
<1>1. CASE Next
  <2>1. CASE HeaderOutside \/ BadMagic \/ \E h \in Headers : ReadHeader(h)
    BY <2>1, HeaderSteps
  <2>2. CASE MetadataOutside \/ EnterMetadata
    BY <2>2, MetadataSteps
  <2>3. ASSUME NEW size \in NameSizes, NameTooLong(size) PROVE IInv'
    <3>1. 0 \in Addresses
      BY SizesAssumption DEF Addresses
    <3> QED
      BY <2>3, <3>1, NameSteps
  <2>4. ASSUME NEW size \in NameSizes, NEW offset \in Addresses, NameOutside(size, offset)
        PROVE  IInv'
    BY <2>4, NameSteps
  <2>5. ASSUME NEW size \in NameSizes, NEW offset \in Addresses,
               ReadName(size, offset)
        PROVE  IInv'
    BY <2>5, NameSteps
  <2>6. CASE DataOutside \/ ReadData
    BY <2>6, DataSteps
  <2>7. CASE FooterOutside
    BY <2>7, FooterSteps
  <2>8. ASSUME NEW size \in NameSizes,
               FooterTooLong(size) \/ FooterNameOutside(size) \/ ReadFooter(size)
        PROVE  IInv'
    BY <2>8, FooterSteps
  <2>9. CASE Free \/ FreeCrashes
    BY <2>9, FreeSteps
  <2> QED
    BY <1>1, <2>1, <2>2, <2>3, <2>4, <2>5, <2>6, <2>7, <2>8, <2>9 DEF Next
<1>2. CASE UNCHANGED vars
  BY <1>2 DEF vars, IInv, TypeOK, ReadsInside, CountsChecked, MetadataChecked, NamesKept, BlocksKept
<1> QED
  BY <1>1, <1>2

LEMMA Invariant == Spec => []IInv
BY InitInvariant, NextInvariant, PTL DEF Spec

-----------------------------------------------------------------------------

\* The phases, counts, blocks and names have their types: in particular every
\* read starts at an address of the memory, and the loop over the names stays
\* within the header's count.
THEOREM TypeCorrect == Spec => []TypeOK
<1>1. IInv => TypeOK
  BY DEF IInv
<1> QED
  BY <1>1, Invariant, PTL

\* No byte outside the mapped file is read, for a memory of any size, a file
\* of any length mapped anywhere in it or not at all, and any values of the
\* counts, sizes and offsets in it.
THEOREM ReadsStayInside == Spec => []ReadsInside
<1>1. IInv => ReadsInside
  BY DEF IInv
<1> QED
  BY <1>1, Invariant, PTL

\* An accepted index has all its sections and a name for every metadata entry.
THEOREM AcceptedIsWhole == Spec => []AcceptedWhole
<1>1. IInv => AcceptedWhole
  BY DEF IInv, NamesKept, BlocksKept, AcceptedWhole
<1> QED
  BY <1>1, Invariant, PTL

\* The release of a rejected index, where it ends, leaves at most one name.
THEOREM FreedIsWhole == Spec => []FreedWhole
<1>1. IInv => FreedWhole
  BY DEF IInv, NamesKept, FreedWhole
<1> QED
  BY <1>1, Invariant, PTL
=============================================================================
