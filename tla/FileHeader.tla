----------------------------- MODULE FileHeader -----------------------------
(***************************************************************************)
(* File headers with NumDirect direct sectors and one index block          *)
(* (filesys/filehdr.cc).  A header is a record; entry NumDirect + 1 of     *)
(* dataSectors is the index block, whose entries are read back as one      *)
(* signed byte each.                                                       *)
(***************************************************************************)
EXTENDS BitMap, Sequences

CONSTANTS
  SectorSize,    \* bytes per sector
  NumDirect,     \* direct sectors of a header
  IndexEntries,  \* sector numbers an index block can hold
  CharBits       \* bits of a char

NumFirst == 1
MaxFileSize == (NumDirect + NumFirst * IndexEntries) * SectorSize

divRoundUp(n, s) == (n + s - 1) \div s
divRoundDown(n, s) == n \div s
Lesser(a, b) == IF a < b THEN a ELSE b

(* A sector number of the index block as the code reads it: the low byte, which
   a char takes for a signed number.                                       *)
AsChar(n) == ((n + 2^(CharBits - 1)) % 2^CharBits) - 2^(CharBits - 1)

(* FileHeader::Allocate: whether there is space, the header, the map after it
   and the contents of the index block, <<>> if there is none.             *)
Allocate(freeMap, fileSize) ==
  LET numSectors == divRoundUp(fileSize, SectorSize)
      direct == FindMany(freeMap, Lesser(numSectors, NumDirect))
      first == FindMany(direct.map, IF numSectors > NumDirect THEN 1 ELSE 0)
      rest == FindMany(first.map, numSectors - NumDirect)
  IN [ok |-> NumClear(freeMap) >= numSectors,
      hdr |-> [numBytes |-> fileSize, numSectors |-> numSectors,
               dataSectors |-> direct.sectors \o first.sectors],
      map |-> rest.map,
      index |-> rest.sectors]

(* Mutant of Deallocated: the index block itself is forgotten. *)
DeallocatedKeepsIndex(hdr, index) ==
  {hdr.dataSectors[i] : i \in 1..Lesser(hdr.numSectors, NumDirect)}
    \cup {AsChar(index[i]) : i \in 1..(hdr.numSectors - NumDirect)}

(* The sectors that FileHeader::Deallocate clears; it asserts that they are
   marked.  index is the contents of the index block.                      *)
Deallocated(hdr, index) ==
  {hdr.dataSectors[i] : i \in 1..Len(hdr.dataSectors)}
    \cup {AsChar(index[i]) : i \in 1..(hdr.numSectors - NumDirect)}
Deallocate(freeMap, hdr, index) == freeMap \ Deallocated(hdr, index)

(* Mutant of ByteToSector: the direct blocks end one block early. *)
ByteToSectorShort(hdr, index, offset) ==
  IF offset < (NumDirect - 1) * SectorSize
  THEN hdr.dataSectors[divRoundDown(offset, SectorSize) + 1]
  ELSE hdr.dataSectors[1]

(* FileHeader::ByteToSector *)
ByteToSector(hdr, index, offset) ==
  IF offset <= NumDirect * SectorSize
  THEN hdr.dataSectors[divRoundDown(offset, SectorSize) + 1]
  ELSE AsChar(index[divRoundDown(offset - NumDirect * SectorSize, SectorSize) + 1])
=============================================================================
