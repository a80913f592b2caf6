----------------------------- MODULE FileSystem -----------------------------
(***************************************************************************)
(* The Nachos file system on its disk (filesys/filesys.cc over filehdr.cc, *)
(* directory.cc, openfile.cc and userprog/bitmap.cc), at the grain of one  *)
(* sector write.  An operation reads what it needs, then writes its        *)
(* sectors one by one in the order of the code; the machine may stop       *)
(* between two writes.  The file system is used by one thread at a time    *)
(* (filesys.cc 179), and offsets are counted in sectors: SectorSize is 1.   *)
(***************************************************************************)
EXTENDS FileHeader

CONSTANTS
  tableSize,     \* entries of the directory
  NoName,        \* the name of an entry that was cleared
  Names, Data,   \* file names, contents of a sector
  Sizes,         \* sizes of the files created
  Straddle,      \* the directory entry that lies across its two sectors
  MaxOpen, MaxCrashes  \* bounds

FreeMapSector == 0
DirectorySector == 1
FreeMapFileSize == 1
DirectoryFileSize == 2

VARIABLES
  disk,      \* contents of each sector
  pending,   \* the sector writes of the current operation
  handles,   \* the open files: name, header and where it came from
  written,   \* what programs wrote to each block of each file
  crashes,   \* how often the machine stopped
  damaged    \* whether it stopped between the writes of map and directory

vars == <<disk, pending, handles, written, crashes, damaged>>

-----------------------------------------------------------------------------
(* The directory of filesys/directory.cc: a table of tableSize entries.  Two
   names that agree in their first FileNameMaxLen characters are one name of
   the model.                                                              *)
DirectoryEntry(name, sector) == [inUse |-> TRUE, sector |-> sector, name |-> name]
Unused == [inUse |-> FALSE, sector |-> 0, name |-> NoName]

(* Directory::Directory *)
Directory == [i \in 0..(tableSize - 1) |-> Unused]

(* Directory::FindIndex: the index of the entry, if there is one *)
FindIndex(table, name) == {i \in DOMAIN table : table[i].inUse /\ table[i].name = name}

(* Directory::Find: the sector of the header of the file *)
FindName(table, name) == {table[i].sector : i \in FindIndex(table, name)}

(* Directory::Add: the table after it, if the name is new and an entry is free *)
Slots(table) == {i \in DOMAIN table : ~table[i].inUse}
CanAdd(table, name) == FindIndex(table, name) = {} /\ Slots(table) # {}
Add(table, name, newSector) ==
  LET i == CHOOSE i \in Slots(table) : \A j \in Slots(table) : i <= j
  IN [table EXCEPT ![i] = DirectoryEntry(name, newSector)]

(* Directory::Remove: the entry is free and has no name, its sector stays *)
RemoveName(table, name) ==
  [i \in DOMAIN table |->
     IF i \in FindIndex(table, name)
     THEN [inUse |-> FALSE, sector |-> table[i].sector, name |-> NoName] ELSE table[i]]
-----------------------------------------------------------------------------
(* What a sector can hold *)
Junk == [t |-> "junk"]
HdrBlock(hdr) == [t |-> "hdr", hdr |-> hdr]
MapBlock(map) == [t |-> "map", map |-> map]
DirBlock(table) == [t |-> "dir", table |-> table]
IndexBlock(index) == [t |-> "index", index |-> index]
DataBlock(v) == [t |-> "data", v |-> v]

MapHdr == Allocate(Mark(Mark(BitMap, FreeMapSector), DirectorySector), FreeMapFileSize)
DirHdr == Allocate(MapHdr.map, DirectoryFileSize)

(* MapHdr.hdr.dataSectors[1], DirHdr.hdr.dataSectors[1] and [2]: on an empty
   disk Allocate finds the sectors in this order.                          *)
MapData == 2
Dir1 == 3
Dir2 == 4

(* FileSystem::FileSystem(TRUE): the disk it formats *)
Format ==
  [s \in Bits |->
     CASE s = FreeMapSector -> HdrBlock(MapHdr.hdr)
       [] s = DirectorySector -> HdrBlock(DirHdr.hdr)
       [] s = MapData -> MapBlock(DirHdr.map)
       [] s \in {Dir1, Dir2} -> DirBlock(Directory)
       [] OTHER -> Junk]

(* FetchFrom of the bit map, of the directory (the flag and the sector of entry
   Straddle are in the first sector, its name is in the second) and of an
   index block, for which data can be mistaken.                            *)
FetchMap(d) == d[MapData].map
FetchDirectory(d) ==
  [i \in 0..(tableSize - 1) |->
     IF i < Straddle THEN d[Dir1].table[i]
     ELSE IF i > Straddle THEN d[Dir2].table[i]
     ELSE [d[Dir1].table[i] EXCEPT !.name = d[Dir2].table[i].name]]
FetchIndex(d, hdr) ==
  IF hdr.numSectors <= NumDirect THEN <<>>
  ELSE LET block == d[hdr.dataSectors[NumDirect + 1]]
       IN IF block.t = "index" THEN block.index ELSE [i \in 1..IndexEntries |-> block.v]

WriteSector(sector, block) == [sector |-> sector, block |-> block]
WriteDirectory(table) == <<WriteSector(Dir1, DirBlock(table)), WriteSector(Dir2, DirBlock(table))>>

-----------------------------------------------------------------------------
Init ==
  /\ disk = Format
  /\ pending = <<>> /\ handles = {}
  /\ written = [n \in Names |-> <<>>]
  /\ crashes = 0 /\ damaged = FALSE

(* Mutant of Create: the directory goes to disk before the header. *)
CreateEntryFirst(name, initialSize) ==
  LET table == FetchDirectory(disk)
      map == FetchMap(disk)
      sector == FindBit(map)
      a == Allocate(MarkFound(map), initialSize)
  IN /\ pending = <<>>
     /\ CanAdd(table, name)
     /\ sector # -1 /\ a.ok
     /\ pending' = <<WriteSector(MapData, MapBlock(a.map))>>
          \o WriteDirectory(Add(table, name, sector)) \o <<WriteSector(sector, HdrBlock(a.hdr))>>
     /\ written' = [written EXCEPT ![name] = [b \in 1..a.hdr.numSectors |-> Junk]]
     /\ UNCHANGED <<disk, handles, crashes, damaged>>

(* FileSystem::Create, where it succeeds: Allocate writes the index block, then
   header, directory and bit map are flushed.  A sector number of -1 fails the
   assertion of the disk.                                                  *)
Create(name, initialSize) ==
  LET table == FetchDirectory(disk)
      map == FetchMap(disk)
      sector == FindBit(map)
      a == Allocate(MarkFound(map), initialSize)
  IN /\ pending = <<>>
     /\ CanAdd(table, name)
     /\ sector # -1 /\ a.ok
     /\ \A i \in DOMAIN a.hdr.dataSectors : a.hdr.dataSectors[i] # -1
     /\ pending' = (IF a.index = <<>> THEN <<>>
                    ELSE <<WriteSector(a.hdr.dataSectors[NumDirect + 1], IndexBlock(a.index))>>)
          \o <<WriteSector(sector, HdrBlock(a.hdr))>>
          \o WriteDirectory(Add(table, name, sector))
          \o <<WriteSector(MapData, MapBlock(a.map))>>
     /\ written' = [written EXCEPT ![name] = [b \in 1..a.hdr.numSectors |-> Junk]]
     /\ UNCHANGED <<disk, handles, crashes, damaged>>

(* FileSystem::Open, where the name is found *)
Open(name) ==
  /\ pending = <<>>
  /\ Cardinality(handles) < MaxOpen
  /\ \E sector \in FindName(FetchDirectory(disk), name) :
       /\ disk[sector].t = "hdr"
       /\ handles' = handles \cup {[name |-> name, sector |-> sector, hdr |-> disk[sector].hdr]}
  /\ UNCHANGED <<disk, pending, written, crashes, damaged>>

(* OpenFile::~OpenFile *)
Close(h) ==
  /\ handles' = handles \ {h}
  /\ UNCHANGED <<disk, pending, written, crashes, damaged>>

(* Mutant of Remove: the header's own sector is not released. *)
RemoveKeepsHeader(name) ==
  /\ pending = <<>>
  /\ \E sector \in FindName(FetchDirectory(disk), name) :
       LET hdr == disk[sector].hdr IN
         pending' = <<WriteSector(MapData, MapBlock(
                       Deallocate(FetchMap(disk), hdr, FetchIndex(disk, hdr))))>>
                      \o WriteDirectory(RemoveName(FetchDirectory(disk), name))
  /\ UNCHANGED <<disk, handles, written, crashes, damaged>>

(* FileSystem::Remove, where the name is found: bit map first, then directory.
   The assertions of Deallocate hold, or Nachos stops.  Programs close the
   file first: the copy of the header in an OpenFile is written back by every
   access to it, whatever its sector is used for by then.                  *)
Remove(name) ==
  /\ pending = <<>>
  /\ \A h \in handles : h.name # name
  /\ \E sector \in FindName(FetchDirectory(disk), name) :
       LET hdr == disk[sector].hdr
           freed == Deallocated(hdr, FetchIndex(disk, hdr))
       IN /\ disk[sector].t = "hdr"
          /\ freed \subseteq FetchMap(disk)
          /\ pending' = <<WriteSector(MapData, MapBlock(FetchMap(disk) \ (freed \cup {sector})))>>
                          \o WriteDirectory(RemoveName(FetchDirectory(disk), name))
  /\ UNCHANGED <<disk, handles, written, crashes, damaged>>

(* OpenFile::Write of one sector: the data, then the header with its new access
   time, to the sector it was fetched from                                 *)
Write(h, b, v) ==
  LET sector == ByteToSector(h.hdr, FetchIndex(disk, h.hdr), b - 1)
  IN /\ pending = <<>>
     /\ sector \in Bits
     /\ pending' = <<WriteSector(sector, DataBlock(v)), WriteSector(h.sector, HdrBlock(h.hdr))>>
     /\ written' = [written EXCEPT ![h.name] =
                      IF b \in DOMAIN @ THEN [@ EXCEPT ![b] = DataBlock(v)] ELSE @]
     /\ UNCHANGED <<disk, handles, crashes, damaged>>

(* OpenFile::Read: the header is written back as well *)
Read(h) ==
  /\ pending = <<>>
  /\ pending' = <<WriteSector(h.sector, HdrBlock(h.hdr))>>
  /\ UNCHANGED <<disk, handles, written, crashes, damaged>>

(* The disk completes one write. *)
Flush ==
  /\ pending # <<>>
  /\ disk' = [disk EXCEPT ![Head(pending).sector] = Head(pending).block]
  /\ pending' = Tail(pending)
  /\ UNCHANGED <<handles, written, crashes, damaged>>

(* Map and directory disagree while the first of their three writes is done and
   the last is not.                                                        *)
InWindow ==
  pending # <<>> /\ Len(pending) < 3 /\ Head(pending).sector \in {MapData, Dir1, Dir2}

(* The machine stops and FileSystem(FALSE) starts again from the disk. *)
Crash ==
  /\ crashes < MaxCrashes /\ pending # <<>>
  /\ crashes' = crashes + 1
  /\ damaged' = (damaged \/ InWindow)
  /\ pending' = <<>> /\ handles' = {}
  /\ written' = [n \in Names |-> [b \in DOMAIN written[n] |-> Junk]]
  /\ UNCHANGED disk

(* What happens to a disk that was left inconsistent is not explored. *)
Next ==
  /\ ~damaged
  /\ \/ \E name \in Names, size \in Sizes : Create(name, size)
     \/ \E name \in Names : Open(name) \/ Remove(name)
     \/ \E h \in handles : Close(h) \/ Read(h)
          \/ \E b \in 1..h.hdr.numSectors, v \in Data : Write(h, b, v)
     \/ Flush
     \/ Crash

Spec == Init /\ [][Next]_vars

-----------------------------------------------------------------------------
Table == FetchDirectory(disk)
InUse == {i \in DOMAIN Table : Table[i].inUse}
HeaderOf(i) == disk[Table[i].sector].hdr
SystemSectors == {FreeMapSector, DirectorySector, MapData, Dir1, Dir2}

(* Every entry of the directory on disk leads to a header, at every moment at
   which the machine may stop: Create writes the header before the directory
   names it (filesys.cc 224).                                              *)
EntriesHaveHeaders ==
  ~damaged => \A i \in InUse : disk[Table[i].sector].t = "hdr"

(* The sectors of a file: header, data, index block *)
SectorsOf(i) ==
  {Table[i].sector} \cup Deallocated(HeaderOf(i), FetchIndex(disk, HeaderOf(i)))

(* Over any sequence of operations, and over crashes at any moment but the one
   between the writes of bit map and directory, the marked sectors are those
   of the system and of the files, and no sector has two owners.           *)
MapIsExact ==
  ~damaged /\ ~InWindow =>
    /\ FetchMap(disk) = SystemSectors \cup UNION {SectorsOf(i) : i \in InUse}
    /\ \A i, j \in InUse : i # j => SectorsOf(i) \cap SectorsOf(j) = {}
    /\ \A i \in InUse : SectorsOf(i) \cap SystemSectors = {}

(* "Write modifies the file, of course" and nothing else does (openfile.cc 99,
   filehdr.h 21): every block of a file reads back as it was last written, as
   long as the file exists, whatever else is created, written and removed. *)
ReadsBack ==
  ~damaged /\ pending = <<>> =>
    \A i \in InUse : \A b \in DOMAIN written[Table[i].name] :
      LET hdr == HeaderOf(i)
          sector == ByteToSector(hdr, FetchIndex(disk, hdr), b - 1)
      IN written[Table[i].name][b] # Junk =>
           sector \in Bits /\ disk[sector] = written[Table[i].name][b]
=============================================================================
