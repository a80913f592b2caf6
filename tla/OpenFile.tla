------------------------------ MODULE OpenFile ------------------------------
(***************************************************************************)
(* An open file on a disk of whole sectors (filesys/openfile.cc).          *)
(***************************************************************************)
EXTENDS FileHeader

CONSTANTS
  Bytes,       \* byte values
  Junk,        \* the value of a byte of a buffer that nothing was read into
  Times,       \* access times
  hdr,         \* the header that the constructor fetched
  Requests     \* lengths of the requests

VARIABLES
  disk,          \* the bytes of each sector
  times,         \* access time of the header in memory and of the one on disk
  seekPosition,
  got            \* the bytes that the last Read returned

vars == <<disk, times, seekPosition, got>>

FileLength == hdr.numBytes

Sector(i) == ByteToSector(hdr, <<>>, i * SectorSize)

-----------------------------------------------------------------------------
(* The number of bytes of a request at position that lie within the file; the
   first lines of ReadAt and WriteAt.                                      *)
Clip(numBytes, position) ==
  IF numBytes <= 0 \/ position >= FileLength THEN 0
  ELSE IF position + numBytes > FileLength THEN FileLength - position ELSE numBytes

(* OpenFile::ReadAt *)
ReadAt(numBytes, position) ==
  LET At(p) == disk[Sector(divRoundDown(p, SectorSize))][(p % SectorSize) + 1]
  IN [k \in 1..Clip(numBytes, position) |-> At(position + k - 1)]

(* Mutant of Buffer: the last sector is not read in when the request lies
   within one sector.                                                      *)
BufferFirstOnly(from, position) ==
  LET n == Clip(Len(from), position)
      firstSector == divRoundDown(position, SectorSize)
      lastSector == divRoundDown(position + n - 1, SectorSize)
      start == firstSector * SectorSize
      head == IF position # start THEN ReadAt(SectorSize, start) ELSE <<>>
  IN [k \in 1..((1 + lastSector - firstSector) * SectorSize) |->
        IF k > position - start /\ k <= position - start + n THEN from[k - (position - start)]
        ELSE IF k <= Len(head) THEN head[k] ELSE Junk]

(* The buffer that WriteAt puts together: the first and the last sector are
   read in if they are to be partially modified, then the new bytes go in. *)
Buffer(from, position) ==
  LET n == Clip(Len(from), position)
      firstSector == divRoundDown(position, SectorSize)
      lastSector == divRoundDown(position + n - 1, SectorSize)
      start == firstSector * SectorSize
      tail == (lastSector - firstSector) * SectorSize
      firstAligned == position = start
      lastAligned == position + n = (lastSector + 1) * SectorSize
      head == IF ~firstAligned THEN ReadAt(SectorSize, start) ELSE <<>>
      last == IF ~lastAligned /\ (firstSector # lastSector \/ firstAligned)
              THEN ReadAt(SectorSize, lastSector * SectorSize) ELSE <<>>
  IN [k \in 1..((1 + lastSector - firstSector) * SectorSize) |->
        IF k > position - start /\ k <= position - start + n THEN from[k - (position - start)]
        ELSE IF k > tail /\ k <= tail + Len(last) THEN last[k - tail]
        ELSE IF k <= Len(head) THEN head[k]
        ELSE Junk]

(* Mutant of WriteAt: the number of a block is taken for its sector. *)
WriteAtUnmapped(from, position) ==
  IF Clip(Len(from), position) = 0 THEN disk
  ELSE [disk EXCEPT ![divRoundDown(position, SectorSize)] = SubSeq(Buffer(from, position), 1, SectorSize)]

(* OpenFile::WriteAt: the disk after it *)
WriteAt(from, position) ==
  LET n == Clip(Len(from), position)
      firstSector == divRoundDown(position, SectorSize)
      lastSector == divRoundDown(position + n - 1, SectorSize)
      buf == Buffer(from, position)
      Block(i) == SubSeq(buf, (i - firstSector) * SectorSize + 1, (i - firstSector + 1) * SectorSize)
  IN IF n = 0 THEN disk
     ELSE [s \in DOMAIN disk |->
             IF \E i \in firstSector..lastSector : Sector(i) = s
             THEN Block(CHOOSE i \in firstSector..lastSector : Sector(i) = s)
             ELSE disk[s]]

-----------------------------------------------------------------------------
(* OpenFile::OpenFile, on a disk whose sectors are all alike *)
Init ==
  /\ \E b \in Bytes : disk = [s \in Bits |-> [k \in 1..SectorSize |-> b]]
  /\ times = [memory |-> CHOOSE t \in Times : TRUE, disk |-> CHOOSE t \in Times : TRUE]
  /\ seekPosition = 0
  /\ got = <<>>

(* OpenFile::Seek *)
Seek(position) ==
  /\ seekPosition' = position
  /\ UNCHANGED <<disk, times, got>>

(* setAccessTime(now) and WriteBack of the header, at the end of Read and Write *)
Touch(now) == times' = [memory |-> now, disk |-> now]

(* OpenFile::Read *)
Read(numBytes, now) ==
  /\ got' = ReadAt(numBytes, seekPosition)
  /\ seekPosition' = seekPosition + Clip(numBytes, seekPosition)
  /\ Touch(now)
  /\ UNCHANGED disk

(* OpenFile::Write *)
Write(into, now) ==
  /\ disk' = WriteAt(into, seekPosition)
  /\ seekPosition' = seekPosition + Clip(Len(into), seekPosition)
  /\ Touch(now)
  /\ UNCHANGED got

Next ==
  \/ \E position \in 0..(FileLength + 1) : Seek(position)
  \/ \E n \in Requests, now \in Times : Read(n, now)
  \/ \E n \in Requests, now \in Times : \E into \in [1..n -> Bytes] : Write(into, now)

Spec == Init /\ [][Next]_vars

-----------------------------------------------------------------------------
(* The bytes of the file, wherever its header says they are. *)
Contents == [i \in 1..FileLength |->
               disk[hdr.dataSectors[(i - 1) \div SectorSize + 1]][((i - 1) % SectorSize) + 1]]

(* Reads and writes of any alignment and length, before, across and past the
   end of the file, are those of an array of bytes: the sectors are a detail
   of the implementation (openfile.cc 95-118).                             *)
File == INSTANCE ByteFile WITH contents <- Contents
ImplementsByteFile == File!Steps

(* A write changes no sector but those of the file (the header it writes back
   is modelled apart), whatever the request.                               *)
OtherSectorsKept ==
  [][\A s \in Bits : (\A i \in DOMAIN hdr.dataSectors : hdr.dataSectors[i] # s)
        => disk'[s] = disk[s]]_vars
=============================================================================
