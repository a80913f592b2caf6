---------------------------- MODULE MCFileSystem ----------------------------
(***************************************************************************)
(* The disk and the layers of filesys/ above it, one at a time: part says  *)
(* which of them runs, the others stay in their initial states, so the     *)
(* behaviours are those of each part by itself.                            *)
(***************************************************************************)
EXTENDS SynchDisk

MCInitialValue == [s \in Semaphore |-> 0]

VARIABLES
  part,                                                    \* what runs
  pContents, pActive, pLast, pBuffer, pTicks, pDoneAt, pRequest,  \* Disk
  sectors, pending, handles, written, crashes, damaged,    \* FileSystem
  fDisk, times, seekPosition, got                          \* OpenFile

pVars == <<pContents, pActive, pLast, pBuffer, pTicks, pDoneAt, pRequest>>
fsVars == <<sectors, pending, handles, written, crashes, damaged>>
ofVars == <<fDisk, times, seekPosition, got>>
allVars == <<part, vars, pVars, fsVars, ofVars>>

-----------------------------------------------------------------------------
(* Three tracks of three sectors. *)
Platter == INSTANCE Disk WITH
  NumTracks <- 3, SectorsPerTrack <- 3, SeekTime <- 4, RotationTime <- 3,
  Data <- {0}, Zero <- 0, MaxTicks <- 20, MaxDelay <- 3,
  contents <- pContents, active <- pActive, lastSector <- pLast, bufferInit <- pBuffer,
  totalTicks <- pTicks, doneAt <- pDoneAt, request <- pRequest

(* A disk that two small files fill, and one crash. *)
Small == INSTANCE FileSystem WITH
  numBits <- 9, SectorSize <- 1, NumDirect <- 2, IndexEntries <- 2, CharBits <- 8,
  tableSize <- 2, NoName <- "", Names <- {"a", "b"}, Data <- {1, 2}, Sizes <- {1, 2},
  Straddle <- 1, MaxOpen <- 1, MaxCrashes <- 1, disk <- sectors

(* Files with an index block are created and removed, with one crash. *)
Indexed == INSTANCE FileSystem WITH
  numBits <- 20, SectorSize <- 1, NumDirect <- 2, IndexEntries <- 3, CharBits <- 8,
  tableSize <- 2, NoName <- "", Names <- {"a", "b"}, Data <- {1}, Sizes <- {2, 5},
  Straddle <- 1, MaxOpen <- 0, MaxCrashes <- 1, disk <- sectors

(* A file of five bytes in three scattered sectors of two bytes each. *)
FiveBytes == INSTANCE OpenFile WITH
  numBits <- 4, SectorSize <- 2, NumDirect <- 3, IndexEntries <- 4, CharBits <- 8,
  Bytes <- {0, 1}, Junk <- 2, Times <- {0}, Requests <- {1, 4},
  hdr <- [numBytes |-> 5, numSectors |-> 3, dataSectors |-> <<3, 0, 2>>],
  disk <- fDisk

-----------------------------------------------------------------------------
MCInit ==
  /\ part \in {"synchDisk", "disk", "fileSystem", "indexedFiles", "openFile"}
  /\ Init /\ Platter!DiskInit
  /\ IF part = "indexedFiles" THEN Indexed!Init ELSE Small!Init
  /\ FiveBytes!Init /\ (part = "openFile" \/ fDisk[0][1] = 0)

(* Part p runs, the other parts stay as they are. *)
Only(p) ==
  /\ part = p /\ UNCHANGED part
  /\ IF p = "synchDisk" THEN TRUE ELSE UNCHANGED vars
  /\ IF p = "disk" THEN TRUE ELSE UNCHANGED pVars
  /\ IF p \in {"fileSystem", "indexedFiles"} THEN TRUE ELSE UNCHANGED fsVars
  /\ IF p = "openFile" THEN TRUE ELSE UNCHANGED ofVars

MCNext ==
  \/ Only("synchDisk") /\ Next
  \/ Only("disk") /\ Platter!DiskNext
  \/ Only("fileSystem") /\ Small!Next
  \/ Only("indexedFiles") /\ Indexed!Next
  \/ Only("openFile") /\ FiveBytes!Next

(* Threads that can go on are dispatched, and Idle lets a scheduled interrupt
   happen when no thread can.                                              *)
MCSpec ==
  /\ MCInit /\ [][MCNext]_allVars
  /\ WF_vars(part = "synchDisk" /\ RequestDone)
  /\ \A t \in Thread : WF_vars(part = "synchDisk" /\ Step(t))

-----------------------------------------------------------------------------
(* A request that misses the track buffer completes when its sector has passed
   under the head for the first time after the seek (disk.cc 215), one that
   the buffer serves is of a sector that has passed since the head came to the
   track (disk.cc 223-227), and the buffer never starts in the future, where
   the division in ComputeLatency would round the other way.               *)
DiskIsPhysical ==
  part = "disk" =>
    Platter!LatencyIsPhysical /\ Platter!TrackBufferHolds /\ Platter!BufferStartsInThePast

(* Whenever the machine stops, every directory entry leads to a header
   (filesys.cc 224), and no sector is owned twice, or leaks unless the machine
   stopped between two writes of one call; also when files own an index block
   besides their data (filehdr.cc 37-105).                                 *)
SectorsAccounted ==
  /\ part = "fileSystem" => Small!EntriesHaveHeaders /\ Small!MapIsExact
  /\ part = "indexedFiles" => Indexed!MapIsExact

(* Every block reads back as it was last written (openfile.cc 99). *)
ReadsBack == part = "fileSystem" => Small!ReadsBack

(* Reads and writes of any alignment are those of an array of bytes
   (openfile.cc 95-191), and a write changes no sector but those of the file. *)
ImplementsByteFile ==
  /\ [][part = "openFile" => FiveBytes!File!Next]_<<FiveBytes!Contents, seekPosition, got>>
  /\ FiveBytes!OtherSectorsKept
=============================================================================
