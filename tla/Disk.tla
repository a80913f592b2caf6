-------------------------------- MODULE Disk --------------------------------
(***************************************************************************)
(* The simulated disk (machine/disk.cc): one request at a time, data moved *)
(* at once, completion signalled by an interrupt after the latency of the  *)
(* seek, the rotation and the transfer, with a track buffer for reads.     *)
(***************************************************************************)
EXTENDS Integers

CONSTANTS
  NumTracks, SectorsPerTrack,  \* geometry
  SeekTime, RotationTime,      \* ticks per track and per sector
  Data,                        \* what a sector can hold
  Zero,                        \* what the sectors of a new disk hold
  MaxTicks,                    \* bound: no request starts after this time
  MaxDelay                     \* bound: ticks between two events

ASSUME DiskAssumption ==
  /\ {NumTracks, SectorsPerTrack, SeekTime, RotationTime} \subseteq Nat \ {0}
  /\ {MaxTicks, MaxDelay} \subseteq Nat
  /\ Zero \in Data

NumSectors == NumTracks * SectorsPerTrack
Sectors == 0..(NumSectors - 1)

VARIABLES
  contents,    \* the UNIX file behind the disk
  active,      \* a request is in progress
  lastSector,  \* sector of the latest request
  bufferInit,  \* when the track buffer started to fill
  totalTicks,  \* simulated time
  doneAt,      \* time for which the completion is scheduled
  request      \* the latest request and when it was made, for the properties

diskVars == <<contents, active, lastSector, bufferInit, totalTicks, doneAt, request>>

(* Disk::Disk, on a disk that was just created *)
DiskInit ==
  /\ contents = [s \in Sectors |-> Zero]
  /\ active = FALSE
  /\ lastSector = 0 /\ bufferInit = 0
  /\ totalTicks = 0 /\ doneAt = 0
  /\ request = [sector |-> 0, writing |-> FALSE, at |-> 0, from |-> 0, filling |-> 0]

Abs(n) == IF n < 0 THEN -n ELSE n

(* Disk::TimeToSeek: the seek, and the wait for the next sector boundary *)
TimeToSeek(newSector) ==
  LET seek == Abs(newSector \div SectorsPerTrack - lastSector \div SectorsPerTrack) * SeekTime
      over == (totalTicks + seek) % RotationTime
  IN [seek |-> seek, rotation |-> IF over > 0 THEN RotationTime - over ELSE 0]

(* Disk::ModuloDiff *)
ModuloDiff(to, from) ==
  ((to % SectorsPerTrack) - (from % SectorsPerTrack) + SectorsPerTrack) % SectorsPerTrack

(* Mutant of InTrackBuffer: the sector under the head counts as read. *)
InTrackBufferEarly(newSector, writing) ==
  LET s == TimeToSeek(newSector) IN
    /\ ~writing /\ s.seek = 0
    /\ (totalTicks + s.seek + s.rotation - bufferInit) \div RotationTime
         >= ModuloDiff(newSector, bufferInit \div RotationTime)

(* The test of ComputeLatency for a sector that the track buffer holds. *)
InTrackBuffer(newSector, writing) ==
  LET s == TimeToSeek(newSector) IN
    /\ ~writing /\ s.seek = 0
    /\ (totalTicks + s.seek + s.rotation - bufferInit) \div RotationTime
         > ModuloDiff(newSector, bufferInit \div RotationTime)

(* Mutant of ComputeLatency: the rotation is measured from the present. *)
ComputeLatencyFromNow(newSector, writing) ==
  LET s == TimeToSeek(newSector) IN
    IF InTrackBuffer(newSector, writing) THEN RotationTime
    ELSE s.seek + s.rotation + RotationTime
           + ModuloDiff(newSector, totalTicks \div RotationTime) * RotationTime

(* Disk::ComputeLatency *)
ComputeLatency(newSector, writing) ==
  LET s == TimeToSeek(newSector)
      timeAfter == totalTicks + s.seek + s.rotation
  IN IF InTrackBuffer(newSector, writing) THEN RotationTime
     ELSE s.seek + s.rotation + RotationTime
            + ModuloDiff(newSector, timeAfter \div RotationTime) * RotationTime

(* Mutant of UpdateLast: the buffer starts after one more turn. *)
UpdateLastFullTurn(newSector) ==
  LET s == TimeToSeek(newSector) IN
    /\ bufferInit' = IF s.seek # 0
                     THEN totalTicks + s.seek + s.rotation + RotationTime * SectorsPerTrack
                     ELSE bufferInit
    /\ lastSector' = newSector

(* Disk::UpdateLast: a seek empties the track buffer *)
UpdateLast(newSector) ==
  LET s == TimeToSeek(newSector) IN
    /\ bufferInit' = IF s.seek # 0 THEN totalTicks + s.seek + s.rotation ELSE bufferInit
    /\ lastSector' = newSector

(* What Disk::ReadRequest and WriteRequest share; the caller has to see to it
   that no request is in progress.                                         *)
Request(sector, writing) ==
  /\ active' = TRUE
  /\ doneAt' = totalTicks + ComputeLatency(sector, writing)
  /\ request' = [sector |-> sector, writing |-> writing, at |-> totalTicks,
                 from |-> lastSector,
                 filling |-> IF sector \div SectorsPerTrack = lastSector \div SectorsPerTrack
                             THEN request.filling
                             ELSE totalTicks + TimeToSeek(sector).seek]
  /\ UpdateLast(sector)
  /\ UNCHANGED totalTicks

(* Disk::ReadRequest: the data is contents[sector] *)
ReadRequest(sector) == Request(sector, FALSE) /\ UNCHANGED contents

(* Disk::WriteRequest *)
WriteRequest(sector, data) ==
  Request(sector, TRUE) /\ contents' = [contents EXCEPT ![sector] = data]

(* Disk::HandleInterrupt: CheckIfDue calls it at the scheduled time, or later
   when time has jumped over it.                                           *)
HandleInterrupt ==
  /\ active
  /\ active' = FALSE
  /\ \E d \in 0..MaxDelay : totalTicks' = (IF doneAt > totalTicks THEN doneAt ELSE totalTicks) + d
  /\ UNCHANGED <<contents, lastSector, bufferInit, doneAt, request>>

(* Time that passes between two requests. *)
Elapse ==
  /\ ~active
  /\ \E d \in 1..MaxDelay : totalTicks' = totalTicks + d
  /\ totalTicks <= MaxTicks
  /\ UNCHANGED <<contents, active, lastSector, bufferInit, doneAt, request>>

DiskNext ==
  \/ /\ ~active /\ totalTicks <= MaxTicks
     /\ \E s \in Sectors : ReadRequest(s) \/ \E d \in Data : WriteRequest(s, d)
  \/ HandleInterrupt
  \/ Elapse

DiskSpec == DiskInit /\ [][DiskNext]_diskVars

-----------------------------------------------------------------------------
(* The platter as physics has it: at time t the head is over the sector with
   number (t \div RotationTime) % SectorsPerTrack of its track, so a sector is
   read between from and to if one of its whole passages lies in between.  *)
PassesUnderHead(sector, from, to) ==
  \E k \in (from \div RotationTime)..(to \div RotationTime) :
    /\ k % SectorsPerTrack = sector % SectorsPerTrack
    /\ from <= k * RotationTime
    /\ (k + 1) * RotationTime <= to

(* The head's arrival over the track of the request in progress. *)
Arrival ==
  request.at + SeekTime * Abs(request.sector \div SectorsPerTrack - request.from \div SectorsPerTrack)

(* "Latency = seek time + rotational latency + transfer time" (disk.cc 215):
   a request that misses the track buffer completes exactly when the sector
   has passed completely under the head for the first time after the seek. *)
LatencyIsPhysical ==
  active /\ (request.writing \/ doneAt # request.at + RotationTime) =>
    /\ PassesUnderHead(request.sector, Arrival, doneAt)
    /\ ~PassesUnderHead(request.sector, Arrival, doneAt - 1)

(* The track buffer invents nothing: a read it serves early is of a sector
   that the head has passed completely since it came to the track, so "the
   contents of the track buffer are discarded after every seek"
   (disk.cc 223-227).                                                      *)
TrackBufferHolds ==
  active /\ ~request.writing => PassesUnderHead(request.sector, request.filling, doneAt)

(* The buffer's start is never in the future when a request is made, where
   the division of ComputeLatency would round the other way.               *)
BufferStartsInThePast == ~active => bufferInit <= totalTicks
=============================================================================
