------------------------------ MODULE ByteFile ------------------------------
(***************************************************************************)
(* What an open file promises (the comments of filesys/openfile.h): an     *)
(* array of bytes of a fixed length with a current position.               *)
(***************************************************************************)
EXTENDS Integers, Sequences

CONSTANTS Bytes, Requests  \* byte values, lengths of the requests

VARIABLES
  contents,      \* the bytes of the file
  seekPosition,  \* the current position
  got            \* the bytes that the last read returned

vars == <<contents, seekPosition, got>>

(* The part of a request that lies within the file *)
Extent(n) ==
  {i \in 1..Len(contents) : seekPosition < i /\ i <= seekPosition + n}

Count(n) ==
  IF seekPosition >= Len(contents) THEN 0
  ELSE IF seekPosition + n > Len(contents) THEN Len(contents) - seekPosition ELSE n

Init ==
  /\ contents \in Seq(Bytes)
  /\ seekPosition = 0
  /\ got = <<>>

Seek(position) ==
  /\ seekPosition' = position
  /\ UNCHANGED <<contents, got>>

Read(n) ==
  /\ got' = SubSeq(contents, seekPosition + 1, seekPosition + Count(n))
  /\ seekPosition' = seekPosition + Count(n)
  /\ UNCHANGED contents

Write(from) ==
  /\ contents' = [i \in 1..Len(contents) |->
                    IF i \in Extent(Len(from)) THEN from[i - seekPosition] ELSE contents[i]]
  /\ seekPosition' = seekPosition + Count(Len(from))
  /\ UNCHANGED got

Next ==
  \/ \E position \in 0..(Len(contents) + 1) : Seek(position)
  \/ \E n \in Requests : Read(n)
  \/ \E n \in Requests : \E from \in [1..n -> Bytes] : Write(from)

(* Steps of an array of bytes with a position. *)
Steps == [][Next]_vars
=============================================================================
