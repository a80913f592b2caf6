------------------------------- MODULE BitMap -------------------------------
(***************************************************************************)
(* The bit map of userprog/bitmap.cc, as the set of the bits that are set. *)
(***************************************************************************)
EXTENDS Integers, FiniteSets

CONSTANT numBits  \* a natural number

Bits == 0..(numBits - 1)

(* BitMap::BitMap *)
BitMap == {}

(* BitMap::Mark, BitMap::Clear and BitMap::Test; all assert that which is in
   range.                                                                  *)
Mark(map, which) == map \cup {which}
Clear(map, which) == map \ {which}
Test(map, which) == which \in map

(* BitMap::NumClear *)
NumClear(map) == numBits - Cardinality(map)

(* BitMap::Find, which also marks the bit: the first clear bit, or -1 *)
FindBit(map) ==
  LET free == Bits \ map
  IN IF free = {} THEN -1 ELSE CHOOSE b \in free : \A c \in free : b <= c
MarkFound(map) == IF Bits \subseteq map THEN map ELSE Mark(map, FindBit(map))

(* The results of n calls of Find, and the map after them *)
FindMany(map, n) ==
  LET after[i \in 0..n] == IF i = 0 THEN map ELSE MarkFound(after[i - 1])
  IN [sectors |-> [i \in 1..n |-> FindBit(after[i - 1])],
      map |-> IF n <= 0 THEN map ELSE after[n]]
=============================================================================
