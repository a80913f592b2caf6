----------------------------- MODULE NachosList -----------------------------
(***************************************************************************)
(* The singly linked lists of threads/list.cc, as sequences.  A list is    *)
(* the sequence of its items from "first" to "last"; the sort key of an    *)
(* item is key[item], which the callers never change while the item is on  *)
(* the list.  Append is the operator of Sequences, SortedRemove and Remove *)
(* are Head and Tail.                                                      *)
(***************************************************************************)
EXTENDS Integers, Sequences

(* Position at which List::SortedInsert links the new element: in front of
   the first element whose key is larger, at the end when there is none.   *)
InsertPosition(list, item, key) ==
  LET larger == {i \in 1..Len(list) : key[item] < key[list[i]]}
  IN  IF larger = {} THEN Len(list) + 1
      ELSE CHOOSE i \in larger : \A j \in larger : i <= j

InsertedAt(list, p, item) ==
  [i \in 1..(Len(list) + 1) |->
     IF i < p THEN list[i] ELSE IF i = p THEN item ELSE list[i - 1]]

(* List::SortedInsert(item, sortKey) *)
SortedInsert(list, item, key) ==
  InsertedAt(list, InsertPosition(list, item, key), item)

(* The items of a list. *)
Items(list) == {list[i] : i \in 1..Len(list)}

NoDuplicates(list) ==
  \A i, j \in 1..Len(list) : list[i] = list[j] => i = j
=============================================================================
