---------------------------- MODULE PointerList -----------------------------
(***************************************************************************)
(* The singly linked list of threads/list.cc with its pointers and its     *)
(* heap cells.  An operation is one step: the callers run it with the      *)
(* interrupts off or under a lock.  A cell that has been deleted keeps its *)
(* contents until new hands it out again.                                  *)
(***************************************************************************)
EXTENDS Integers, Sequences, FiniteSets

CONSTANTS
  Item,   \* the things on the list; never the null pointer
  Key,    \* the sort keys, integers, 0 among them
  Cell,   \* heap cells for the ListElements; bounds the length of the list
  NULL

VARIABLES
  cell,       \* contents of the cells: [item, key, next]
  allocated,  \* the cells that new has handed out and delete has not taken back
  first, last, numInList,
  got         \* the items handed out by the last operation

vars == <<cell, allocated, first, last, numInList, got>>

ListElement(item, key, next) == [item |-> item, key |-> key, next |-> next]

IsEmpty == first = NULL

(* The cells that the loop of Mapcar meets, "p = first; p != NULL; p = p->next" *)
Chain ==
  LET ptr[k \in 0..Cardinality(Cell)] ==
        IF k = 0 THEN first
        ELSE IF ptr[k - 1] = NULL THEN NULL ELSE cell[ptr[k - 1]].next
      met == {k \in DOMAIN ptr : ptr[k] # NULL}
  IN  [k \in 1..Cardinality(met) |-> ptr[k - 1]]

Init ==
  /\ \E i \in Item : cell = [c \in Cell |-> ListElement(i, 0, NULL)]
  /\ allocated = {}
  /\ first = NULL /\ last = NULL /\ numInList = 0
  /\ got = <<>>

----------------------------------------------------------------------------
(* The insertions.  "new ListElement" takes any cell that is not allocated. *)
New(c) ==
  /\ c \notin allocated
  /\ allocated' = allocated \cup {c}
  /\ numInList' = numInList + 1
  /\ got' = <<>>

Alone(c, item, key) ==
  /\ IsEmpty
  /\ cell' = [cell EXCEPT ![c] = ListElement(item, key, NULL)]
  /\ first' = c /\ last' = c

InFront(c, item, key) ==
  /\ cell' = [cell EXCEPT ![c] = ListElement(item, key, first)]
  /\ first' = c
  /\ UNCHANGED last

AtEnd(c, item, key) ==
  /\ cell' = [cell EXCEPT ![c] = ListElement(item, key, NULL), ![last].next = c]
  /\ last' = c
  /\ UNCHANGED first

After(p, c, item, key) ==
  /\ cell' = [cell EXCEPT ![c] = ListElement(item, key, cell[p].next), ![p].next = c]
  /\ UNCHANGED <<first, last>>

AppendItem(c, item) ==
  /\ New(c)
  /\ Alone(c, item, 0) \/ (~IsEmpty /\ AtEnd(c, item, 0))

Prepend(c, item) ==
  /\ New(c)
  /\ Alone(c, item, 0) \/ (~IsEmpty /\ InFront(c, item, 0))

(* The test that ends the walk of SortedInsert at the element ptr *)
GoesAfterNotLarger(ptr, key) ==
  cell[ptr].next # NULL /\ key <= cell[cell[ptr].next].key

GoesAfter(ptr, key) ==
  cell[ptr].next # NULL /\ key < cell[cell[ptr].next].key

SortedInsert(c, item, key) ==
  /\ New(c)
  /\ \/ Alone(c, item, key)
     \/ ~IsEmpty /\ key < cell[first].key /\ InFront(c, item, key)
     \/ /\ ~IsEmpty /\ key >= cell[first].key
        /\ LET stops == {k \in 1..Len(Chain) : GoesAfter(Chain[k], key)}
           IN  \/ stops = {} /\ AtEnd(c, item, key)
               \/ \E k \in stops :
                    /\ \A j \in stops : k <= j
                    /\ After(Chain[k], c, item, key)

----------------------------------------------------------------------------
(* The removals. *)
Delete(c) ==
  /\ allocated' = allocated \ {c}
  /\ numInList' = numInList - 1

SortedRemove ==
  \/ /\ IsEmpty
     /\ got' = <<>>
     /\ UNCHANGED <<cell, allocated, first, last, numInList>>
  \/ /\ ~IsEmpty
     /\ got' = <<cell[first].item>>
     /\ IF first = last THEN first' = NULL /\ last' = NULL
        ELSE first' = cell[first].next /\ UNCHANGED last
     /\ Delete(first)
     /\ UNCHANGED cell

(* The search loop of Remove(item) has found the item behind prev. *)
UnlinkKeepsLast(prev, ptr) ==
  /\ cell' = [cell EXCEPT ![prev].next = cell[ptr].next]
  /\ UNCHANGED last

Unlink(prev, ptr) ==
  /\ cell' = [cell EXCEPT ![prev].next = cell[ptr].next]
  /\ last' = IF cell[ptr].next = NULL THEN prev ELSE last

(* The callers only remove an item that is on the list: the routine follows
   first without a test and asserts that it finds the item.                *)
RemoveItem(item) ==
  /\ got' = <<>>
  /\ \E k \in 1..Len(Chain) :
       /\ cell[Chain[k]].item = item
       /\ \A j \in 1..(k - 1) : cell[Chain[j]].item # item
       /\ Delete(Chain[k])
       /\ IF k = 1
          THEN /\ IF first = last THEN first' = NULL /\ last' = NULL
                  ELSE first' = cell[first].next /\ UNCHANGED last
               /\ UNCHANGED cell
          ELSE Unlink(Chain[k - 1], Chain[k]) /\ UNCHANGED first

Mapcar ==
  /\ got' = [k \in 1..Len(Chain) |-> cell[Chain[k]].item]
  /\ UNCHANGED <<cell, allocated, first, last, numInList>>

(* ~List removes from the front until there is nothing left; the next list
   is built in the same place.                                             *)
DestroyAndRenew ==
  /\ allocated' = allocated \ {Chain[k] : k \in 1..Len(Chain)}
  /\ first' = NULL /\ last' = NULL /\ numInList' = 0
  /\ got' = <<>>
  /\ UNCHANGED cell

Next ==
  \/ \E c \in Cell, i \in Item :
       \/ AppendItem(c, i)
       \/ Prepend(c, i)
       \/ \E k \in Key : SortedInsert(c, i, k)
  \/ \E i \in Item : RemoveItem(i)
  \/ SortedRemove \/ Mapcar \/ DestroyAndRenew

Spec == Init /\ [][Next]_vars

----------------------------------------------------------------------------
(* The links agree with each other after every operation: the walk from
   first ends at last, it meets exactly the cells that are allocated, so
   that none is lost and none is used after delete, it meets none twice,
   and numInList is their number.                                          *)
WellLinked ==
  /\ {Chain[k] : k \in 1..Len(Chain)} = allocated
  /\ Len(Chain) = Cardinality(allocated)
  /\ numInList = Len(Chain)
  /\ IF IsEmpty THEN last = NULL
     ELSE last = Chain[Len(Chain)] /\ cell[last].next = NULL

Abstract == INSTANCE ListSpec WITH
  list <- [k \in 1..Len(Chain) |->
             [item |-> cell[Chain[k]].item, key |-> cell[Chain[k]].key]],
  got <- got

(* The operations of list.cc on cells and pointers do to the sequence of
   elements what the scheduler, the semaphores and the interrupt queue
   expect of them: first in first out for Append, stable increasing order
   for SortedInsert.                                                       *)
ImplementsListSpec == Abstract!Spec
=============================================================================
