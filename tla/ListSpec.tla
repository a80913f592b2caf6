------------------------------ MODULE ListSpec ------------------------------
(***************************************************************************)
(* What a List promises (the comments of threads/list.h): the sequence of  *)
(* the elements put on it, an element being an item and its sort key, with *)
(* the sorted insertion that NachosList defines and the scheduler uses.    *)
(***************************************************************************)
EXTENDS NachosList

CONSTANTS Item, Key  \* the items, the sort keys

VARIABLES
  list,  \* the elements, front first
  got    \* the items handed out by the last operation

vars == <<list, got>>

Element == [item : Item, key : Key]

KeyOf == [e \in Element |-> e.key]

Init == list = <<>> /\ got = <<>>

Put(l) == list' = l /\ got' = <<>>

AppendItem(e) == e.key = 0 /\ Put(Append(list, e))
PrependItem(e) == e.key = 0 /\ Put(<<e>> \o list)
InsertItem(e) == Put(SortedInsert(list, e, KeyOf))

RemoveFirst ==
  /\ list # <<>>
  /\ got' = <<Head(list).item>>
  /\ list' = Tail(list)

RemoveNothing == list = <<>> /\ Put(list)

(* The first occurrence of the item leaves the list. *)
RemoveThis(i) ==
  \E p \in 1..Len(list) :
    /\ list[p].item = i
    /\ \A q \in 1..(p - 1) : list[q].item # i
    /\ Put(SubSeq(list, 1, p - 1) \o SubSeq(list, p + 1, Len(list)))

(* Every item is visited once, in the order of the list. *)
Visit == got' = [p \in 1..Len(list) |-> list[p].item] /\ UNCHANGED list

Clear == Put(<<>>)

Next ==
  \/ \E e \in Element : AppendItem(e) \/ PrependItem(e) \/ InsertItem(e)
  \/ \E i \in Item : RemoveThis(i)
  \/ RemoveFirst \/ RemoveNothing \/ Visit \/ Clear

Spec == Init /\ [][Next]_vars
=============================================================================
