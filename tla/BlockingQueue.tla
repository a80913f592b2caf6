--------------------------- MODULE BlockingQueue ----------------------------
(***************************************************************************)
(* What threads/synchlist.cc promises: a queue whose operations are atomic *)
(* and first in first out, with a Remove that waits for an item.           *)
(***************************************************************************)
EXTENDS Sequences

CONSTANTS Thread, Item, None

VARIABLES
  items,  \* what is on the queue
  got     \* what each thread's latest Remove returned, None during a Remove

Init ==
  /\ items = <<>>
  /\ got = [t \in Thread |-> None]

Put(x) == items' = Append(items, x) /\ UNCHANGED got

Get(t) ==
  /\ got[t] = None
  /\ items # <<>>
  /\ got' = [got EXCEPT ![t] = Head(items)]
  /\ items' = Tail(items)

Ask(t) == got' = [got EXCEPT ![t] = None] /\ UNCHANGED items

Next ==
  \/ \E x \in Item : Put(x)
  \/ \E t \in Thread : Get(t) \/ Ask(t)

Spec == Init /\ [][Next]_<<items, got>>
=============================================================================
