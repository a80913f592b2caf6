----------------------------- MODULE SynchList ------------------------------
(***************************************************************************)
(* The list protected by a lock and a condition (threads/synchlist.cc).    *)
(* A step is the code up to and including the next operation on the lock   *)
(* or the condition.                                                       *)
(***************************************************************************)
EXTENDS SynchSpec, FiniteSets

CONSTANTS
  Appenders, Removers, Mappers,  \* who calls Append, Remove and Mapcar, all of Thread
  MaxItems,                      \* how many items are appended in all
  lock, listEmpty                \* the lock and the condition of the list

VARIABLES
  pc,    \* what each thread does next
  list,  \* the list
  sent,  \* how many items were appended; they are numbered from 1
  got    \* what each thread's latest Remove returned

vars == <<synchVars, pc, list, sent, got>>

(* SynchList::SynchList *)
Init ==
  /\ SynchInit
  /\ pc = [t \in Thread |-> "idle"]
  /\ list = <<>> /\ sent = 0
  /\ got = [t \in Thread |-> None]

Goto(t, from, to) == pc[t] = from /\ pc' = [pc EXCEPT ![t] = to]

(* lock->Acquire() of the three operations *)
Begin(t, op) ==
  /\ Goto(t, "idle", op)
  /\ Acquire(t, lock)
  /\ got' = [got EXCEPT ![t] = None]
  /\ UNCHANGED <<list, sent>>

(* Mutant of AppendItem: only the first item of an empty list is signalled. *)
AppendItemSignalOnce(t) ==
  /\ Goto(t, "append", "release")
  /\ sent' = sent + 1
  /\ list' = Append(list, sent')
  /\ IF list = <<>> THEN Signal(t, listEmpty, lock) ELSE UNCHANGED synchVars
  /\ UNCHANGED got

(* Mutant of AppendItem: no Signal. *)
AppendItemSilent(t) ==
  /\ Goto(t, "append", "release")
  /\ sent' = sent + 1
  /\ list' = Append(list, sent')
  /\ UNCHANGED <<synchVars, got>>

(* list->Append(item) and listEmpty->Signal(lock) *)
AppendItem(t) ==
  /\ Goto(t, "append", "release")
  /\ sent' = sent + 1
  /\ list' = Append(list, sent')
  /\ Signal(t, listEmpty, lock)
  /\ UNCHANGED got

(* A round of the loop of Remove: listEmpty->Wait(lock) *)
WaitForItem(t) ==
  /\ list = <<>>
  /\ Goto(t, "remove", "woken")
  /\ Wait(t, listEmpty, lock)
  /\ UNCHANGED <<list, sent, got>>

(* Mutant of Resume: a woken remover does not test the list again. *)
ResumeUntested(t) ==
  /\ ~Asleep(t, listEmpty)
  /\ Goto(t, "woken", "release")
  /\ Acquire(t, lock)
  /\ got' = [got EXCEPT ![t] = IF list = <<>> THEN 0 ELSE Head(list)]
  /\ list' = IF list = <<>> THEN list ELSE Tail(list)
  /\ UNCHANGED sent

(* The end of Wait, which takes the lock again. *)
Resume(t) ==
  /\ ~Asleep(t, listEmpty)
  /\ Goto(t, "woken", "remove")
  /\ Acquire(t, lock)
  /\ UNCHANGED <<list, sent, got>>

(* item = list->Remove() and lock->Release() *)
RemoveItem(t) ==
  /\ list # <<>>
  /\ Goto(t, "remove", "idle")
  /\ got' = [got EXCEPT ![t] = Head(list)]
  /\ list' = Tail(list)
  /\ Release(t, lock)
  /\ UNCHANGED sent

(* The end of Append, and Mapcar, which only looks at the items and which a
   thread calls once.                                                      *)
End(t) ==
  /\ Goto(t, "release", "idle") \/ Goto(t, "mapcar", "done")
  /\ Release(t, lock)
  /\ UNCHANGED <<list, sent, got>>

Step(t) ==
  \/ t \in Appenders /\ sent < MaxItems /\ Begin(t, "append")
  \/ t \in Removers /\ Begin(t, "remove")
  \/ t \in Mappers /\ Begin(t, "mapcar")
  \/ AppendItem(t) \/ WaitForItem(t) \/ Resume(t) \/ RemoveItem(t) \/ End(t)

Next == \E t \in Thread : Step(t)

Spec == Init /\ [][Next]_vars

(* Every thread that can go on is dispatched again and again. *)
FairSpec == Spec /\ \A t \in Thread : WF_vars(Step(t))

-----------------------------------------------------------------------------
Queue == INSTANCE BlockingQueue WITH Item <- 1..MaxItems, items <- list, got <- got

(* The list is an atomic first-in first-out queue: whatever the interleaving
   of appenders and removers, every item is returned by exactly one Remove,
   in the order of the appends.                                            *)
ImplementsBlockingQueue == Queue!Spec

(* While a remover sleeps, each item on the list has a remover that was woken
   for it or is about to look: an Append never loses its Signal to a remover
   that finds the list emptied by another one (synchlist.cc 76-78).        *)
NoStrandedRemover ==
  queue[listEmpty] # <<>> =>
    Len(list) <= Cardinality({t \in Removers :
                   pc[t] = "remove" \/ (pc[t] = "woken" /\ ~Asleep(t, listEmpty))})

(* An item is not left on the list while a remover waits for one. *)
ItemsAreRemoved == []<>(list = <<>> \/ \A t \in Removers : pc[t] = "idle")
=============================================================================
