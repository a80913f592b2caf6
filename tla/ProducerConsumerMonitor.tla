---------------------- MODULE ProducerConsumerMonitor -----------------------
(***************************************************************************)
(* Producers and consumers with a lock and two conditions                  *)
(* (threads/threadtest.cc, lab 3): Producer1, Customer1 and                *)
(* ThreadProducerConsumerTest1.  A step is the code up to and including    *)
(* the next operation on the lock or a condition.                          *)
(***************************************************************************)
EXTENDS SynchSpec, FiniteSets

CONSTANTS
  Producers, Customers,  \* the threads that run Producer1 and Customer1, all of Thread
  N,                     \* size of the buffer
  pcLock, condc, condp   \* the lock and the conditions of the two sides

VARIABLES
  pc,        \* what each thread does next
  shareNum   \* how many items are in the buffer

vars == <<synchVars, pc, shareNum>>

Init ==
  /\ SynchInit
  /\ pc = [t \in Thread |-> "acquire"]
  /\ shareNum = 0

Goto(t, from, to) == pc[t] = from /\ pc' = [pc EXCEPT ![t] = to]

(* The condition a thread waits on, and the one it signals. *)
Own(t) == IF t \in Producers THEN condp ELSE condc
Other(t) == IF t \in Producers THEN condc ELSE condp

(* The loop condition of the thread's while. *)
Blocked(t) == IF t \in Producers THEN shareNum >= N ELSE shareNum <= 0

(* pcLock->Acquire() *)
AcquireLock(t) ==
  /\ Goto(t, "acquire", "test")
  /\ Acquire(t, pcLock)
  /\ UNCHANGED shareNum

(* Mutant of WaitForOther: the thread tests in a loop with the lock held. *)
WaitHoldingLock(t) == Blocked(t) /\ pc[t] = "test" /\ UNCHANGED vars

(* A round of the while loop: condp->Wait(pcLock) or condc->Wait(pcLock) *)
WaitForOther(t) ==
  /\ Blocked(t)
  /\ Goto(t, "test", "woken")
  /\ Wait(t, Own(t), pcLock)
  /\ UNCHANGED shareNum

(* The end of Wait, which takes the lock again. *)
Resume(t) ==
  /\ ~Asleep(t, Own(t))
  /\ Goto(t, "woken", "test")
  /\ Acquire(t, pcLock)
  /\ UNCHANGED shareNum

(* Mutant of Change: signal only on the first item or the first free place. *)
ChangeSignalOnEdge(t) ==
  /\ ~Blocked(t)
  /\ Goto(t, "test", "release")
  /\ shareNum' = IF t \in Producers THEN shareNum + 1 ELSE shareNum - 1
  /\ IF shareNum = (IF t \in Producers THEN 0 ELSE N)
     THEN Signal(t, Other(t), pcLock)
     ELSE UNCHANGED synchVars

(* The change of the buffer and the Signal to the other side. *)
Change(t) ==
  /\ ~Blocked(t)
  /\ Goto(t, "test", "release")
  /\ shareNum' = IF t \in Producers THEN shareNum + 1 ELSE shareNum - 1
  /\ Signal(t, Other(t), pcLock)

(* pcLock->Release() *)
ReleaseLock(t) ==
  /\ Goto(t, "release", "acquire")
  /\ Release(t, pcLock)
  /\ UNCHANGED shareNum

Step(t) ==
  AcquireLock(t) \/ WaitForOther(t) \/ Resume(t) \/ Change(t) \/ ReleaseLock(t)

Next == \E t \in Thread : Step(t)

Spec == Init /\ [][Next]_vars

(* Every thread that can go on is dispatched again and again. *)
FairSpec == Spec /\ \A t \in Thread : WF_vars(Step(t))

-----------------------------------------------------------------------------
(* Threads of T that were signalled and have yet to test again. *)
Woken(T) == {t \in T : pc[t] = "woken" /\ ~Asleep(t, Own(t))}

(* One Signal per change is enough although woken threads compete with
   newcomers: while a consumer sleeps, every item has a signalled consumer
   on its way or a consumer that is about to look, and likewise for the free
   places and the producers.                                               *)
NoStrandedWaiter ==
  /\ queue[condc] # <<>> =>
       shareNum <= Cardinality(Woken(Customers) \cup
                     {t \in Customers : owner[pcLock] = t /\ pc[t] = "test"})
  /\ queue[condp] # <<>> =>
       N - shareNum <= Cardinality(Woken(Producers) \cup
                     {t \in Producers : owner[pcLock] = t /\ pc[t] = "test"})

(* Items are produced and consumed for ever: no order of signals and newcomers
   leaves both sides asleep.                                               *)
Progress ==
  /\ []<><<\E t \in Producers : Change(t)>>_vars
  /\ []<><<\E t \in Customers : Change(t)>>_vars
=============================================================================
