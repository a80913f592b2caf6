------------------------------- MODULE Synch --------------------------------
(***************************************************************************)
(* Semaphores, locks and condition variables of threads/synch.cc on top of *)
(* the scheduler of module Threads.  Each routine runs with interrupts off *)
(* from its start to its end or to the Sleep inside it; frame[t] records   *)
(* the routine in which t sleeps, so that it continues there.              *)
(*                                                                         *)
(* Callers are arbitrary threads that keep the rules the routines assert:  *)
(* only the owner of a lock releases it, waits or signals with it.  The    *)
(* devices whose interrupt handlers call V (disk, console, network) are    *)
(* represented by the requests that are still pending, per semaphore.      *)
(***************************************************************************)
EXTENDS Threads

CONSTANTS
  Semaphore, Lock, Condition,  \* the synchronization objects
  initialValue,                \* argument of each Semaphore's constructor
  MaxValue                     \* bound on value plus pending requests

ASSUME SynchAssumption ==
  /\ Semaphore \cap Lock = {}
  /\ Semaphore \cap Condition = {}
  /\ Lock \cap Condition = {}
  /\ None \notin Semaphore \cup Lock \cup Condition
  /\ initialValue \in [Semaphore -> Nat]
  /\ MaxValue \in Nat

VARIABLES
  value,    \* Semaphore::value, of a semaphore or of the one inside a lock
  queue,    \* the list of sleeping threads of a semaphore, lock or condition
  owner,    \* Lock::owner
  frame,    \* the routine of this module in which a thread is
  held,     \* the locks whose Acquire, or Wait, has returned to the thread
  pending   \* device requests whose completion handler will call V

synchVars == <<value, queue, owner, frame, held, pending>>
vars == <<threadVars, synchVars>>

Counted == Semaphore \cup Lock
Waitable == Counted \cup Condition

(* A frame: the routine, the object it sleeps on, and for Wait the lock. *)
NoFrame == [op |-> "none", on |-> None, lock |-> None]
InP(s) == [op |-> "P", on |-> s, lock |-> None]
InAcquire(l) == [op |-> "Acquire", on |-> l, lock |-> None]
InWait(c, l) == [op |-> "Wait", on |-> c, lock |-> l]
InBroadcast(c, l) == [op |-> "Broadcast", on |-> c, lock |-> l]

Frame ==
  {NoFrame} \cup {InP(s) : s \in Semaphore} \cup {InAcquire(l) : l \in Lock}
    \cup {InWait(c, l) : c \in Condition, l \in Lock}
    \cup {InBroadcast(c, l) : c \in Condition, l \in Lock}

SynchInit ==
  /\ value = [s \in Counted |-> IF s \in Lock THEN 1 ELSE initialValue[s]]
  /\ queue = [o \in Waitable |-> <<>>]
  /\ owner = [l \in Lock |-> None]
  /\ frame = [t \in Thread |-> NoFrame]
  /\ held = [t \in Thread |-> {}]
  /\ pending = [s \in Semaphore |-> 0]

Init == ThreadsInit /\ SynchInit

-----------------------------------------------------------------------------
(* Put the current thread on the queue of o and call Sleep; st, rl and q
   are what the routine has made of status, readyList and queue so far.    *)
SleepOn(o, fr, st, rl, q) ==
  /\ queue' = [q EXCEPT ![o] = Append(@, currentThread)]
  /\ frame' = [frame EXCEPT ![currentThread] = fr]
  /\ status' = [st EXCEPT ![currentThread] = "BLOCKED"]
  /\ pc' = [pc EXCEPT ![currentThread] = "Sleep"]
  /\ readyList' = rl
  /\ level' = "IntOff"

(* Return to the caller with interrupts on again. *)
Return ==
  /\ frame' = [frame EXCEPT ![currentThread] = NoFrame]
  /\ pc' = [pc EXCEPT ![currentThread] = "func"]
  /\ level' = "IntOn"

(* The loop of Semaphore::P, entered by a call or after Sleep returns. *)
TryP(s, fr) ==
  \/ /\ value[s] = 0
     /\ SleepOn(s, fr, status, readyList, queue)
     /\ UNCHANGED value
  \/ /\ value[s] > 0
     /\ value' = [value EXCEPT ![s] = @ - 1]
     /\ Return
     /\ UNCHANGED <<queue, status, readyList>>

(* What no routine of this module changes. *)
Untouched == UNCHANGED <<priority, threadId, threadIds, currentThread,
                         threadToBeDestroyed>>

(* Semaphore::P *)
P(s) ==
  /\ InFunc
  /\ TryP(s, InP(s))
  /\ Untouched /\ UNCHANGED <<owner, held, pending, mode>>

(* Mutant of PContinue: P tests the value once, "if" in place of "while". *)
PContinueOnce ==
  /\ Resumed
  /\ \E s \in Semaphore :
       /\ frame[currentThread] = InP(s)
       /\ value' = [value EXCEPT ![s] = @ - 1]
       /\ Return
  /\ Untouched /\ UNCHANGED <<status, readyList, queue, owner, held, pending, mode>>

(* Semaphore::P after Sleep. *)
PContinue ==
  /\ Resumed
  /\ \E s \in Semaphore : frame[currentThread] = InP(s) /\ TryP(s, InP(s))
  /\ Untouched /\ UNCHANGED <<owner, held, pending, mode>>

(* Mutant of QueueAfterWake: the woken thread stays on the queue. *)
QueueAfterWakeKept(o) == queue

(* The effect of queue->Remove() and ReadyToRun on the head of o's queue. *)
StatusAfterWake(o) ==
  IF queue[o] = <<>> THEN status ELSE [status EXCEPT ![Head(queue[o])] = "READY"]
ReadyAfterWake(o) ==
  IF queue[o] = <<>> THEN readyList ELSE ReadyToRun(readyList, Head(queue[o]))
QueueAfterWake(o) ==
  IF queue[o] = <<>> THEN queue ELSE [queue EXCEPT ![o] = Tail(@)]

WakeOne(o) ==
  /\ status' = StatusAfterWake(o)
  /\ readyList' = ReadyAfterWake(o)
  /\ queue' = QueueAfterWake(o)

(* Mutant of DoV: a waiter is woken only when the value was zero. *)
DoVFirstOnly(s) ==
  /\ value' = [value EXCEPT ![s] = @ + 1]
  /\ IF value[s] = 0 THEN WakeOne(s) ELSE UNCHANGED <<status, readyList, queue>>

(* The body of Semaphore::V. *)
DoV(s) ==
  /\ WakeOne(s)
  /\ value' = [value EXCEPT ![s] = @ + 1]

(* Semaphore::V, called by a thread. *)
V(s) ==
  /\ InFunc
  /\ value[s] + pending[s] < MaxValue
  /\ DoV(s)
  /\ Untouched /\ UNCHANGED <<owner, frame, held, pending, pc, level, mode>>

-----------------------------------------------------------------------------
(* The loop of P inside Lock::Acquire, then "owner = currentThread". *)
TryAcquire(l) ==
  /\ TryP(l, InAcquire(l))
  /\ IF value[l] = 0
       THEN UNCHANGED <<owner, held>>
       ELSE /\ owner' = [owner EXCEPT ![l] = currentThread]
            /\ held' = [held EXCEPT ![currentThread] = @ \cup {l}]

(* Lock::Acquire *)
Acquire(l) ==
  /\ InFunc
  /\ TryAcquire(l)
  /\ Untouched /\ UNCHANGED <<pending, mode>>

(* Mutant of AcquireContinue: the woken thread takes the lock unchecked. *)
AcquireContinueUnchecked ==
  /\ Resumed
  /\ \E l \in Lock :
       /\ \/ frame[currentThread] = InAcquire(l)
          \/ \E c \in Condition : frame[currentThread] = InWait(c, l)
       /\ value' = [value EXCEPT ![l] = 0]
       /\ owner' = [owner EXCEPT ![l] = currentThread]
       /\ held' = [held EXCEPT ![currentThread] = @ \cup {l}]
       /\ Return
  /\ Untouched /\ UNCHANGED <<status, readyList, queue, pending, mode>>

(* Lock::Acquire after Sleep: called directly, or as the end of Wait, which
   re-acquires the lock once the sleep on the condition is over.           *)
AcquireContinue ==
  /\ Resumed
  /\ \E l \in Lock :
       /\ \/ frame[currentThread] = InAcquire(l)
          \/ \E c \in Condition : frame[currentThread] = InWait(c, l)
       /\ TryAcquire(l)
  /\ Untouched /\ UNCHANGED <<pending, mode>>

(* ASSERT(isHeldByCurrentThread()); the callers hold the lock. *)
AssertHeld(l) ==
  mode' = IF owner[l] = currentThread THEN mode ELSE "Aborted"

(* Lock::Release *)
Release(l) ==
  /\ InFunc
  /\ l \in held[currentThread]
  /\ AssertHeld(l)
  /\ DoV(l)
  /\ owner' = [owner EXCEPT ![l] = None]
  /\ held' = [held EXCEPT ![currentThread] = @ \ {l}]
  /\ Untouched /\ UNCHANGED <<frame, pending, pc, level>>

(* Condition::Wait: Release, queue->Append and Sleep without a gap. *)
Wait(c, l) ==
  /\ InFunc
  /\ l \in held[currentThread]
  /\ AssertHeld(l)
  /\ value' = [value EXCEPT ![l] = @ + 1]
  /\ owner' = [owner EXCEPT ![l] = None]
  /\ held' = [held EXCEPT ![currentThread] = @ \ {l}]
  /\ SleepOn(c, InWait(c, l), StatusAfterWake(l), ReadyAfterWake(l),
             QueueAfterWake(l))
  /\ Untouched /\ UNCHANGED pending

(* Condition::Signal *)
Signal(c, l) ==
  /\ InFunc
  /\ l \in held[currentThread]
  /\ AssertHeld(l)
  /\ WakeOne(c)
  /\ Untouched /\ UNCHANGED <<value, owner, frame, held, pending, pc, level>>

(* Condition::Broadcast: a loop of Signal with interrupts off throughout. *)
Broadcast(c, l) ==
  /\ InFunc
  /\ l \in held[currentThread]
  /\ AssertHeld(l)
  /\ frame' = [frame EXCEPT ![currentThread] = InBroadcast(c, l)]
  /\ level' = "IntOff"
  /\ Untouched
  /\ UNCHANGED <<status, pc, readyList, value, queue, owner, held, pending>>

BroadcastContinue ==
  /\ Resumed
  /\ \E c \in Condition, l \in Lock :
       /\ frame[currentThread] = InBroadcast(c, l)
       /\ \/ /\ queue[c] # <<>>
             /\ AssertHeld(l)
             /\ WakeOne(c)
             /\ UNCHANGED <<frame, pc, level>>
          \/ /\ queue[c] = <<>>
             /\ Return
             /\ UNCHANGED <<status, readyList, queue, mode>>
  /\ Untouched /\ UNCHANGED <<value, owner, held, pending>>

-----------------------------------------------------------------------------
(* A thread starts a device request whose handler will call V on s. *)
StartRequest(s) ==
  /\ InFunc
  /\ value[s] + pending[s] < MaxValue
  /\ pending' = [pending EXCEPT ![s] = @ + 1]
  /\ UNCHANGED <<threadVars, value, queue, owner, frame, held>>

(* CheckIfDue runs a completion handler: from OneTick when interrupts are
   enabled, or from Idle when Sleep has found no ready thread; Idle goes on
   with every other interrupt that is due before Sleep looks again.        *)
DeviceInterrupt(s) ==
  /\ pending[s] > 0
  /\ InFunc \/ (Sleeping /\ (readyList = <<>> \/ mode = "IdleMode"))
  /\ pending' = [pending EXCEPT ![s] = @ - 1]
  /\ DoV(s)
  /\ mode' = IF level = "IntOff" THEN "IdleMode" ELSE mode
  /\ Untouched /\ UNCHANGED <<owner, frame, held, pc, level>>

(* A thread does not finish inside a critical section. *)
FinishFree == Finish /\ held[currentThread] = {}

(* Idle halts Nachos only when no device request is pending. *)
HaltIdle == Halt /\ \A s \in Semaphore : pending[s] = 0

Next ==
  \/ /\ \/ \E t \in Thread, pri \in Pri : NewThread(t, pri)
        \/ \E t \in Thread : Fork(t)
        \/ Yield \/ Resume \/ FinishFree \/ Dispatch \/ HaltIdle \/ Stopped
     /\ UNCHANGED synchVars
  \/ \E s \in Semaphore : P(s) \/ V(s) \/ StartRequest(s) \/ DeviceInterrupt(s)
  \/ \E l \in Lock : Acquire(l) \/ Release(l)
  \/ \E c \in Condition, l \in Lock : Wait(c, l) \/ Signal(c, l) \/ Broadcast(c, l)
  \/ PContinue \/ AcquireContinue \/ BroadcastContinue

Spec == Init /\ [][Next]_vars

-----------------------------------------------------------------------------
(* Every variable has its type; semaphore values are never negative
   (synch.h 24-30).                                                        *)
TypeOK ==
  /\ ThreadsTypeOK
  /\ value \in [Counted -> Nat]
  /\ queue \in [Waitable -> Seq(Thread)]
  /\ owner \in [Lock -> Thread \cup {None}]
  /\ frame \in [Thread -> Frame]
  /\ held \in [Thread -> SUBSET Lock]
  /\ pending \in [Semaphore -> Nat]

(* No thread is lost or queued twice: a thread is on the queue of an object
   exactly when it is BLOCKED in a routine that sleeps on that object, so
   every BLOCKED thread that has not finished can be found by a V, a
   Release, a Signal or a Broadcast.                                       *)
QueuesExact ==
  /\ \A o \in Waitable : NoDuplicates(queue[o])
  /\ \A o \in Waitable, t \in Thread :
       t \in Items(queue[o]) <=> status[t] = "BLOCKED" /\ frame[t].on = o
  /\ \A t \in Thread :
       status[t] = "BLOCKED" =>
         \/ pc[t] = "Finish" /\ frame[t] = NoFrame
         \/ pc[t] = "Sleep" /\ frame[t].op \in {"P", "Acquire", "Wait"}

(* Interrupts stay off inside every routine: a thread is inside one only
   while it sleeps there, or while it runs Broadcast and holds the lock;
   once interrupts are on again the current thread is in its own code.  When
   Nachos has halted nobody was left to run.                               *)
FrameInv ==
  /\ level = "IntOn" => frame[currentThread] = NoFrame
  /\ \A t \in Thread : pc[t] = "Sleep" <=> frame[t].op \in {"P", "Acquire", "Wait"}
  /\ \A t \in Thread : frame[t].op = "Broadcast" =>
       /\ t = currentThread /\ status[t] = "RUNNING" /\ pc[t] = "func"
       /\ frame[t].lock \in held[t]
  /\ mode = "Halted" => readyList = <<>> /\ status[currentThread] # "RUNNING"

(* Two threads never hold the same lock, and the ASSERTs of Release, Wait
   and Signal never fail for a caller that holds the lock.                 *)
MutualExclusion ==
  /\ \A t, u \in Thread : t # u => held[t] \cap held[u] = {}
  /\ \A t \in Thread : \A l \in held[t] : owner[l] = t
  /\ \A l \in Lock : value[l] = IF owner[l] = None THEN 1 ELSE 0

(* Threads woken from the queue of s that have not yet looked at its value. *)
WokenOn(s) == {t \in Thread : frame[t].on = s /\ status[t] # "BLOCKED"}

(* No lost wakeup: while threads still sleep on a semaphore or lock, each
   unit of its value is matched by a thread that was already woken for it. *)
NoLostWakeup ==
  \A s \in Counted : queue[s] # <<>> => value[s] <= Cardinality(WokenOn(s))

(* Nachos never idles to a halt while a thread sleeps on a semaphore or lock
   that it could take ("Assuming the program completed", interrupt.cc 235). *)
HaltLeavesNothingToTake ==
  mode = "Halted" => \A s \in Counted : queue[s] # <<>> => value[s] = 0

(* What synch.cc 94 says of V: making a waiter ready consumes the V
   immediately, so the waiter finds the semaphore available.               *)
WokenFindsValue ==
  \A s \in Semaphore :
    Resumed /\ frame[currentThread] = InP(s) => value[s] > 0

-----------------------------------------------------------------------------
(* The routines implement the operations of SynchSpec.  A sleep, a wakeup and
   a failed attempt to take something are stutters; a step that takes, gives
   back, waits or signals is the atomic operation.                         *)
Abstract == INSTANCE SynchSpec WITH
  value <- [s \in Semaphore |-> value[s]],
  owner <- owner,
  queue <- [c \in Condition |-> queue[c]]

(* Whatever interleaving of sleeping, waking, interrupts and barging threads
   happens inside P, V, Acquire, Release, Wait, Signal and Broadcast of
   synch.cc, their callers see atomic operations.                          *)
ImplementsSynchSpec == Abstract!SynchAtomic
=============================================================================
