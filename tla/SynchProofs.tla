---------------------------- MODULE SynchProofs -----------------------------
(***************************************************************************)
(* The invariants of module Synch hold for every set of threads,           *)
(* semaphores, locks and condition variables. The steps of module Threads, *)
(* sleeping and waking keep them by the lemmas of SynchSemaphoreProofs;    *)
(* here are V, Wait, which is a V of the lock and a sleep on the           *)
(* condition, the remaining routines of synch.cc, each made of those       *)
(* steps, and the theorems.                                                *)
(***************************************************************************)
EXTENDS SynchSemaphoreProofs

(* A leaf that names no prover is for SMT, twice, and then for Zenon. *)
USE SMTT(10), Z3T(20), Zenon

(* V on a semaphore, called by a thread or a handler, and V inside Release. *)
LEMMA VKeepsInv ==
  ASSUME SynchInv, NEW o \in Counted, DoV(o),
         Untouched, UNCHANGED <<frame, pc, level>>,
         mode \in {"SystemMode", "IdleMode"}, mode' \in {"SystemMode", "IdleMode"},
         \/ status[currentThread] = "RUNNING" /\ pc[currentThread] = "func"
         \/ status[currentThread] # "RUNNING" /\ level = "IntOff",
         pending' \in [Semaphore -> Nat],
         \/ o \in Semaphore /\ UNCHANGED <<owner, held>>
         \/ /\ o \in Lock /\ o \in held[currentThread] /\ level = "IntOn"
            /\ owner' = [owner EXCEPT ![o] = None]
            /\ held' = [held EXCEPT ![currentThread] = @ \ {o}]
  PROVE  SynchInv'
<1> USE DEF SynchInv
<1>1. o \in Waitable /\ WakeOne(o)
  BY DEF DoV, Waitable
<1>2. /\ ThreadsInv'
      /\ queue' \in [Waitable -> Seq(Thread)]
      /\ QueuesExact'
      /\ FrameInv'
      /\ \A s \in Waitable : s # o => queue'[s] = queue[s] /\ WokenOn(s)' = WokenOn(s)
      /\ queue[o] = <<>> => queue' = queue /\ WokenOn(o)' = WokenOn(o)
      /\ queue[o] # <<>> =>
           \E h \in Thread : h \notin WokenOn(o) /\ WokenOn(o)' = WokenOn(o) \cup {h}
  BY <1>1, WakeKeeps, InFuncFrames
<1>3. /\ currentThread \in Thread
      /\ value \in [Counted -> Nat] /\ frame \in [Thread -> Frame]
      /\ owner \in [Lock -> Thread \cup {None}] /\ held \in [Thread -> SUBSET Lock]
  BY DEF TypeOK, ThreadsInv, ThreadsTypeOK
<1>4. /\ value' \in [Counted -> Nat] /\ value'[o] = value[o] + 1
      /\ \A s \in Counted : s # o => value'[s] = value[s]
  BY <1>3 DEF DoV
<1>5. TypeOK'
  <2>1. owner' \in [Lock -> Thread \cup {None}] /\ held' \in [Thread -> SUBSET Lock]
    BY <1>3
  <2>2. QED
    BY <1>2, <1>3, <1>4, <2>1 DEF TypeOK, ThreadsInv
<1>6. MutualExclusion'
  <2>1. CASE o \in Semaphore /\ UNCHANGED <<owner, held>>
    <3>1. \A l \in Lock : value'[l] = value[l]
      BY <2>1, <1>4, SynchAssumption DEF Counted
    <3>2. QED
      BY <2>1, <3>1 DEF MutualExclusion
  <2>2. CASE /\ o \in Lock /\ o \in held[currentThread]
             /\ owner' = [owner EXCEPT ![o] = None]
             /\ held' = [held EXCEPT ![currentThread] = @ \ {o}]
    <3>1. owner[o] = currentThread /\ value[o] = 0
      BY <2>2, <1>3, ThreadsAssumption DEF MutualExclusion
    <3>2. \A t \in Thread : o \notin held'[t] /\ held'[t] \subseteq held[t]
      BY <2>2, <1>3, <3>1 DEF MutualExclusion
    <3>3. \A t \in Thread : \A l \in held'[t] : owner'[l] = t
      BY <2>2, <1>3, <3>2 DEF MutualExclusion
    <3>4. \A t, u \in Thread : t # u => held'[t] \cap held'[u] = {}
      BY <3>3
    <3>5. \A l \in Lock : value'[l] = IF owner'[l] = None THEN 1 ELSE 0
      <4> SUFFICES ASSUME NEW l \in Lock
                   PROVE  value'[l] = IF owner'[l] = None THEN 1 ELSE 0
        OBVIOUS
      <4>1. CASE l = o
        BY <4>1, <2>2, <1>3, <1>4, <3>1
      <4>2. CASE l # o
        BY <4>2, <2>2, <1>3, <1>4 DEF MutualExclusion, Counted
      <4>3. QED
        BY <4>1, <4>2
    <3>6. QED
      BY <3>3, <3>4, <3>5 DEF MutualExclusion
  <2>3. QED
    BY <2>1, <2>2
<1>7. NoLostWakeup'
  <2> SUFFICES ASSUME NEW s \in Counted, queue'[s] # <<>>
               PROVE  value'[s] <= Cardinality(WokenOn(s)')
    BY DEF NoLostWakeup
  <2>1. CASE s # o
    BY <2>1, <1>2, <1>4 DEF NoLostWakeup, Waitable
  <2>2. CASE s = o
    <3>1. queue[o] # <<>>
      BY <2>2, <1>2
    <3>2. PICK h \in Thread : h \notin WokenOn(o) /\ WokenOn(o)' = WokenOn(o) \cup {h}
      BY <1>2, <3>1
    <3>3. IsFiniteSet(WokenOn(o)) /\ Cardinality(WokenOn(o)) \in Nat
      BY ThreadsAssumption, FS_Subset, FS_CardinalityType DEF WokenOn
    <3>4. Cardinality(WokenOn(o) \cup {h}) = Cardinality(WokenOn(o)) + 1
      BY <3>2, <3>3, FS_AddElement, Zenon
    <3>5. value[o] <= Cardinality(WokenOn(o)) /\ value[o] \in Nat
      BY <3>1, <1>3 DEF NoLostWakeup
    <3>6. QED
      BY <2>2, <3>2, <3>3, <3>4, <3>5, <1>4
  <2>3. QED
    BY <2>1, <2>2
<1>8. QED
  BY <1>2, <1>5, <1>6, <1>7

(* What V, Signal and Wait do when they wake a sleeper of o, in terms of the
   set W of woken threads, which is empty or a single sleeper.             *)
Wakes(o, W) ==
  /\ queue[o] = <<>> => W = {}
  /\ queue[o] # <<>> => \E h \in Thread : W = {h}
  /\ \A t \in W : /\ status[t] = "BLOCKED" /\ pc[t] = "Sleep"
                  /\ frame[t].on = o
  /\ StatusAfterWake(o) \in [Thread -> ThreadStatus]
  /\ \A t \in Thread : StatusAfterWake(o)[t] = IF t \in W THEN "READY" ELSE status[t]
  /\ ReadyAfterWake(o) \in Seq(Thread)
  /\ Items(ReadyAfterWake(o)) = Items(readyList) \cup W
  /\ NoDuplicates(ReadyAfterWake(o))
  /\ SCHED_PRIORITY => Ordered(ReadyAfterWake(o))
  /\ QueueAfterWake(o) \in [Waitable -> Seq(Thread)]
  /\ NoDuplicates(QueueAfterWake(o)[o])
  /\ Items(QueueAfterWake(o)[o]) = Items(queue[o]) \ W
  /\ \A q \in Waitable : q # o => QueueAfterWake(o)[q] = queue[q]
  /\ queue[o] = <<>> => QueueAfterWake(o)[o] = <<>>

(* Such a set exists. *)
LEMMA WokenSet ==
  ASSUME SynchInv, NEW o \in Waitable
  PROVE  \E W \in SUBSET Thread : Wakes(o, W)
<1>1. /\ status \in [Thread -> ThreadStatus]
      /\ queue \in [Waitable -> Seq(Thread)]
      /\ readyList \in Seq(Thread) /\ NoDuplicates(readyList)
      /\ SCHED_PRIORITY => Ordered(readyList)
      /\ NoDuplicates(queue[o])
  BY DEF SynchInv, ThreadsInv, TypeOK, ThreadsTypeOK, SchedulerInv, ReadyListSorted,
         Ordered, QueuesExact
<1>2. CASE queue[o] = <<>>
  <2>1. /\ StatusAfterWake(o) = status
        /\ ReadyAfterWake(o) = readyList
        /\ QueueAfterWake(o) = queue
    BY <1>2, WakeEffect
  <2>2. Wakes(o, {})
    BY <1>1, <1>2, <2>1 DEF Wakes
  <2>3. QED
    BY <2>2
<1>3. CASE queue[o] # <<>>
  <2>1. PICK h \in Thread :
          /\ status[h] = "BLOCKED" /\ pc[h] = "Sleep"
          /\ frame[h].on = o /\ frame[h].op \in {"P", "Acquire", "Wait"}
          /\ StatusAfterWake(o) = [status EXCEPT ![h] = "READY"]
          /\ ReadyAfterWake(o) \in Seq(Thread)
          /\ Items(ReadyAfterWake(o)) = Items(readyList) \cup {h}
          /\ NoDuplicates(ReadyAfterWake(o))
          /\ SCHED_PRIORITY => Ordered(ReadyAfterWake(o))
          /\ \E tl \in Seq(Thread) :
               /\ QueueAfterWake(o) = [queue EXCEPT ![o] = tl]
               /\ NoDuplicates(tl)
               /\ Items(tl) = Items(queue[o]) \ {h}
    BY <1>3, WakeEffect, Zenon
  <2>2. PICK tl \in Seq(Thread) :
          /\ QueueAfterWake(o) = [queue EXCEPT ![o] = tl]
          /\ NoDuplicates(tl)
          /\ Items(tl) = Items(queue[o]) \ {h}
    BY <2>1, Zenon
  <2>3. /\ StatusAfterWake(o) \in [Thread -> ThreadStatus]
        /\ \A t \in Thread : StatusAfterWake(o)[t] = IF t \in {h} THEN "READY" ELSE status[t]
    BY <1>1, <2>1 DEF ThreadStatus
  <2>4. /\ QueueAfterWake(o) \in [Waitable -> Seq(Thread)]
        /\ QueueAfterWake(o)[o] = tl
        /\ \A q \in Waitable : q # o => QueueAfterWake(o)[q] = queue[q]
    BY <1>1, <2>2
  <2>5. Wakes(o, {h})
    BY <1>3, <2>1, <2>2, <2>3, <2>4 DEF Wakes
  <2>6. QED
    BY <2>5
<1>4. QED
  BY <1>2, <1>3

-----------------------------------------------------------------------------
(* What Condition::Wait does to the threads: the caller sleeps on c, the
   threads of W, sleepers of l, are ready.                                 *)
WaitStep(c, l, W) ==
  /\ currentThread \in Thread \ W /\ currentThread' = currentThread
  /\ status[currentThread] = "RUNNING" /\ pc[currentThread] = "func"
  /\ frame[currentThread] = NoFrame
  /\ mode = "SystemMode" /\ mode' = mode /\ level' = "IntOff"
  /\ \A t \in W : status[t] = "BLOCKED" /\ pc[t] = "Sleep" /\ frame[t].on = l
  /\ status' \in [Thread -> ThreadStatus] /\ pc' \in [Thread -> ResumePoint]
  /\ status'[currentThread] = "BLOCKED" /\ pc'[currentThread] = "Sleep"
  /\ frame'[currentThread] = InWait(c, l)
  /\ \A t \in Thread : t # currentThread =>
       /\ status'[t] = (IF t \in W THEN "READY" ELSE status[t])
       /\ pc'[t] = pc[t] /\ frame'[t] = frame[t]

(* To the scheduler Wait is a sleep and at most one wakeup. *)
LEMMA WaitKeepsThreads ==
  ASSUME ThreadsInv, NEW c, NEW l, NEW W \in SUBSET Thread, WaitStep(c, l, W),
         Wakes(l, W), readyList' = ReadyAfterWake(l), Untouched
  PROVE  ThreadsInv'
<1>1. \A t \in Thread : t \in Items(readyList') <=> status'[t] = "READY"
  <2>1. \A t \in Thread : t \in Items(readyList') <=> status[t] = "READY" \/ t \in W
    BY DEF ThreadsInv, SchedulerInv, Wakes
  <2>2. QED
    BY <2>1 DEF WaitStep
<1>2. ReadyListSorted'
  BY DEF ReadyListSorted, Ordered, Wakes, Untouched
<1>3. readyList' \in Seq(Thread) /\ NoDuplicates(readyList')
  BY DEF Wakes
<1>4. \A t \in Thread : t # currentThread =>
         /\ pc'[t] = pc[t]
         /\ \/ status'[t] = status[t]
            \/ status[t] = "BLOCKED" /\ status'[t] = "READY" /\ pc[t] = "Sleep"
  BY DEF WaitStep
<1>5. QED
  BY <1>1, <1>2, <1>3, <1>4, RoutineKeepsThreadsInv DEF WaitStep

(* The queues of the lock and of the condition after Wait. *)
LEMMA WaitMovesQueues ==
  ASSUME NEW c \in Waitable, NEW l \in Waitable, l # c, NEW W \in SUBSET Thread, Wakes(l, W),
         QueuesExact, queue \in [Waitable -> Seq(Thread)],
         currentThread \in Thread, status[currentThread] = "RUNNING",
         queue' = [QueueAfterWake(l) EXCEPT ![c] = Append(@, currentThread)]
  PROVE  /\ queue' \in [Waitable -> Seq(Thread)]
         /\ NoDuplicates(queue'[c]) /\ Items(queue'[c]) = Items(queue[c]) \cup {currentThread}
         /\ NoDuplicates(queue'[l]) /\ Items(queue'[l]) = Items(queue[l]) \ W
         /\ queue'[l] # <<>> => \E h \in Thread : W = {h}
         /\ \A q \in Waitable : q # l /\ q # c => queue'[q] = queue[q]
<1>1. queue[c] \in Seq(Thread) /\ NoDuplicates(queue[c]) /\ currentThread \notin Items(queue[c])
  BY DEF QueuesExact
<1>2. /\ Append(queue[c], currentThread) \in Seq(Thread)
      /\ Items(Append(queue[c], currentThread)) = Items(queue[c]) \cup {currentThread}
      /\ NoDuplicates(Append(queue[c], currentThread))
  BY <1>1, AppendItems
<1>3. /\ queue' \in [Waitable -> Seq(Thread)]
      /\ queue'[c] = Append(queue[c], currentThread)
      /\ queue'[l] = QueueAfterWake(l)[l]
      /\ \A q \in Waitable : q # l /\ q # c => queue'[q] = queue[q]
  BY <1>2 DEF Wakes
<1>4. QED
  BY <1>2, <1>3 DEF Wakes

(* Each queue still holds exactly the threads asleep on it. *)
LEMMA WaitKeepsQueues ==
  ASSUME QueuesExact, NEW c \in Condition, NEW l \in Lock, l # c,
         NEW W \in SUBSET Thread, WaitStep(c, l, W),
         NoDuplicates(queue'[c]), Items(queue'[c]) = Items(queue[c]) \cup {currentThread},
         NoDuplicates(queue'[l]), Items(queue'[l]) = Items(queue[l]) \ W,
         \A q \in Waitable : q # l /\ q # c => queue'[q] = queue[q]
  PROVE  QueuesExact'
<1>1. InWait(c, l).op = "Wait" /\ InWait(c, l).on = c
  BY FrameKinds
<1>2. ASSUME NEW q \in Waitable
      PROVE  NoDuplicates(queue'[q])
  <2>1. CASE q = l \/ q = c
    BY <2>1
  <2>2. CASE q # l /\ q # c
    BY <2>2 DEF QueuesExact
  <2>3. QED
    BY <2>1, <2>2
<1>3. ASSUME NEW q \in Waitable, NEW t \in Thread
      PROVE  t \in Items(queue'[q]) <=> status'[t] = "BLOCKED" /\ frame'[t].on = q
  <2>1. t \in Items(queue[q]) <=> status[t] = "BLOCKED" /\ frame[t].on = q
    BY DEF QueuesExact
  <2>2. CASE q = c
    <3>1. t \in Items(queue'[q]) <=> t \in Items(queue[q]) \/ t = currentThread
      BY <2>2
    <3>2. QED
      BY <1>1, <2>1, <2>2, <3>1 DEF WaitStep
  <2>3. CASE q = l
    <3>1. t \in Items(queue'[q]) <=> t \in Items(queue[q]) /\ t \notin W
      BY <2>3
    <3>2. QED
      BY <1>1, <2>1, <2>3, <3>1 DEF WaitStep
  <2>4. CASE q # c /\ q # l
    BY <1>1, <2>1, <2>4 DEF WaitStep
  <2>5. QED
    BY <2>2, <2>3, <2>4
<1>4. ASSUME NEW t \in Thread, status'[t] = "BLOCKED"
      PROVE  \/ pc'[t] = "Finish" /\ frame'[t] = NoFrame
             \/ pc'[t] = "Sleep" /\ frame'[t].op \in {"P", "Acquire", "Wait"}
  BY <1>1, <1>4 DEF QueuesExact, WaitStep
<1>5. QED
  BY <1>2, <1>3, <1>4 DEF QueuesExact

(* The caller is the one thread that enters a frame. *)
LEMMA WaitKeepsFrames ==
  ASSUME FrameInv, NEW c \in Condition, NEW l \in Lock, NEW W \in SUBSET Thread,
         WaitStep(c, l, W), \A t \in Thread : frame[t].op # "Broadcast"
  PROVE  FrameInv'
<1>1. InWait(c, l).op = "Wait"
  BY FrameKinds
<1>2. QED
  BY <1>1 DEF FrameInv, WaitStep

(* The Release inside Condition::Wait leaves the lock with no owner. *)
LEMMA WaitGivesLockBack ==
  ASSUME MutualExclusion, NEW l \in Lock,
         value \in [Counted -> Nat],
         owner \in [Lock -> Thread \cup {None}], held \in [Thread -> SUBSET Lock],
         currentThread \in Thread, owner[l] = currentThread, value[l] = 0,
         value' = [value EXCEPT ![l] = @ + 1],
         owner' = [owner EXCEPT ![l] = None],
         held' = [held EXCEPT ![currentThread] = @ \ {l}]
  PROVE  MutualExclusion'
<1>1. \A t \in Thread : l \notin held'[t] /\ held'[t] \subseteq held[t]
  BY DEF MutualExclusion
<1>2. \A t \in Thread : \A k \in held'[t] : owner'[k] = t
  BY <1>1 DEF MutualExclusion
<1>3. \A t, u \in Thread : t # u => held'[t] \cap held'[u] = {}
  BY <1>2
<1>4. \A k \in Lock : value'[k] = IF owner'[k] = None THEN 1 ELSE 0
  <2> SUFFICES ASSUME NEW k \in Lock
               PROVE  value'[k] = IF owner'[k] = None THEN 1 ELSE 0
    OBVIOUS
  <2>1. CASE k = l
    BY <2>1 DEF Counted
  <2>2. CASE k # l
    BY <2>2 DEF MutualExclusion, Counted
  <2>3. QED
    BY <2>1, <2>2
<1>5. QED
  BY <1>2, <1>3, <1>4 DEF MutualExclusion

(* One waiter of the lock can take the value that Wait gives back. *)
LEMMA WaitLosesNoWakeup ==
  ASSUME NoLostWakeup, NEW c \in Condition, NEW l \in Lock, NEW W \in SUBSET Thread,
         WaitStep(c, l, W),
         queue'[l] # <<>> => \E h \in Thread : W = {h},
         value'[l] = 1,
         \A s \in Counted : s # l => value'[s] = value[s],
         \A s \in Counted : s # l => queue'[s] = queue[s]
  PROVE  NoLostWakeup'
<1> SUFFICES ASSUME NEW s \in Counted, queue'[s] # <<>>
             PROVE  value'[s] <= Cardinality(WokenOn(s)')
  BY DEF NoLostWakeup
<1>1. frame[currentThread].on # s
  BY FrameKinds, NoneIsNoObject DEF Waitable, Counted, WaitStep
<1>2. CASE s # l
  <2>1. WokenOn(s)' = WokenOn(s)
    BY <1>1, <1>2 DEF WokenOn, WaitStep
  <2>2. QED
    BY <1>2, <2>1 DEF NoLostWakeup
<1>3. CASE s = l
  <2>1. PICK h \in Thread : W = {h}
    BY <1>3
  <2>2. h \notin WokenOn(l) /\ WokenOn(l)' = WokenOn(l) \cup {h}
    BY <1>1, <1>3, <2>1 DEF WokenOn, WaitStep
  <2>3. IsFiniteSet(WokenOn(l)) /\ Cardinality(WokenOn(l)) \in Nat
    BY ThreadsAssumption, FS_Subset, FS_CardinalityType DEF WokenOn
  <2>4. Cardinality(WokenOn(l) \cup {h}) = Cardinality(WokenOn(l)) + 1
    BY <2>2, <2>3, FS_AddElement, Zenon
  <2>5. QED
    BY <1>3, <2>2, <2>3, <2>4
<1>4. QED
  BY <1>2, <1>3

(* Condition::Wait: the lock is released, one of its waiters is woken and the
   caller is on the condition's queue, all in one step.                    *)
LEMMA WaitKeepsInv ==
  ASSUME SynchInv, NEW c \in Condition, NEW l \in Lock, Wait(c, l)
  PROVE  SynchInv'
<1>1. /\ currentThread \in Thread
      /\ l \in Waitable /\ c \in Waitable /\ l # c /\ l \in Counted /\ c \notin Counted
      /\ status[currentThread] = "RUNNING" /\ mode = "SystemMode" /\ level = "IntOn"
      /\ frame[currentThread] = NoFrame /\ pc[currentThread] = "func"
      /\ l \in held[currentThread]
  BY SynchAssumption DEF Wait, InFunc, SynchInv, FrameInv, ThreadsInv, SchedulerInv,
                         ThreadsTypeOK, Waitable, Counted
<1>2. owner[l] = currentThread /\ value[l] = 0
  BY <1>1, ThreadsAssumption DEF SynchInv, MutualExclusion
<1>3. PICK W \in SUBSET Thread : Wakes(l, W)
  BY <1>1, WokenSet
<1>4. /\ mode' = mode /\ level' = "IntOff"
      /\ value' = [value EXCEPT ![l] = @ + 1]
      /\ owner' = [owner EXCEPT ![l] = None]
      /\ held' = [held EXCEPT ![currentThread] = @ \ {l}]
      /\ queue' = [QueueAfterWake(l) EXCEPT ![c] = Append(@, currentThread)]
      /\ frame' = [frame EXCEPT ![currentThread] = InWait(c, l)]
      /\ status' = [StatusAfterWake(l) EXCEPT ![currentThread] = "BLOCKED"]
      /\ pc' = [pc EXCEPT ![currentThread] = "Sleep"]
      /\ readyList' = ReadyAfterWake(l)
      /\ pending' = pending /\ currentThread' = currentThread
      /\ Untouched
  BY <1>2 DEF Wait, SleepOn, AssertHeld, Untouched
<1>5. /\ status \in [Thread -> ThreadStatus] /\ pc \in [Thread -> ResumePoint]
      /\ frame \in [Thread -> Frame] /\ queue \in [Waitable -> Seq(Thread)]
      /\ value \in [Counted -> Nat] /\ pending \in [Semaphore -> Nat]
      /\ owner \in [Lock -> Thread \cup {None}] /\ held \in [Thread -> SUBSET Lock]
  BY DEF SynchInv, ThreadsInv, TypeOK, ThreadsTypeOK
<1>6. WaitStep(c, l, W)
  BY <1>1, <1>3, <1>4, <1>5 DEF WaitStep, Wakes, ThreadStatus, ResumePoint
<1>7. ThreadsInv'
  BY <1>3, <1>4, <1>6, WaitKeepsThreads DEF SynchInv
<1>8. /\ queue' \in [Waitable -> Seq(Thread)]
      /\ NoDuplicates(queue'[c]) /\ Items(queue'[c]) = Items(queue[c]) \cup {currentThread}
      /\ NoDuplicates(queue'[l]) /\ Items(queue'[l]) = Items(queue[l]) \ W
      /\ queue'[l] # <<>> => \E h \in Thread : W = {h}
      /\ \A q \in Waitable : q # l /\ q # c => queue'[q] = queue[q]
  BY <1>1, <1>3, <1>4, <1>5, WaitMovesQueues, Zenon DEF SynchInv
<1>9. QueuesExact'
  BY <1>1, <1>6, <1>8, WaitKeepsQueues DEF SynchInv
<1>10. FrameInv'
  <2>1. \A t \in Thread : frame[t].op # "Broadcast"
    BY <1>1, InFuncFrames
  <2>2. QED
    BY <1>6, <2>1, WaitKeepsFrames DEF SynchInv
<1>11. MutualExclusion'
  BY <1>1, <1>2, <1>4, <1>5, WaitGivesLockBack, Zenon DEF SynchInv
<1>12. TypeOK'
  <2>1. InWait(c, l) \in Frame
    BY FrameKinds
  <2>2. QED
    BY <1>1, <1>4, <1>5, <1>7, <1>8, <2>1 DEF TypeOK, ThreadsInv
<1>13. NoLostWakeup'
  <2>1. /\ value'[l] = 1
        /\ \A s \in Counted : s # l => value'[s] = value[s]
    BY <1>1, <1>2, <1>4, <1>5
  <2>2. \A s \in Counted : s # l => queue'[s] = queue[s]
    BY <1>1, <1>8 DEF Waitable
  <2>3. QED
    BY <1>6, <1>8, <2>1, <2>2, WaitLosesNoWakeup DEF SynchInv
<1>14. QED
  BY <1>7, <1>9, <1>10, <1>11, <1>12, <1>13 DEF SynchInv
-----------------------------------------------------------------------------
(* Condition::Signal, and one round of the loop of Broadcast. *)
LEMMA SignalKeepsInv ==
  ASSUME SynchInv, NEW c \in Condition, WakeOne(c),
         Untouched, UNCHANGED <<frame, pc, level, value, owner, held, pending>>,
         mode = "SystemMode", mode' = "SystemMode",
         status[currentThread] = "RUNNING", pc[currentThread] = "func"
  PROVE  SynchInv'
<1> USE DEF SynchInv
<1>1. c \in Waitable /\ c \notin Counted
  BY SynchAssumption DEF Waitable, Counted
<1>2. /\ ThreadsInv'
      /\ queue' \in [Waitable -> Seq(Thread)]
      /\ QueuesExact'
      /\ FrameInv'
      /\ \A s \in Waitable : s # c => queue'[s] = queue[s] /\ WokenOn(s)' = WokenOn(s)
  BY <1>1, WakeKeeps
<1>3. TypeOK'
  BY <1>2 DEF TypeOK, ThreadsInv
<1>4. MutualExclusion'
  BY DEF MutualExclusion
<1>5. NoLostWakeup'
  BY <1>1, <1>2 DEF NoLostWakeup, Waitable
<1>6. QED
  BY <1>2, <1>3, <1>4, <1>5

(* Entering and leaving Broadcast: only the frame of the caller and the
   interrupt level change.                                                 *)
LEMMA BroadcastKeepsInv ==
  ASSUME SynchInv, NEW c \in Condition, NEW l \in Lock,
         Untouched, UNCHANGED <<status, readyList, value, queue, owner, held, pending>>,
         mode = "SystemMode", mode' = "SystemMode",
         status[currentThread] = "RUNNING",
         pc[currentThread] = "func", pc' = pc,
         l \in held[currentThread],
         \/ /\ frame[currentThread] = NoFrame /\ level' = "IntOff"
            /\ frame' = [frame EXCEPT ![currentThread] = InBroadcast(c, l)]
         \/ /\ frame[currentThread] = InBroadcast(c, l) /\ level' = "IntOn"
            /\ frame' = [frame EXCEPT ![currentThread] = NoFrame]
  PROVE  SynchInv'
<1> USE DEF SynchInv
<1> DEFINE cur == currentThread
<1>1. /\ cur \in Thread /\ frame \in [Thread -> Frame] /\ UNCHANGED currentThread
      /\ UNCHANGED <<priority, threadId, threadIds, threadToBeDestroyed>>
  BY DEF TypeOK, ThreadsTypeOK, Untouched
<1>2. /\ frame' \in [Thread -> Frame]
      /\ \A t \in Thread : t # cur => frame'[t] = frame[t]
      /\ \/ /\ level' = "IntOff" /\ frame'[cur].op = "Broadcast" /\ frame'[cur].lock = l
         \/ level' = "IntOn" /\ frame'[cur] = NoFrame /\ frame'[cur].op = "none"
      /\ frame'[cur].on \notin Counted /\ frame[cur].on \notin Counted
      /\ frame[cur].op \in {"none", "Broadcast"}
  <2>1. /\ InBroadcast(c, l) \in Frame /\ InBroadcast(c, l).op = "Broadcast"
        /\ InBroadcast(c, l).on = c /\ InBroadcast(c, l).lock = l
        /\ NoFrame \in Frame /\ NoFrame.op = "none" /\ NoFrame.on = None
    BY FrameKinds, BroadcastLock
  <2>2. c \notin Counted /\ None \notin Counted
    BY NoneIsNoObject, SynchAssumption DEF Waitable, Counted
  <2>3. QED
    BY <1>1, <2>1, <2>2
<1>3. ThreadsInv'
  <2>1. ThreadsTypeOK'
    BY <1>1, <1>2 DEF ThreadsInv, ThreadsTypeOK
  <2>2. SchedulerInv'
    BY <1>1, Zenon DEF ThreadsInv, SchedulerInv
  <2>3. CarcassInv' /\ ThreadIdsExact' /\ ReadyListSorted'
    BY <1>1, Zenon DEF ThreadsInv, CarcassInv, Finished, ThreadIdsExact, ReadyListSorted
  <2>4. QED
    BY <2>1, <2>2, <2>3 DEF ThreadsInv
<1>4. TypeOK'
  BY <1>2, <1>3, Zenon DEF TypeOK, ThreadsInv
<1>5. QueuesExact'
  <2>1. \A t \in Thread : status[t] = "BLOCKED" => frame'[t] = frame[t]
    BY <1>2
  <2>2. \A q \in Waitable, t \in Thread :
          t \in Items(queue[q]) <=> status[t] = "BLOCKED" /\ frame'[t].on = q
    BY <2>1 DEF QueuesExact
  <2>3. QED
    BY <2>1, <2>2 DEF QueuesExact
<1>6. FrameInv'
  <2>1. \A t \in Thread : pc[t] = "Sleep" <=> frame'[t].op \in {"P", "Acquire", "Wait"}
    BY <1>1, <1>2 DEF FrameInv
  <2>2. \A t \in Thread : frame'[t].op = "Broadcast" => t = cur /\ frame'[t].lock \in held[t]
    BY <1>1, <1>2 DEF FrameInv
  <2>3. QED
    BY <1>1, <1>2, <2>1, <2>2 DEF FrameInv
<1>7. MutualExclusion'
  BY DEF MutualExclusion
<1>8. NoLostWakeup'
  <2>1. \A s \in Counted : WokenOn(s)' = WokenOn(s)
    BY <1>1, <1>2 DEF WokenOn
  <2>2. QED
    BY <2>1 DEF NoLostWakeup
<1>9. QED
  BY <1>3, <1>4, <1>5, <1>6, <1>7, <1>8


(* The current thread in its own code, with interrupts on. *)
LEMMA InFuncFacts ==
  ASSUME SynchInv, InFunc
  PROVE  /\ mode = "SystemMode" /\ level = "IntOn" /\ currentThread \in Thread
         /\ status[currentThread] = "RUNNING" /\ pc[currentThread] = "func"
         /\ frame[currentThread] = NoFrame
         /\ frame[currentThread].op # "Broadcast"
         /\ frame[currentThread].on \notin Counted
BY FrameKinds, NoneIsNoObject
   DEF InFunc, SynchInv, ThreadsInv, ThreadsTypeOK, SchedulerInv, FrameInv, Waitable

(* One turn of the loop of P: the caller sleeps or takes the value. *)
LEMMA TryPKeepsInv ==
  ASSUME SynchInv, NEW s \in Semaphore, TryP(s, InP(s)),
         mode = "SystemMode", status[currentThread] = "RUNNING",
         frame[currentThread].op # "Broadcast",
         frame[currentThread].on \notin Counted \ {s},
         Untouched, UNCHANGED <<owner, held, pending, mode>>
  PROVE  SynchInv'
<1>1. s \in Counted /\ InP(s) \in Frame /\ InP(s).on = s /\ InP(s).op = "P"
  BY FrameKinds DEF Counted
<1>2. CASE value[s] = 0 /\ SleepOn(s, InP(s), status, readyList, queue) /\ UNCHANGED value
  BY <1>1, <1>2, SleepKeepsInv, Zenon
<1>3. CASE /\ value[s] > 0 /\ value' = [value EXCEPT ![s] = @ - 1]
           /\ Return /\ UNCHANGED <<queue, status, readyList>>
  BY <1>1, <1>3, TakeKeepsInv, Zenon
<1>4. QED
  BY <1>2, <1>3, Zenon DEF TryP

(* The same inside Acquire, which then notes the owner. *)
LEMMA TryAcquireKeepsInv ==
  ASSUME SynchInv, NEW l \in Lock, TryAcquire(l),
         mode = "SystemMode", status[currentThread] = "RUNNING",
         frame[currentThread].op # "Broadcast",
         frame[currentThread].on \notin Counted \ {l},
         Untouched, UNCHANGED <<pending, mode>>
  PROVE  SynchInv'
<1>1. /\ l \in Counted /\ InAcquire(l) \in Frame
      /\ InAcquire(l).on = l /\ InAcquire(l).op = "Acquire"
  BY FrameKinds DEF Counted
<1>2. CASE value[l] = 0 /\ SleepOn(l, InAcquire(l), status, readyList, queue) /\ UNCHANGED value
  BY <1>1, <1>2, SleepKeepsInv DEF TryAcquire
<1>3. CASE /\ value[l] > 0 /\ value' = [value EXCEPT ![l] = @ - 1]
           /\ Return /\ UNCHANGED <<queue, status, readyList>>
  <2>1. value[l] # 0
    BY <1>3
  <2>2. /\ owner' = [owner EXCEPT ![l] = currentThread]
        /\ held' = [held EXCEPT ![currentThread] = @ \cup {l}]
    BY <2>1 DEF TryAcquire
  <2>3. QED
    BY <1>1, <1>3, <2>2, TakeKeepsInv, Zenon
<1>4. QED
  BY <1>2, <1>3 DEF TryAcquire, TryP

(* Semaphore::P. *)
LEMMA PKeepsInv ==
  ASSUME SynchInv, NEW s \in Semaphore, P(s)
  PROVE  SynchInv'
BY TryPKeepsInv, InFuncFacts DEF P

(* Semaphore::V called by a thread. *)
LEMMA SemaphoreVKeepsInv ==
  ASSUME SynchInv, NEW s \in Semaphore, V(s)
  PROVE  SynchInv'
<1>1. pending' \in [Semaphore -> Nat] /\ s \in Counted
  BY DEF V, SynchInv, TypeOK, Counted
<1>2. QED
  BY <1>1, InFuncFacts, VKeepsInv DEF V

(* A thread starts a device request. *)
LEMMA StartRequestKeepsInv ==
  ASSUME SynchInv, NEW s \in Semaphore, StartRequest(s)
  PROVE  SynchInv'
<1>1. pending' \in [Semaphore -> Nat]
  BY DEF StartRequest, SynchInv, TypeOK
<1>2. ThreadsInv'
  BY HaltKeepsInv DEF StartRequest, SynchInv
<1>3. QED
  <2>1. UNCHANGED <<threadVars, value, queue, owner, frame, held>>
    BY DEF StartRequest
  <2>2. TypeOK'
    BY <1>1, <1>2, <2>1 DEF SynchInv, TypeOK, ThreadsInv
  <2>3. QueuesExact' /\ FrameInv' /\ MutualExclusion'
    BY <2>1 DEF threadVars, SynchInv, QueuesExact, FrameInv, MutualExclusion
  <2>4. NoLostWakeup'
    BY <2>1 DEF threadVars, SynchInv, NoLostWakeup, WokenOn
  <2>5. QED
    BY <1>2, <2>2, <2>3, <2>4 DEF SynchInv

(* Semaphore::V called by the handler of a device interrupt. *)
LEMMA DeviceInterruptKeepsInv ==
  ASSUME SynchInv, NEW s \in Semaphore, DeviceInterrupt(s)
  PROVE  SynchInv'
<1>1. pending' \in [Semaphore -> Nat] /\ s \in Counted
  BY DEF DeviceInterrupt, SynchInv, TypeOK, Counted
<1>2. CASE InFunc
  BY <1>1, <1>2, InFuncFacts, VKeepsInv DEF DeviceInterrupt
<1>3. CASE Sleeping
  <2>1. /\ mode \in {"SystemMode", "IdleMode"} /\ level = "IntOff"
        /\ status[currentThread] # "RUNNING"
    BY <1>3 DEF Sleeping
  <2>2. QED
    BY <1>1, <2>1, VKeepsInv DEF DeviceInterrupt
<1>4. QED
  BY <1>2, <1>3 DEF DeviceInterrupt

(* Lock::Acquire. *)
LEMMA AcquireKeepsInv ==
  ASSUME SynchInv, NEW l \in Lock, Acquire(l)
  PROVE  SynchInv'
BY TryAcquireKeepsInv, InFuncFacts DEF Acquire

(* The ASSERT of the holder of a lock lets the kernel go on. *)
LEMMA AssertHolds ==
  ASSUME SynchInv, NEW l \in Lock, l \in held[currentThread], InFunc, AssertHeld(l)
  PROVE  mode' = mode
<1>1. owner[l] = currentThread
  BY InFuncFacts DEF SynchInv, MutualExclusion
<1>2. QED
  BY <1>1 DEF AssertHeld

(* Lock::Release. *)
LEMMA ReleaseKeepsInv ==
  ASSUME SynchInv, NEW l \in Lock, Release(l)
  PROVE  SynchInv'
<1>1. pending' \in [Semaphore -> Nat] /\ l \in Counted /\ mode' = mode
  BY AssertHolds DEF Release, SynchInv, TypeOK, Counted
<1>2. QED
  BY <1>1, InFuncFacts, VKeepsInv, Zenon DEF Release

(* Condition::Signal. *)
LEMMA SignalCallKeepsInv ==
  ASSUME SynchInv, NEW c \in Condition, NEW l \in Lock, Signal(c, l)
  PROVE  SynchInv'
<1>1. mode' = mode
  BY AssertHolds DEF Signal
<1>2. QED
  BY <1>1, InFuncFacts, SignalKeepsInv DEF Signal

(* Condition::Broadcast, up to its first Signal. *)
LEMMA BroadcastCallKeepsInv ==
  ASSUME SynchInv, NEW c \in Condition, NEW l \in Lock, Broadcast(c, l)
  PROVE  SynchInv'
<1>1. mode' = mode
  BY AssertHolds DEF Broadcast
<1>2. QED
  BY <1>1, InFuncFacts, BroadcastKeepsInv, Zenon DEF Broadcast

(* P after Sleep returns. *)
LEMMA PContinueKeepsInv ==
  ASSUME SynchInv, PContinue
  PROVE  SynchInv'
<1>1. PICK s \in Semaphore : frame[currentThread] = InP(s) /\ TryP(s, InP(s))
  BY DEF PContinue
<1>2. frame[currentThread].op = "P" /\ frame[currentThread].on = s
  BY <1>1, FrameKinds
<1>3. QED
  BY TryPKeepsInv, <1>1, <1>2 DEF PContinue, Resumed

(* Acquire after Sleep returns, inside Acquire or Wait. *)
LEMMA AcquireContinueKeepsInv ==
  ASSUME SynchInv, AcquireContinue
  PROVE  SynchInv'
<1>1. PICK l \in Lock : /\ \/ frame[currentThread] = InAcquire(l)
                          \/ \E c \in Condition : frame[currentThread] = InWait(c, l)
                       /\ TryAcquire(l)
  BY DEF AcquireContinue
<1>2. /\ frame[currentThread].op # "Broadcast"
      /\ frame[currentThread].on \notin Counted \ {l}
  BY <1>1, FrameKinds, SynchAssumption DEF Counted
<1>3. QED
  BY TryAcquireKeepsInv, <1>1, <1>2 DEF AcquireContinue, Resumed

(* The next turn of the loop of Broadcast. *)
LEMMA BroadcastContinueKeepsInv ==
  ASSUME SynchInv, BroadcastContinue
  PROVE  SynchInv'
<1>1. PICK c \in Condition, l \in Lock :
        /\ frame[currentThread] = InBroadcast(c, l)
        /\ \/ /\ queue[c] # <<>>
              /\ AssertHeld(l)
              /\ WakeOne(c)
              /\ UNCHANGED <<frame, pc, level>>
           \/ /\ queue[c] = <<>>
              /\ Return
              /\ UNCHANGED <<status, readyList, queue, mode>>
  BY Zenon DEF BroadcastContinue
<1>2. /\ mode = "SystemMode" /\ status[currentThread] = "RUNNING"
      /\ Untouched /\ UNCHANGED <<value, owner, held, pending>>
  BY DEF BroadcastContinue, Resumed
<1>3. currentThread \in Thread
  BY DEF SynchInv, ThreadsInv, ThreadsTypeOK
<1>4. frame[currentThread].op = "Broadcast" /\ frame[currentThread].lock = l
  BY <1>1, FrameKinds, BroadcastLock
<1>5. pc[currentThread] = "func" /\ l \in held[currentThread]
  BY <1>3, <1>4 DEF SynchInv, FrameInv
<1>6. CASE queue[c] = <<>> /\ Return /\ UNCHANGED <<status, readyList, queue, mode>>
  <2>1. pc' = pc
    BY <1>2, <1>3, <1>5, <1>6, Zenon DEF Return, SynchInv, ThreadsInv, ThreadsTypeOK
  <2>2. QED
    BY <1>1, <1>2, <1>5, <1>6, <2>1, BroadcastKeepsInv, Zenon DEF Return
<1>7. CASE AssertHeld(l) /\ WakeOne(c) /\ UNCHANGED <<frame, pc, level>>
  <2>1. owner[l] = currentThread
    BY <1>3, <1>5, Zenon DEF SynchInv, MutualExclusion
  <2>2. mode' = mode
    BY <1>7, <2>1 DEF AssertHeld
  <2>3. QED
    BY <1>2, <1>5, <1>7, <2>2, SignalKeepsInv
<1>8. QED
  BY <1>1, <1>6, <1>7

(* Every routine of synch.cc and every device interrupt keeps the invariant. *)
LEMMA RoutinesKeepInv ==
  ASSUME SynchInv,
         \/ \E s \in Semaphore : P(s) \/ V(s) \/ StartRequest(s) \/ DeviceInterrupt(s)
         \/ \E l \in Lock : Acquire(l) \/ Release(l)
         \/ \E c \in Condition, l \in Lock : Wait(c, l) \/ Signal(c, l) \/ Broadcast(c, l)
         \/ PContinue \/ AcquireContinue \/ BroadcastContinue
  PROVE  SynchInv'
BY PKeepsInv, SemaphoreVKeepsInv, StartRequestKeepsInv, DeviceInterruptKeepsInv,
   AcquireKeepsInv, ReleaseKeepsInv, WaitKeepsInv, SignalCallKeepsInv,
   BroadcastCallKeepsInv, PContinueKeepsInv, AcquireContinueKeepsInv, BroadcastContinueKeepsInv

(* The constructors of synch.cc establish the invariant. *)
LEMMA SynchInitInv ==
  ASSUME Init
  PROVE  SynchInv
<1> USE SynchAssumption DEF Init, SynchInit
<1>1. ThreadsInv
  BY InitInv
<1>2. TypeOK
  BY <1>1, FrameKinds DEF TypeOK, ThreadsInv, Counted
<1>3. \A o \in Waitable : Items(queue[o]) = {} /\ NoDuplicates(queue[o]) /\ queue[o] = <<>>
  BY DEF Items, NoDuplicates
<1>4. \A t \in Thread : frame[t] = NoFrame /\ frame[t].op = "none" /\ status[t] # "BLOCKED"
                         /\ pc[t] # "Sleep"
  BY FrameKinds DEF ThreadsInit
<1>5. QueuesExact
  BY <1>3, <1>4 DEF QueuesExact
<1>6. FrameInv
  BY <1>1, <1>4 DEF FrameInv, ThreadsInit, ThreadsInv, ThreadsTypeOK
<1>7. MutualExclusion
  BY DEF MutualExclusion, Counted
<1>8. NoLostWakeup
  BY <1>3 DEF NoLostWakeup, Waitable
<1>9. QED
  BY <1>1, <1>2, <1>5, <1>6, <1>7, <1>8 DEF SynchInv

(* Every step keeps the invariant. *)
LEMMA SynchNextKeepsInv ==
  ASSUME SynchInv, [Next]_vars
  PROVE  SynchInv'
<1>1. CASE UNCHANGED vars
  <2>1. ThreadsInv'
    BY <1>1, HaltKeepsInv DEF vars, SynchInv
  <2>2. UNCHANGED <<threadVars, value, queue, owner, frame, held, pending>>
    BY <1>1 DEF vars, synchVars
  <2>3. TypeOK'
    BY <2>1, <2>2 DEF SynchInv, TypeOK, ThreadsInv
  <2>4. QueuesExact' /\ FrameInv' /\ MutualExclusion'
    BY <2>2 DEF threadVars, SynchInv, QueuesExact, FrameInv, MutualExclusion
  <2>5. NoLostWakeup'
    BY <2>2 DEF threadVars, SynchInv, NoLostWakeup, WokenOn
  <2>6. QED
    BY <2>1, <2>3, <2>4, <2>5 DEF SynchInv
<1>2. CASE Yield /\ UNCHANGED synchVars
  BY <1>2, YieldKeepsSynchInv
<1>3. CASE Dispatch /\ UNCHANGED synchVars
  BY <1>3, DispatchKeepsSynchInv
<1>4. CASE /\ \/ \E t \in Thread, pri \in Pri : NewThread(t, pri)
              \/ \E t \in Thread : Fork(t)
              \/ Resume \/ FinishFree \/ HaltIdle
           /\ UNCHANGED synchVars
  BY <1>4, OtherThreadStepsKeepSynchInv
<1>5. CASE Stopped /\ UNCHANGED synchVars
  BY <1>1, <1>5 DEF Stopped, vars
<1>6. CASE \/ \E s \in Semaphore : P(s) \/ V(s) \/ StartRequest(s) \/ DeviceInterrupt(s)
           \/ \E l \in Lock : Acquire(l) \/ Release(l)
           \/ \E c \in Condition, l \in Lock : Wait(c, l) \/ Signal(c, l) \/ Broadcast(c, l)
           \/ PContinue \/ AcquireContinue \/ BroadcastContinue
  BY <1>6, RoutinesKeepInv
<1>7. QED
  BY <1>1, <1>2, <1>3, <1>4, <1>5, <1>6 DEF Next

(* The inductive invariant holds in every reachable state. *)
THEOREM SynchInvariant == Spec => []SynchInv
<1>1. Init => SynchInv
  BY SynchInitInv
<1>2. SynchInv /\ [Next]_vars => SynchInv'
  BY SynchNextKeepsInv
<1>3. QED
  BY <1>1, <1>2, PTL DEF Spec

(* Type correctness; semaphore values never become negative. *)
THEOREM TypeCorrect == Spec => []TypeOK
<1>1. SynchInv => TypeOK
  BY DEF SynchInv
<1>2. QED
  BY <1>1, SynchInvariant, PTL

(* Scheduler and synchronization together: the ready list is still exactly
   the READY threads when they are woken by V, Signal, Broadcast and device
   interrupts.                                                             *)
THEOREM SchedulerCorrectWithSynch == Spec => []SchedulerInv
<1>1. SynchInv => SchedulerInv
  BY DEF SynchInv, ThreadsInv
<1>2. QED
  BY <1>1, SynchInvariant, PTL

(* Every BLOCKED thread that has not finished is on exactly the queue of the
   object it sleeps on, once.                                              *)
THEOREM QueuesCorrect == Spec => []QueuesExact
<1>1. SynchInv => QueuesExact
  BY DEF SynchInv
<1>2. QED
  BY <1>1, SynchInvariant, PTL

(* A thread is inside a routine of synch.cc only while it sleeps there or
   runs Broadcast with the lock; it never runs its own code with a routine
   left on its stack.                                                      *)
THEOREM FramesCorrect == Spec => []FrameInv
<1>1. SynchInv => FrameInv
  BY DEF SynchInv
<1>2. QED
  BY <1>1, SynchInvariant, PTL

(* Lock::Acquire and Lock::Release, with Condition::Wait in between, give
   mutual exclusion for any number of threads and locks.                   *)
THEOREM MutualExclusionHolds == Spec => []MutualExclusion
<1>1. SynchInv => MutualExclusion
  BY DEF SynchInv
<1>2. QED
  BY <1>1, SynchInvariant, PTL

(* Semaphore::V and Lock::Release lose no wakeup: while threads sleep, each
   unit of the value has a woken thread to take it.                        *)
THEOREM NoWakeupIsLost == Spec => []NoLostWakeup
<1>1. SynchInv => NoLostWakeup
  BY DEF SynchInv
<1>2. QED
  BY <1>1, SynchInvariant, PTL

(* When Nachos idles to a halt nobody sleeps on a semaphore or lock that is
   available: a thread left asleep there waits for a V nobody will make.   *)
THEOREM HaltIsQuiescent == Spec => []HaltLeavesNothingToTake
<1>1. ASSUME SynchInv, mode = "Halted", NEW s \in Counted, queue[s] # <<>>
      PROVE  value[s] = 0
  <2> USE <1>1
  <2>1. readyList = <<>> /\ status[currentThread] # "RUNNING"
    BY DEF SynchInv, FrameInv
  <2>2. Items(readyList) = {}
    BY <2>1 DEF Items
  <2>3. \A t \in Thread : status[t] \notin {"READY", "RUNNING"}
    BY <2>1, <2>2 DEF SynchInv, ThreadsInv, SchedulerInv
  <2>4. \A t \in Thread : frame[t].on = s => pc[t] = "Sleep" \/ status[t] = "RUNNING"
    <3>1. \A t \in Thread : frame[t].on = s => frame[t] # NoFrame
      BY FrameKinds, NoneIsNoObject DEF Waitable
    <3>2. QED
      BY <3>1, FrameCases DEF SynchInv, TypeOK, FrameInv
  <2>5. \A t \in Thread : frame[t].on = s => status[t] = "BLOCKED"
    BY <2>3, <2>4 DEF SynchInv, ThreadsInv, ThreadsTypeOK, ThreadStatus, CarcassInv
  <2>6. WokenOn(s) = {}
    BY <2>5, Zenon DEF WokenOn
  <2>7. Cardinality(WokenOn(s)) = 0
    BY <2>6, FS_EmptySet
  <2>8. value[s] \in Nat /\ value[s] <= Cardinality(WokenOn(s))
    BY DEF SynchInv, TypeOK, NoLostWakeup
  <2>9. QED
    BY <2>7, <2>8
<1>2. SynchInv => HaltLeavesNothingToTake
  BY <1>1 DEF HaltLeavesNothingToTake
<1>3. QED
  BY <1>2, SynchInvariant, PTL

-----------------------------------------------------------------------------
(***************************************************************************)
(* Synch implements SynchSpec: under the invariant every step of the       *)
(* routines of synch.cc is an atomic operation or leaves the abstract      *)
(* state alone.                                                            *)
(***************************************************************************)
Values == [s \in Semaphore |-> value[s]]
Queues == [c \in Condition |-> queue[c]]

(* A step that is none of the abstract operations leaves this unchanged. *)
Stutter == UNCHANGED <<Values, owner, Queues>>

(* The abstract variables are functions of the concrete ones. *)
LEMMA SameValues ==
  ASSUME \A s \in Semaphore : value'[s] = value[s]
  PROVE  Values' = Values
BY DEF Values

LEMMA SameQueues ==
  ASSUME \A c \in Condition : queue'[c] = queue[c]
  PROVE  Queues' = Queues
BY DEF Queues

(* The objects of the four kinds are different. *)
LEMMA Distinct ==
  /\ \A s \in Semaphore : s \in Counted /\ s \in Waitable /\ s \notin Condition /\ s \notin Lock
  /\ \A l \in Lock : l \in Counted /\ l \in Waitable /\ l \notin Condition /\ l \notin Semaphore
  /\ \A c \in Condition : c \in Waitable /\ c \notin Counted
BY SynchAssumption DEF Waitable, Counted

(* The value of one semaphore changes. *)
LEMMA OneValue ==
  ASSUME SynchInv, NEW s \in Semaphore, NEW v,
         value' = [value EXCEPT ![s] = v]
  PROVE  Values' = [Values EXCEPT ![s] = v]
BY Distinct, Zenon DEF Values, SynchInv, TypeOK

(* The value of a lock is not seen. *)
LEMMA LockValue ==
  ASSUME SynchInv, NEW l \in Lock, NEW v,
         value' = [value EXCEPT ![l] = v]
  PROVE  Values' = Values
<1>1. \A s \in Semaphore : value'[s] = value[s]
  BY Distinct DEF SynchInv, TypeOK
<1>2. QED
  BY <1>1, SameValues

(* Nor is the queue of a semaphore or lock. *)
LEMMA SleepQueue ==
  ASSUME SynchInv, NEW o \in Counted, NEW q,
         queue' = [queue EXCEPT ![o] = q]
  PROVE  Queues' = Queues
<1>1. \A c \in Condition : queue'[c] = queue[c]
  BY Distinct DEF SynchInv, TypeOK
<1>2. QED
  BY <1>1, SameQueues

LEMMA WakeQueue ==
  ASSUME SynchInv, NEW o \in Counted, WakeOne(o)
  PROVE  Queues' = Queues
<1>1. CASE queue[o] = <<>>
  BY <1>1, SameQueues DEF WakeOne, QueueAfterWake
<1>2. CASE queue[o] # <<>>
  BY <1>2, SleepQueue, Zenon DEF WakeOne, QueueAfterWake
<1>3. QED
  BY <1>1, <1>2

----------------------------------------------------------------------------
(* The abstract operations, in terms of the concrete variables. *)
LEMMA AbstractP ==
  ASSUME NEW s \in Semaphore, value[s] > 0,
         Values' = [Values EXCEPT ![s] = value[s] - 1],
         owner' = owner, Queues' = Queues
  PROVE  Abstract!P(s)
BY DEF Abstract!P, Values, Queues

LEMMA AbstractV ==
  ASSUME NEW s \in Semaphore,
         Values' = [Values EXCEPT ![s] = value[s] + 1],
         owner' = owner, Queues' = Queues
  PROVE  Abstract!V(s)
BY DEF Abstract!V, Values, Queues

LEMMA AbstractAcquire ==
  ASSUME NEW t \in Thread, NEW l \in Lock, owner[l] = None,
         owner' = [owner EXCEPT ![l] = t], Values' = Values, Queues' = Queues
  PROVE  Abstract!Acquire(t, l)
BY DEF Abstract!Acquire, Values, Queues

LEMMA AbstractRelease ==
  ASSUME NEW t \in Thread, NEW l \in Lock, owner[l] = t,
         owner' = [owner EXCEPT ![l] = None], Values' = Values, Queues' = Queues
  PROVE  Abstract!Release(t, l)
BY DEF Abstract!Release, Values, Queues

LEMMA AbstractWait ==
  ASSUME NEW t \in Thread, NEW c \in Condition, NEW l \in Lock, owner[l] = t,
         owner' = [owner EXCEPT ![l] = None],
         Queues' = [Queues EXCEPT ![c] = Append(queue[c], t)], Values' = Values
  PROVE  Abstract!Wait(t, c, l)
BY DEF Abstract!Wait, Values, Queues

LEMMA AbstractSignal ==
  ASSUME NEW t \in Thread, NEW c \in Condition, NEW l \in Lock, owner[l] = t,
         Queues' = [Queues EXCEPT ![c] = IF queue[c] = <<>> THEN queue[c] ELSE Tail(queue[c])],
         Values' = Values, owner' = owner
  PROVE  Abstract!Signal(t, c, l)
BY DEF Abstract!Signal, Values, Queues

----------------------------------------------------------------------------
(* What a step of synch.cc may be. *)
AbstractStep == Abstract!SynchNext \/ Stutter

(* P takes the value or goes to sleep, which nobody else sees. *)
LEMMA TryPRefines ==
  ASSUME SynchInv, NEW s \in Semaphore, TryP(s, InP(s)), owner' = owner
  PROVE  AbstractStep
<1>1. CASE value[s] = 0 /\ SleepOn(s, InP(s), status, readyList, queue) /\ UNCHANGED value
  <2>1. Queues' = Queues
    BY <1>1, SleepQueue, Distinct, Zenon DEF SleepOn
  <2>2. Values' = Values
    BY <1>1, SameValues
  <2>3. QED
    BY <2>1, <2>2 DEF AbstractStep, Stutter
<1>2. CASE /\ value[s] > 0 /\ value' = [value EXCEPT ![s] = @ - 1]
           /\ Return /\ UNCHANGED <<queue, status, readyList>>
  <2>1. Values' = [Values EXCEPT ![s] = value[s] - 1]
    BY <1>2, OneValue, Zenon
  <2>2. Queues' = Queues
    BY <1>2, SameQueues
  <2>3. Abstract!P(s)
    BY <1>2, <2>1, <2>2, AbstractP, Zenon
  <2>4. QED
    BY <2>3 DEF AbstractStep, Abstract!SynchNext
<1>3. QED
  BY <1>1, <1>2 DEF TryP

(* V adds to the value and wakes a thread, which nobody else sees. *)
LEMMA DoVRefines ==
  ASSUME SynchInv, NEW s \in Semaphore, DoV(s), owner' = owner
  PROVE  AbstractStep
<1>1. Values' = [Values EXCEPT ![s] = value[s] + 1]
  BY OneValue, Zenon DEF DoV
<1>2. Queues' = Queues
  BY WakeQueue, Distinct DEF DoV
<1>3. Abstract!V(s)
  BY <1>1, <1>2, AbstractV, Zenon
<1>4. QED
  BY <1>3 DEF AbstractStep, Abstract!SynchNext

(* The lock is free when the semaphore inside it can be taken. *)
LEMMA TryAcquireRefines ==
  ASSUME SynchInv, NEW l \in Lock, TryAcquire(l)
  PROVE  AbstractStep
<1>1. currentThread \in Thread
  BY DEF SynchInv, ThreadsInv, ThreadsTypeOK
<1>2. CASE value[l] = 0 /\ SleepOn(l, InAcquire(l), status, readyList, queue) /\ UNCHANGED value
  <2>1. Queues' = Queues
    BY <1>2, SleepQueue, Distinct, Zenon DEF SleepOn
  <2>2. Values' = Values
    BY <1>2, SameValues
  <2>3. owner' = owner
    BY <1>2 DEF TryAcquire
  <2>4. QED
    BY <2>1, <2>2, <2>3 DEF AbstractStep, Stutter
<1>3. CASE /\ value[l] > 0 /\ value' = [value EXCEPT ![l] = @ - 1]
           /\ Return /\ UNCHANGED <<queue, status, readyList>>
  <2>1. value[l] # 0
    BY <1>3
  <2>2. owner[l] = None
    BY <2>1 DEF SynchInv, MutualExclusion
  <2>3. owner' = [owner EXCEPT ![l] = currentThread]
    BY <2>1 DEF TryAcquire
  <2>4. Values' = Values
    BY <1>3, LockValue, Zenon
  <2>5. Queues' = Queues
    BY <1>3, SameQueues
  <2>6. Abstract!Acquire(currentThread, l)
    BY <1>1, <2>2, <2>3, <2>4, <2>5, AbstractAcquire, Zenon
  <2>7. QED
    BY <1>1, <2>6 DEF AbstractStep, Abstract!SynchNext
<1>4. QED
  BY <1>2, <1>3 DEF TryAcquire, TryP

(* The holder of a lock is its owner. *)
LEMMA HolderOwns ==
  ASSUME SynchInv, NEW l \in Lock, l \in held[currentThread]
  PROVE  currentThread \in Thread /\ owner[l] = currentThread
BY DEF SynchInv, ThreadsInv, ThreadsTypeOK, MutualExclusion

LEMMA ReleaseRefines ==
  ASSUME SynchInv, NEW l \in Lock, Release(l)
  PROVE  AbstractStep
<1>1. currentThread \in Thread /\ owner[l] = currentThread
  BY HolderOwns DEF Release
<1>2. Values' = Values
  BY LockValue, Zenon DEF Release, DoV
<1>3. Queues' = Queues
  BY WakeQueue, Distinct DEF Release, DoV
<1>4. Abstract!Release(currentThread, l)
  BY <1>1, <1>2, <1>3, AbstractRelease, Zenon DEF Release
<1>5. QED
  BY <1>1, <1>4 DEF AbstractStep, Abstract!SynchNext

(* Wait gives the lock back and joins the queue of the condition at once. *)
LEMMA WaitRefines ==
  ASSUME SynchInv, NEW c \in Condition, NEW l \in Lock, Wait(c, l)
  PROVE  AbstractStep
<1>1. currentThread \in Thread /\ owner[l] = currentThread
  BY HolderOwns DEF Wait
<1>2. Values' = Values
  BY LockValue, Zenon DEF Wait
<1>3. queue' = [QueueAfterWake(l) EXCEPT ![c] = Append(@, currentThread)]
  BY DEF Wait, SleepOn
<1>4. /\ QueueAfterWake(l)[c] = queue[c]
      /\ DOMAIN QueueAfterWake(l) = Waitable
      /\ \A d \in Condition : QueueAfterWake(l)[d] = queue[d]
  BY Distinct DEF QueueAfterWake, SynchInv, TypeOK
<1>5. \A d \in Condition :
        queue'[d] = IF d = c THEN Append(queue[c], currentThread) ELSE queue[d]
  BY <1>3, <1>4, Distinct
<1>6. Queues' = [Queues EXCEPT ![c] = Append(queue[c], currentThread)]
  BY <1>5, Zenon DEF Queues
<1>7. Abstract!Wait(currentThread, c, l)
  BY <1>1, <1>2, <1>6, AbstractWait, Zenon DEF Wait
<1>8. QED
  BY <1>1, <1>7 DEF AbstractStep, Abstract!SynchNext

(* Signal, and one turn of Broadcast, take the oldest waiter off. *)
LEMMA WakeConditionRefines ==
  ASSUME SynchInv, NEW c \in Condition, NEW l \in Lock, l \in held[currentThread],
         WakeOne(c), UNCHANGED <<value, owner>>
  PROVE  AbstractStep
<1>1. currentThread \in Thread /\ owner[l] = currentThread
  BY HolderOwns
<1>2. Values' = Values
  BY SameValues
<1>3. \A d \in Condition :
        queue'[d] = IF d = c THEN (IF queue[c] = <<>> THEN queue[c] ELSE Tail(queue[c]))
                    ELSE queue[d]
  BY Distinct DEF WakeOne, QueueAfterWake, SynchInv, TypeOK
<1>4. Queues' = [Queues EXCEPT ![c] = IF queue[c] = <<>> THEN queue[c] ELSE Tail(queue[c])]
  BY <1>3, Zenon DEF Queues
<1>5. Abstract!Signal(currentThread, c, l)
  BY <1>1, <1>2, <1>4, AbstractSignal, Zenon
<1>6. QED
  BY <1>1, <1>5 DEF AbstractStep, Abstract!SynchNext

(* The next turn of Broadcast is made by the holder of the lock. *)
LEMMA BroadcastContinueRefines ==
  ASSUME SynchInv, BroadcastContinue
  PROVE  AbstractStep
<1>1. PICK c \in Condition, l \in Lock :
        /\ frame[currentThread] = InBroadcast(c, l)
        /\ WakeOne(c) \/ UNCHANGED queue
  BY DEF BroadcastContinue
<1>2. UNCHANGED <<value, owner>>
  BY DEF BroadcastContinue
<1>3. frame[currentThread].op = "Broadcast" /\ frame[currentThread].lock = l
  BY <1>1, FrameKinds, BroadcastLock
<1>4. currentThread \in Thread
  BY DEF SynchInv, ThreadsInv, ThreadsTypeOK
<1>5. l \in held[currentThread]
  BY <1>3, <1>4 DEF SynchInv, FrameInv
<1>6. CASE WakeOne(c)
  BY <1>2, <1>5, <1>6, WakeConditionRefines
<1>7. CASE UNCHANGED queue
  BY <1>2, <1>7, SameValues, SameQueues DEF AbstractStep, Stutter
<1>8. QED
  BY <1>1, <1>6, <1>7

LEMMA QuietRefines ==
  ASSUME UNCHANGED <<value, queue, owner>>
  PROVE  AbstractStep
BY SameValues, SameQueues DEF AbstractStep, Stutter

(* Every step of Synch is an abstract operation or a stutter. *)
LEMMA StepRefines ==
  ASSUME SynchInv, [Next]_vars
  PROVE  AbstractStep
<1>1. CASE UNCHANGED vars \/ UNCHANGED synchVars
  BY <1>1, QuietRefines DEF vars, synchVars
<1>2. ASSUME NEW s \in Semaphore, P(s) \/ V(s) \/ StartRequest(s) \/ DeviceInterrupt(s)
      PROVE  AbstractStep
  <2>1. CASE P(s)
    BY <2>1, TryPRefines DEF P
  <2>2. CASE V(s)
    BY <2>2, DoVRefines DEF V
  <2>3. CASE StartRequest(s)
    BY <2>3, QuietRefines DEF StartRequest
  <2>4. CASE DeviceInterrupt(s)
    BY <2>4, DoVRefines DEF DeviceInterrupt
  <2>5. QED
    BY <1>2, <2>1, <2>2, <2>3, <2>4
<1>3. ASSUME NEW l \in Lock, Acquire(l) \/ Release(l)
      PROVE  AbstractStep
  BY <1>3, TryAcquireRefines, ReleaseRefines DEF Acquire
<1>4. ASSUME NEW c \in Condition, NEW l \in Lock,
             Wait(c, l) \/ Signal(c, l) \/ Broadcast(c, l)
      PROVE  AbstractStep
  <2>1. CASE Wait(c, l)
    BY <2>1, WaitRefines
  <2>2. CASE Signal(c, l)
    BY <2>2, WakeConditionRefines DEF Signal
  <2>3. CASE Broadcast(c, l)
    BY <2>3, QuietRefines DEF Broadcast
  <2>4. QED
    BY <1>4, <2>1, <2>2, <2>3
<1>5. CASE PContinue
  BY <1>5, TryPRefines DEF PContinue
<1>6. CASE AcquireContinue
  BY <1>6, TryAcquireRefines DEF AcquireContinue
<1>7. CASE BroadcastContinue
  BY <1>7, BroadcastContinueRefines
<1>8. QED
  BY <1>1, <1>2, <1>3, <1>4, <1>5, <1>6, <1>7 DEF Next

(* The semaphores, locks and conditions of synch.cc, with their sleeping
   and waking on the scheduler's lists, with barging threads and device
   interrupts, implement atomic operations.                                *)
THEOREM SynchImplementsSpec == Spec => ImplementsSynchSpec
<1>1. Init => Abstract!SynchInit
  BY Distinct, SynchAssumption DEF Init, SynchInit, Abstract!SynchInit
<1>2. SynchInv /\ [Next]_vars => [Abstract!SynchNext]_(Abstract!synchVars)
  BY StepRefines DEF AbstractStep, Stutter, Abstract!synchVars, Values, Queues
<1>3. QED
  BY <1>1, <1>2, SynchInvariant, PTL DEF Spec, ImplementsSynchSpec, Abstract!SynchAtomic
=============================================================================
