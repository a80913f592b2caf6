------------------------ MODULE SynchSemaphoreProofs ------------------------
(***************************************************************************)
(* The inductive invariant of module Synch, what a frame on a kernel stack *)
(* can be, and that it is kept by the steps of module Threads (new Thread, *)
(* Fork, Yield, Run, Finish, Halt), by going to sleep in P, by taking the  *)
(* value of a semaphore and by waking a sleeper: the first part of the     *)
(* proofs about Synch.                                                     *)
(***************************************************************************)
EXTENDS ThreadsProofs, Synch

(* A leaf that names no prover is for SMT, twice, and then for Zenon. *)
USE SMTT(10), Z3T(20), Zenon

(* The inductive invariant. *)
SynchInv ==
  /\ ThreadsInv
  /\ TypeOK
  /\ QueuesExact
  /\ FrameInv
  /\ MutualExclusion
  /\ NoLostWakeup

(* Each kind of frame with its routine and the object it sleeps on, which is
   never NULL.                                                             *)
LEMMA FrameKinds ==
  /\ NoFrame \in Frame /\ NoFrame.op = "none" /\ NoFrame.on = None
  /\ \A s \in Semaphore : InP(s) \in Frame /\ InP(s).op = "P" /\ InP(s).on = s
  /\ \A l \in Lock : InAcquire(l) \in Frame /\ InAcquire(l).op = "Acquire" /\ InAcquire(l).on = l
  /\ \A c \in Condition, l \in Lock :
       /\ InWait(c, l) \in Frame /\ InWait(c, l).op = "Wait" /\ InWait(c, l).on = c
       /\ InBroadcast(c, l) \in Frame /\ InBroadcast(c, l).op = "Broadcast"
       /\ InBroadcast(c, l).on = c
<1>1. NoFrame \in Frame /\ NoFrame.op = "none" /\ NoFrame.on = None
  BY DEF Frame, NoFrame
<1>2. \A s \in Semaphore : InP(s) \in Frame /\ InP(s).op = "P" /\ InP(s).on = s
  BY DEF Frame, InP
<1>3. \A l \in Lock : InAcquire(l) \in Frame /\ InAcquire(l).op = "Acquire" /\ InAcquire(l).on = l
  BY DEF Frame, InAcquire
<1>4. \A c \in Condition, l \in Lock :
        InWait(c, l) \in Frame /\ InWait(c, l).op = "Wait" /\ InWait(c, l).on = c
  BY DEF Frame, InWait
<1>5. \A c \in Condition, l \in Lock :
        /\ InBroadcast(c, l) \in Frame /\ InBroadcast(c, l).op = "Broadcast"
        /\ InBroadcast(c, l).on = c
  BY DEF Frame, InBroadcast
<1>6. QED
  BY <1>1, <1>2, <1>3, <1>4, <1>5

(* Broadcast remembers its lock. *)
LEMMA BroadcastLock ==
  ASSUME NEW c \in Condition, NEW l \in Lock
  PROVE  InBroadcast(c, l).lock = l
BY DEF InBroadcast

(* NULL is no semaphore, lock or condition. *)
LEMMA NoneIsNoObject == None \notin Waitable
BY SynchAssumption DEF Waitable, Counted

(* A frame other than the empty one is of a routine that sleeps, or of
   Broadcast, and names an object.                                         *)
LEMMA FrameCases ==
  ASSUME NEW fr \in Frame, fr # NoFrame
  PROVE  fr.op \in {"P", "Acquire", "Wait", "Broadcast"} /\ fr.on \in Waitable
<1>1. CASE \E s \in Semaphore : fr = InP(s)
  BY <1>1, FrameKinds DEF Waitable, Counted
<1>2. CASE \E l \in Lock : fr = InAcquire(l)
  BY <1>2, FrameKinds DEF Waitable, Counted
<1>3. CASE \E c \in Condition, l \in Lock : fr = InWait(c, l)
  BY <1>3, FrameKinds DEF Waitable
<1>4. CASE \E c \in Condition, l \in Lock : fr = InBroadcast(c, l)
  BY <1>4, FrameKinds DEF Waitable
<1>5. QED
  BY <1>1, <1>2, <1>3, <1>4 DEF Frame

(* What every routine of synch.cc does to the scheduler's state: other
   threads are left alone or woken, and the current thread goes to sleep, is
   back in its own code, or is not touched.                                *)
LEMMA RoutineKeepsThreadsInv ==
  ASSUME ThreadsInv, Untouched,
         status' \in [Thread -> ThreadStatus],
         pc' \in [Thread -> ResumePoint],
         readyList' \in Seq(Thread),
         NoDuplicates(readyList'),
         \A t \in Thread : t \in Items(readyList') <=> status'[t] = "READY",
         ReadyListSorted',
         mode # "Aborted",
         mode' \in {"SystemMode", "IdleMode"},
         \A t \in Thread : t # currentThread =>
           /\ pc'[t] = pc[t]
           /\ \/ status'[t] = status[t]
              \/ status[t] = "BLOCKED" /\ status'[t] = "READY" /\ pc[t] = "Sleep",
         \/ /\ status[currentThread] = "RUNNING" /\ status'[currentThread] = "RUNNING"
            /\ pc'[currentThread] = "func"
         \/ /\ status'[currentThread] = "BLOCKED" /\ pc'[currentThread] = "Sleep"
            /\ level' = "IntOff" /\ status[currentThread] = "RUNNING"
            /\ pc[currentThread] # "Finish"
         \/ /\ level' = level /\ level = "IntOff" /\ pc'[currentThread] = pc[currentThread]
            /\ status[currentThread] # "RUNNING"
            /\ \/ status'[currentThread] = status[currentThread]
               \/ /\ status[currentThread] = "BLOCKED" /\ status'[currentThread] = "READY"
                  /\ pc[currentThread] = "Sleep",
         level' \in {"IntOn", "IntOff"}
  PROVE  ThreadsInv'
<1> USE DEF ThreadsInv
<1>1. /\ UNCHANGED <<priority, threadId, threadIds, currentThread, threadToBeDestroyed>>
      /\ currentThread \in Thread
  BY DEF Untouched, ThreadsTypeOK
<1>2. ThreadsTypeOK'
  BY <1>1 DEF ThreadsTypeOK
<1>3. SchedulerInv'
  <2>1. \A t \in Thread : status'[t] = "READY" => pc'[t] \in {"ThreadRoot", "Yield", "Sleep"}
    BY <1>1 DEF SchedulerInv
  <2>2. \A t \in Thread : status'[t] = "RUNNING" => t = currentThread
    BY <1>1 DEF SchedulerInv
  <2>3. level' = "IntOn" => status'[currentThread] = "RUNNING" /\ pc'[currentThread] = "func"
    OBVIOUS
  <2>4. QED
    BY <1>1, <2>1, <2>2, <2>3 DEF SchedulerInv
<1>4. CarcassInv'
  <2>1. \A t \in Thread : status'[t] = "FREE" <=> status[t] = "FREE"
    BY <1>1 DEF CarcassInv, SchedulerInv
  <2>2. \A t \in Thread : status[t] # "FREE" /\ pc[t] = "Finish" =>
                            status'[t] = "BLOCKED" /\ pc'[t] = "Finish"
    BY <1>1 DEF CarcassInv, Finished
  <2>3. \A t \in Thread : status'[t] # "FREE" /\ pc'[t] = "Finish" => status'[t] = "BLOCKED"
    BY <1>1, <2>1, <2>2
  <2>4. \A t \in Thread : status'[t] \in {"FREE", "JUST_CREATED"} => pc'[t] = "none"
    BY <1>1 DEF CarcassInv
  <2>5. status'[currentThread] \notin {"FREE", "JUST_CREATED"}
    BY <1>1 DEF CarcassInv
  <2>6. threadToBeDestroyed # None =>
          status'[threadToBeDestroyed] # "FREE" /\ pc'[threadToBeDestroyed] = "Finish"
    BY <2>1, <2>2 DEF CarcassInv, Finished, ThreadsTypeOK
  <2>7. QED
    BY <1>1, <2>2, <2>3, <2>4, <2>5, <2>6 DEF CarcassInv, Finished
<1>5. ThreadIdsExact'
  <2>1. \A t \in Thread : status'[t] = "FREE" <=> status[t] = "FREE"
    BY <1>1 DEF CarcassInv
  <2>2. QED
    BY <1>1, <2>1 DEF ThreadIdsExact
<1>6. QED
  BY <1>2, <1>3, <1>4, <1>5

(* A step of module Threads leaves every sleeper where it is. *)
LEMMA ThreadStepKeepsInv ==
  ASSUME SynchInv, ThreadsInv', UNCHANGED synchVars,
         \A t \in Thread : frame[t] # NoFrame =>
           (status'[t] = "BLOCKED" <=> status[t] = "BLOCKED") /\ pc'[t] = pc[t],
         \A t \in Thread : frame[t] = NoFrame =>
           (status'[t] = "BLOCKED" => pc'[t] = "Finish") /\ pc'[t] # "Sleep",
         \A t \in Thread : frame[t].op # "Broadcast",
         level' = "IntOn" => frame[currentThread'] = NoFrame,
         mode' = "Halted" => readyList' = <<>> /\ status'[currentThread'] # "RUNNING"
  PROVE  SynchInv'
<1> USE DEF SynchInv
<1>1. /\ UNCHANGED <<value, queue, owner, frame, held, pending>>
      /\ frame \in [Thread -> Frame]
  BY DEF synchVars, TypeOK
<1>2. TypeOK'
  BY <1>1 DEF TypeOK, ThreadsInv
<1>3. \A t \in Thread : frame[t] # NoFrame =>
        frame[t].op \in {"P", "Acquire", "Wait"} /\ frame[t].on \in Waitable
  BY <1>1, FrameCases
<1>4. \A t \in Thread : frame[t] = NoFrame =>
        frame[t].op = "none" /\ frame[t].on \notin Waitable
  BY FrameKinds, NoneIsNoObject
<1>5. QueuesExact'
  <2>1. \A o \in Waitable, t \in Thread :
          t \in Items(queue[o]) <=> status'[t] = "BLOCKED" /\ frame[t].on = o
    BY <1>3, <1>4 DEF QueuesExact
  <2>2. ASSUME NEW t \in Thread, status'[t] = "BLOCKED"
        PROVE  \/ pc'[t] = "Finish" /\ frame[t] = NoFrame
               \/ pc'[t] = "Sleep" /\ frame[t].op \in {"P", "Acquire", "Wait"}
    BY <2>2, <1>3 DEF QueuesExact
  <2>3. QED
    BY <1>1, <2>1, <2>2 DEF QueuesExact
<1>6. FrameInv'
  <2>1. \A t \in Thread : pc'[t] = "Sleep" <=> frame[t].op \in {"P", "Acquire", "Wait"}
    BY <1>3, <1>4 DEF FrameInv
  <2>2. QED
    BY <1>1, <2>1 DEF FrameInv
<1>7. MutualExclusion'
  BY <1>1 DEF MutualExclusion
<1>8. NoLostWakeup'
  <2>1. ASSUME NEW s \in Counted PROVE WokenOn(s)' = WokenOn(s)
    BY <1>1, <1>3, <1>4 DEF WokenOn, Waitable
  <2>2. QED
    BY <1>1, <2>1 DEF NoLostWakeup
<1>9. QED
  BY <1>2, <1>5, <1>6, <1>7, <1>8

(* While the current thread runs with interrupts on, no thread is inside
   Broadcast and the current one is inside no routine.                     *)
LEMMA InFuncFrames ==
  ASSUME SynchInv, level = "IntOn" \/ status[currentThread] # "RUNNING"
  PROVE  \A t \in Thread : frame[t].op # "Broadcast"
BY FrameKinds DEF SynchInv, FrameInv

(* queue->Remove() and ReadyToRun take one sleeper from the queue to the
   ready list, or do nothing when the queue is empty.                      *)
LEMMA WakeEffect ==
  ASSUME SynchInv, NEW o \in Waitable
  PROVE  \/ /\ queue[o] = <<>>
            /\ StatusAfterWake(o) = status
            /\ ReadyAfterWake(o) = readyList
            /\ QueueAfterWake(o) = queue
         \/ /\ queue[o] # <<>>
            /\ \E h \in Thread :
                 /\ status[h] = "BLOCKED" /\ pc[h] = "Sleep"
                 /\ frame[h].on = o /\ frame[h].op \in {"P", "Acquire", "Wait"}
                 /\ StatusAfterWake(o) = [status EXCEPT ![h] = "READY"]
                 /\ ReadyAfterWake(o) \in Seq(Thread)
                 /\ Items(ReadyAfterWake(o)) = Items(readyList) \cup {h}
                 /\ NoDuplicates(ReadyAfterWake(o))
                 /\ SCHED_PRIORITY => Ordered(ReadyAfterWake(o))
                 /\ \E tl \in Seq(Thread) :
                      /\ QueueAfterWake(o) = [queue EXCEPT ![o] = tl]
                      /\ NoDuplicates(tl)
                      /\ Items(tl) = Items(queue[o]) \ {h}
<1> USE DEF SynchInv, ThreadsInv
<1>1. CASE queue[o] = <<>>
  BY <1>1 DEF StatusAfterWake, ReadyAfterWake, QueueAfterWake
<1>2. CASE queue[o] # <<>>
  <2> DEFINE h == Head(queue[o])
             tl == Tail(queue[o])
             rl == ReadyToRun(readyList, h)
  <2>1. /\ StatusAfterWake(o) = [status EXCEPT ![h] = "READY"]
        /\ ReadyAfterWake(o) = rl
        /\ QueueAfterWake(o) = [queue EXCEPT ![o] = tl]
    BY <1>2 DEF StatusAfterWake, ReadyAfterWake, QueueAfterWake, TypeOK
  <2>2. queue[o] \in Seq(Thread) /\ NoDuplicates(queue[o])
    BY DEF TypeOK, QueuesExact
  <2>3. /\ h \in Thread /\ h \in Items(queue[o])
        /\ tl \in Seq(Thread)
        /\ NoDuplicates(tl)
        /\ Items(queue[o]) = Items(tl) \cup {h} /\ h \notin Items(tl)
    BY <1>2, <2>2, RemoveItems
  <2>4. /\ status[h] = "BLOCKED" /\ frame[h].on = o
        /\ pc[h] = "Sleep" /\ frame[h].op \in {"P", "Acquire", "Wait"}
    BY <2>3, FrameKinds, NoneIsNoObject DEF QueuesExact
  <2>5. h \notin Items(readyList)
    BY <2>3, <2>4 DEF SchedulerInv
  <2>6. /\ rl \in Seq(Thread)
        /\ Items(rl) = Items(readyList) \cup {h}
        /\ NoDuplicates(rl)
        /\ SCHED_PRIORITY => Ordered(rl)
    BY <2>3, <2>5, ReadyToRunItems, Zenon
       DEF ThreadsTypeOK, SchedulerInv, ReadyListSorted, Ordered
  <2>7. Items(tl) = Items(queue[o]) \ {h}
    BY <2>3
  <2> HIDE DEF h, tl, rl
  <2>8. QED
    BY <1>2, <2>1, <2>3, <2>4, <2>6, <2>7, Zenon
<1>3. QED
  BY <1>1, <1>2

(* Scheduler::Run deletes no sleeper and leaves every sleeper asleep. *)
LEMMA RunLeavesSleepers ==
  ASSUME SynchInv,
         NEW next \in Thread,
         NEW st \in [Thread -> ThreadStatus],
         NEW at \in [Thread -> ResumePoint],
         Run(next, st, at),
         status[next] = "READY",
         \A t \in Thread : t # currentThread => st[t] = status[t] /\ at[t] = pc[t],
         \/ /\ frame[currentThread] = NoFrame
            /\ st[currentThread] = "READY" /\ at[currentThread] = "Yield"
         \/ st[currentThread] = status[currentThread] /\ at[currentThread] = pc[currentThread],
         \A t \in Thread : frame[t].op # "Broadcast"
  PROVE  /\ \A t \in Thread : frame[t] # NoFrame =>
              (status'[t] = "BLOCKED" <=> status[t] = "BLOCKED") /\ pc'[t] = pc[t]
         /\ \A t \in Thread : frame[t] = NoFrame =>
              (status'[t] = "BLOCKED" => pc'[t] = "Finish") /\ pc'[t] # "Sleep"
<1> USE DEF SynchInv
<1>1. \A t \in Thread : frame[t] # NoFrame => pc[t] = "Sleep"
  BY FrameCases, Zenon DEF TypeOK, FrameInv
<1>2. \A t \in Thread : frame[t] = NoFrame =>
        pc[t] # "Sleep" /\ (status[t] = "BLOCKED" => pc[t] = "Finish")
  BY FrameKinds DEF FrameInv, QueuesExact
<1>3. threadToBeDestroyed # None =>
        /\ threadToBeDestroyed \in Thread
        /\ pc[threadToBeDestroyed] = "Finish"
        /\ status[threadToBeDestroyed] = "BLOCKED"
  BY DEF ThreadsInv, ThreadsTypeOK, CarcassInv, Finished
<1>4. CASE pc[next] = "ThreadRoot" \/ threadToBeDestroyed = None
  <2>1. status' = [st EXCEPT ![next] = "RUNNING"] /\ pc' = at
    BY <1>4 DEF Run
  <2>2. QED
    BY <2>1, <1>1, <1>2
<1>5. CASE ~(pc[next] = "ThreadRoot" \/ threadToBeDestroyed = None)
  <2>1. /\ status' = [st EXCEPT ![next] = "RUNNING", ![threadToBeDestroyed] = "FREE"]
        /\ pc' = [at EXCEPT ![threadToBeDestroyed] = "none"]
    BY <1>5 DEF Run
  <2>2. QED
    BY <2>1, <1>1, <1>2, <1>3, <1>5
<1>6. QED
  BY <1>4, <1>5

(* Yield *)
LEMMA YieldKeepsSynchInv ==
  ASSUME SynchInv, Yield, UNCHANGED synchVars
  PROVE  SynchInv'
<1> USE DEF SynchInv
<1>1. /\ level = "IntOn" /\ mode' = "SystemMode"
      /\ currentThread \in Thread /\ status[currentThread] = "RUNNING"
      /\ frame[currentThread] = NoFrame
  BY DEF Yield, InFunc, FrameInv, ThreadsInv, ThreadsTypeOK
<1>2. \A t \in Thread : frame[t].op # "Broadcast"
  BY <1>1, InFuncFrames
<1>3. ThreadsInv'
  BY YieldKeepsInv
<1>4. CASE FindNextToRun.next = None
  <2>1. UNCHANGED <<status, pc, currentThread, level>>
    BY <1>4 DEF Yield
  <2>2. \A t \in Thread : frame[t] = NoFrame =>
          (status[t] = "BLOCKED" => pc[t] = "Finish") /\ pc[t] # "Sleep"
    BY FrameKinds DEF FrameInv, QueuesExact
  <2>3. QED
    BY <1>1, <1>2, <1>3, <2>1, <2>2, ThreadStepKeepsInv
<1>5. CASE FindNextToRun.next # None
  <2> DEFINE next == Head(readyList)
             st == [status EXCEPT ![currentThread] = "READY"]
             at == [pc EXCEPT ![currentThread] = "Yield"]
  <2>1. readyList # <<>> /\ FindNextToRun.next = next
    BY <1>5, FindNextItems
  <2>2. Run(next, st, at) /\ level' = "IntOff"
    BY <1>5, <2>1 DEF Yield
  <2>3. next \in Thread /\ status[next] = "READY"
    BY <2>1, ReadyHead
  <2>4. /\ st \in [Thread -> ThreadStatus] /\ at \in [Thread -> ResumePoint]
        /\ \A t \in Thread : t # currentThread => st[t] = status[t] /\ at[t] = pc[t]
        /\ st[currentThread] = "READY" /\ at[currentThread] = "Yield"
    BY <1>1 DEF ThreadsInv, ThreadsTypeOK, ThreadStatus, ResumePoint
  <2> HIDE DEF next, st, at
  <2>5. /\ \A t \in Thread : frame[t] # NoFrame =>
             (status'[t] = "BLOCKED" <=> status[t] = "BLOCKED") /\ pc'[t] = pc[t]
        /\ \A t \in Thread : frame[t] = NoFrame =>
             (status'[t] = "BLOCKED" => pc'[t] = "Finish") /\ pc'[t] # "Sleep"
    BY <1>1, <1>2, <2>2, <2>3, <2>4, RunLeavesSleepers
  <2>6. QED
    BY <1>1, <1>2, <1>3, <2>2, <2>5, ThreadStepKeepsInv
<1>6. QED
  BY <1>4, <1>5

(* The loop of Sleep. *)
LEMMA DispatchKeepsSynchInv ==
  ASSUME SynchInv, Dispatch, UNCHANGED synchVars
  PROVE  SynchInv'
<1> USE DEF SynchInv
<1>1. /\ level' = "IntOff" /\ mode' = "SystemMode"
      /\ status[currentThread] # "RUNNING"
      /\ readyList # <<>>
      /\ Run(Head(readyList), status, pc)
  BY DEF Dispatch, Sleeping
<1>2. \A t \in Thread : frame[t].op # "Broadcast"
  BY <1>1, InFuncFrames
<1>3. ThreadsInv'
  BY DispatchKeepsInv
<1>4. /\ Head(readyList) \in Thread /\ status[Head(readyList)] = "READY"
      /\ status \in [Thread -> ThreadStatus] /\ pc \in [Thread -> ResumePoint]
  BY <1>1, ReadyHead DEF ThreadsInv, ThreadsTypeOK
<1>5. /\ \A t \in Thread : frame[t] # NoFrame =>
           (status'[t] = "BLOCKED" <=> status[t] = "BLOCKED") /\ pc'[t] = pc[t]
      /\ \A t \in Thread : frame[t] = NoFrame =>
           (status'[t] = "BLOCKED" => pc'[t] = "Finish") /\ pc'[t] # "Sleep"
  BY <1>1, <1>2, <1>4, RunLeavesSleepers
<1>6. QED
  BY <1>1, <1>2, <1>3, <1>5, ThreadStepKeepsInv

(* new Thread, Fork, the end of Yield and ThreadRoot, Finish, and a halt. *)
LEMMA OtherThreadStepsKeepSynchInv ==
  ASSUME SynchInv, UNCHANGED synchVars,
         \/ \E t \in Thread, pri \in Pri : NewThread(t, pri)
         \/ \E t \in Thread : Fork(t)
         \/ Resume \/ FinishFree \/ HaltIdle
  PROVE  SynchInv'
<1> USE DEF SynchInv
<1>1. ThreadsInv'
  BY NewThreadKeepsInv, ForkKeepsInv, ResumeKeepsInv, FinishKeepsInv, HaltKeepsInv
     DEF FinishFree, HaltIdle
<1>2. \A t \in Thread : frame[t] = NoFrame =>
        (status[t] = "BLOCKED" => pc[t] = "Finish") /\ pc[t] # "Sleep"
  BY FrameKinds DEF FrameInv, QueuesExact
<1>3. /\ currentThread \in Thread
      /\ status \in [Thread -> ThreadStatus] /\ pc \in [Thread -> ResumePoint]
  BY DEF ThreadsInv, ThreadsTypeOK
<1>4. \A t \in Thread : frame[t] # NoFrame =>
        \/ pc[t] = "Sleep"
        \/ frame[t].op = "Broadcast" /\ t = currentThread /\ status[t] = "RUNNING" /\ pc[t] = "func"
  BY FrameCases DEF TypeOK, FrameInv
<1>5. \A t \in Thread : pc[t] = "Sleep" => status[t] \notin {"FREE", "JUST_CREATED"}
  BY DEF ThreadsInv, CarcassInv
<1>6. ASSUME NEW t \in Thread, NEW pri \in Pri, NewThread(t, pri)
      PROVE  SynchInv'
  <2>1. /\ level = "IntOn" /\ level' = level /\ mode' \in {"SystemMode", "Aborted"}
        /\ status' = [status EXCEPT ![t] = "JUST_CREATED"] /\ status[t] = "FREE"
        /\ UNCHANGED <<pc, currentThread>>
    BY <1>6 DEF NewThread, InFunc
  <2>2. \A u \in Thread : frame[u].op # "Broadcast"
    BY <2>1, InFuncFrames
  <2>3. frame[currentThread] = NoFrame
    BY <2>1 DEF FrameInv
  <2>4. QED
    BY <1>1, <1>2, <1>3, <2>1, <2>2, <2>3, ThreadStepKeepsInv, <1>4, <1>5
<1>7. ASSUME NEW t \in Thread, Fork(t)
      PROVE  SynchInv'
  <2>1. /\ level = "IntOn" /\ level' = level /\ mode = "SystemMode" /\ mode' = mode
        /\ status[t] = "JUST_CREATED"
        /\ status' = [status EXCEPT ![t] = "READY"]
        /\ pc' = [pc EXCEPT ![t] = "ThreadRoot"]
        /\ UNCHANGED currentThread
    BY <1>7 DEF Fork, InFunc
  <2>2. \A u \in Thread : frame[u].op # "Broadcast"
    BY <2>1, InFuncFrames
  <2>3. frame[currentThread] = NoFrame
    BY <2>1 DEF FrameInv
  <2>4. QED
    BY <1>1, <1>2, <1>3, <1>4, <1>5, <2>1, <2>2, <2>3, ThreadStepKeepsInv
<1>8. CASE Resume
  <2>1. /\ level' = "IntOn" /\ mode = "SystemMode" /\ mode' = mode
        /\ pc[currentThread] \in {"ThreadRoot", "Yield"}
        /\ pc' = [pc EXCEPT ![currentThread] = "func"]
        /\ status[currentThread] = "RUNNING"
        /\ UNCHANGED <<status, currentThread>>
    BY <1>8 DEF Resume, Resumed
  <2>2. frame[currentThread] = NoFrame /\ \A u \in Thread : frame[u].op # "Broadcast"
    BY <2>1, <1>3, <1>4, FrameKinds DEF FrameInv
  <2>3. QED
    BY <1>1, <1>2, <1>3, <1>4, <2>1, <2>2, ThreadStepKeepsInv
<1>9. CASE FinishFree
  <2>1. /\ level = "IntOn" /\ level' = "IntOff" /\ mode = "SystemMode" /\ mode' = mode
        /\ status' = [status EXCEPT ![currentThread] = "BLOCKED"]
        /\ pc' = [pc EXCEPT ![currentThread] = "Finish"]
    BY <1>9 DEF FinishFree, Finish, InFunc
  <2>2. \A u \in Thread : frame[u].op # "Broadcast"
    BY <2>1, InFuncFrames
  <2>3. frame[currentThread] = NoFrame
    BY <2>1 DEF FrameInv
  <2>4. QED
    BY <1>1, <1>2, <1>3, <1>4, <2>1, <2>2, <2>3, ThreadStepKeepsInv
<1>10. CASE HaltIdle
  <2>1. /\ level = "IntOff" /\ status[currentThread] # "RUNNING" /\ readyList = <<>>
        /\ UNCHANGED <<status, pc, readyList, currentThread, level>>
    BY <1>10 DEF HaltIdle, Halt, Sleeping
  <2>2. \A u \in Thread : frame[u].op # "Broadcast"
    BY <2>1, InFuncFrames
  <2>3. QED
    BY <1>1, <1>2, <2>1, <2>2, ThreadStepKeepsInv
<1>11. QED
  BY <1>6, <1>7, <1>8, <1>9, <1>10
-----------------------------------------------------------------------------
(* The loop of P when the value is zero: the current thread joins the queue
   and sleeps.                                                             *)
LEMMA SleepKeepsInv ==
  ASSUME SynchInv, NEW o \in Counted, NEW fr \in Frame,
         fr.on = o, fr.op \in {"P", "Acquire"},
         mode = "SystemMode", status[currentThread] = "RUNNING",
         frame[currentThread].op # "Broadcast",
         frame[currentThread].on \notin Counted \ {o},
         value[o] = 0,
         SleepOn(o, fr, status, readyList, queue),
         Untouched, UNCHANGED <<value, owner, held, pending, mode>>
  PROVE  SynchInv'
<1> USE DEF SynchInv
<1> DEFINE cur == currentThread
<1>1. /\ queue' = [queue EXCEPT ![o] = Append(queue[o], cur)]
      /\ frame' = [frame EXCEPT ![cur] = fr]
      /\ status' = [status EXCEPT ![cur] = "BLOCKED"]
      /\ pc' = [pc EXCEPT ![cur] = "Sleep"]
      /\ readyList' = readyList
      /\ level' = "IntOff"
      /\ UNCHANGED <<priority, threadId, threadIds, currentThread, threadToBeDestroyed>>
  BY DEF SleepOn, Untouched, TypeOK, Waitable
<1>2. /\ cur \in Thread
      /\ status \in [Thread -> ThreadStatus] /\ pc \in [Thread -> ResumePoint]
      /\ frame \in [Thread -> Frame] /\ queue \in [Waitable -> Seq(Thread)]
      /\ pc[cur] # "Finish"
      /\ o \in Waitable /\ fr # NoFrame
  <2>1. /\ cur \in Thread
        /\ status \in [Thread -> ThreadStatus] /\ pc \in [Thread -> ResumePoint]
        /\ frame \in [Thread -> Frame] /\ queue \in [Waitable -> Seq(Thread)]
        /\ o \in Waitable
    BY DEF TypeOK, ThreadsTypeOK, ThreadsInv, Waitable
  <2>2. pc[cur] # "Finish"
    BY DEF ThreadsTypeOK, ThreadsInv, CarcassInv, Finished
  <2>3. fr # NoFrame
    BY FrameKinds
  <2>4. QED
    BY <2>1, <2>2, <2>3
<1> HIDE DEF cur
<1>3. /\ status' \in [Thread -> ThreadStatus] /\ pc' \in [Thread -> ResumePoint]
      /\ status'[cur] = "BLOCKED" /\ pc'[cur] = "Sleep" /\ frame'[cur] = fr
      /\ \A t \in Thread : t # cur => /\ status'[t] = status[t] /\ pc'[t] = pc[t]
                                      /\ frame'[t] = frame[t]
  BY <1>1, <1>2 DEF ThreadStatus, ResumePoint
<1>4. ThreadsInv'
  <2>1. \A t \in Thread : t \in Items(readyList') <=> status'[t] = "READY"
    BY <1>1, <1>2, <1>3 DEF ThreadsInv, SchedulerInv, cur
  <2>2. readyList' \in Seq(Thread) /\ NoDuplicates(readyList') /\ ReadyListSorted'
    BY <1>1 DEF ThreadsInv, ThreadsTypeOK, SchedulerInv, ReadyListSorted
  <2>3. QED
    BY <1>1, <1>2, <1>3, <2>1, <2>2, RoutineKeepsThreadsInv DEF cur
<1>5. /\ Append(queue[o], cur) \in Seq(Thread)
      /\ Items(Append(queue[o], cur)) = Items(queue[o]) \cup {cur}
      /\ NoDuplicates(Append(queue[o], cur))
  <2>1. cur \notin Items(queue[o]) /\ NoDuplicates(queue[o]) /\ queue[o] \in Seq(Thread)
    BY <1>2 DEF QueuesExact, cur
  <2>2. QED
    BY <1>2, <2>1, AppendItems
<1>6. TypeOK'
  BY <1>1, <1>2, <1>4, <1>5 DEF TypeOK, ThreadsInv
<1>7. QueuesExact'
  <2>1. \A q \in Waitable : NoDuplicates(queue'[q])
    BY <1>1, <1>2, <1>5, SMTT(30) DEF QueuesExact
  <2>2. ASSUME NEW q \in Waitable, NEW t \in Thread
        PROVE  t \in Items(queue'[q]) <=> status'[t] = "BLOCKED" /\ frame'[t].on = q
    <3>1. t \in Items(queue[q]) <=> status[t] = "BLOCKED" /\ frame[t].on = q
      BY DEF QueuesExact
    <3>2. CASE q = o
      BY <3>1, <3>2, <1>1, <1>2, <1>3, <1>5
    <3>3. CASE q # o
      BY <3>1, <3>3, <1>1, <1>2, <1>3 DEF cur
    <3>4. QED
      BY <3>2, <3>3, Zenon
  <2>3. ASSUME NEW t \in Thread, status'[t] = "BLOCKED"
        PROVE  \/ pc'[t] = "Finish" /\ frame'[t] = NoFrame
               \/ pc'[t] = "Sleep" /\ frame'[t].op \in {"P", "Acquire", "Wait"}
    BY <2>3, <1>3 DEF QueuesExact
  <2>4. QED
    BY <2>1, <2>2, <2>3 DEF QueuesExact
<1>8. FrameInv'
  BY <1>1, <1>3 DEF FrameInv, cur
<1>9. MutualExclusion'
  BY <1>1, SMTT(30) DEF MutualExclusion
<1>10. NoLostWakeup'
  <2> SUFFICES ASSUME NEW s \in Counted, queue'[s] # <<>>
               PROVE  value'[s] <= Cardinality(WokenOn(s)')
    BY DEF NoLostWakeup
  <2>1. CASE s = o
    <3>1. IsFiniteSet(WokenOn(s)')
      BY ThreadsAssumption, FS_Subset DEF WokenOn
    <3>2. QED
      BY <2>1, <3>1, FS_CardinalityType
  <2>2. CASE s # o
    <3>1. WokenOn(s)' = WokenOn(s)
      BY <2>2, <1>3 DEF WokenOn, cur
    <3>2. queue'[s] = queue[s]
      BY <2>2, <1>1, <1>2 DEF Waitable
    <3>3. QED
      BY <3>1, <3>2 DEF NoLostWakeup
  <2>3. QED
    BY <2>1, <2>2
<1>11. QED
  BY <1>4, <1>6, <1>7, <1>8, <1>9, <1>10


(* The end of P when the value is positive: the current thread takes one unit
   and is back in its own code; the lock's owner changes with its value.   *)
LEMMA TakeKeepsInv ==
  ASSUME SynchInv, NEW o \in Counted,
         mode = "SystemMode", status[currentThread] = "RUNNING",
         frame[currentThread].op # "Broadcast",
         frame[currentThread].on \notin Counted \ {o},
         value[o] > 0,
         value' = [value EXCEPT ![o] = @ - 1],
         Return,
         Untouched, UNCHANGED <<queue, status, readyList, pending, mode>>,
         \/ o \in Semaphore /\ UNCHANGED <<owner, held>>
         \/ /\ o \in Lock
            /\ owner' = [owner EXCEPT ![o] = currentThread]
            /\ held' = [held EXCEPT ![currentThread] = @ \cup {o}]
  PROVE  SynchInv'
<1> USE DEF SynchInv
<1> DEFINE cur == currentThread
<1>1. /\ frame' = [frame EXCEPT ![cur] = NoFrame]
      /\ pc' = [pc EXCEPT ![cur] = "func"]
      /\ level' = "IntOn"
      /\ UNCHANGED <<priority, threadId, threadIds, currentThread, threadToBeDestroyed>>
  BY DEF Return, Untouched
<1>2. /\ cur \in Thread
      /\ status \in [Thread -> ThreadStatus] /\ pc \in [Thread -> ResumePoint]
      /\ frame \in [Thread -> Frame] /\ value \in [Counted -> Nat]
      /\ owner \in [Lock -> Thread \cup {None}] /\ held \in [Thread -> SUBSET Lock]
      /\ o \in Waitable
  BY DEF TypeOK, ThreadsTypeOK, ThreadsInv, Waitable
<1> HIDE DEF cur
<1>3. /\ pc' \in [Thread -> ResumePoint]
      /\ pc'[cur] = "func" /\ frame'[cur] = NoFrame
      /\ \A t \in Thread : t # cur => pc'[t] = pc[t] /\ frame'[t] = frame[t]
      /\ value' \in [Counted -> Nat] /\ value'[o] = value[o] - 1
      /\ \A s \in Counted : s # o => value'[s] = value[s]
  BY <1>1, <1>2 DEF ResumePoint
<1>4. ThreadsInv'
  <2>1. \A t \in Thread : t \in Items(readyList') <=> status'[t] = "READY"
    BY Zenon DEF ThreadsInv, SchedulerInv
  <2>2. readyList' \in Seq(Thread) /\ NoDuplicates(readyList') /\ ReadyListSorted'
    BY <1>1, Zenon DEF ThreadsInv, ThreadsTypeOK, SchedulerInv, ReadyListSorted
  <2>3. QED
    BY <1>1, <1>2, <1>3, <2>1, <2>2, RoutineKeepsThreadsInv, Zenon DEF cur
<1>5. TypeOK'
  <2>1. owner' \in [Lock -> Thread \cup {None}] /\ held' \in [Thread -> SUBSET Lock]
    BY <1>2 DEF cur
  <2>2. frame' \in [Thread -> Frame]
    BY <1>1, <1>2, FrameKinds
  <2>3. queue' \in [Waitable -> Seq(Thread)] /\ pending' \in [Semaphore -> Nat]
    BY Zenon DEF TypeOK
  <2>4. ThreadsTypeOK'
    BY <1>4, Zenon DEF ThreadsInv
  <2>5. QED
    BY <1>3, <2>1, <2>2, <2>3, <2>4, Zenon DEF TypeOK
<1>6. QueuesExact'
  <2>1. \A q \in Waitable, t \in Thread :
          t \in Items(queue[q]) <=> status[t] = "BLOCKED" /\ frame'[t].on = q
    BY <1>2, <1>3 DEF QueuesExact, cur
  <2>2. \A t \in Thread : status[t] = "BLOCKED" => pc'[t] = pc[t] /\ frame'[t] = frame[t]
    BY <1>3 DEF cur
  <2>3. QED
    BY <2>1, <2>2 DEF QueuesExact
<1>7. FrameInv'
  <2>1. level' = "IntOn" => frame'[currentThread'] = NoFrame
    BY <1>1, <1>3 DEF cur
  <2>2. \A t \in Thread : pc'[t] = "Sleep" <=> frame'[t].op \in {"P", "Acquire", "Wait"}
    <3>1. NoFrame.op = "none"
      BY FrameKinds
    <3>2. \A t \in Thread : pc[t] = "Sleep" <=> frame[t].op \in {"P", "Acquire", "Wait"}
      BY DEF FrameInv
    <3>3. QED
      BY <1>3, <3>1, <3>2
  <2>3. \A t \in Thread : frame'[t].op # "Broadcast"
    BY <1>3, FrameKinds DEF FrameInv, cur
  <2>4. mode' # "Halted"
    OBVIOUS
  <2>5. QED
    BY <2>1, <2>2, <2>3, <2>4, Zenon DEF FrameInv
<1>8. MutualExclusion'
  <2>1. CASE o \in Semaphore /\ UNCHANGED <<owner, held>>
    <3>1. \A l \in Lock : value'[l] = value[l]
      BY <2>1, <1>3, SynchAssumption DEF Counted
    <3>2. QED
      BY <2>1, <3>1 DEF MutualExclusion
  <2>2. CASE /\ o \in Lock
             /\ owner' = [owner EXCEPT ![o] = cur]
             /\ held' = [held EXCEPT ![cur] = @ \cup {o}]
    <3>1. owner[o] = None /\ value[o] = 1
      BY <2>2, <1>2 DEF MutualExclusion
    <3>2. \A t \in Thread : o \notin held[t]
      BY <3>1, <2>2, ThreadsAssumption, Zenon DEF MutualExclusion
    <3>3. \A t \in Thread : \A l \in held'[t] : owner'[l] = t
      BY <2>2, <1>2, <3>2 DEF MutualExclusion
    <3>4. \A t, u \in Thread : t # u => held'[t] \cap held'[u] = {}
      BY <3>3
    <3>5. \A l \in Lock : value'[l] = IF owner'[l] = None THEN 1 ELSE 0
      <4> SUFFICES ASSUME NEW l \in Lock
                   PROVE  value'[l] = IF owner'[l] = None THEN 1 ELSE 0
        OBVIOUS
      <4>1. CASE l = o
        BY <4>1, <2>2, <1>2, <1>3, <3>1, ThreadsAssumption
      <4>2. CASE l # o
        BY <4>2, <2>2, <1>2, <1>3 DEF MutualExclusion, Counted
      <4>3. QED
        BY <4>1, <4>2
    <3>6. QED
      BY <3>3, <3>4, <3>5 DEF MutualExclusion
  <2>3. QED
    BY <2>1, <2>2 DEF cur
<1>9. NoLostWakeup'
  <2> SUFFICES ASSUME NEW s \in Counted, queue'[s] # <<>>
               PROVE  value'[s] <= Cardinality(WokenOn(s)')
    BY Zenon DEF NoLostWakeup
  <2>1. value[s] <= Cardinality(WokenOn(s))
    BY DEF NoLostWakeup
  <2>2. IsFiniteSet(WokenOn(s)) /\ Cardinality(WokenOn(s)) \in Nat
    BY ThreadsAssumption, FS_Subset, FS_CardinalityType, Zenon DEF WokenOn
  <2>3. s # None
    BY NoneIsNoObject DEF Waitable
  <2>4. CASE s = o
    <3>1. WokenOn(s)' = WokenOn(s) \ {cur}
      BY <1>2, <1>3, <2>3, FrameKinds DEF WokenOn
    <3>2. Cardinality(WokenOn(s) \ {cur}) =
            IF cur \in WokenOn(s) THEN Cardinality(WokenOn(s)) - 1 ELSE Cardinality(WokenOn(s))
      BY <2>2, FS_RemoveElement, Zenon
    <3>3. value[s] \in Nat
      BY <1>2
    <3>4. value'[s] = value[s] - 1 /\ value[s] > 0
      BY <1>3, <2>4, Zenon
    <3>5. QED
      BY <2>1, <2>2, <3>1, <3>2, <3>3, <3>4, SMTT(30)
  <2>5. CASE s # o
    <3>1. WokenOn(s)' = WokenOn(s)
      BY <2>5, <2>3, <1>2, <1>3, FrameKinds DEF WokenOn, cur
    <3>2. QED
      BY <2>1, <2>5, <3>1, <1>3, Zenon
  <2>6. QED
    BY <2>4, <2>5, Zenon
<1>10. QED
  BY <1>4, <1>5, <1>6, <1>7, <1>8, <1>9

(* Waking one sleeper of o, inside V, Signal or Broadcast, or in a device's
   interrupt handler, moves that thread and no other.                      *)
LEMMA WakeKeeps ==
  ASSUME SynchInv, NEW o \in Waitable, WakeOne(o),
         Untouched, UNCHANGED <<frame, pc, level>>,
         mode \in {"SystemMode", "IdleMode"}, mode' \in {"SystemMode", "IdleMode"},
         \/ status[currentThread] = "RUNNING" /\ pc[currentThread] = "func"
         \/ status[currentThread] # "RUNNING" /\ level = "IntOff",
         UNCHANGED held \/ \A t \in Thread : frame[t].op # "Broadcast"
  PROVE  /\ ThreadsInv'
         /\ queue' \in [Waitable -> Seq(Thread)]
         /\ QueuesExact'
         /\ FrameInv'
         /\ \A s \in Waitable : s # o => queue'[s] = queue[s] /\ WokenOn(s)' = WokenOn(s)
         /\ queue[o] = <<>> => queue' = queue /\ WokenOn(o)' = WokenOn(o)
         /\ queue[o] # <<>> =>
              \E h \in Thread : h \notin WokenOn(o) /\ WokenOn(o)' = WokenOn(o) \cup {h}
<1> USE DEF SynchInv
<1>1. /\ status' = StatusAfterWake(o)
      /\ readyList' = ReadyAfterWake(o)
      /\ queue' = QueueAfterWake(o)
      /\ UNCHANGED <<priority, threadId, threadIds, currentThread, threadToBeDestroyed>>
  BY Zenon DEF WakeOne, Untouched
<1>2. /\ currentThread \in Thread
      /\ status \in [Thread -> ThreadStatus] /\ pc \in [Thread -> ResumePoint]
      /\ frame \in [Thread -> Frame] /\ queue \in [Waitable -> Seq(Thread)]
      /\ level \in {"IntOn", "IntOff"}
      /\ readyList \in Seq(Thread) /\ NoDuplicates(readyList) /\ ReadyListSorted
      /\ \A t \in Thread : t \in Items(readyList) <=> status[t] = "READY"
  BY Zenon DEF TypeOK, ThreadsTypeOK, ThreadsInv, SchedulerInv
<1>3. CASE queue[o] = <<>>
  <2>1. UNCHANGED <<status, readyList, queue>>
    BY <1>1, <1>3, WakeEffect, Zenon
  <2>2. ReadyListSorted'
    BY <1>1, <1>2, <2>1, Zenon DEF ReadyListSorted
  <2>3. ThreadsInv'
    BY <1>1, <1>2, <2>1, <2>2, RoutineKeepsThreadsInv, SMTT(30)
  <2>4. QueuesExact' /\ FrameInv'
    <3>1. QueuesExact'
      BY <2>1, Zenon DEF QueuesExact
    <3>2. \A t \in Thread : frame[t].op = "Broadcast" => held'[t] = held[t]
      BY Zenon
    <3>3. FrameInv'
      BY <1>1, <2>1, <3>2, Zenon DEF FrameInv
    <3>4. QED
      BY <3>1, <3>3, Zenon
  <2>5. \A s \in Waitable : WokenOn(s)' = WokenOn(s)
    BY <2>1 DEF WokenOn
  <2>6. QED
    BY <1>2, <1>3, <2>1, <2>3, <2>4, <2>5
<1>4. CASE queue[o] # <<>>
  <2>0. PICK h \in Thread :
          /\ status[h] = "BLOCKED" /\ pc[h] = "Sleep"
          /\ frame[h].on = o /\ frame[h].op \in {"P", "Acquire", "Wait"}
          /\ StatusAfterWake(o) = [status EXCEPT ![h] = "READY"]
          /\ ReadyAfterWake(o) \in Seq(Thread)
          /\ Items(ReadyAfterWake(o)) = Items(readyList) \cup {h}
          /\ NoDuplicates(ReadyAfterWake(o))
          /\ SCHED_PRIORITY => Ordered(ReadyAfterWake(o))
          /\ \E tl \in Seq(Thread) :
               /\ QueueAfterWake(o) = [queue EXCEPT ![o] = tl]
               /\ NoDuplicates(tl)
               /\ Items(tl) = Items(queue[o]) \ {h}
    BY <1>4, WakeEffect, Zenon
  <2>1. /\ status[h] = "BLOCKED" /\ pc[h] = "Sleep"
        /\ frame[h].on = o /\ frame[h].op \in {"P", "Acquire", "Wait"}
        /\ status' = [status EXCEPT ![h] = "READY"]
        /\ readyList' \in Seq(Thread)
        /\ Items(readyList') = Items(readyList) \cup {h}
        /\ NoDuplicates(readyList')
        /\ SCHED_PRIORITY => Ordered(readyList')
    BY <1>1, <2>0
  <2>2. PICK tl \in Seq(Thread) :
          /\ queue' = [queue EXCEPT ![o] = tl]
          /\ NoDuplicates(tl)
          /\ Items(tl) = Items(queue[o]) \ {h}
    BY <1>1, <2>0, Zenon
  <2>3. /\ status' \in [Thread -> ThreadStatus]
        /\ status'[h] = "READY"
        /\ \A t \in Thread : t # h => status'[t] = status[t]
    BY <1>2, <2>1 DEF ThreadStatus
  <2>4. ReadyListSorted'
    BY <1>1, <2>1, Zenon DEF ReadyListSorted, Ordered
  <2>5. \A t \in Thread : t \in Items(readyList') <=> status'[t] = "READY"
    BY <1>2, <2>1, <2>3, Zenon
  <2>6. ThreadsInv'
    <3>1. ThreadsInv /\ mode # "Aborted"
      OBVIOUS
    <3>2. /\ pc' \in [Thread -> ResumePoint] /\ UNCHANGED pc
          /\ level' \in {"IntOn", "IntOff"} /\ level' = level
      BY <1>2
    <3>3. \A t \in Thread : t # currentThread =>
            /\ pc'[t] = pc[t]
            /\ \/ status'[t] = status[t]
               \/ status[t] = "BLOCKED" /\ status'[t] = "READY" /\ pc[t] = "Sleep"
      BY <2>1, <2>3, <3>2
    <3>4. CASE status[currentThread] = "RUNNING" /\ pc[currentThread] = "func"
      <4>1. status'[currentThread] = "RUNNING" /\ pc'[currentThread] = "func"
        BY <1>2, <2>1, <2>3, <3>2, <3>4, Zenon
      <4>2. QED
        BY <2>1, <2>3, <2>4, <2>5, <3>1, <3>2, <3>3, <3>4, <4>1, RoutineKeepsThreadsInv, Zenon
    <3>5. CASE status[currentThread] # "RUNNING" /\ level = "IntOff"
      <4>1. \/ status'[currentThread] = status[currentThread]
            \/ /\ status[currentThread] = "BLOCKED" /\ status'[currentThread] = "READY"
               /\ pc[currentThread] = "Sleep"
        BY <1>2, <2>1, <2>3, Zenon
      <4>2. pc'[currentThread] = pc[currentThread]
        BY <3>2
      <4>3. QED
        BY <2>1, <2>3, <2>4, <2>5, <3>1, <3>2, <3>3, <3>5, <4>1, <4>2, RoutineKeepsThreadsInv, Zenon
    <3>6. QED
      BY <3>4, <3>5
  <2>7. queue' \in [Waitable -> Seq(Thread)] /\ queue'[o] = tl
    BY <1>2, <2>2
  <2>8. \A s \in Waitable : s # o => queue'[s] = queue[s]
    BY <1>2, <2>2
  <2>9. QueuesExact'
    <3>1. \A q \in Waitable : NoDuplicates(queue'[q])
      BY <2>2, <2>7, <2>8, Zenon DEF QueuesExact
    <3>2. ASSUME NEW q \in Waitable, NEW t \in Thread
          PROVE  t \in Items(queue'[q]) <=> status'[t] = "BLOCKED" /\ frame[t].on = q
      <4>1. t \in Items(queue[q]) <=> status[t] = "BLOCKED" /\ frame[t].on = q
        BY DEF QueuesExact
      <4>2. CASE q = o
        BY <4>1, <4>2, <2>2, <2>3, <2>7
      <4>3. CASE q # o
        BY <4>1, <4>3, <2>1, <2>3, <2>8
      <4>4. QED
        BY <4>2, <4>3
    <3>3. ASSUME NEW t \in Thread, status'[t] = "BLOCKED"
          PROVE  \/ pc'[t] = "Finish" /\ frame'[t] = NoFrame
                 \/ pc'[t] = "Sleep" /\ frame'[t].op \in {"P", "Acquire", "Wait"}
      <4>1. status[t] = "BLOCKED"
        BY <2>3, <3>3
      <4>2. QED
        BY <4>1 DEF QueuesExact
    <3>4. UNCHANGED frame
      OBVIOUS
    <3>5. QED
      BY <3>1, <3>2, <3>3, <3>4 DEF QueuesExact
  <2>10. FrameInv'
    <3>1. \A t \in Thread : frame[t].op = "Broadcast" =>
            /\ t = currentThread /\ status'[t] = "RUNNING" /\ pc[t] = "func"
            /\ frame[t].lock \in held'[t]
      BY <2>1, <2>3, Zenon DEF FrameInv
    <3>2. QED
      BY <1>1, <3>1 DEF FrameInv
  <2>11. \A s \in Waitable : s # o => WokenOn(s)' = WokenOn(s)
    BY <2>1, <2>3, Zenon DEF WokenOn
  <2>12. h \notin WokenOn(o) /\ WokenOn(o)' = WokenOn(o) \cup {h}
    BY <2>1, <2>3, Zenon DEF WokenOn
  <2>13. QED
    BY <1>4, <2>6, <2>7, <2>8, <2>9, <2>10, <2>11, <2>12, SMTT(30)
<1>5. QED
  BY <1>3, <1>4, Zenon
=============================================================================
