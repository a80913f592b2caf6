------------------------------ MODULE Threads -------------------------------
(***************************************************************************)
(* Kernel threads and their scheduler: threads/thread.cc,                  *)
(* threads/scheduler.cc and the thread part of threads/system.cc.          *)
(*                                                                         *)
(* Nachos runs on one simulated processor.  Kernel code with interrupts    *)
(* off is atomic, so an action is the code between two points where the    *)
(* processor can change hands.  Every context switch happens inside        *)
(* Scheduler::Run with interrupts off; the thread switched to continues    *)
(* from its own resume point, pc, still with interrupts off.               *)
(***************************************************************************)
EXTENDS NachosList, FiniteSets

CONSTANTS
  Thread,          \* addresses at which a Thread object can be allocated
  Main,            \* the thread Initialize() makes for main()
  None,            \* NULL
  maxThreadsCount, \* length of the threadIds table
  SCHED_PRIORITY,  \* the compile-time switch of scheduler.cc
  Pri,             \* the "pri" arguments that callers give the constructor
  Garbage          \* what an uninitialized "int priority" may hold

ASSUME ThreadsAssumption ==
  /\ IsFiniteSet(Thread)
  /\ Main \in Thread
  /\ None \notin Thread
  /\ maxThreadsCount \in Nat \ {0}
  /\ SCHED_PRIORITY \in BOOLEAN
  /\ Pri \subseteq Int
  /\ Garbage \subseteq Int

VARIABLES
  status,              \* Thread::status, "FREE" when no object is there
  priority,            \* Thread::priority
  threadId,            \* Thread::threadId
  pc,                  \* where the thread continues when it is dispatched
  threadIds,           \* the table of ids in use
  readyList,           \* Scheduler::readyList
  currentThread,
  threadToBeDestroyed,
  level,               \* Interrupt::level
  mode                 \* Interrupt::status, or how Nachos stopped

threadVars == <<status, priority, threadId, pc, threadIds, readyList,
                currentThread, threadToBeDestroyed, level, mode>>

ThreadStatus == {"FREE", "JUST_CREATED", "RUNNING", "READY", "BLOCKED"}

(* "none": no stack yet; "ThreadRoot": a stack that starts in ThreadRoot;
   "func": in its own code; "Yield", "Sleep": inside Scheduler::Run, called
   from there; "Finish": inside Sleep called from Finish.                  *)
ResumePoint == {"none", "ThreadRoot", "func", "Yield", "Sleep", "Finish"}

IdRange == 0..(maxThreadsCount - 1)

(* The thread has called Finish and its object is not deleted yet. *)
Finished(t) == status[t] # "FREE" /\ pc[t] = "Finish"

(* The state when Initialize() returns to main(). *)
ThreadsInit ==
  /\ status = [t \in Thread |-> IF t = Main THEN "RUNNING" ELSE "FREE"]
  /\ priority = [t \in Thread |-> 6]
  /\ threadId = [t \in Thread |-> IF t = Main THEN 0 ELSE -1]
  /\ pc = [t \in Thread |-> IF t = Main THEN "func" ELSE "none"]
  /\ threadIds = [i \in IdRange |-> IF i = 0 THEN 1 ELSE 0]
  /\ readyList = <<>>
  /\ currentThread = Main
  /\ threadToBeDestroyed = None
  /\ level = "IntOn"
  /\ mode = "SystemMode"

-----------------------------------------------------------------------------
(* The current thread runs its own code, between two kernel calls. *)
InFunc ==
  /\ mode = "SystemMode"
  /\ level = "IntOn"
  /\ status[currentThread] = "RUNNING"

(* The current thread is in the loop of Thread::Sleep.  It is BLOCKED, or
   READY again when an interrupt handler woke it while it was idling.      *)
Sleeping ==
  /\ mode \in {"SystemMode", "IdleMode"}
  /\ level = "IntOff"
  /\ status[currentThread] # "RUNNING"

(* The current thread was switched to and continues with interrupts off. *)
Resumed ==
  /\ mode = "SystemMode"
  /\ level = "IntOff"
  /\ status[currentThread] = "RUNNING"

(* Mutant of ReadyToRun: the thread goes to the front of the list. *)
ReadyToRunAtFront(list, t) == <<t>> \o list

(* Mutant of ReadyToRun: the priority is not looked at. *)
ReadyToRunUnsorted(list, t) == Append(list, t)

(* Scheduler::ReadyToRun: what becomes of the list.  The caller sets the
   status to READY.                                                        *)
ReadyToRun(list, t) ==
  IF SCHED_PRIORITY
    THEN SortedInsert(list, t, priority)
    ELSE Append(list, t)

(* Mutant of FindNextToRun: the head stays on the list. *)
FindNextToRunPeek ==
  [next |-> IF readyList = <<>> THEN None ELSE Head(readyList), list |-> readyList]

(* Mutant of FindNextToRun: the priority comparison is the wrong way round. *)
FindNextToRunReversed ==
  IF readyList = <<>> THEN [next |-> None, list |-> readyList]
  ELSE IF SCHED_PRIORITY
          /\ priority[Head(readyList)] < priority[currentThread]
    THEN [next |-> None, list |-> ReadyToRun(Tail(readyList), Head(readyList))]
    ELSE [next |-> Head(readyList), list |-> Tail(readyList)]

(* Scheduler::FindNextToRun(false), called by Yield: the thread to switch
   to, or None, and the list that is left.                                 *)
FindNextToRun ==
  IF readyList = <<>> THEN [next |-> None, list |-> readyList]
  ELSE IF SCHED_PRIORITY
          /\ priority[Head(readyList)] >= priority[currentThread]
    THEN [next |-> None, list |-> ReadyToRun(Tail(readyList), Head(readyList))]
    ELSE [next |-> Head(readyList), list |-> Tail(readyList)]

(* Mutant of Run: threadToBeDestroyed is not reset after the delete. *)
RunKeepsCarcass(next, st, at) ==
  /\ currentThread' = next
  /\ UNCHANGED threadToBeDestroyed
  /\ IF pc[next] = "ThreadRoot" \/ threadToBeDestroyed = None
       THEN /\ status' = [st EXCEPT ![next] = "RUNNING"]
            /\ pc' = at
            /\ UNCHANGED threadIds
       ELSE /\ status' = [st EXCEPT ![next] = "RUNNING",
                                    ![threadToBeDestroyed] = "FREE"]
            /\ pc' = [at EXCEPT ![threadToBeDestroyed] = "none"]
            /\ threadIds' = [threadIds EXCEPT
                               ![threadId[threadToBeDestroyed]] = 0]

(* Mutant of Run: ~Thread does not give the thread id back. *)
RunKeepsId(next, st, at) ==
  /\ currentThread' = next
  /\ UNCHANGED threadIds
  /\ threadToBeDestroyed' = IF pc[next] = "ThreadRoot" THEN threadToBeDestroyed ELSE None
  /\ IF pc[next] = "ThreadRoot" \/ threadToBeDestroyed = None
       THEN status' = [st EXCEPT ![next] = "RUNNING"] /\ pc' = at
       ELSE /\ status' = [st EXCEPT ![next] = "RUNNING",
                                    ![threadToBeDestroyed] = "FREE"]
            /\ pc' = [at EXCEPT ![threadToBeDestroyed] = "none"]

(* Scheduler::Run(next), entered with statuses st and resume points at.
   A thread that was switched out before comes back after SWITCH and
   deletes the thread that finished; a new thread starts in ThreadRoot and
   does not.                                                               *)
Run(next, st, at) ==
  /\ currentThread' = next
  /\ IF pc[next] = "ThreadRoot" \/ threadToBeDestroyed = None
       THEN /\ status' = [st EXCEPT ![next] = "RUNNING"]
            /\ pc' = at
            /\ UNCHANGED <<threadIds, threadToBeDestroyed>>
       ELSE /\ status' = [st EXCEPT ![next] = "RUNNING",
                                    ![threadToBeDestroyed] = "FREE"]
            /\ pc' = [at EXCEPT ![threadToBeDestroyed] = "none"]
            /\ threadIds' = [threadIds EXCEPT
                               ![threadId[threadToBeDestroyed]] = 0]
            /\ threadToBeDestroyed' = None

-----------------------------------------------------------------------------
(* Mutant of allocatedThreadID: a full table returns where the loop ended. *)
allocatedThreadIDPastEnd ==
  LET free == {i \in IdRange : threadIds[i] = 0}
  IN  IF free = {} THEN maxThreadsCount ELSE CHOOSE i \in free : \A j \in free : i <= j

(* The smallest free id, or -1. *)
allocatedThreadID ==
  LET free == {i \in IdRange : threadIds[i] = 0}
  IN  IF free = {} THEN -1 ELSE CHOOSE i \in free : \A j \in free : i <= j

(* What the constructor leaves in priority: an argument out of range is
   clamped in "pri" and never stored.                                      *)
ConstructedPriority(pri) == IF pri \in 0..10 THEN {pri} ELSE Garbage

(* new Thread(name, pri) *)
NewThread(t, pri) ==
  /\ InFunc
  /\ status[t] = "FREE"
  /\ status' = [status EXCEPT ![t] = "JUST_CREATED"]
  /\ \E p \in ConstructedPriority(pri) : priority' = [priority EXCEPT ![t] = p]
  /\ threadId' = [threadId EXCEPT ![t] = allocatedThreadID]
  /\ IF allocatedThreadID = -1
       THEN mode' = "Aborted" /\ UNCHANGED threadIds
       ELSE /\ threadIds' = [threadIds EXCEPT ![allocatedThreadID] = 1]
            /\ UNCHANGED mode
  /\ UNCHANGED <<pc, readyList, currentThread, threadToBeDestroyed, level>>

(* t->Fork(func, arg) *)
Fork(t) ==
  /\ InFunc
  /\ status[t] = "JUST_CREATED"
  /\ status' = [status EXCEPT ![t] = "READY"]
  /\ pc' = [pc EXCEPT ![t] = "ThreadRoot"]
  /\ readyList' = ReadyToRun(readyList, t)
  /\ UNCHANGED <<priority, threadId, threadIds, currentThread,
                 threadToBeDestroyed, level, mode>>

(* currentThread->Yield(), called by the thread itself or by
   Interrupt::OneTick after a timer interrupt.                             *)
Yield ==
  /\ InFunc
  /\ UNCHANGED <<priority, threadId, mode>>
  /\ LET found == FindNextToRun
     IN  IF found.next = None
           THEN /\ readyList' = found.list
                /\ UNCHANGED <<status, pc, threadIds, currentThread,
                               threadToBeDestroyed, level>>
           ELSE /\ readyList' = ReadyToRun(found.list, currentThread)
                /\ level' = "IntOff"
                /\ Run(found.next,
                       [status EXCEPT ![currentThread] = "READY"],
                       [pc EXCEPT ![currentThread] = "Yield"])

(* A thread switched to returns from Yield, or enters ThreadRoot, which
   calls InterruptEnable and then its function.                            *)
Resume ==
  /\ Resumed
  /\ pc[currentThread] \in {"ThreadRoot", "Yield"}
  /\ level' = "IntOn"
  /\ pc' = [pc EXCEPT ![currentThread] = "func"]
  /\ UNCHANGED <<status, priority, threadId, threadIds, readyList,
                 currentThread, threadToBeDestroyed, mode>>

(* currentThread->Finish(), up to the loop of Sleep. *)
Finish ==
  /\ InFunc
  /\ threadToBeDestroyed' = currentThread
  /\ status' = [status EXCEPT ![currentThread] = "BLOCKED"]
  /\ pc' = [pc EXCEPT ![currentThread] = "Finish"]
  /\ level' = "IntOff"
  /\ UNCHANGED <<priority, threadId, threadIds, readyList, currentThread, mode>>

(* The loop of Sleep finds a thread: FindNextToRun(true), then Run. *)
Dispatch ==
  /\ Sleeping
  /\ readyList # <<>>
  /\ readyList' = Tail(readyList)
  /\ mode' = "SystemMode"
  /\ Run(Head(readyList), status, pc)
  /\ UNCHANGED <<priority, threadId, level>>

(* Interrupt::Idle finds nothing but the timer pending and halts Nachos. *)
Halt ==
  /\ Sleeping
  /\ readyList = <<>>
  /\ mode' = "Halted"
  /\ UNCHANGED <<status, priority, threadId, pc, threadIds, readyList,
                 currentThread, threadToBeDestroyed, level>>

(* Nachos has exited. *)
Stopped ==
  /\ mode \in {"Halted", "Aborted"}
  /\ UNCHANGED threadVars

ThreadStep ==
  \/ \E t \in Thread, pri \in Pri : NewThread(t, pri)
  \/ \E t \in Thread : Fork(t)
  \/ Yield
  \/ Resume
  \/ Finish
  \/ Dispatch

ThreadsNext == ThreadStep \/ Halt \/ Stopped

ThreadsSpec == ThreadsInit /\ [][ThreadsNext]_threadVars

-----------------------------------------------------------------------------
(* Every variable has its type. *)
ThreadsTypeOK ==
  /\ status \in [Thread -> ThreadStatus]
  /\ priority \in [Thread -> Int]
  /\ threadId \in [Thread -> IdRange \cup {-1}]
  /\ pc \in [Thread -> ResumePoint]
  /\ threadIds \in [IdRange -> {0, 1}]
  /\ readyList \in Seq(Thread)
  /\ currentThread \in Thread
  /\ threadToBeDestroyed \in Thread \cup {None}
  /\ level \in {"IntOn", "IntOff"}
  /\ mode \in {"SystemMode", "IdleMode", "Halted", "Aborted"}

(* The ready list holds exactly the READY threads, each once, and each of
   them has a place to continue from; the only RUNNING thread is
   currentThread, which may instead be BLOCKED in Sleep or already READY
   again when an interrupt handler woke it there (scheduler.cc, thread.cc). *)
SchedulerInv ==
  /\ NoDuplicates(readyList)
  /\ \A t \in Thread : t \in Items(readyList) <=> status[t] = "READY"
  /\ \A t \in Thread : status[t] = "READY" => pc[t] \in {"ThreadRoot", "Yield", "Sleep"}
  /\ \A t \in Thread : status[t] = "RUNNING" => t = currentThread
  /\ level = "IntOn" => status[currentThread] = "RUNNING" /\ pc[currentThread] = "func"

(* Run never deletes a thread that can still run: what threadToBeDestroyed
   points at has called Finish, is not freed yet and is no longer the
   current thread once another one runs, so the ASSERT of ~Thread holds and
   no thread is deleted twice.  Only a forked thread has a stack to delete. *)
CarcassInv ==
  /\ threadToBeDestroyed # None => Finished(threadToBeDestroyed)
  /\ \A t \in Thread : Finished(t) => status[t] = "BLOCKED"
  /\ \A t \in Thread : status[t] \in {"FREE", "JUST_CREATED"} => pc[t] = "none"
  /\ status[currentThread] \notin {"FREE", "JUST_CREATED"}

(* The id table is exact: an id is marked used when, and only when, one
   Thread object carries it, and no two objects carry the same one.        *)
ThreadIdsExact ==
  mode # "Aborted" =>
    /\ \A i \in IdRange :
         threadIds[i] = 1 <=> \E t \in Thread : status[t] # "FREE" /\ threadId[t] = i
    /\ \A t, u \in Thread :
         status[t] # "FREE" /\ status[u] # "FREE" /\ threadId[t] = threadId[u] => t = u

(* With SCHED_PRIORITY the ready list is in priority order, smaller values
   first, whatever sequence of Fork, Yield and wakeups built it.           *)
ReadyListSorted ==
  SCHED_PRIORITY =>
    \A i, j \in 1..Len(readyList) :
      i < j => priority[readyList[i]] <= priority[readyList[j]]

(* With SCHED_PRIORITY no step gives the processor to a thread while a READY
   thread of higher priority stays behind (scheduler.cc 91-100).           *)
NoPriorityInversionAtSwitch ==
  [][ SCHED_PRIORITY /\ currentThread' # currentThread
        => \A t \in Items(readyList') : priority[currentThread'] <= priority[t] ]_threadVars

(* Without SCHED_PRIORITY the ready list is first in, first out: a step takes
   away at most its head and never reorders the threads that stay.         *)
ReadyListFifo ==
  [][ ~SCHED_PRIORITY =>
        \E k \in {0, 1} :
          /\ k <= Len(readyList) /\ Len(readyList) - k <= Len(readyList')
          /\ \A i \in 1..(Len(readyList) - k) : readyList'[i] = readyList[i + k] ]_threadVars

(* What thread.cc 171-175 and scheduler.cc 156-159 promise: a thread that
   called Finish is remembered in threadToBeDestroyed until it is deleted. *)
CarcassRemembered ==
  \A t \in Thread : Finished(t) => t = threadToBeDestroyed

(* What thread.cc 60 promises: priorities are between 0 and 10. *)
PriorityInRange ==
  \A t \in Thread : status[t] # "FREE" => priority[t] \in 0..10

-----------------------------------------------------------------------------
(* Scheduling assumptions for liveness: the processor keeps executing, and
   the timer started by "-rs" makes the current thread Yield again and
   again.                                                                  *)
ThreadsFairness ==
  /\ WF_threadVars(Resume)
  /\ WF_threadVars(Dispatch)
  /\ WF_threadVars(Yield)

ThreadsFairSpec == ThreadsSpec /\ ThreadsFairness

(* A READY thread is eventually dispatched (thread.cc 198-203), unless
   Nachos exits first.                                                     *)
ReadyEventuallyRuns ==
  \A t \in Thread :
    status[t] = "READY" ~> (status[t] = "RUNNING" \/ mode \in {"Halted", "Aborted"})
=============================================================================
