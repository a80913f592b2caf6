-------------------------- MODULE MCThreadPrograms --------------------------
(***************************************************************************)
(* The programs and the low-level parts of threads/, one at a time: part   *)
(* says which of them runs, the others stay in their initial states, so    *)
(* the behaviours are those of each part by itself.                        *)
(***************************************************************************)
EXTENDS SynchPrograms

MCInitialValue == [s \in Semaphore |-> IF s = empty THEN N ELSE IF s = mutex THEN 1 ELSE 0]

VARIABLES
  part,                                            \* what runs
  status, priority, threadId, tPc, threadIds, readyList, currentThread,
  threadToBeDestroyed, level, mode,                \* Threads
  testnum, rs, step, num, used, due, fired,        \* ThreadTest
  cell, allocated, first, last, numInList, plGot,  \* PointerList
  m, swPc, swCurrent, swStatus, left, calls        \* ContextSwitch

ttVars == <<status, priority, threadId, tPc, threadIds, readyList, currentThread,
            threadToBeDestroyed, level, mode, testnum, rs, step, num, used, due, fired>>
plVars == <<cell, allocated, first, last, numInList, plGot>>
swVars == <<m, swPc, swCurrent, swStatus, left, calls>>
allVars == <<part, vars, mVars, bVars, rwVars, slVars, ttVars, plVars, swVars>>

-----------------------------------------------------------------------------
TestThread == {"Main", "t1", "t2", "t3", "t4", "t5", "t6"}
Forked == <<"t1", "t2", "t3", "t4", "t5", "t6">>

(* Tests 1 to 3 with at most five threads, under both scheduling policies. *)
Fifo == INSTANCE ThreadTest WITH
  Thread <- TestThread, Main <- "Main", maxThreadsCount <- 5, SCHED_PRIORITY <- FALSE,
  Pri <- {6}, Garbage <- {0}, MaxInterrupts <- 4, pc <- tPc
ByPriority == INSTANCE ThreadTest WITH
  Thread <- TestThread, Main <- "Main", maxThreadsCount <- 5, SCHED_PRIORITY <- TRUE,
  Pri <- {6}, Garbage <- {0}, MaxInterrupts <- 4, pc <- tPc

(* Lists of up to three elements. *)
Pointers == INSTANCE PointerList WITH
  Item <- {"i1", "i2"}, Key <- {0, 1}, Cell <- {"cell1", "cell2", "cell3"}, NULL <- "NULL",
  got <- plGot

(* The thread that starts Nachos and two that it forks. *)
Switch == INSTANCE ContextSwitch WITH
  Thread <- {"main", "t1", "t2"}, Main <- "main", StackSize <- 11, Clobber <- {1, 2},
  pc <- swPc, currentThread <- swCurrent, status <- swStatus

-----------------------------------------------------------------------------
MCInit ==
  /\ part \in {"semaphores", "monitor", "barrier", "readersWriters", "synchList",
               "fifo", "priority", "pointerList", "switch"}
  /\ Init /\ Monitor!Init /\ Meeting!Init /\ Library!Init /\ Shared!Init
  /\ Fifo!Init /\ (part \in {"fifo", "priority"} \/ (testnum = 1 /\ ~rs))
  /\ Pointers!Init /\ (part = "pointerList" \/ cell["cell1"].item = "i1")
  /\ Switch!Init

(* Part p runs, the other parts stay as they are. *)
Only(p) ==
  /\ part = p /\ UNCHANGED part
  /\ IF p = "semaphores" THEN TRUE ELSE UNCHANGED vars
  /\ IF p = "monitor" THEN TRUE ELSE UNCHANGED mVars
  /\ IF p = "barrier" THEN TRUE ELSE UNCHANGED bVars
  /\ IF p = "readersWriters" THEN TRUE ELSE UNCHANGED rwVars
  /\ IF p = "synchList" THEN TRUE ELSE UNCHANGED slVars
  /\ IF p \in {"fifo", "priority"} THEN TRUE ELSE UNCHANGED ttVars
  /\ IF p = "pointerList" THEN TRUE ELSE UNCHANGED plVars
  /\ IF p = "switch" THEN TRUE ELSE UNCHANGED swVars

(* The barrier has been passed, or all items were appended and removed. *)
Ended ==
  /\ \/ part = "barrier" /\ \A t \in BarrierThread : bPc[t] = "past"
     \/ part = "synchList" /\ ~ENABLED Shared!Next
  /\ UNCHANGED allVars

MCNext ==
  \/ Only("semaphores") /\ Next
  \/ Only("monitor") /\ Monitor!Next
  \/ Only("barrier") /\ Meeting!Next
  \/ Only("readersWriters") /\ Library!Next
  \/ Only("synchList") /\ Shared!Next
  \/ Only("fifo") /\ Fifo!Next
  \/ Only("priority") /\ ByPriority!Next
  \/ Only("pointerList") /\ Pointers!Next
  \/ Only("switch") /\ Switch!Next
  \/ Ended

(* Every thread that can go on is dispatched again and again; in the tests on
   the scheduler itself the processor keeps executing.                     *)
MCSpec ==
  /\ MCInit /\ [][MCNext]_allVars
  /\ \A t \in Thread : WF_vars(part = "semaphores" /\ Step(t))
  /\ \A t \in Thread : WF_mVars(part = "monitor" /\ Monitor!Step(t))
  /\ \A t \in BarrierThread : WF_bVars(part = "barrier" /\ Meeting!Step(t))
  /\ \A t \in ListThread : WF_slVars(part = "synchList" /\ Shared!Step(t))
  /\ WF_ttVars(part = "fifo" /\ Fifo!Next)
  /\ WF_ttVars(part = "priority" /\ ByPriority!Next)

-----------------------------------------------------------------------------
(* Nobody waits for ever in threadtest.cc and synchlist.cc: messages are
   produced and consumed again and again with the semaphores and with the
   conditions, all threads pass the barrier, items do not stay on the list
   while a remover waits, and tests 1 to 3 end as they should whenever the
   timer interrupts.                                                       *)
EveryoneProgresses ==
  /\ part = "semaphores" => Progress
  /\ part = "monitor" => Monitor!Progress
  /\ part = "barrier" => Meeting!AllPass
  /\ part = "synchList" => Shared!ItemsAreRemoved
  /\ part \in {"fifo", "priority"} => Fifo!TestsEnd

(* The operations of list.cc on cells and pointers do to the sequence of
   elements what the scheduler expects of a list, and leave the links, last
   and numInList in agreement.                                             *)
ImplementsListSpec ==
  /\ [](part = "pointerList" => Pointers!WellLinked)
  /\ Pointers!ImplementsListSpec

(* A thread that comes back from SWITCH (switch.s 321-343) finds its registers
   as it left them, ThreadRoot makes its three calls once, in order and with
   the argument, and no word is written outside the stacks.                *)
SwitchIsTransparent ==
  part = "switch" => Switch!ResumesAsLeft /\ Switch!RootCallsInOrder /\ Switch!StaysInStack
=============================================================================
