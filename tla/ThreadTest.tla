----------------------------- MODULE ThreadTest -----------------------------
(***************************************************************************)
(* Tests 1, 2 and 3 of threads/threadtest.cc on the scheduler of Threads,  *)
(* with the simulated time that SimpleThread reads.  Kernel time moves only *)
(* when interrupts are turned on again, and that is also the only point    *)
(* where a timer interrupt of "-rs" can make the current thread yield.     *)
(***************************************************************************)
EXTENDS Threads

CONSTANTS
  Forked,         \* the addresses "new Thread" returns, in order, at least four of them
                  \* and more than maxThreadsCount
  MaxInterrupts   \* bound on the timer interrupts that are looked at

VARIABLES
  testnum,  \* which test main() was asked for
  rs,       \* Nachos was started with -rs
  step,     \* how much of its test routine main has done
  num,      \* the loop counter of each thread in SimpleThread
  used,     \* systemTicks - lastSwitchTick
  due,      \* yieldOnReturn: OneTick is about to call Yield
  fired     \* timer interrupts so far

testVars == <<testnum, rs, step, num, used, due, fired>>
vars == <<threadVars, testVars>>

SystemTick == 10
TimerSlice == 20
Loops == 5

New(t, pri) == [op |-> "new", thread |-> t, pri |-> pri]
ForkOf(t) == [op |-> "Fork", thread |-> t, pri |-> 0]
YieldOnce == [op |-> "Yield", thread |-> Main, pri |-> 0]

(* What main does in each test before it calls SimpleThread(0). *)
ThreadTest1 == <<New(Forked[1], 6), ForkOf(Forked[1])>>

(* Mutant of ThreadCountLimitTest: the loop ends before the table is full. *)
ThreadCountLimitTestShort == [i \in 1..(maxThreadsCount - 1) |-> New(Forked[i], 6)]

ThreadCountLimitTest == [i \in 1..(maxThreadsCount + 1) |-> New(Forked[i], 6)]

ThreadPriorityTest ==
  [i \in 1..8 |-> IF i % 2 = 1 THEN New(Forked[(i + 1) \div 2], (i + 1) \div 2)
                               ELSE ForkOf(Forked[i \div 2])]
    \o <<YieldOnce>>

Routine ==
  CASE testnum = 1 -> ThreadTest1
    [] testnum = 2 -> ThreadCountLimitTest
    [] testnum = 3 -> ThreadPriorityTest

(* Initialize() has turned interrupts on once, which took a tick and may have
   let the timer in.                                                       *)
Init ==
  /\ ThreadsInit
  /\ testnum \in 1..3
  /\ rs \in BOOLEAN
  /\ step = 0
  /\ num = [t \in Thread |-> 0]
  /\ used = SystemTick
  /\ due \in {FALSE, rs}
  /\ fired = IF due THEN 1 ELSE 0

-----------------------------------------------------------------------------
(* Interrupt::OneTick in the kernel: time moves, and the timer may be due. *)
OneTick ==
  /\ used' = used + SystemTick
  /\ \/ due' = FALSE /\ UNCHANGED fired
     \/ rs /\ fired < MaxInterrupts /\ due' = TRUE /\ fired' = fired + 1

NoTick == UNCHANGED <<used, due, fired>>

(* lastSwitchTick = stats->systemTicks *)
SwitchTick == used' = 0 /\ due' = FALSE /\ UNCHANGED fired

(* Yield switches, or finds nobody to switch to and turns interrupts on. *)
YieldCPU ==
  /\ Yield
  /\ IF currentThread' = currentThread THEN OneTick ELSE SwitchTick

(* The current thread executes its own code. *)
Executes(t) == InFunc /\ currentThread = t /\ ~due

TimerYield ==
  /\ InFunc /\ due
  /\ YieldCPU
  /\ UNCHANGED <<testnum, rs, step, num>>

MainStep ==
  /\ Executes(Main)
  /\ step < Len(Routine)
  /\ LET do == Routine[step + 1]
     IN  \/ do.op = "new" /\ NewThread(do.thread, do.pri) /\ NoTick
         \/ do.op = "Fork" /\ Fork(do.thread) /\ OneTick
         \/ do.op = "Yield" /\ YieldCPU
  /\ step' = step + 1
  /\ UNCHANGED <<testnum, rs, num>>

(* The iterations of SimpleThread that t has to do: main does none in test 2. *)
Iterations(t) == IF t = Main /\ testnum = 2 THEN 0 ELSE Loops

InSimpleThread(t) == Executes(t) /\ (t = Main => step = Len(Routine))

(* One iteration of SimpleThread. *)
SimpleThread(t) ==
  /\ InSimpleThread(t)
  /\ num[t] < Iterations(t)
  /\ num' = [num EXCEPT ![t] = @ + 1]
  /\ IF used >= TimerSlice THEN YieldCPU ELSE UNCHANGED threadVars /\ NoTick
  /\ UNCHANGED <<testnum, rs, step>>

(* SimpleThread returns to ThreadRoot, or to main(), which call Finish. *)
Return(t) ==
  /\ InSimpleThread(t)
  /\ num[t] = Iterations(t)
  /\ Finish
  /\ NoTick
  /\ UNCHANGED <<testnum, rs, step, num>>

(* A thread that was switched to turns interrupts on. *)
Continue == Resume /\ OneTick /\ UNCHANGED <<testnum, rs, step, num>>

SwitchFromFinished == Dispatch /\ SwitchTick /\ UNCHANGED <<testnum, rs, step, num>>

Next ==
  \/ MainStep
  \/ TimerYield
  \/ \E t \in Thread : SimpleThread(t) \/ Return(t)
  \/ Continue
  \/ SwitchFromFinished
  \/ (Halt \/ Stopped) /\ UNCHANGED testVars

(* The processor keeps executing. *)
Spec == Init /\ [][Next]_vars /\ WF_vars(Next)

-----------------------------------------------------------------------------
Participants == IF testnum = 1 THEN {Main, Forked[1]} ELSE {Main} \cup {Forked[i] : i \in 1..4}

(* Tests 1 and 3 end with Nachos halted after every thread has done its five
   iterations, and test 2 ends at the assertion of the constructor with every
   thread id in use, whenever the timer interrupts (threadtest.cc 99-105).  *)
TestsEnd ==
  <>[](IF testnum = 2
         THEN mode = "Aborted" /\ \A i \in IdRange : threadIds[i] = 1
         ELSE mode = "Halted" /\ \A t \in Participants : num[t] = Loops)
=============================================================================
