----------------------------- MODULE Interrupt ------------------------------
(***************************************************************************)
(* Simulated time and the interrupts of the devices                        *)
(* (machine/interrupt.cc), with the time-slice timer (machine/timer.cc,    *)
(* TimerInterruptHandler of threads/system.cc).  One thread runs kernel or *)
(* user code; a request to a device schedules an interrupt, whose handler  *)
(* readies whoever sleeps.                                                 *)
(***************************************************************************)
EXTENDS NachosList

CONSTANTS
  Sources,               \* devices other than the timer
  Delays,                \* how long a request may take
  SystemTick, UserTick, TimerTicks,
  randomize,             \* whether time slices have random lengths
  MaxTime                \* bound on the simulated time

ASSUME InterruptAssumption ==
  /\ "timer" \notin Sources
  /\ {SystemTick, UserTick, TimerTicks} \cup Delays \subseteq Nat \ {0}

TimerInt == "timer"
IntStatus == {"IntOff", "IntOn"}
MachineStatus == {"IdleMode", "SystemMode", "UserMode"}

VARIABLES
  level, status, pending, yieldOnReturn,  \* the fields of Interrupt
  loop,       \* whose loop over CheckIfDue is under way: OneTick, Idle or none
  stats,      \* totalTicks, idleTicks, systemTicks, userTicks
  sleeping,   \* the current thread is in Sleep and nobody is ready
  lastFired,  \* time for which the last interrupt taken was scheduled
  halted

intVars == <<level, status, pending, yieldOnReturn, loop, stats, sleeping, lastFired, halted>>

PendingInterrupt(type, when) == [type |-> type, when |-> when]

(* List::SortedInsert of an interrupt, by its time *)
Insert(list, toOccur) ==
  SortedInsert(list, toOccur, [p \in Items(list) \cup {toOccur} |-> p.when])

(* Timer::TimeOfNextInterrupt *)
TimeOfNextInterrupt == IF randomize THEN 1..(2 * TimerTicks) ELSE {TimerTicks}

(* TimerInterruptHandler: the machine is in SystemMode whenever it runs, since
   CheckIfDue has set that before the call                                 *)
TimerInterruptHandler(mode) == mode # "IdleMode"

(* Mutant of Handled: the timer is not started again. *)
HandledOnce(type, rest, now) ==
  pending' = rest /\ sleeping' = FALSE /\ UNCHANGED yieldOnReturn

(* The handlers, with the rest of the list at time now: Timer::TimerExpired
   schedules the next time slice and asks for a yield, the handler of a device
   readies a thread.                                                       *)
Handled(type, rest, now) ==
  IF type = TimerInt
  THEN /\ \E slice \in TimeOfNextInterrupt :
            pending' = Insert(rest, PendingInterrupt(TimerInt, now + slice))
       /\ yieldOnReturn' = (yieldOnReturn \/ TimerInterruptHandler("SystemMode"))
       /\ UNCHANGED sleeping
  ELSE pending' = rest /\ sleeping' = FALSE /\ UNCHANGED yieldOnReturn

-----------------------------------------------------------------------------
(* Interrupt::CheckIfDue, with the interrupt that is first on the list *)
toOccur == Head(pending)

(* Mutant of NotYet: an interrupt that is due now waits for the next tick. *)
NotYetLate(advanceClock) == ~advanceClock /\ toOccur.when >= stats.totalTicks

(* "not time yet, put it back" *)
NotYet(advanceClock) == ~advanceClock /\ toOccur.when > stats.totalTicks

(* Mutant of Advanced: the time spent idle is not counted. *)
AdvancedUncounted(advanceClock) ==
  IF advanceClock /\ toOccur.when > stats.totalTicks
  THEN [stats EXCEPT !.totalTicks = toOccur.when] ELSE stats

(* The clock, advanced to the next interrupt if nobody is ready *)
Advanced(advanceClock) ==
  IF advanceClock /\ toOccur.when > stats.totalTicks
  THEN [stats EXCEPT !.idleTicks = @ + (toOccur.when - stats.totalTicks),
                     !.totalTicks = toOccur.when]
  ELSE stats

(* Mutant of NothingToDo: other interrupts behind the timer are forgotten. *)
NothingToDoTimer(mode) == mode = "IdleMode" /\ toOccur.type = TimerInt

(* "Check if there is nothing more to do, and if so, quit" *)
NothingToDo(mode) == mode = "IdleMode" /\ toOccur.type = TimerInt /\ Tail(pending) = <<>>

IsDue(advanceClock, mode) == pending # <<>> /\ ~NotYet(advanceClock) /\ ~NothingToDo(mode)

(* A handler is called.  CheckIfDue returns TRUE. *)
Fire(advanceClock) ==
  /\ stats' = Advanced(advanceClock) /\ lastFired' = toOccur.when
  /\ Handled(toOccur.type, Tail(pending), stats'.totalTicks)
  /\ UNCHANGED <<level, halted>>

(* The interrupt, if there is one, is put back, behind others of the same time;
   the clock stays advanced even where the timer alone is left.  CheckIfDue
   returns FALSE.                                                          *)
PutBack(advanceClock) ==
  /\ IF pending = <<>> THEN UNCHANGED <<pending, stats>>
     ELSE pending' = Insert(Tail(pending), toOccur) /\ stats' = Advanced(advanceClock)
  /\ UNCHANGED <<sleeping, lastFired>>

-----------------------------------------------------------------------------
(* Interrupt::Interrupt, then the timer that Initialize starts *)
IntInit ==
  /\ level = "IntOff" /\ status = "SystemMode" /\ yieldOnReturn = FALSE
  /\ \E t \in TimeOfNextInterrupt : pending = <<PendingInterrupt(TimerInt, t)>>
  /\ stats = [totalTicks |-> 0, idleTicks |-> 0, systemTicks |-> 0, userTicks |-> 0]
  /\ loop = "none" /\ sleeping = FALSE /\ lastFired = 0 /\ halted = FALSE

CodeRuns == loop = "none" /\ ~sleeping /\ ~halted /\ stats.totalTicks < MaxTime

(* Interrupt::Schedule *)
Schedule(type, fromNow) ==
  /\ fromNow > 0
  /\ pending' = Insert(pending, PendingInterrupt(type, stats.totalTicks + fromNow))

(* The kernel starts a device that has no request under way. *)
StartDevice(device, fromNow) ==
  /\ CodeRuns /\ status = "SystemMode"
  /\ \A p \in Items(pending) : p.type # device
  /\ Schedule(device, fromNow)
  /\ UNCHANGED <<level, status, yieldOnReturn, loop, stats, sleeping, lastFired, halted>>

(* Interrupt::OneTick: time advances by the mode, interrupts are turned off and
   the due handlers run, one step for each ...                             *)
OneTick ==
  /\ stats' = IF status = "SystemMode"
              THEN [stats EXCEPT !.totalTicks = @ + SystemTick, !.systemTicks = @ + SystemTick]
              ELSE [stats EXCEPT !.totalTicks = @ + UserTick, !.userTicks = @ + UserTick]
  /\ level' = "IntOff" /\ loop' = "OneTick"
  /\ UNCHANGED <<status, pending, yieldOnReturn, sleeping, lastFired, halted>>
Check == IsDue(FALSE, status) /\ Fire(FALSE) /\ UNCHANGED <<status, loop>>

(* ... and the thread yields if the timer asked for it.  Another thread may
   change status meanwhile, but the old one is restored.                   *)
OneTickEnds ==
  /\ ~IsDue(FALSE, status) /\ PutBack(FALSE)
  /\ level' = "IntOn" /\ yieldOnReturn' = FALSE /\ loop' = "none"
  /\ UNCHANGED <<status, halted>>

(* Interrupt::SetLevel and Interrupt::Enable, called by kernel code *)
SetLevel(now) ==
  /\ CodeRuns /\ status = "SystemMode"
  /\ IF now = "IntOn" /\ level = "IntOff" THEN OneTick
     ELSE /\ level' = now
          /\ UNCHANGED <<status, pending, yieldOnReturn, loop, stats, sleeping, lastFired, halted>>

(* Machine::Run: a user instruction was executed *)
Instruction == CodeRuns /\ status = "UserMode" /\ OneTick

(* Interrupt::setStatus, by Machine::Run and RaiseException; user code runs
   with interrupts on.                                                     *)
setStatus(st) ==
  /\ CodeRuns /\ level = "IntOn" /\ {st, status} = {"SystemMode", "UserMode"}
  /\ status' = st
  /\ UNCHANGED <<level, pending, yieldOnReturn, loop, stats, sleeping, lastFired, halted>>

(* Thread::Sleep, when nobody is ready *)
Sleep ==
  /\ CodeRuns /\ status = "SystemMode" /\ level = "IntOff"
  /\ sleeping' = TRUE
  /\ UNCHANGED <<level, status, pending, yieldOnReturn, loop, stats, lastFired, halted>>

(* Interrupt::Idle: the clock jumps to the next interrupt, or Nachos halts ... *)
Idle ==
  /\ loop = "none" /\ sleeping /\ ~halted /\ stats.totalTicks < MaxTime
  /\ status' = "IdleMode"
  /\ IF IsDue(TRUE, "IdleMode") THEN Fire(TRUE) /\ loop' = "Idle"
     ELSE PutBack(TRUE) /\ halted' = TRUE /\ UNCHANGED <<level, yieldOnReturn, loop>>

(* Mutant of IdleEnds: the request to yield is left for the next thread. *)
IdleEndsYieldStays ==
  /\ ~IsDue(FALSE, status) /\ PutBack(FALSE)
  /\ status' = "SystemMode" /\ loop' = "none"
  /\ UNCHANGED <<level, yieldOnReturn, halted>>

(* ... and the due handlers run.  Sleep calls it again while no thread is ready. *)
IdleEnds ==
  /\ ~IsDue(FALSE, status) /\ PutBack(FALSE)
  /\ status' = "SystemMode" /\ yieldOnReturn' = FALSE /\ loop' = "none"
  /\ UNCHANGED <<level, halted>>

IntNext ==
  \/ \E d \in Sources, n \in Delays : StartDevice(d, n)
  \/ \E now \in IntStatus : SetLevel(now)
  \/ Instruction
  \/ \E st \in MachineStatus : setStatus(st)
  \/ Sleep
  \/ Idle
  \/ loop # "none" /\ Check
  \/ loop = "OneTick" /\ OneTickEnds
  \/ loop = "Idle" /\ IdleEnds

IntSpec == IntInit /\ [][IntNext]_intVars

-----------------------------------------------------------------------------
(* No interrupt is late or lost: whenever code runs, the handlers of all that
   was due have been called, in the order of their times, although every
   check takes an interrupt off the list and puts it back.  Only the timer,
   due at the very moment at which Idle finds nothing else left, waits for the
   next tick (interrupt.cc 325).                                           *)
NothingOverdue ==
  loop = "none" /\ ~halted => \A p \in Items(pending) :
    /\ p.when >= lastFired
    /\ IF p.type = TimerInt THEN p.when >= stats.totalTicks ELSE p.when > stats.totalTicks

(* Every tick is idle, system or user time; Idle advances the clock before it
   decides whether to fire anything (interrupt.cc 313).                    *)
TicksAccounted ==
  stats.totalTicks = stats.idleTicks + stats.systemTicks + stats.userTicks

(* The time-slice timer never stops and never doubles: its handler schedules
   the next interrupt, Idle puts it back when it halts.                    *)
OneTimerPending ==
  \E i \in 1..Len(pending) : \A j \in 1..Len(pending) : pending[j].type = TimerInt <=> j = i

(* A time slice that ends while the machine is idle does not preempt the thread
   that runs next: the handler's test for IdleMode never succeeds, since
   CheckIfDue has set SystemMode (interrupt.cc 338), but Idle and OneTick
   take the request back.                                                  *)
NoStaleYield == loop = "none" => ~yieldOnReturn

(* Nachos halts only when nothing but the timer is left to wait for. *)
HaltOnlyWhenDone ==
  halted => sleeping /\ \A p \in Items(pending) : p.type = TimerInt

(* No interrupt is late or lost (interrupt.cc 289-346), every tick is idle,
   system or user time, the time-slice timer never stops and never doubles, a
   slice that ends while the machine is idle preempts nobody later, and Nachos
   halts only when nothing but the timer is left to wait for.              *)
TimeIsExact ==
  /\ NothingOverdue /\ TicksAccounted /\ OneTimerPending /\ NoStaleYield /\ HaltOnlyWhenDone
=============================================================================
