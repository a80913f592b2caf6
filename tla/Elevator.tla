------------------------------- MODULE Elevator -------------------------------
(***************************************************************************)
(* The simulated bank of elevators of machine/elevator.cc: the state of the *)
(* cars, the events posted to riders and controllers, and the interrupts   *)
(* that move the cars and announce the events.  Callers keep to what the   *)
(* operations assert: any that do are in TrafficNext, those of the self    *)
(* test in module ElevatorSelfTest.                                        *)
(***************************************************************************)
EXTENDS NachosList, FiniteSets

CONSTANTS
  numElevators, numFloors, MaxRiders, DelayPerFloor,
  TickLengths,  \* by how much the clock may advance at once
  Riders,       \* who rides in TrafficNext
  MaxTicks,     \* bound: calls are made up to this time
  MaxEvents,    \* bound: events that wait when a call is made
  MaxPending    \* bound: interrupts that are pending then

ASSUME ElevatorAssumption ==
  {numElevators, numFloors, DelayPerFloor} \cup TickLengths \subseteq Nat \ {0}

VARIABLES
  elevators,                      \* ElevatorInfo of each elevator
  riderEvents, controllerEvents,  \* events posted
  riderWakeup, controllerWakeup,  \* semaphores that the two handlers signal
  totalTicks, due                 \* the clock, and when interrupts are due, in order

bankVars == <<elevators, riderEvents, controllerEvents, riderWakeup, controllerWakeup,
              totalTicks, due>>

Elevators == 0..(numElevators - 1)
Floors == 0..(numFloors - 1)
Direction == {"Down", "Up", "Neither"}

(* ElevatorInfo::ElevatorInfo *)
ElevatorInfo ==
  [display |-> "Neither", doorsOpen |-> FALSE, inMotion |-> FALSE, lastFloor |-> 0,
   goingTo |-> 0, willArrive |-> 0, riders |-> {}]

(* ElevatorBank::ElevatorBank *)
BankInit ==
  /\ elevators = [e \in Elevators |-> ElevatorInfo]
  /\ riderEvents = <<>> /\ controllerEvents = <<>>
  /\ riderWakeup = 0 /\ controllerWakeup = 0
  /\ totalTicks = 0 /\ due = <<>>

PendingElevatorEvent(ev, floor, e) == [event |-> ev, floor |-> floor, elevator |-> e]

(* Interrupt::Schedule of ElevatorDone *)
ScheduleDone(queue, delay) ==
  LET when == totalTicks + delay
  IN SortedInsert(queue, when, [t \in Items(queue) \cup {when} |-> t])

(* Mutant of PostEvent: no interrupt picks the event up. *)
PostEventQuiet(events, ev, floor, e) ==
  /\ events' = Append(events, PendingElevatorEvent(ev, floor, e))
  /\ UNCHANGED due

(* ElevatorBank::PostEvent outside the interrupt handler *)
PostEvent(events, ev, floor, e) ==
  /\ events' = Append(events, PendingElevatorEvent(ev, floor, e))
  /\ due' = ScheduleDone(due, 1)

-----------------------------------------------------------------------------
(* The interface of controllers.  ElevatorInfo::OpenDoors and ElevatorBank::OpenDoors *)
OpenDoors(e) ==
  /\ ~elevators[e].doorsOpen /\ ~elevators[e].inMotion
  /\ elevators' = [elevators EXCEPT ![e].doorsOpen = TRUE]
  /\ PostEvent(riderEvents, "DoorsOpened", elevators[e].lastFloor, e)
  /\ UNCHANGED <<controllerEvents, riderWakeup, controllerWakeup, totalTicks>>

CloseDoors(e) ==
  /\ elevators[e].doorsOpen
  /\ elevators' = [elevators EXCEPT ![e].doorsOpen = FALSE]
  /\ UNCHANGED <<riderEvents, controllerEvents, riderWakeup, controllerWakeup, totalTicks, due>>

MayMove(e, floor) == ~elevators[e].doorsOpen /\ (elevators[e].inMotion \/ elevators[e].lastFloor # floor)

(* ElevatorInfo::MoveTo *)
InfoMoveTo(info, floor) ==
  IF info.inMotion THEN [info EXCEPT !.goingTo = floor]
  ELSE [info EXCEPT !.goingTo = floor, !.inMotion = TRUE,
                    !.willArrive = totalTicks + DelayPerFloor]

(* ElevatorBank::MoveTo *)
MoveTo(floor, e) ==
  /\ MayMove(e, floor)
  /\ elevators' = [elevators EXCEPT ![e] = InfoMoveTo(@, floor)]
  /\ due' = IF elevators[e].inMotion THEN due ELSE ScheduleDone(due, DelayPerFloor)
  /\ UNCHANGED <<riderEvents, controllerEvents, riderWakeup, controllerWakeup, totalTicks>>

WhereIsElevator(e) == elevators[e].lastFloor

MarkDirection(e, dir) ==
  /\ elevators' = [elevators EXCEPT ![e].display = dir]
  /\ UNCHANGED <<riderEvents, controllerEvents, riderWakeup, controllerWakeup, totalTicks, due>>

-----------------------------------------------------------------------------
(* The interface of riders *)
PressButton(floor, dir) ==
  /\ dir # "Neither"
  /\ PostEvent(controllerEvents, IF dir = "Up" THEN "UpButtonPressed" ELSE "DownButtonPressed", floor, 0)
  /\ UNCHANGED <<elevators, riderEvents, riderWakeup, controllerWakeup, totalTicks>>

getDirection(e) == elevators[e].display

(* Whether ElevatorInfo::Enter and ElevatorInfo::Exit return TRUE *)
DoorsAt(e, floor) == elevators[e].doorsOpen /\ elevators[e].lastFloor = floor

EnterElevator(floor, e, rider) ==
  /\ DoorsAt(e, floor) => Cardinality(elevators[e].riders) < MaxRiders
  /\ elevators' = [elevators EXCEPT ![e].riders =
                     IF DoorsAt(e, floor) THEN @ \union {rider} ELSE @]
  /\ UNCHANGED <<riderEvents, controllerEvents, riderWakeup, controllerWakeup, totalTicks, due>>

PressFloor(floor, e) ==
  /\ PostEvent(controllerEvents, "FloorButtonPressed", floor, e)
  /\ UNCHANGED <<elevators, riderEvents, riderWakeup, controllerWakeup, totalTicks>>

ExitElevator(floor, e, rider) ==
  /\ elevators' = [elevators EXCEPT ![e].riders =
                     IF DoorsAt(e, floor) THEN @ \ {rider} ELSE @]
  /\ UNCHANGED <<riderEvents, controllerEvents, riderWakeup, controllerWakeup, totalTicks, due>>

(* ElevatorBank::getNextEvent, when there is one *)
getNextRiderEvent ==
  /\ riderEvents # <<>> /\ riderEvents' = Tail(riderEvents)
  /\ UNCHANGED <<elevators, controllerEvents, riderWakeup, controllerWakeup, totalTicks, due>>
getNextControllerEvent ==
  /\ controllerEvents # <<>> /\ controllerEvents' = Tail(controllerEvents)
  /\ UNCHANGED <<elevators, riderEvents, riderWakeup, controllerWakeup, totalTicks, due>>

-----------------------------------------------------------------------------
(* ElevatorInfo::ReachedNextFloor: who has, and what it does to the car *)
ReachedNextFloor == {e \in Elevators : elevators[e].inMotion /\ totalTicks >= elevators[e].willArrive}
PassFloor(info) ==
  [info EXCEPT !.lastFloor = @ + (IF info.goingTo > info.lastFloor THEN 1 ELSE -1)]

(* ElevatorInfo::CheckArrived *)
CheckArrived == {e \in ReachedNextFloor : PassFloor(elevators[e]).lastFloor = elevators[e].goingTo}

(* Mutant of GoesOn: no interrupt is scheduled for the next floor. *)
GoesOnNone == {}
(* The cars that have to go on; only the first of them gets its next arrival *)
GoesOn == ReachedNextFloor \ CheckArrived
FirstOn(e) == e \in GoesOn /\ \A other \in GoesOn : e <= other

(* Mutant of Moved: a car does not stop where it was sent. *)
MovedOn(e) == IF e \in ReachedNextFloor
              THEN [PassFloor(elevators[e]) EXCEPT !.inMotion = e \notin CheckArrived,
                                                   !.lastFloor = @ + (IF e \in CheckArrived THEN 1 ELSE 0)]
              ELSE elevators[e]

Moved(e) ==
  CASE e \notin ReachedNextFloor -> elevators[e]
    [] e \in CheckArrived -> [PassFloor(elevators[e]) EXCEPT !.inMotion = FALSE]
    [] FirstOn(e) -> [PassFloor(elevators[e]) EXCEPT !.willArrive = @ + DelayPerFloor]
    [] OTHER -> PassFloor(elevators[e])

(* The events that HandleInterrupt posts for the first n cars *)
Arrivals[n \in 0..numElevators] ==
  IF n = 0 THEN <<>>
  ELSE IF n - 1 \in CheckArrived
       THEN Append(Arrivals[n - 1],
                   PendingElevatorEvent("ElevatorArrived", elevators[n - 1].goingTo, n - 1))
       ELSE Arrivals[n - 1]

Signalled(events) == IF events = <<>> THEN 0 ELSE 1

(* ElevatorBank::HandleInterrupt, for the first interrupt that is due *)
HandleInterrupt ==
  /\ due # <<>> /\ Head(due) <= totalTicks
  /\ elevators' = [e \in Elevators |-> Moved(e)]
  /\ due' = IF GoesOn = {} THEN Tail(due) ELSE ScheduleDone(Tail(due), DelayPerFloor)
  /\ controllerEvents' = controllerEvents \o Arrivals[numElevators]
  /\ riderWakeup' = riderWakeup + Signalled(riderEvents)
  /\ controllerWakeup' = controllerWakeup + Signalled(controllerEvents')
  /\ UNCHANGED <<riderEvents, totalTicks>>

(* The clock advances while an interrupt is waited for. *)
Tick ==
  /\ due # <<>> /\ Head(due) > totalTicks
  /\ \E ticks \in TickLengths : totalTicks' = totalTicks + ticks
  /\ UNCHANGED <<elevators, riderEvents, controllerEvents, riderWakeup, controllerWakeup, due>>

-----------------------------------------------------------------------------
(* Any controllers and riders that keep to what the operations assert *)
Call == /\ totalTicks <= MaxTicks
        /\ Len(riderEvents) + Len(controllerEvents) < MaxEvents
        /\ Len(due) < MaxPending

Controller(e) ==
  \/ Call /\ OpenDoors(e)
  \/ Call /\ CloseDoors(e)
  \/ \E floor \in Floors : Call /\ MoveTo(floor, e)

Aboard(rider) == {e \in Elevators : rider \in elevators[e].riders}

Rider(rider) ==
  \/ \E floor \in Floors : Call /\ PressButton(floor, "Up")
  \/ \E floor \in Floors, e \in Elevators :
       \/ Call /\ Aboard(rider) = {} /\ EnterElevator(floor, e, rider)
       \/ Call /\ e \in Aboard(rider) /\ PressFloor(floor, e)
       \/ Call /\ e \in Aboard(rider) /\ ExitElevator(floor, e, rider)

(* The threads that wait for events take them all when they are signalled. *)
Take ==
  /\ riderWakeup + controllerWakeup > 0
  /\ riderWakeup' = 0 /\ controllerWakeup' = 0
  /\ riderEvents' = IF riderWakeup > 0 THEN <<>> ELSE riderEvents
  /\ controllerEvents' = IF controllerWakeup > 0 THEN <<>> ELSE controllerEvents
  /\ UNCHANGED <<elevators, totalTicks, due>>

TrafficNext ==
  \/ \E e \in Elevators : Controller(e)
  \/ \E rider \in Riders : Rider(rider)
  \/ Take \/ HandleInterrupt \/ Tick

TrafficSpec == BankInit /\ [][TrafficNext]_bankVars

-----------------------------------------------------------------------------
(* A car that moves is looked at again: an interrupt is pending, whichever cars
   arrive at the same time and whichever calls redirect them.              *)
MovingIsWatched == (\E e \in Elevators : elevators[e].inMotion) => due # <<>>

(* A car that stands still is where it was sent last, and its doors are never
   open while it moves.                                                    *)
StopsWhereSent ==
  \A e \in Elevators :
    IF elevators[e].inMotion THEN ~elevators[e].doorsOpen
    ELSE elevators[e].lastFloor = elevators[e].goingTo
=============================================================================
