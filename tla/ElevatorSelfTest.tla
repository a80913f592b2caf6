--------------------------- MODULE ElevatorSelfTest ---------------------------
(***************************************************************************)
(* The self test of the elevators (machine/elevatortest.cc): a rider who   *)
(* goes from floor 0 to floor 1 and a controller of the one car.  A step   *)
(* that fails an assertion goes to "abort".  The rider deletes the bank in *)
(* the end, and nothing is modelled after that.                            *)
(***************************************************************************)
EXTENDS Elevator

CONSTANTS TestDelay, TestTicks  \* delay per floor and clock of the self test

ASSUME SelfTestAssumption == {TestDelay} \cup TestTicks \subseteq Nat \ {0}

VARIABLES
  car, toRider, toController,  \* the bank of the test: its car, the events posted,
  riderSem, controllerSem,     \* the semaphores of the two handlers,
  testClock, testDue,          \* the clock and the interrupts
  rider, controller,  \* where the two threads are
  asleep              \* which of them wait for a semaphore

testBankVars == <<car, toRider, toController, riderSem, controllerSem, testClock, testDue>>
selfVars == <<testBankVars, rider, controller, asleep>>

(* The one car and the two floors of the self test *)
Tested == INSTANCE Elevator WITH
  numElevators <- 1, numFloors <- 2, MaxRiders <- 4, DelayPerFloor <- TestDelay,
  TickLengths <- TestTicks, Riders <- {}, MaxTicks <- 0, MaxEvents <- 0, MaxPending <- 0,
  elevators <- car, riderEvents <- toRider, controllerEvents <- toController,
  riderWakeup <- riderSem, controllerWakeup <- controllerSem,
  totalTicks <- testClock, due <- testDue

(* ElevatorInspector::ElevatorInspector and ElevatorSelfTest *)
SelfInit == Tested!BankInit /\ rider = "press" /\ controller = "call" /\ asleep = {}

Then(ok, next) == IF ok THEN next ELSE "abort"
IsEvent(posted, ev, floor) == posted.event = ev /\ posted.floor = floor

-----------------------------------------------------------------------------
(* RiderTest *)
RiderPress ==
  /\ rider = "press" /\ rider' = "board"
  /\ Tested!PressButton(0, "Up") /\ UNCHANGED <<controller, asleep>>

(* WaitForNextRiderEvent: without an event the rider waits for the handler *)
RiderWaits ==
  /\ rider \in {"board", "leave"} /\ "rider" \notin asleep /\ toRider = <<>>
  /\ asleep' = asleep \union {"rider"}
  /\ UNCHANGED <<testBankVars, rider, controller>>
RiderWakes ==
  /\ "rider" \in asleep /\ asleep' = asleep \ {"rider"}
  /\ riderSem > 0 /\ riderSem' = riderSem - 1
  /\ UNCHANGED <<car, toRider, toController, controllerSem, testClock, testDue,
                 rider, controller>>

RiderEvent ==
  /\ rider \in {"board", "leave"} /\ "rider" \notin asleep /\ Tested!getNextRiderEvent
  /\ LET posted == Head(toRider)
     IN rider' = IF rider = "board"
                 THEN Then(/\ IsEvent(posted, "DoorsOpened", 0)
                           /\ Tested!getDirection(posted.elevator) = "Up", "enter")
                 ELSE Then(IsEvent(posted, "DoorsOpened", 1), "exit")
  /\ UNCHANGED <<controller, asleep>>

RiderEnters ==
  /\ rider = "enter" /\ rider' = Then(Tested!DoorsAt(0, 0), "floor")
  /\ Tested!EnterElevator(0, 0, "rider") /\ UNCHANGED <<controller, asleep>>
RiderPressFloor ==
  /\ rider = "floor" /\ rider' = "leave"
  /\ Tested!PressFloor(1, 0) /\ UNCHANGED <<controller, asleep>>
RiderExits ==
  /\ rider = "exit" /\ rider' = Then(Tested!DoorsAt(0, 1), "done")
  /\ Tested!ExitElevator(1, 0, "rider") /\ UNCHANGED <<controller, asleep>>

RiderTest ==
  \/ RiderPress \/ RiderWaits \/ RiderWakes \/ RiderEvent \/ RiderEnters
  \/ RiderPressFloor \/ RiderExits

-----------------------------------------------------------------------------
(* ControllerTest: the three events that it waits for, and what it does then *)
Awaited == [call |-> <<"UpButtonPressed", 0>>, drive |-> <<"FloorButtonPressed", 1>>,
            arrive |-> <<"ElevatorArrived", 1>>]
Waiting == {"call", "drive", "arrive"}

(* WaitForNextControllerEvent *)
ControllerWaits ==
  /\ controller \in Waiting /\ "controller" \notin asleep /\ toController = <<>>
  /\ asleep' = asleep \union {"controller"}
  /\ UNCHANGED <<testBankVars, rider, controller>>
ControllerWakes ==
  /\ "controller" \in asleep /\ asleep' = asleep \ {"controller"}
  /\ controllerSem > 0 /\ controllerSem' = controllerSem - 1
  /\ UNCHANGED <<car, toRider, toController, riderSem, testClock, testDue,
                 rider, controller>>

AfterEvent == [call |-> "mark", drive |-> "close", arrive |-> "open"]
ControllerEvent ==
  /\ controller \in Waiting /\ "controller" \notin asleep /\ Tested!getNextControllerEvent
  /\ LET posted == Head(toController)
     IN controller' = Then(/\ IsEvent(posted, Awaited[controller][1], Awaited[controller][2])
                           /\ controller = "call" => Tested!WhereIsElevator(0) = 0,
                           AfterEvent[controller])
  /\ UNCHANGED <<rider, asleep>>

(* Mutant of ControllerMarks: down. *)
ControllerMarksDown ==
  /\ controller = "mark" /\ controller' = "open" /\ Tested!MarkDirection(0, "Down") /\ UNCHANGED <<rider, asleep>>
ControllerMarks ==
  /\ controller = "mark" /\ controller' = "open" /\ Tested!MarkDirection(0, "Up") /\ UNCHANGED <<rider, asleep>>
ControllerOpens ==
  /\ controller = "open"
  /\ controller' = IF car[0].lastFloor = 0 THEN "drive" ELSE "done"
  /\ Tested!OpenDoors(0) /\ UNCHANGED <<rider, asleep>>
ControllerCloses ==
  /\ controller = "close" /\ controller' = "move" /\ Tested!CloseDoors(0) /\ UNCHANGED <<rider, asleep>>
ControllerMoves ==
  /\ controller = "move" /\ controller' = "arrive" /\ Tested!MoveTo(1, 0) /\ UNCHANGED <<rider, asleep>>

ControllerTest ==
  \/ ControllerWaits \/ ControllerWakes \/ ControllerEvent \/ ControllerMarks \/ ControllerOpens
  \/ ControllerCloses \/ ControllerMoves

-----------------------------------------------------------------------------
Bank(A) == rider # "done" /\ A /\ UNCHANGED <<rider, controller, asleep>>

SelfNext == RiderTest \/ ControllerTest \/ Bank(Tested!HandleInterrupt) \/ Bank(Tested!Tick)

SelfSpec == SelfInit /\ [][SelfNext]_selfVars

(* No assertion of the test fails, however rider, controller and interrupts
   interleave: each gets the events it expects, in order, and the doors are
   still open when the rider gets there.                                   *)
NoAssertionFails == rider # "abort" /\ controller # "abort"

(* The rider gets to the other floor and off the car: no wakeup is lost. *)
RiderArrives == <>(rider = "done" /\ car[0].riders = {} /\ car[0].lastFloor = 1)

(* An interrupt is pending for the cars that move, a car stands where it was
   sent and moves with its doors closed (elevator.cc 295-320), and no assertion
   of elevatortest.cc fails, however its threads interleave.               *)
CarsAreSafe == MovingIsWatched /\ StopsWhereSent /\ NoAssertionFails
=============================================================================
