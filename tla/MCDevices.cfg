SPECIFICATION MCSpec
CONSTANTS
  Machines = {1, 2}
  numBoxes = 2
  CanLose = TRUE
  Sending = {1}
  Senders = {"s", "t"}
  MaxMails = 2
  Sources = {"disk", "console"}
  Delays = {1, 5}
  SystemTick = 3
  UserTick = 1
  TimerTicks = 2
  randomize = TRUE
  MaxTime = 8
  Chars = {"a", "b", "q"}
  MaxTyped = 4
  numElevators = 2
  numFloors = 3
  MaxRiders = 1
  DelayPerFloor = 2
  TickLengths = {1}
  Riders = {"rider"}
  MaxTicks = 2
  MaxEvents = 1
  MaxPending = 3
  TestDelay = 3
  TestTicks = {1, 2}
INVARIANTS MailInOrder TimeIsExact EchoIsFaithful CarsAreSafe
PROPERTIES HaltIsAgreed DevicesProgress
CHECK_DEADLOCK FALSE
