------------------------------ MODULE MCDevices -----------------------------
(***************************************************************************)
(* The interrupts, the devices of machine/ and the post office of network/, *)
(* one at a time: part says which of them runs, the others stay in their   *)
(* initial states, so the behaviours are those of each part by itself.     *)
(***************************************************************************)
EXTENDS MailTest, Interrupt, Console, ElevatorSelfTest

VARIABLE part  \* what runs

allVars == <<part, officeVars, trafficVars, testVars, intVars, consoleVars, bankVars, selfVars>>

(* The mail test without losses *)
Reliable == INSTANCE MailTest WITH CanLose <- FALSE

-----------------------------------------------------------------------------
MCInit ==
  /\ part \in {"traffic", "lossy", "reliable", "interrupt", "console", "elevator", "selfTest"}
  /\ PostInit /\ MailInit
  /\ IntInit /\ (part = "interrupt" \/ pending[1].when = 1)
  /\ ConsoleInit /\ BankInit /\ SelfInit

(* Part p runs, the other parts stay as they are. *)
Only(p) ==
  /\ part = p /\ UNCHANGED part
  /\ IF p \in {"traffic", "lossy", "reliable"} THEN TRUE ELSE UNCHANGED officeVars
  /\ IF p = "traffic" THEN TRUE ELSE UNCHANGED trafficVars
  /\ IF p \in {"lossy", "reliable"} THEN TRUE ELSE UNCHANGED testVars
  /\ IF p = "interrupt" THEN TRUE ELSE UNCHANGED intVars
  /\ IF p = "console" THEN TRUE ELSE UNCHANGED consoleVars
  /\ IF p = "elevator" THEN TRUE ELSE UNCHANGED bankVars
  /\ IF p = "selfTest" THEN TRUE ELSE UNCHANGED selfVars

MCNext ==
  \/ Only("traffic") /\ PostNext
  \/ Only("lossy") /\ MailNext
  \/ Only("reliable") /\ Reliable!MailNext
  \/ Only("interrupt") /\ IntNext
  \/ Only("console") /\ ConsoleNext
  \/ Only("elevator") /\ TrafficNext
  \/ Only("selfTest") /\ SelfNext

(* Interrupts come when they are due, the threads they wake go on, and nobody
   has to send, to type or to call an elevator.                            *)
MCSpec ==
  /\ MCInit /\ [][MCNext]_allVars
  /\ \A m \in Machines :
       /\ WF_officeVars(part = "traffic" /\ SendDone(m))
       /\ WF_officeVars(part = "traffic" /\ CheckPktAvail(m))
       /\ WF_officeVars(part = "traffic" /\ MessageAvailableP(m))
       /\ WF_officeVars(part = "traffic" /\ PostalDelivery(m))
       /\ \A b \in Boxes : WF_officeVars(part = "traffic" /\ Get(m, b))
       /\ WF_mailVars(part = "reliable" /\ Reliable!Test(m))
       /\ WF_mailVars(part = "reliable" /\ Reliable!Devices(Reliable!SendDone(m), m))
       /\ WF_mailVars(part = "reliable" /\ Reliable!Devices(Reliable!CheckPktAvail(m), m))
       /\ WF_mailVars(part = "reliable" /\ Reliable!Devices(Reliable!MessageAvailableP(m), m))
       /\ WF_mailVars(part = "reliable" /\ Reliable!Devices(Reliable!PostalDelivery(m), m))
  /\ \A m \in Sending, t \in Senders : WF_officeVars(part = "traffic" /\ SendFinish(m, t))
  /\ WF_consoleVars(part = "console" /\ CheckCharAvail)
  /\ WF_consoleVars(part = "console" /\ WriteDone)
  /\ WF_consoleVars(part = "console" /\ ConsoleTest)
  /\ WF_bankVars(part = "elevator" /\ HandleInterrupt)
  /\ WF_bankVars(part = "elevator" /\ Tick)
  /\ WF_selfVars(part = "selfTest" /\ RiderTest)
  /\ WF_selfVars(part = "selfTest" /\ ControllerTest)
  /\ WF_selfVars(part = "selfTest" /\ Bank(Tested!HandleInterrupt))
  /\ WF_selfVars(part = "selfTest" /\ Bank(Tested!Tick))

-----------------------------------------------------------------------------
(* What a device has begun ends, and its callers go on: every PostOffice::Send
   returns, whether its packet was lost or not; a packet that leaves is
   received, however full the buffer is; without losses the mail test ends on
   both machines; all that is typed before a "q" is displayed; a car that is
   sent off arrives, wherever it is redirected meanwhile; and the rider of the
   self test gets to the other floor and off the car.                      *)
DevicesProgress ==
  /\ part = "traffic" =>
       /\ \A m \in Sending : (sendLock[m] # NoThread) ~> (sendLock[m] = NoThread)
       /\ \A m \in Machines, b \in Boxes :
            (sock[m] # <<>>) ~> (Len(received[m][b]) = Cardinality(ToBox(sent[m], b, Len(sent[m]))))
  /\ part = "reliable" => Reliable!TestEnds
  /\ part = "console" => EchoesAll
  /\ \A e \in Elevators :
       (part = "elevator" /\ elevators[e].inMotion)
         ~> (part = "elevator" /\ ~elevators[e].inMotion)
  /\ part = "selfTest" => RiderArrives
=============================================================================
