------------------------------- MODULE MailTest -------------------------------
(***************************************************************************)
(* The threads that use the post office.  MailTest of network/nettest.cc   *)
(* runs on two machines, which send each other a message, acknowledge the  *)
(* one that they get, and halt.  Both machines are up when the test        *)
(* starts: main waits to make sure of that.  In PostNext, any threads of   *)
(* any machines call PostOffice::Send and PostOffice::Receive.             *)
(***************************************************************************)
EXTENDS PostOffice, FiniteSets

CONSTANTS
  Sending, Senders,  \* the machines and threads of PostNext that send
  MaxMails           \* bound: how many mails each of them sends

ASSUME MailAssumption ==
  /\ numBoxes \in Nat /\ CanLose \in BOOLEAN
  /\ Sending \subseteq Machines /\ NoThread \notin Senders

VARIABLES
  phase,     \* where MailTest is on each machine
  got,       \* what it has received
  mails,     \* how many mails each thread has sent
  received   \* what was received from each box

testVars == <<phase, got>>
trafficVars == <<mails, received>>
mailVars == <<officeVars, testVars>>

(* The machines of the mail test and the boxes that it uses *)
TwoMachines == numBoxes > 1 /\ \E m, n \in Machines : m # n /\ Machines = {m, n}
Far(m) == CHOOSE n \in Machines : n # m

MailInit ==
  /\ OfficeInit
  /\ phase = [m \in Machines |-> "hello"]
  /\ got = [m \in Machines |-> <<>>]

Moves(m, p, q) == phase[m] = p /\ phase' = [phase EXCEPT ![m] = q]

(* Send the first message, and return from Send *)
SendHello(m) ==
  /\ Moves(m, "hello", "sending hello")
  /\ SendStart(m, "main", Mail(Far(m), m, 0, 1, "Hello there!"))
  /\ UNCHANGED got
HelloSent(m) ==
  /\ Moves(m, "sending hello", "await hello")
  /\ SendFinish(m, "main") /\ UNCHANGED got

(* Wait for the first message from the other machine *)
GetHello(m) ==
  /\ Moves(m, "await hello", "ack")
  /\ Get(m, 0) /\ got' = [got EXCEPT ![m] = Append(@, Head(boxes[m][0]))]

(* Mutant of Ack: to the machine that the message was sent to. *)
AckBack(m) == Mail(got[m][1].to, m, got[m][1].reply, 1, "Got it!")
(* The acknowledgement, to the box that the message names *)
Ack(m) == Mail(got[m][1].from, m, got[m][1].reply, 1, "Got it!")

SendAck(m) ==
  /\ Moves(m, "ack", "sending ack")
  /\ SendStart(m, "main", Ack(m)) /\ UNCHANGED got

(* Mutant of AckSent: the test ends here. *)
AckSentHalt(m) ==
  /\ Moves(m, "sending ack", "halted")
  /\ SendFinish(m, "main") /\ UNCHANGED got

AckSent(m) ==
  /\ Moves(m, "sending ack", "await ack")
  /\ SendFinish(m, "main") /\ UNCHANGED got

(* Wait for the acknowledgement from the other machine, and halt *)
GetAck(m) ==
  /\ Moves(m, "await ack", "halted")
  /\ Get(m, 1) /\ got' = [got EXCEPT ![m] = Append(@, Head(boxes[m][1]))]

Test(m) ==
  SendHello(m) \/ HelloSent(m) \/ GetHello(m) \/ SendAck(m) \/ AckSent(m) \/ GetAck(m)

Running(m) == phase[m] # "halted"
Devices(A, m) == Running(m) /\ A /\ UNCHANGED <<phase, got>>

MailNext == \E m \in Machines : Test(m) \/ Devices(OfficeStep(m), m)

MailSpec == MailInit /\ [][MailNext]_mailVars

-----------------------------------------------------------------------------
(* A call of PostOffice::Send by thread t of machine m, to any box of another
   machine                                                                 *)
Send(m, t) ==
  /\ mails[m][t] < MaxMails
  /\ \E to \in Machines \ {m}, b \in Boxes : SendStart(m, t, Mail(to, m, b, b, <<t, mails[m][t]>>))
  /\ mails' = [mails EXCEPT ![m][t] = @ + 1]
  /\ UNCHANGED received

(* The return from PostOffice::Send *)
Sent(m, t) == SendFinish(m, t) /\ UNCHANGED trafficVars

(* A call of PostOffice::Receive *)
Receive(m, b) ==
  /\ Get(m, b)
  /\ received' = [received EXCEPT ![m][b] = Append(@, Head(boxes[m][b]))]
  /\ UNCHANGED mails

Office(m) == OfficeStep(m) /\ UNCHANGED trafficVars

PostInit ==
  /\ OfficeInit
  /\ mails = [m \in Sending |-> [t \in Senders |-> 0]]
  /\ received = [m \in Machines |-> [b \in Boxes |-> <<>>]]

PostNext ==
  \/ \E m \in Sending, t \in Senders : Send(m, t) \/ Sent(m, t)
  \/ \E m \in Machines, b \in Boxes : Receive(m, b)
  \/ \E m \in Machines : Office(m)

PostSpec == PostInit /\ [][PostNext]_<<officeVars, trafficVars>>

-----------------------------------------------------------------------------
(* The mails to box b among the first k that were sent to a machine *)
ToBox(letters, b, k) == {j \in 1..k : letters[j].box = b}

(* The mail is the i-th of those to box b. *)
IsNth(mail, i, letters, b) ==
  \E k \in 1..Len(letters) :
    mail = letters[k] /\ mail.box = b /\ Cardinality(ToBox(letters, b, k)) = i

(* Every mail that was sent and not lost is taken from the box it was sent to,
   once and in order: a machine has one packet under way, the worker is
   signalled once for each that comes in, and files it where its header says
   (post.cc 177-290), so the i-th mail received is the i-th that was sent.  *)
MailInOrder ==
  /\ OneOutstanding /\ OneSignalPerPacket /\ InOrder
  /\ \A m \in Machines, b \in Boxes :
       \A i \in 1..Len(received[m][b]) : IsNth(received[m][b][i], i, sent[m], b)

(* A machine that has finished the test got the message of the other and the
   acknowledgement of its own, which the other had received, whatever packets
   were lost.                                                              *)
HaltedMeansHeard ==
  \A m \in Machines : phase[m] = "halted" =>
    /\ got[m] = <<Mail(m, Far(m), 0, 1, "Hello there!"), Mail(m, Far(m), 1, 1, "Got it!")>>
    /\ got[Far(m)] # <<>> /\ got[Far(m)][1] = Mail(Far(m), m, 0, 1, "Hello there!")

(* No packet is sent to a machine that has halted and closed its socket, which
   SendToSocket answers by aborting.                                       *)
NobodyGone ==
  \A m \in Machines : Len(sock'[m]) > Len(sock[m]) => Running(m)

(* A machine that has finished the mail test (nettest.cc) was heard and heard
   the other, whatever packets were lost, and nothing is ever sent to a machine
   that has halted.                                                        *)
HaltIsAgreed ==
  HaltedMeansHeard /\ [][HaltedMeansHeard' /\ NobodyGone]_mailVars

(* Without losses the test ends on both machines. *)
TestEnds == <>(\A m \in Machines : phase[m] = "halted")
=============================================================================
