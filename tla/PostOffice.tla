------------------------------ MODULE PostOffice ------------------------------
(***************************************************************************)
(* The post offices of several machines and the network between them:      *)
(* machine/network.cc and network/post.cc.  The parts below have no next-  *)
(* state relation of their own: their callers are in module MailTest.      *)
(* A mail box is a SynchList, used by what it promises (see                *)
(* BlockingQueue), locks and semaphores by what module SynchSpec promises. *)
(* A socket is a queue of datagrams (machine/sysdep.cc).                   *)
(***************************************************************************)
EXTENDS Integers, Sequences

CONSTANTS
  Machines,    \* NetworkAddress of each machine
  numBoxes,    \* mail boxes of a post office
  CanLose      \* whether reliability < 1

VARIABLES
  sock,              \* datagrams that wait at each machine
  inbox,             \* the packet that is buffered, at most one (inHdr.length # 0)
  sendBusy, sendPending,  \* the flag, and the interrupts scheduled by Network::Send
  messageAvailable, messageSent, sendLock,
  worker,            \* whether the postal worker has been woken
  boxes,
  sent, delivered    \* history: packets put on the way to and boxed at a machine

netVars == <<sock, inbox, sendBusy, sendPending>>
postVars == <<messageAvailable, messageSent, sendLock, worker, boxes>>
officeVars == <<netVars, postVars, sent, delivered>>

NoThread == "none"
Boxes == 0..(numBoxes - 1)

(* PacketHeader and MailHeader with the data *)
Mail(to, from, box, reply, data) ==
  [to |-> to, from |-> from, box |-> box, reply |-> reply, data |-> data]

(* Network::Network and PostOffice::PostOffice of every machine *)
OfficeInit ==
  /\ sock = [m \in Machines |-> <<>>] /\ inbox = [m \in Machines |-> <<>>]
  /\ sendBusy = [m \in Machines |-> FALSE] /\ sendPending = [m \in Machines |-> 0]
  /\ messageAvailable = [m \in Machines |-> 0] /\ messageSent = [m \in Machines |-> 0]
  /\ sendLock = [m \in Machines |-> NoThread]
  /\ worker = [m \in Machines |-> FALSE]
  /\ boxes = [m \in Machines |-> [b \in Boxes |-> <<>>]]
  /\ sent = [m \in Machines |-> <<>>] /\ delivered = [m \in Machines |-> <<>>]

-----------------------------------------------------------------------------
(* SendToSocket, PollSocket and ReadFromSocket *)
SendToSocket(mail) ==
  /\ sock' = [sock EXCEPT ![mail.to] = Append(@, mail)]
  /\ sent' = [sent EXCEPT ![mail.to] = Append(@, mail)]
PollSocket(m) == sock[m] # <<>>
ReadFromSocket(m) ==
  /\ sock' = [sock EXCEPT ![m] = Tail(@)]
  /\ inbox' = [inbox EXCEPT ![m] = <<Head(sock[m])>>]

(* Network::Send by machine m: the interrupt comes whether the packet is lost or
   not.  Nothing ever sets sendBusy.                                       *)
NetworkSend(m, mail) ==
  /\ ~sendBusy[m]
  /\ sendPending' = [sendPending EXCEPT ![m] = @ + 1]
  /\ SendToSocket(mail) \/ (CanLose /\ UNCHANGED <<sock, sent>>)

(* Mutant of SendLocked: the lock is not waited for. *)
SendLockedNot(m, t) == sendLock' = [sendLock EXCEPT ![m] = t]
(* sendLock->Acquire() by thread t *)
SendLocked(m, t) == sendLock[m] = NoThread /\ sendLock' = [sendLock EXCEPT ![m] = t]

(* PostOffice::Send by thread t of machine m, up to the wait ... *)
SendStart(m, t, mail) ==
  /\ SendLocked(m, t)
  /\ NetworkSend(m, mail)
  /\ UNCHANGED <<inbox, sendBusy, messageAvailable, messageSent, worker, boxes, delivered>>

(* ... and after it *)
SendFinish(m, t) ==
  /\ sendLock[m] = t /\ messageSent[m] > 0
  /\ messageSent' = [messageSent EXCEPT ![m] = @ - 1]
  /\ sendLock' = [sendLock EXCEPT ![m] = NoThread]
  /\ UNCHANGED <<netVars, messageAvailable, worker, boxes, sent, delivered>>

(* Mutant of PacketSent: the thread that sent is not told. *)
PacketSentSilent(m) == UNCHANGED messageSent
(* PostOffice::PacketSent *)
PacketSent(m) == messageSent' = [messageSent EXCEPT ![m] = @ + 1]

(* Network::SendDone *)
SendDone(m) ==
  /\ sendPending[m] > 0
  /\ sendPending' = [sendPending EXCEPT ![m] = @ - 1]
  /\ sendBusy' = [sendBusy EXCEPT ![m] = FALSE]
  /\ PacketSent(m)
  /\ UNCHANGED <<sock, inbox, messageAvailable, sendLock, worker, boxes, sent, delivered>>

-----------------------------------------------------------------------------
(* Mutant of IncomingPacket: the worker is not told. *)
IncomingPacketSilent(m) == UNCHANGED messageAvailable
(* PostOffice::IncomingPacket *)
IncomingPacket(m) == messageAvailable' = [messageAvailable EXCEPT ![m] = @ + 1]

(* Whether inHdr.length is 0.  Mutant of BufferFree: the packet that is buffered is replaced. *)
BufferFreeAlways(m) == TRUE
BufferFree(m) == inbox[m] = <<>>

(* Network::CheckPktAvail, when it finds something to do *)
CheckPktAvail(m) ==
  /\ BufferFree(m) /\ PollSocket(m)
  /\ ReadFromSocket(m)
  /\ IncomingPacket(m)
  /\ UNCHANGED <<sendBusy, sendPending, messageSent, sendLock, worker, boxes, sent, delivered>>

(* PostOffice::PostalDelivery: the worker waits for a packet ... *)
MessageAvailableP(m) ==
  /\ ~worker[m] /\ messageAvailable[m] > 0
  /\ messageAvailable' = [messageAvailable EXCEPT ![m] = @ - 1]
  /\ worker' = [worker EXCEPT ![m] = TRUE]
  /\ UNCHANGED <<netVars, messageSent, sendLock, boxes, sent, delivered>>

(* Network::Receive, when a packet is buffered *)
NetworkReceive(m) == inbox' = [inbox EXCEPT ![m] = <<>>]

(* Mutant of Put: the message goes to the front. *)
PutFront(m, mail) == boxes' = [boxes EXCEPT ![m][mail.box] = <<mail>> \o @]
(* MailBox::Put *)
Put(m, mail) == boxes' = [boxes EXCEPT ![m][mail.box] = Append(@, mail)]

(* ... and puts it into its box *)
PostalDelivery(m) ==
  /\ worker[m] /\ inbox[m] # <<>>
  /\ NetworkReceive(m)
  /\ Put(m, inbox[m][1])
  /\ delivered' = [delivered EXCEPT ![m] = Append(@, inbox[m][1])]
  /\ worker' = [worker EXCEPT ![m] = FALSE]
  /\ UNCHANGED <<sock, sendBusy, sendPending, messageAvailable, messageSent, sendLock, sent>>

(* MailBox::Get, PostOffice::Receive: of the head of the box *)
Get(m, b) ==
  /\ boxes[m][b] # <<>>
  /\ boxes' = [boxes EXCEPT ![m][b] = Tail(@)]
  /\ UNCHANGED <<netVars, messageAvailable, messageSent, sendLock, worker, sent, delivered>>

(* The interrupts and the postal worker of machine m *)
OfficeStep(m) ==
  SendDone(m) \/ CheckPktAvail(m) \/ MessageAvailableP(m) \/ PostalDelivery(m)

-----------------------------------------------------------------------------
(* At most one packet of a machine is on its way to the wire: while a thread
   holds the lock its interrupt is pending or has come and is not yet seen,
   and otherwise there is neither, so that no thread takes the interrupt of
   an earlier packet for that of its own.                                  *)
OneOutstanding ==
  \A m \in Machines :
    sendPending[m] + messageSent[m] = IF sendLock[m] = NoThread THEN 0 ELSE 1

(* The packet buffer of the device and the semaphore agree: the worker is woken,
   or about to be, exactly if a packet is buffered.                        *)
OneSignalPerPacket ==
  \A m \in Machines :
    messageAvailable[m] + (IF worker[m] THEN 1 ELSE 0) = Len(inbox[m])

(* Packets are neither lost (after they left), duplicated nor reordered on the
   way through socket, buffer and worker.                                  *)
InOrder ==
  \A m \in Machines : sent[m] = delivered[m] \o inbox[m] \o sock[m]
=============================================================================
