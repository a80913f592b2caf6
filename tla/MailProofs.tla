----------------------------- MODULE MailProofs -----------------------------
(***************************************************************************)
(* Proofs about the post office, for any number of machines, boxes and     *)
(* threads, and about the mail test on two machines.                       *)
(***************************************************************************)
EXTENDS MailTest, TLAPS

(* A leaf that names no prover is for SMT, twice, and then for Zenon. *)
USE SMTT(10), Z3T(20), Zenon

(* Appending to a sequence *)
LEMMA Appended ==
  ASSUME NEW S, NEW s \in Seq(S), NEW e \in S
  PROVE  /\ Append(s, e) \in Seq(S) /\ Len(Append(s, e)) = Len(s) + 1 /\ Len(s) \in Nat
         /\ \A i \in 1..Len(s) : Append(s, e)[i] = s[i]
         /\ Append(s, e)[Len(s) + 1] = e
OBVIOUS

(* Taking the first of a sequence *)
LEMMA Removed ==
  ASSUME NEW S, NEW s \in Seq(S), s # <<>>
  PROVE  /\ Head(s) \in S /\ Head(s) = s[1] /\ Len(s) \in Nat /\ Len(s) > 0
         /\ Tail(s) \in Seq(S) /\ Len(Tail(s)) = Len(s) - 1
         /\ \A i \in 1..(Len(s) - 1) : Tail(s)[i] = s[i + 1]
OBVIOUS

(* Sequences with the same items are equal. *)
LEMMA SameItems ==
  ASSUME NEW S, NEW s \in Seq(S), NEW t \in Seq(S), Len(s) = Len(t),
         \A i \in 1..Len(s) : s[i] = t[i]
  PROVE  s = t
OBVIOUS

(* One and two items *)
LEMMA Items ==
  ASSUME NEW x, NEW y
  PROVE  Append(<<>>, x) = <<x>> /\ Append(<<x>>, y) = <<x, y>>
<1>1. <<x>> \in Seq({x, y}) /\ Len(<<x>>) = 1 /\ <<x>>[1] = x
  OBVIOUS
<1>2. <<x, y>> \in Seq({x, y}) /\ Len(<<x, y>>) = 2 /\ <<x, y>>[1] = x /\ <<x, y>>[2] = y
  OBVIOUS
<1>3. Append(<<>>, x) = <<x>>
  OBVIOUS
<1> DEFINE s == <<x>>
           a == Append(s, y)
           t == <<x, y>>
<1>4. a \in Seq({x, y}) /\ Len(a) = Len(s) + 1 /\ a[Len(s) + 1] = y /\ \A i \in 1..Len(s) : a[i] = s[i]
  BY <1>1, Appended
<1> HIDE DEF a, t, s
<1>5. Len(a) = Len(t) /\ \A i \in 1..Len(a) : a[i] = t[i]
  <2>1. Len(s) = 1 /\ s[1] = x /\ Len(t) = 2 /\ t[1] = x /\ t[2] = y
    BY <1>1, <1>2 DEF s, t
  <2>2. Len(a) = 2 /\ a[2] = y /\ a[1] = x
    BY <1>4, <2>1
  <2> QED BY <2>1, <2>2
<1>6. t \in Seq({x, y})
  BY <1>2 DEF t
<1>7. a = t
  BY <1>4, <1>5, <1>6, SameItems
<1> QED BY <1>3, <1>7 DEF a, s, t

LEMMA Concatenated ==
  ASSUME NEW S, NEW s \in Seq(S), NEW t \in Seq(S)
  PROVE  /\ s \o t \in Seq(S) /\ Len(s \o t) = Len(s) + Len(t) /\ Len(s) \in Nat /\ Len(t) \in Nat
         /\ \A i \in 1..Len(s) : (s \o t)[i] = s[i]
         /\ \A i \in 1..Len(t) : (s \o t)[Len(s) + i] = t[i]
OBVIOUS

LEMMA Begins ==
  ASSUME NEW S, NEW s \in Seq(S), NEW t \in Seq(S), NEW q, q = s \o t
  PROVE  /\ q \in Seq(S) /\ Len(s) \in Nat /\ Len(q) \in Nat /\ Len(s) <= Len(q)
         /\ \A i \in 1..Len(s) : i \in 1..Len(q) /\ q[i] = s[i]
OBVIOUS

(* The first of the second sequence may as well be the last of the first. *)
LEMMA MovesOver ==
  ASSUME NEW S, NEW s \in Seq(S), NEW t \in Seq(S), t # <<>>
  PROVE  Append(s, Head(t)) \o Tail(t) = s \o t
<1> DEFINE a == Append(s, Head(t))
           l == a \o Tail(t)
           r == s \o t
<1>1. /\ Head(t) = t[1] /\ Head(t) \in S /\ Len(t) \in Nat /\ Len(t) > 0
      /\ Tail(t) \in Seq(S) /\ Len(Tail(t)) = Len(t) - 1
      /\ \A i \in 1..(Len(t) - 1) : Tail(t)[i] = t[i + 1]
  BY Removed
<1>2. /\ a \in Seq(S) /\ Len(a) = Len(s) + 1 /\ Len(s) \in Nat /\ a[Len(s) + 1] = t[1]
      /\ \A i \in 1..Len(s) : a[i] = s[i]
  BY <1>1, Appended
<1> HIDE DEF a
<1>3. /\ l \in Seq(S) /\ Len(l) = Len(a) + Len(Tail(t))
      /\ \A i \in 1..Len(a) : l[i] = a[i]
      /\ \A i \in 1..Len(Tail(t)) : l[Len(a) + i] = Tail(t)[i]
  <2>1. a \in Seq(S) /\ Tail(t) \in Seq(S)
    BY <1>1, <1>2
  <2> QED BY <2>1, Concatenated
<1>4. /\ r \in Seq(S) /\ Len(r) = Len(s) + Len(t)
      /\ \A i \in 1..Len(s) : r[i] = s[i]
      /\ \A i \in 1..Len(t) : r[Len(s) + i] = t[i]
  BY Concatenated
<1> HIDE DEF l, r
<1>5. Len(l) = Len(r)
  BY <1>1, <1>2, <1>3, <1>4
<1>6. ASSUME NEW i \in 1..Len(l) PROVE l[i] = r[i]
  <2>1. CASE i <= Len(s)
    BY <1>1, <1>2, <1>3, <1>4, <2>1
  <2>2. CASE i = Len(s) + 1
    BY <1>1, <1>2, <1>3, <1>4, <2>2
  <2>3. CASE i > Len(s) + 1
    <3> DEFINE k == i - (Len(s) + 1)
    <3>1. k \in 1..Len(Tail(t)) /\ i = Len(a) + k /\ k + 1 \in 1..Len(t) /\ i = Len(s) + (k + 1)
      BY <1>1, <1>2, <1>3, <2>3
    <3> HIDE DEF k
    <3>2. l[i] = Tail(t)[k] /\ r[i] = t[k + 1] /\ Tail(t)[k] = t[k + 1]
      BY <1>1, <1>3, <1>4, <3>1
    <3> QED BY <3>2, Zenon
  <2> QED BY <1>1, <1>2, <1>3, <2>1, <2>2, <2>3
<1> QED BY <1>3, <1>4, <1>5, <1>6, SameItems DEF a, l, r

(* Appending to the second sequence appends to both. *)
LEMMA AppendsToBoth ==
  ASSUME NEW S, NEW s \in Seq(S), NEW t \in Seq(S), NEW e \in S
  PROVE  s \o Append(t, e) = Append(s \o t, e)
<1> DEFINE a == Append(t, e)
           c == s \o t
           l == s \o a
           r == Append(c, e)
<1>1. /\ a \in Seq(S) /\ Len(a) = Len(t) + 1 /\ Len(t) \in Nat /\ a[Len(t) + 1] = e
      /\ \A i \in 1..Len(t) : a[i] = t[i]
  BY Appended
<1>2. /\ c \in Seq(S) /\ Len(c) = Len(s) + Len(t) /\ Len(s) \in Nat
      /\ \A i \in 1..Len(s) : c[i] = s[i]
      /\ \A i \in 1..Len(t) : c[Len(s) + i] = t[i]
  BY Concatenated
<1> HIDE DEF a, c
<1>3. /\ l \in Seq(S) /\ Len(l) = Len(s) + Len(a)
      /\ \A i \in 1..Len(s) : l[i] = s[i]
      /\ \A i \in 1..Len(a) : l[Len(s) + i] = a[i]
  <2>1. a \in Seq(S)
    BY <1>1
  <2> QED BY <2>1, Concatenated
<1>4. /\ r \in Seq(S) /\ Len(r) = Len(c) + 1 /\ r[Len(c) + 1] = e
      /\ \A i \in 1..Len(c) : r[i] = c[i]
  BY <1>2, Appended
<1> HIDE DEF l, r
<1>5. Len(l) = Len(r)
  BY <1>1, <1>2, <1>3, <1>4
<1>6. ASSUME NEW i \in 1..Len(l) PROVE l[i] = r[i]
  <2>1. CASE i <= Len(s)
    BY <1>1, <1>2, <1>3, <1>4, <2>1
  <2>2. CASE i > Len(s) /\ i # Len(s) + Len(t) + 1
    <3> DEFINE k == i - Len(s)
    <3>1. k \in 1..Len(t) /\ k \in 1..Len(a) /\ i = Len(s) + k /\ i \in 1..Len(c)
      BY <1>1, <1>2, <1>3, <2>2
    <3> HIDE DEF k
    <3> QED BY <1>1, <1>2, <1>3, <1>4, <3>1
  <2>3. CASE i = Len(s) + Len(t) + 1
    <3>1. Len(t) + 1 \in 1..Len(a) /\ i = Len(s) + (Len(t) + 1)
      BY <1>1, <1>2, <2>3
    <3> QED BY <1>1, <1>2, <1>3, <1>4, <2>3, <3>1
  <2> QED BY <1>1, <1>2, <1>3, <2>1, <2>2, <2>3
<1> QED BY <1>3, <1>4, <1>5, <1>6, SameItems DEF a, c, l, r

(* A packet goes from the socket to the buffer, and from there to the worker. *)
LEMMA BufferTaken ==
  ASSUME NEW S, NEW s \in Seq(S), NEW t \in Seq(S), t # <<>>
  PROVE  s \o <<>> \o t = s \o <<Head(t)>> \o Tail(t)
<1>1. Head(t) \in S
  BY Removed
<1>2. s \o <<>> = s /\ s \o <<Head(t)>> = Append(s, Head(t))
  BY <1>1
<1> QED BY <1>2, MovesOver

LEMMA Boxed ==
  ASSUME NEW S, NEW s \in Seq(S), NEW t \in Seq(S), NEW e \in S
  PROVE  s \o <<e>> \o t = Append(s, e) \o <<>> \o t
<1>1. s \o <<e>> = Append(s, e)
  OBVIOUS
<1>2. Append(s, e) \o <<>> = Append(s, e)
  OBVIOUS
<1> QED BY <1>1, <1>2

-----------------------------------------------------------------------------
(* The packets of PostNext *)
Letters == [to : Machines, from : Machines, box : Boxes, reply : Boxes, data : Senders \X Int]

PostTypes ==
  /\ sock \in [Machines -> Seq(Letters)] /\ inbox \in [Machines -> Seq(Letters)]
  /\ sent \in [Machines -> Seq(Letters)] /\ delivered \in [Machines -> Seq(Letters)]
  /\ sendPending \in [Machines -> Nat] /\ messageSent \in [Machines -> Nat]
  /\ messageAvailable \in [Machines -> Nat]
  /\ sendLock \in [Machines -> Senders \cup {NoThread}] /\ worker \in [Machines -> BOOLEAN]
  /\ boxes \in [Machines -> [Boxes -> Seq(Letters)]]
  /\ received \in [Machines -> [Boxes -> Seq(Letters)]]
  /\ mails \in [Sending -> [Senders -> Int]]

(* What was or will be received from a box is what was delivered to it. *)
Ordered(q, letters, b) ==
  /\ \A i \in 1..Len(q) : IsNth(q[i], i, letters, b)
  /\ Cardinality(ToBox(letters, b, Len(letters))) = Len(q)
BoxesInOrder ==
  \A m \in Machines, b \in Boxes : Ordered(received[m][b] \o boxes[m][b], delivered[m], b)

(* The device buffers one packet. *)
OneBuffered == \A m \in Machines : inbox[m] = <<>> \/ \E x \in Letters : inbox[m] = <<x>>

PostInv ==
  PostTypes /\ OneBuffered /\ OneOutstanding /\ OneSignalPerPacket /\ InOrder /\ BoxesInOrder

(* Letters that begin with the letters l have the same first to each box. *)
LEMMA SamePrefix ==
  ASSUME NEW l \in Seq(Letters), NEW l2 \in Seq(Letters), NEW b, Len(l) <= Len(l2),
         \A i \in 1..Len(l) : l2[i] = l[i]
  PROVE  /\ \A k \in 0..Len(l) : ToBox(l2, b, k) = ToBox(l, b, k)
         /\ \A x, i : IsNth(x, i, l, b) => IsNth(x, i, l2, b)
<1>1. Len(l) \in Nat /\ Len(l2) \in Nat
  OBVIOUS
<1>2. ASSUME NEW k \in 0..Len(l) PROVE ToBox(l2, b, k) = ToBox(l, b, k)
  <2>1. \A j \in 1..k : j \in 1..Len(l) /\ l2[j] = l[j]
    BY <1>1
  <2> QED BY <2>1 DEF ToBox
<1>3. ASSUME NEW x, NEW i, IsNth(x, i, l, b) PROVE IsNth(x, i, l2, b)
  <2>1. PICK k \in 1..Len(l) : x = l[k] /\ x.box = b /\ Cardinality(ToBox(l, b, k)) = i
    BY <1>3 DEF IsNth
  <2>2. k \in 1..Len(l2) /\ l2[k] = l[k] /\ k \in 0..Len(l)
    BY <1>1
  <2>3. ToBox(l2, b, k) = ToBox(l, b, k)
    BY <1>2, <2>2
  <2> QED BY <2>1, <2>2, <2>3 DEF IsNth
<1> QED BY <1>2, <1>3

(* ... and the others do not. *)
LEMMA OrderedOther ==
  ASSUME NEW q, NEW l \in Seq(Letters), NEW e \in Letters, NEW b,
         e.box # b, Ordered(q, l, b)
  PROVE  Ordered(q, Append(l, e), b)
<1> DEFINE l2 == Append(l, e)
<1>1. /\ l2 \in Seq(Letters) /\ Len(l2) = Len(l) + 1 /\ Len(l) \in Nat
      /\ \A i \in 1..Len(l) : l2[i] = l[i]
      /\ l2[Len(l) + 1] = e
  BY Appended
<1> HIDE DEF l2
<1>2. /\ ToBox(l2, b, Len(l)) = ToBox(l, b, Len(l))
      /\ \A x, i : IsNth(x, i, l, b) => IsNth(x, i, l2, b)
  <2>1. Len(l) <= Len(l2) /\ Len(l) \in 0..Len(l)
    BY <1>1
  <2> QED BY <1>1, <2>1, SamePrefix
<1>3. ToBox(l2, b, Len(l) + 1) = ToBox(l2, b, Len(l))
  <2>1. 1..(Len(l) + 1) = (1..Len(l)) \cup {Len(l) + 1}
    BY <1>1
  <2> QED BY <1>1, <2>1 DEF ToBox
<1> QED BY <1>1, <1>2, <1>3 DEF Ordered, l2

-----------------------------------------------------------------------------
(* A call of Send is the start of Send with some packet to another machine. *)
LEMMA SendSendsMail ==
  ASSUME PostTypes, NEW m \in Sending, NEW t \in Senders, Send(m, t)
  PROVE  /\ \E mail \in Letters : SendStart(m, t, mail)
         /\ mails' \in [Sending -> [Senders -> Int]] /\ UNCHANGED received
         /\ m \in Machines /\ t # NoThread
<1>1. m \in Machines /\ t # NoThread
  BY MailAssumption
<1>2. PICK to \in Machines \ {m}, b \in Boxes : SendStart(m, t, Mail(to, m, b, b, <<t, mails[m][t]>>))
  BY DEF Send
<1>3. mails[m][t] \in Int
  BY DEF PostTypes
<1>4. Mail(to, m, b, b, <<t, mails[m][t]>>) \in Letters
  BY <1>1, <1>3 DEF Mail, Letters
<1>5. mails' \in [Sending -> [Senders -> Int]] /\ UNCHANGED received
  <2>1. mails' = [mails EXCEPT ![m][t] = @ + 1] /\ UNCHANGED received
    BY DEF Send
  <2>2. mails \in [Sending -> [Senders -> Int]]
    BY DEF PostTypes
  <2> QED BY <1>3, <2>1, <2>2
<1> QED BY <1>1, <1>2, <1>4, <1>5

(* Every step leaves the state in its type. *)
LEMMA PostTypesKept ==
  ASSUME PostTypes, [PostNext]_<<officeVars, trafficVars>>
  PROVE  PostTypes'
<1> USE DEF PostTypes
<1>1. CASE UNCHANGED <<officeVars, trafficVars>>
  BY <1>1 DEF officeVars, netVars, postVars, trafficVars
<1>2. ASSUME NEW m \in Sending, NEW t \in Senders, Send(m, t) PROVE PostTypes'
  <2>1. PICK mail \in Letters : SendStart(m, t, mail)
    BY <1>2, SendSendsMail
  <2>2. /\ m \in Machines /\ mails' \in [Sending -> [Senders -> Int]] /\ UNCHANGED received
    BY <1>2, SendSendsMail
  <2>3. sendLock' \in [Machines -> Senders \cup {NoThread}]
    BY <2>1, <2>2 DEF SendStart, SendLocked
  <2>4. sendPending' \in [Machines -> Nat]
    BY <2>1, <2>2 DEF SendStart, NetworkSend
  <2>5. sock' \in [Machines -> Seq(Letters)] /\ sent' \in [Machines -> Seq(Letters)]
    <3>1. CASE UNCHANGED <<sock, sent>>
      BY <3>1
    <3>2. CASE SendToSocket(mail)
      <4>1. mail.to \in Machines
        BY DEF Letters
      <4>2. /\ Append(sock[mail.to], mail) \in Seq(Letters)
            /\ Append(sent[mail.to], mail) \in Seq(Letters)
        BY <4>1, Appended
      <4> QED BY <3>2, <4>1, <4>2 DEF SendToSocket
    <3> QED BY <2>1, <3>1, <3>2 DEF SendStart, NetworkSend
  <2> QED BY <2>1, <2>2, <2>3, <2>4, <2>5 DEF SendStart
<1>3. ASSUME NEW m \in Sending, NEW t \in Senders, Sent(m, t) PROVE PostTypes'
  <2>1. m \in Machines
    BY MailAssumption
  <2>2. messageSent' \in [Machines -> Nat]
    BY <1>3, <2>1 DEF Sent, SendFinish
  <2> QED BY <1>3, <2>1, <2>2 DEF Sent, SendFinish, netVars, trafficVars
<1>4. ASSUME NEW m \in Machines, NEW b \in Boxes, Receive(m, b) PROVE PostTypes'
  <2>1. Tail(boxes[m][b]) \in Seq(Letters) /\ Append(received[m][b], Head(boxes[m][b])) \in Seq(Letters)
    <3>1. boxes[m][b] # <<>> /\ boxes[m][b] \in Seq(Letters) /\ received[m][b] \in Seq(Letters)
      BY <1>4 DEF Receive, Get
    <3> QED BY <3>1, Removed, Appended
  <2>2. boxes' \in [Machines -> [Boxes -> Seq(Letters)]]
    BY <1>4, <2>1 DEF Receive, Get
  <2>3. received' \in [Machines -> [Boxes -> Seq(Letters)]]
    BY <1>4, <2>1 DEF Receive, Get
  <2> QED BY <1>4, <2>2, <2>3 DEF Receive, Get, netVars
<1>5. ASSUME NEW m \in Machines, Office(m) PROVE PostTypes'
  <2>1. CASE SendDone(m)
    BY <1>5, <2>1 DEF Office, SendDone, PacketSent, trafficVars
  <2>2. CASE CheckPktAvail(m)
    <3>1. sock[m] # <<>> /\ sock[m] \in Seq(Letters)
      BY <2>2 DEF CheckPktAvail, PollSocket
    <3>2. Tail(sock[m]) \in Seq(Letters) /\ Head(sock[m]) \in Letters
      BY <3>1, Removed
    <3>3. <<Head(sock[m])>> \in Seq(Letters)
      BY <3>2
    <3>4. sock' \in [Machines -> Seq(Letters)] /\ inbox' \in [Machines -> Seq(Letters)]
      BY <2>2, <3>2, <3>3 DEF CheckPktAvail, ReadFromSocket
    <3>5. messageAvailable' \in [Machines -> Nat]
      BY <2>2 DEF CheckPktAvail, IncomingPacket
    <3> QED BY <1>5, <2>2, <3>4, <3>5 DEF Office, CheckPktAvail, trafficVars
  <2>3. CASE MessageAvailableP(m)
    <3>1. messageAvailable' \in [Machines -> Nat]
      BY <2>3 DEF MessageAvailableP
    <3>2. worker' \in [Machines -> BOOLEAN]
      BY <2>3 DEF MessageAvailableP
    <3> QED BY <1>5, <2>3, <3>1, <3>2 DEF Office, MessageAvailableP, netVars, trafficVars
  <2>4. CASE PostalDelivery(m)
    <3> DEFINE mail == inbox[m][1]
    <3>1. inbox[m] # <<>> /\ inbox[m] \in Seq(Letters)
      BY <2>4 DEF PostalDelivery
    <3>2. mail \in Letters /\ mail.box \in Boxes
      <4>1. mail \in Letters
        BY <3>1, Removed
      <4> QED BY <4>1 DEF Letters
    <3>3. /\ inbox' = [inbox EXCEPT ![m] = <<>>]
          /\ boxes' = [boxes EXCEPT ![m][mail.box] = Append(@, mail)]
          /\ delivered' = [delivered EXCEPT ![m] = Append(@, mail)]
          /\ worker' = [worker EXCEPT ![m] = FALSE]
      BY <2>4 DEF PostalDelivery, NetworkReceive, Put
    <3> HIDE DEF mail
    <3>4. inbox' \in [Machines -> Seq(Letters)] /\ delivered' \in [Machines -> Seq(Letters)]
      BY <3>2, <3>3
    <3>5. boxes' \in [Machines -> [Boxes -> Seq(Letters)]]
      <4>1. Append(boxes[m][mail.box], mail) \in Seq(Letters)
        BY <3>2, Appended
      <4> QED BY <3>2, <3>3, <4>1
    <3>6. worker' \in [Machines -> BOOLEAN]
      BY <3>3
    <3> QED BY <1>5, <2>4, <3>4, <3>5, <3>6 DEF Office, PostalDelivery, trafficVars
  <2> QED BY <1>5, <2>1, <2>2, <2>3, <2>4, Zenon DEF Office, OfficeStep
<1> QED BY <1>1, <1>2, <1>3, <1>4, <1>5, Zenon DEF PostNext

(* A thread that holds the lock has one packet on its way to the wire. *)
LEMMA OneOutstandingKept ==
  ASSUME PostTypes, OneOutstanding, [PostNext]_<<officeVars, trafficVars>>
  PROVE  OneOutstanding'
<1>1. /\ sendPending \in [Machines -> Nat] /\ messageSent \in [Machines -> Nat]
      /\ sendLock = [m \in Machines |-> sendLock[m]]
  BY DEF PostTypes
<1>2. ASSUME UNCHANGED <<sendPending, messageSent, sendLock>> PROVE OneOutstanding'
  BY <1>2 DEF OneOutstanding
<1>3. ASSUME NEW m \in Sending, NEW t \in Senders, Send(m, t) PROVE OneOutstanding'
  <2>1. PICK mail \in Letters : SendStart(m, t, mail)
    BY <1>3, SendSendsMail
  <2>2. m \in Machines /\ t # NoThread
    BY <1>3, SendSendsMail
  <2>3. /\ sendLock[m] = NoThread /\ sendLock' = [sendLock EXCEPT ![m] = t]
        /\ sendPending' = [sendPending EXCEPT ![m] = @ + 1] /\ UNCHANGED messageSent
    BY <2>1 DEF SendStart, SendLocked, NetworkSend
  <2> QED BY <1>1, <2>2, <2>3 DEF OneOutstanding
<1>4. ASSUME NEW m \in Sending, NEW t \in Senders, Sent(m, t) PROVE OneOutstanding'
  <2>1. m \in Machines /\ t # NoThread
    BY MailAssumption
  <2>2. /\ sendLock[m] = t /\ sendLock' = [sendLock EXCEPT ![m] = NoThread] /\ messageSent[m] > 0
        /\ messageSent' = [messageSent EXCEPT ![m] = @ - 1] /\ UNCHANGED sendPending
    BY <1>4 DEF Sent, SendFinish, netVars
  <2> QED BY <1>1, <2>1, <2>2 DEF OneOutstanding
<1>5. ASSUME NEW m \in Machines, NEW b \in Boxes, Receive(m, b) PROVE OneOutstanding'
  BY <1>2, <1>5 DEF Receive, Get, netVars
<1>6. ASSUME NEW m \in Machines, Office(m) PROVE OneOutstanding'
  <2>1. CASE SendDone(m)
    <3>1. /\ sendPending[m] > 0 /\ sendPending' = [sendPending EXCEPT ![m] = @ - 1]
          /\ messageSent' = [messageSent EXCEPT ![m] = @ + 1] /\ UNCHANGED sendLock
      BY <2>1 DEF SendDone, PacketSent
    <3> QED BY <1>1, <3>1 DEF OneOutstanding
  <2>2. CASE CheckPktAvail(m)
    BY <1>2, <2>2 DEF CheckPktAvail
  <2>3. CASE MessageAvailableP(m)
    BY <1>2, <2>3 DEF MessageAvailableP, netVars
  <2>4. CASE PostalDelivery(m)
    BY <1>2, <2>4 DEF PostalDelivery
  <2> QED BY <1>6, <2>1, <2>2, <2>3, <2>4 DEF Office, OfficeStep
<1>7. CASE UNCHANGED <<officeVars, trafficVars>>
  BY <1>2, <1>7 DEF officeVars, netVars, postVars
<1> QED BY <1>3, <1>4, <1>5, <1>6, <1>7 DEF PostNext

(* The buffer is filled only when it is empty. *)
LEMMA OneBufferedKept ==
  ASSUME PostTypes, OneBuffered, [PostNext]_<<officeVars, trafficVars>>
  PROVE  OneBuffered'
<1>1. inbox \in [Machines -> Seq(Letters)] /\ sock \in [Machines -> Seq(Letters)]
  BY DEF PostTypes
<1>2. ASSUME UNCHANGED inbox PROVE OneBuffered'
  BY <1>2 DEF OneBuffered
<1>3. ASSUME NEW m \in Sending, NEW t \in Senders, Send(m, t) PROVE OneBuffered'
  <2>1. PICK mail \in Letters : SendStart(m, t, mail)
    BY <1>3, SendSendsMail
  <2> QED BY <1>2, <2>1 DEF SendStart
<1>4. ASSUME NEW m \in Sending, NEW t \in Senders, Sent(m, t) PROVE OneBuffered'
  BY <1>2, <1>4 DEF Sent, SendFinish, netVars
<1>5. ASSUME NEW m \in Machines, NEW b \in Boxes, Receive(m, b) PROVE OneBuffered'
  BY <1>2, <1>5 DEF Receive, Get, netVars
<1>6. ASSUME NEW m \in Machines, Office(m) PROVE OneBuffered'
  <2>1. CASE SendDone(m)
    BY <1>2, <2>1 DEF SendDone
  <2>2. CASE CheckPktAvail(m)
    <3>1. Head(sock[m]) \in Letters
      BY <1>1, <2>2, Removed DEF CheckPktAvail, PollSocket
    <3>2. inbox' = [inbox EXCEPT ![m] = <<Head(sock[m])>>]
      BY <2>2 DEF CheckPktAvail, ReadFromSocket
    <3> QED BY <1>1, <3>1, <3>2 DEF OneBuffered
  <2>3. CASE MessageAvailableP(m)
    BY <1>2, <2>3 DEF MessageAvailableP, netVars
  <2>4. CASE PostalDelivery(m)
    BY <1>1, <2>4 DEF PostalDelivery, NetworkReceive, OneBuffered
  <2> QED BY <1>6, <2>1, <2>2, <2>3, <2>4 DEF Office, OfficeStep
<1>7. CASE UNCHANGED <<officeVars, trafficVars>>
  BY <1>2, <1>7 DEF officeVars, netVars, postVars
<1> QED BY <1>3, <1>4, <1>5, <1>6, <1>7 DEF PostNext

(* The worker is signalled once for each packet. *)
LEMMA OneSignalKept ==
  ASSUME PostTypes, OneBuffered, OneSignalPerPacket, [PostNext]_<<officeVars, trafficVars>>
  PROVE  OneSignalPerPacket'
<1>1. /\ messageAvailable \in [Machines -> Nat] /\ worker = [m \in Machines |-> worker[m]]
      /\ inbox \in [Machines -> Seq(Letters)]
  BY DEF PostTypes
<1>2. ASSUME UNCHANGED <<messageAvailable, worker, inbox>> PROVE OneSignalPerPacket'
  BY <1>2 DEF OneSignalPerPacket
<1>3. ASSUME NEW m \in Sending, NEW t \in Senders, Send(m, t) PROVE OneSignalPerPacket'
  <2>1. PICK mail \in Letters : SendStart(m, t, mail)
    BY <1>3, SendSendsMail
  <2> QED BY <1>2, <2>1 DEF SendStart
<1>4. ASSUME NEW m \in Sending, NEW t \in Senders, Sent(m, t) PROVE OneSignalPerPacket'
  BY <1>2, <1>4 DEF Sent, SendFinish, netVars
<1>5. ASSUME NEW m \in Machines, NEW b \in Boxes, Receive(m, b) PROVE OneSignalPerPacket'
  BY <1>2, <1>5 DEF Receive, Get, netVars
<1>6. ASSUME NEW m \in Machines, Office(m) PROVE OneSignalPerPacket'
  <2>1. CASE SendDone(m)
    BY <1>2, <2>1 DEF SendDone
  <2>2. CASE CheckPktAvail(m)
    <3> DEFINE mail == Head(sock[m])
    <3>1. /\ inbox[m] = <<>> /\ inbox' = [inbox EXCEPT ![m] = <<mail>>]
          /\ messageAvailable' = [messageAvailable EXCEPT ![m] = @ + 1] /\ UNCHANGED worker
      BY <2>2 DEF CheckPktAvail, BufferFree, ReadFromSocket, IncomingPacket
    <3> HIDE DEF mail
    <3>2. Len(inbox[m]) = 0 /\ Len(inbox'[m]) = 1
      BY <1>1, <3>1
    <3>3. \A n \in Machines \ {m} : /\ inbox'[n] = inbox[n] /\ worker'[n] = worker[n]
                                    /\ messageAvailable'[n] = messageAvailable[n]
      BY <1>1, <3>1
    <3>4. messageAvailable'[m] = messageAvailable[m] + 1 /\ worker'[m] = worker[m]
      BY <1>1, <3>1
    <3>5. messageAvailable'[m] + (IF worker'[m] THEN 1 ELSE 0) = Len(inbox'[m])
      <4>1. messageAvailable[m] \in Nat /\ messageAvailable[m] + (IF worker[m] THEN 1 ELSE 0) = 0
        BY <1>1, <3>2 DEF OneSignalPerPacket
      <4> QED BY <3>2, <3>4, <4>1
    <3> QED BY <3>3, <3>5 DEF OneSignalPerPacket
  <2>3. CASE MessageAvailableP(m)
    <3>1. /\ ~worker[m] /\ messageAvailable[m] > 0 /\ worker' = [worker EXCEPT ![m] = TRUE]
          /\ messageAvailable' = [messageAvailable EXCEPT ![m] = @ - 1] /\ UNCHANGED inbox
      BY <2>3 DEF MessageAvailableP, netVars
    <3>2. \A n \in Machines \ {m} : /\ inbox'[n] = inbox[n] /\ worker'[n] = worker[n]
                                    /\ messageAvailable'[n] = messageAvailable[n]
      BY <1>1, <3>1
    <3>3. messageAvailable'[m] = messageAvailable[m] - 1 /\ worker'[m] /\ inbox'[m] = inbox[m]
      BY <1>1, <3>1
    <3>4. messageAvailable[m] \in Nat /\ messageAvailable[m] = Len(inbox[m])
      BY <1>1, <3>1 DEF OneSignalPerPacket
    <3>5. messageAvailable'[m] + (IF worker'[m] THEN 1 ELSE 0) = Len(inbox'[m])
      BY <3>3, <3>4
    <3> QED BY <3>2, <3>5 DEF OneSignalPerPacket
  <2>4. CASE PostalDelivery(m)
    <3>1. /\ worker[m] /\ inbox[m] # <<>> /\ worker' = [worker EXCEPT ![m] = FALSE]
          /\ inbox' = [inbox EXCEPT ![m] = <<>>] /\ UNCHANGED messageAvailable
      BY <2>4 DEF PostalDelivery, NetworkReceive
    <3>2. \A n \in Machines \ {m} : /\ inbox'[n] = inbox[n] /\ worker'[n] = worker[n]
                                    /\ messageAvailable'[n] = messageAvailable[n]
      BY <1>1, <3>1
    <3>3. ~worker'[m] /\ inbox'[m] = <<>> /\ messageAvailable'[m] = messageAvailable[m]
      BY <1>1, <3>1
    <3>4. messageAvailable[m] \in Nat /\ messageAvailable[m] + 1 = Len(inbox[m])
      <4>1. messageAvailable[m] \in Nat
        BY <1>1
      <4>2. messageAvailable[m] + (IF worker[m] THEN 1 ELSE 0) = Len(inbox[m])
        BY DEF OneSignalPerPacket
      <4>3. (IF worker[m] THEN 1 ELSE 0) = 1
        BY <3>1
      <4> QED BY <4>1, <4>2, <4>3
    <3>5. Len(inbox[m]) <= 1
      <4>1. PICK x \in Letters : inbox[m] = <<x>>
        BY <3>1 DEF OneBuffered
      <4> QED BY <4>1
    <3>6. messageAvailable'[m] + (IF worker'[m] THEN 1 ELSE 0) = Len(inbox'[m])
      BY <3>3, <3>4, <3>5
    <3> QED BY <3>2, <3>6 DEF OneSignalPerPacket
  <2> QED BY <1>6, <2>1, <2>2, <2>3, <2>4 DEF Office, OfficeStep
<1>7. CASE UNCHANGED <<officeVars, trafficVars>>
  BY <1>2, <1>7 DEF officeVars, netVars, postVars
<1> QED BY <1>3, <1>4, <1>5, <1>6, <1>7 DEF PostNext

(* What was sent to a machine and not lost is boxed, buffered or at its
   socket, in this order. *)
LEMMA InOrderKept ==
  ASSUME PostTypes, OneBuffered, InOrder, [PostNext]_<<officeVars, trafficVars>>
  PROVE  InOrder'
<1>1. /\ inbox \in [Machines -> Seq(Letters)] /\ sock \in [Machines -> Seq(Letters)]
      /\ sent \in [Machines -> Seq(Letters)] /\ delivered \in [Machines -> Seq(Letters)]
  BY DEF PostTypes
<1>2. ASSUME UNCHANGED <<sock, inbox, sent, delivered>> PROVE InOrder'
  BY <1>2, Zenon DEF InOrder
<1>3. ASSUME NEW m \in Sending, NEW t \in Senders, Send(m, t) PROVE InOrder'
  <2>1. PICK mail \in Letters : SendStart(m, t, mail)
    BY <1>3, SendSendsMail
  <2>2. CASE UNCHANGED <<sock, sent>>
    BY <1>2, <2>1, <2>2 DEF SendStart
  <2>3. CASE SendToSocket(mail)
    <3> DEFINE to == mail.to
    <3>1. to \in Machines
      BY DEF Letters
    <3>2. /\ sock' = [sock EXCEPT ![to] = Append(@, mail)]
          /\ sent' = [sent EXCEPT ![to] = Append(@, mail)] /\ UNCHANGED <<inbox, delivered>>
      BY <2>1, <2>3 DEF SendToSocket, SendStart
    <3> HIDE DEF to
    <3>3. \A n \in Machines \ {to} : sock'[n] = sock[n] /\ sent'[n] = sent[n]
      BY <1>1, <3>2
    <3>4. sock'[to] = Append(sock[to], mail) /\ sent'[to] = Append(sent[to], mail)
      BY <1>1, <3>1, <3>2
    <3>5. (delivered[to] \o inbox[to]) \o Append(sock[to], mail)
            = Append((delivered[to] \o inbox[to]) \o sock[to], mail)
      <4>1. delivered[to] \o inbox[to] \in Seq(Letters)
        BY <1>1, <3>1, Concatenated
      <4>2. sock[to] \in Seq(Letters)
        BY <1>1, <3>1
      <4>3. \A s, r \in Seq(Letters) : s \o Append(r, mail) = Append(s \o r, mail)
        BY AppendsToBoth
      <4> QED BY <4>1, <4>2, <4>3, Zenon
    <3>6. sent[to] = delivered[to] \o inbox[to] \o sock[to]
      BY <3>1, Zenon DEF InOrder
    <3>7. sent'[to] = delivered'[to] \o inbox'[to] \o sock'[to]
      BY <3>2, <3>4, <3>5, <3>6, Zenon
    <3> QED BY <3>2, <3>3, <3>7, Zenon DEF InOrder
  <2> QED BY <2>1, <2>2, <2>3 DEF SendStart, NetworkSend
<1>4. ASSUME NEW m \in Sending, NEW t \in Senders, Sent(m, t) PROVE InOrder'
  BY <1>2, <1>4 DEF Sent, SendFinish, netVars
<1>5. ASSUME NEW m \in Machines, NEW b \in Boxes, Receive(m, b) PROVE InOrder'
  BY <1>2, <1>5 DEF Receive, Get, netVars
<1>6. ASSUME NEW m \in Machines, Office(m) PROVE InOrder'
  <2>1. CASE SendDone(m)
    BY <1>2, <2>1 DEF SendDone
  <2>2. CASE CheckPktAvail(m)
    <3>1. /\ inbox[m] = <<>> /\ sock[m] # <<>> /\ UNCHANGED <<sent, delivered>>
          /\ inbox' = [inbox EXCEPT ![m] = <<Head(sock[m])>>] /\ sock' = [sock EXCEPT ![m] = Tail(@)]
      BY <2>2 DEF CheckPktAvail, BufferFree, PollSocket, ReadFromSocket
    <3>2. \A n \in Machines \ {m} : sock'[n] = sock[n] /\ inbox'[n] = inbox[n]
      BY <1>1, <3>1
    <3>3. sock'[m] = Tail(sock[m]) /\ inbox'[m] = <<Head(sock[m])>>
      BY <1>1, <3>1
    <3>4. delivered[m] \o <<>> \o sock[m] = delivered[m] \o <<Head(sock[m])>> \o Tail(sock[m])
      <4>1. \A s, t \in Seq(Letters) : t # <<>> => s \o <<>> \o t = s \o <<Head(t)>> \o Tail(t)
        BY BufferTaken, Zenon
      <4>2. delivered[m] \in Seq(Letters) /\ sock[m] \in Seq(Letters)
        BY <1>1
      <4> QED BY <3>1, <4>1, <4>2, Zenon
    <3>5. sent[m] = delivered[m] \o inbox[m] \o sock[m]
      BY Zenon DEF InOrder
    <3>6. sent'[m] = delivered'[m] \o inbox'[m] \o sock'[m]
      BY <3>1, <3>3, <3>4, <3>5, Zenon
    <3> QED BY <3>1, <3>2, <3>6, Zenon DEF InOrder
  <2>3. CASE MessageAvailableP(m)
    BY <1>2, <2>3 DEF MessageAvailableP, netVars
  <2>4. CASE PostalDelivery(m)
    <3>1. inbox[m] # <<>>
      BY <2>4 DEF PostalDelivery
    <3>2. PICK x \in Letters : inbox[m] = <<x>>
      BY <3>1 DEF OneBuffered
    <3>3. inbox[m][1] = x
      BY <3>2
    <3>4. /\ inbox' = [inbox EXCEPT ![m] = <<>>] /\ UNCHANGED <<sent, sock>>
          /\ delivered' = [delivered EXCEPT ![m] = Append(@, x)]
      BY <2>4, <3>3 DEF PostalDelivery, NetworkReceive
    <3>5. \A n \in Machines \ {m} : delivered'[n] = delivered[n] /\ inbox'[n] = inbox[n]
      BY <1>1, <3>4
    <3>6. delivered'[m] = Append(delivered[m], x) /\ inbox'[m] = <<>>
      BY <1>1, <3>4
    <3>7. delivered[m] \o <<x>> \o sock[m] = Append(delivered[m], x) \o <<>> \o sock[m]
      <4>1. \A s, t \in Seq(Letters) : s \o <<x>> \o t = Append(s, x) \o <<>> \o t
        BY Boxed
      <4>2. delivered[m] \in Seq(Letters) /\ sock[m] \in Seq(Letters)
        BY <1>1
      <4> QED BY <4>1, <4>2, Zenon
    <3>8. sent[m] = delivered[m] \o inbox[m] \o sock[m]
      BY Zenon DEF InOrder
    <3>9. sent'[m] = delivered'[m] \o inbox'[m] \o sock'[m]
      BY <3>2, <3>4, <3>6, <3>7, <3>8, Zenon
    <3> QED BY <3>4, <3>5, <3>9, Zenon DEF InOrder
  <2> QED BY <1>6, <2>1, <2>2, <2>3, <2>4 DEF Office, OfficeStep
<1>7. CASE UNCHANGED <<officeVars, trafficVars>>
  BY <1>2, <1>7 DEF officeVars, netVars, postVars
<1> QED BY <1>3, <1>4, <1>5, <1>6, <1>7 DEF PostNext

(* The invariant gives the property: what was received is a first part of what
   was delivered, and that of what was sent. *)
LEMMA PostInvInOrder == PostInv => MailInOrder
<1> SUFFICES ASSUME PostInv, NEW m \in Machines, NEW b \in Boxes,
                    NEW i \in 1..Len(received[m][b])
             PROVE  IsNth(received[m][b][i], i, sent[m], b)
  BY DEF PostInv, MailInOrder
<1>1. /\ received[m][b] \in Seq(Letters) /\ boxes[m][b] \in Seq(Letters)
      /\ inbox[m] \in Seq(Letters) /\ sock[m] \in Seq(Letters) /\ delivered[m] \in Seq(Letters)
  BY DEF PostInv, PostTypes
<1>2. PICK r, p, q : r = received[m][b] /\ p = boxes[m][b] /\ q = r \o p
  BY Zenon
<1>3. i \in 1..Len(q) /\ q[i] = received[m][b][i]
  <2>1. i \in 1..Len(r) /\ r[i] = received[m][b][i]
    BY <1>2
  <2>2. r \in Seq(Letters) /\ p \in Seq(Letters) /\ q = r \o p
    BY <1>1, <1>2
  <2>3. i \in 1..Len(q) /\ q[i] = r[i]
    BY <2>1, <2>2, Begins
  <2> QED BY <2>1, <2>3
<1>4. IsNth(q[i], i, delivered[m], b)
  BY <1>2, <1>3, Zenon DEF PostInv, BoxesInOrder, Ordered
<1>5. PICK l, k, d : l = delivered[m] /\ k = inbox[m] /\ d = l \o k
  BY Zenon
<1>6. /\ d \in Seq(Letters) /\ Len(l) <= Len(d) /\ Len(d) \in Nat /\ l \in Seq(Letters)
      /\ \A j \in 1..Len(l) : j \in 1..Len(d) /\ d[j] = l[j]
  <2>1. l \in Seq(Letters) /\ k \in Seq(Letters) /\ d = l \o k
    BY <1>1, <1>5
  <2> QED BY <2>1, Begins
<1>7. sent[m] = d \o sock[m]
  BY <1>5, Zenon DEF PostInv, InOrder
<1>8. /\ sent[m] \in Seq(Letters) /\ Len(d) <= Len(sent[m])
      /\ \A j \in 1..Len(d) : sent[m][j] = d[j]
  BY <1>1, <1>6, <1>7, Begins
<1>9. IsNth(q[i], i, d, b)
  BY <1>4, <1>5, <1>6, SamePrefix, Zenon
<1>10. IsNth(q[i], i, sent[m], b)
  BY <1>6, <1>8, <1>9, SamePrefix, Zenon
<1> QED BY <1>3, <1>10

-----------------------------------------------------------------------------
(* What the machines of the mail test send each other *)
Hello(m) == Mail(m, Far(m), 0, 1, "Hello there!")
AckTo(m) == Mail(m, Far(m), 1, 1, "Got it!")

Phases ==
  {"hello", "sending hello", "await hello", "ack", "sending ack", "await ack", "halted"}
BeforeHello == {"hello", "sending hello", "await hello"}
AfterAck == {"sending ack", "await ack", "halted"}

(* What can be on its way to machine m *)
May(m) == IF phase[Far(m)] \in AfterAck THEN {Hello(m), AckTo(m)} ELSE {Hello(m)}
MayBox(m, b) == {x \in May(m) : x.box = b}

TestTypes ==
  /\ phase \in [Machines -> Phases]
  /\ sock = [m \in Machines |-> sock[m]] /\ inbox = [m \in Machines |-> inbox[m]]
  /\ got = [m \in Machines |-> got[m]] /\ boxes = [m \in Machines |-> boxes[m]]
  /\ \A m \in Machines : boxes[m] = [b \in Boxes |-> boxes[m][b]]

(* Nothing but the message of the other machine reaches a machine, and the
   acknowledgement only when the other has had the message. *)
Carried ==
  \A m \in Machines :
    /\ sock[m] \in Seq(May(m)) /\ inbox[m] \in Seq(May(m))
    /\ \A b \in Boxes : boxes[m][b] \in Seq(MayBox(m, b))

(* What a machine has got, and that the other is past its acknowledgement when
   a machine halts *)
Told ==
  \A m \in Machines :
    /\ phase[m] \in BeforeHello => got[m] = <<>>
    /\ phase[m] \in {"ack", "sending ack", "await ack"} => got[m] = <<Hello(m)>>
    /\ phase[m] = "halted" => got[m] = <<Hello(m), AckTo(m)>> /\ phase[Far(m)] \in AfterAck

TestInv == TestTypes /\ Carried /\ Told

(* There are two machines, each of them the far one of the other. *)
LEMMA FarIsOther ==
  ASSUME TwoMachines, NEW m \in Machines
  PROVE  /\ Far(m) \in Machines /\ Far(m) # m /\ Far(Far(m)) = m
         /\ \A n \in Machines : n = m \/ n = Far(m)
<1>1. PICK x \in Machines, y \in Machines : x # y /\ Machines = {x, y}
  BY DEF TwoMachines
<1>2. \A n \in Machines : Far(n) \in Machines /\ Far(n) # n
  <2> SUFFICES ASSUME NEW n \in Machines PROVE Far(n) \in Machines /\ Far(n) # n
    BY Zenon
  <2>1. \E k \in Machines : k # n
    BY <1>1
  <2> QED BY <2>1 DEF Far
<1>3. Far(m) \in Machines /\ Far(m) # m
  BY <1>2
<1>4. Far(Far(m)) \in Machines /\ Far(Far(m)) # Far(m)
  BY <1>2, <1>3
<1> HIDE DEF Far
<1> QED BY <1>1, <1>3, <1>4

LEMMA Packets ==
  ASSUME NEW m
  PROVE  /\ Hello(m).box = 0 /\ AckTo(m).box = 1 /\ Hello(m).from = Far(m) /\ Hello(m).reply = 1
         /\ Hello(m).to = m /\ AckTo(m).to = m
BY DEF Hello, AckTo, Mail

LEMMA SeqGrows ==
  ASSUME NEW S, NEW T, S \subseteq T, NEW s \in Seq(S)
  PROVE  s \in Seq(T)
OBVIOUS

(* The first message can only be in box 0, and the acknowledgement in box 1. *)
LEMMA MayBoxes ==
  ASSUME NEW m
  PROVE  /\ MayBox(m, 0) = {Hello(m)}
         /\ \A x \in MayBox(m, 1) : x = AckTo(m) /\ phase[Far(m)] \in AfterAck
BY Packets DEF MayBox, May

LEMMA TestInitInv == TwoMachines /\ MailInit => TestInv
<1> SUFFICES ASSUME TwoMachines, MailInit PROVE TestInv
  OBVIOUS
<1>1. TestTypes
  BY DEF MailInit, OfficeInit, TestTypes, Phases
<1>2. ASSUME NEW m \in Machines
      PROVE  /\ sock[m] \in Seq(May(m)) /\ inbox[m] \in Seq(May(m))
             /\ \A b \in Boxes : boxes[m][b] \in Seq(MayBox(m, b))
             /\ phase[m] = "hello" /\ got[m] = <<>>
  BY DEF MailInit, OfficeInit
<1> QED BY <1>1, <1>2, Zenon DEF TestInv, Carried, Told, BeforeHello

(* What may be on its way grows. *)
LEMMA MayGrows ==
  ASSUME TwoMachines, NEW m \in Machines, NEW p, NEW q,
         phase \in [Machines -> Phases], phase[m] = p, phase' = [phase EXCEPT ![m] = q],
         p \in AfterAck => q \in AfterAck
  PROVE  \A n \in Machines : /\ May(n) \subseteq May(n)'
                             /\ \A b : MayBox(n, b) \subseteq MayBox(n, b)'
<1> SUFFICES ASSUME NEW n \in Machines
             PROVE  May(n) \subseteq May(n)' /\ \A b : MayBox(n, b) \subseteq MayBox(n, b)'
  OBVIOUS
<1>1. Far(n) \in Machines
  BY FarIsOther
<1>2. phase[Far(n)] \in AfterAck => phase'[Far(n)] \in AfterAck
  BY <1>1
<1>3. May(n) \subseteq May(n)'
  BY <1>2 DEF May
<1> QED BY <1>3 DEF MayBox

(* What is on its way stays in what may be. *)
LEMMA CarriedOn ==
  ASSUME TwoMachines, NEW m \in Machines, NEW p, NEW q, Carried,
         phase \in [Machines -> Phases], phase[m] = p, phase' = [phase EXCEPT ![m] = q],
         p \in AfterAck => q \in AfterAck
  PROVE  \A n \in Machines :
           /\ sock[n] \in Seq(May(n)') /\ inbox[n] \in Seq(May(n)')
           /\ \A b \in Boxes : boxes[n][b] \in Seq(MayBox(n, b)')
<1> SUFFICES ASSUME NEW n \in Machines
             PROVE  /\ sock[n] \in Seq(May(n)') /\ inbox[n] \in Seq(May(n)')
                    /\ \A b \in Boxes : boxes[n][b] \in Seq(MayBox(n, b)')
  OBVIOUS
<1>1. May(n) \subseteq May(n)' /\ \A b : MayBox(n, b) \subseteq MayBox(n, b)'
  BY MayGrows, Zenon
<1>2. sock[n] \in Seq(May(n)) /\ inbox[n] \in Seq(May(n))
  BY DEF Carried
<1>3. ASSUME NEW b \in Boxes PROVE boxes[n][b] \in Seq(MayBox(n, b)')
  <2>1. boxes[n][b] \in Seq(MayBox(n, b)) /\ MayBox(n, b) \subseteq MayBox(n, b)'
    BY <1>1 DEF Carried
  <2> QED BY <2>1, SeqGrows
<1> QED BY <1>1, <1>2, <1>3, SeqGrows

(* Starting to send a packet that may be sent *)
LEMMA MailSent ==
  ASSUME TwoMachines, TestInv, NEW m \in Machines, NEW mail, NEW p, NEW q \in Phases,
         Moves(m, p, q), p \notin AfterAck, SendStart(m, "main", mail), UNCHANGED got,
         mail.to = Far(m), mail \in May(Far(m))'
  PROVE  TestTypes' /\ Carried'
<1> DEFINE f == Far(m)
<1>1. f \in Machines /\ f # m
  BY FarIsOther
<1>2. phase[m] = p /\ phase' = [phase EXCEPT ![m] = q] /\ phase \in [Machines -> Phases]
  BY DEF Moves, TestInv, TestTypes
<1>3. \A n \in Machines :
        /\ sock[n] \in Seq(May(n)') /\ inbox[n] \in Seq(May(n)')
        /\ \A b \in Boxes : boxes[n][b] \in Seq(MayBox(n, b)')
  <2>1. p \in AfterAck => q \in AfterAck
    OBVIOUS
  <2> QED BY <1>2, <2>1, CarriedOn, Zenon DEF TestInv
<1>4. sock' = sock \/ sock' = [sock EXCEPT ![f] = Append(@, mail)]
  BY DEF SendStart, NetworkSend, SendToSocket
<1>5. UNCHANGED <<inbox, boxes, got>>
  BY DEF SendStart
<1> HIDE DEF f
<1>6. TestTypes'
  BY <1>1, <1>2, <1>4, <1>5 DEF TestInv, TestTypes
<1>7. ASSUME NEW n \in Machines PROVE sock'[n] \in Seq(May(n)')
  <2>1. CASE sock'[n] = sock[n]
    BY <1>3, <2>1
  <2>2. CASE n = f /\ sock'[n] = Append(sock[n], mail)
    <3>1. sock[n] \in Seq(May(n)') /\ mail \in May(n)'
      BY <1>3, <2>2 DEF f
    <3> QED BY <2>2, <3>1, Appended
  <2> QED BY <1>1, <1>4, <2>1, <2>2 DEF TestInv, TestTypes
<1>8. Carried'
  BY <1>3, <1>5, <1>7 DEF Carried
<1> QED BY <1>6, <1>8

(* Taking a mail from a box *)
LEMMA MailTaken ==
  ASSUME TwoMachines, TestInv, NEW m \in Machines, NEW b \in Boxes, NEW p, NEW q \in Phases,
         Moves(m, p, q), p \in AfterAck => q \in AfterAck, Get(m, b),
         got' = [got EXCEPT ![m] = Append(@, Head(boxes[m][b]))]
  PROVE  TestTypes' /\ Carried' /\ Head(boxes[m][b]) \in MayBox(m, b)
<1>1. phase[m] = p /\ phase' = [phase EXCEPT ![m] = q] /\ phase \in [Machines -> Phases]
  BY DEF Moves, TestInv, TestTypes
<1>2. \A n \in Machines :
        /\ sock[n] \in Seq(May(n)') /\ inbox[n] \in Seq(May(n)')
        /\ \A c \in Boxes : boxes[n][c] \in Seq(MayBox(n, c)')
  BY <1>1, CarriedOn, Zenon DEF TestInv
<1>3. boxes[m][b] # <<>> /\ boxes' = [boxes EXCEPT ![m][b] = Tail(@)] /\ UNCHANGED <<sock, inbox>>
  BY DEF Get, netVars
<1>4. TestTypes'
  BY <1>1, <1>3, Zenon DEF TestInv, TestTypes
<1>5. ASSUME NEW n \in Machines, NEW c \in Boxes PROVE boxes'[n][c] \in Seq(MayBox(n, c)')
  <2>1. CASE n = m /\ c = b
    <3>1. boxes'[n][c] = Tail(boxes[n][c])
      BY <1>3, <2>1 DEF TestInv, TestTypes
    <3> QED BY <1>2, <1>3, <2>1, <3>1, Removed
  <2>2. CASE n # m \/ c # b
    <3>1. boxes'[n][c] = boxes[n][c]
      BY <1>3, <2>2 DEF TestInv, TestTypes
    <3> QED BY <1>2, <3>1
  <2> QED BY <2>1, <2>2
<1>6. Carried'
  BY <1>2, <1>3, <1>5 DEF Carried
<1>7. Head(boxes[m][b]) \in MayBox(m, b)
  <2>1. boxes[m][b] \in Seq(MayBox(m, b))
    BY DEF TestInv, Carried
  <2> QED BY <1>3, <2>1, Removed
<1> QED BY <1>4, <1>6, <1>7

(* The return from Send *)
LEMMA MailWasSent ==
  ASSUME TwoMachines, TestInv, NEW m \in Machines, NEW p, NEW q \in Phases,
         Moves(m, p, q), p \in AfterAck => q \in AfterAck, SendFinish(m, "main"), UNCHANGED got
  PROVE  TestTypes' /\ Carried'
<1>1. phase[m] = p /\ phase' = [phase EXCEPT ![m] = q] /\ phase \in [Machines -> Phases]
  BY DEF Moves, TestInv, TestTypes
<1>2. \A n \in Machines :
        /\ sock[n] \in Seq(May(n)') /\ inbox[n] \in Seq(May(n)')
        /\ \A c \in Boxes : boxes[n][c] \in Seq(MayBox(n, c)')
  BY <1>1, CarriedOn, Zenon DEF TestInv
<1>3. UNCHANGED <<sock, inbox, boxes, got>>
  BY DEF SendFinish, netVars
<1> QED BY <1>1, <1>2, <1>3 DEF Carried, TestInv, TestTypes

(* What the machines were told stays true when one of them goes on. *)
LEMMA ToldOn ==
  ASSUME TwoMachines, TestInv, NEW m \in Machines, NEW p, NEW q, NEW g, Moves(m, p, q),
         got' = [got EXCEPT ![m] = g], p \in AfterAck => q \in AfterAck,
         q \in BeforeHello => g = <<>>,
         q \in {"ack", "sending ack", "await ack"} => g = <<Hello(m)>>,
         q = "halted" => g = <<Hello(m), AckTo(m)>> /\ phase[Far(m)] \in AfterAck
  PROVE  Told'
<1>1. Far(m) \in Machines /\ Far(m) # m /\ Far(Far(m)) = m /\ \A n \in Machines : n = m \/ n = Far(m)
  BY FarIsOther, Zenon
<1>2. /\ phase'[m] = q /\ got'[m] = g /\ phase'[Far(m)] = phase[Far(m)] /\ got'[Far(m)] = got[Far(m)]
      /\ phase[m] = p
  BY <1>1, Zenon DEF Moves, TestInv, TestTypes
<1>3. /\ phase'[m] \in BeforeHello => got'[m] = <<>>
      /\ phase'[m] \in {"ack", "sending ack", "await ack"} => got'[m] = <<Hello(m)>>
      /\ phase'[m] = "halted" => got'[m] = <<Hello(m), AckTo(m)>> /\ phase'[Far(m)] \in AfterAck
  BY <1>2, Zenon
<1> DEFINE f == Far(m)
<1>4. /\ phase'[f] \in BeforeHello => got'[f] = <<>>
      /\ phase'[f] \in {"ack", "sending ack", "await ack"} => got'[f] = <<Hello(f)>>
      /\ phase'[f] = "halted" => got'[f] = <<Hello(f), AckTo(f)>> /\ phase'[Far(f)] \in AfterAck
  BY <1>1, <1>2, Zenon DEF TestInv, Told
<1> QED BY <1>1, <1>3, <1>4, Zenon DEF Told

(* One step of the mail test *)
LEMMA TestKept ==
  ASSUME TwoMachines, TestInv, NEW m \in Machines, Test(m)
  PROVE  TestInv'
<1>1. Far(m) \in Machines /\ Far(m) # m /\ Far(Far(m)) = m
  BY FarIsOther
<1>2. Hello(Far(m)) = Mail(Far(m), m, 0, 1, "Hello there!") /\ AckTo(Far(m)) = Mail(Far(m), m, 1, 1, "Got it!")
  BY <1>1 DEF Hello, AckTo
<1>3. got = [got EXCEPT ![m] = got[m]]
  BY Zenon DEF TestInv, TestTypes
<1>4. 0 \in Boxes /\ 1 \in Boxes
  BY MailAssumption DEF TwoMachines, Boxes
<1>5. phase[m] \in BeforeHello => got[m] = <<>>
  BY Zenon DEF TestInv, Told
<1>6. phase[m] \in {"ack", "sending ack", "await ack"} => got[m] = <<Hello(m)>>
  BY Zenon DEF TestInv, Told
<1>7. CASE SendHello(m)
  <2>1. /\ Moves(m, "hello", "sending hello") /\ SendStart(m, "main", Hello(Far(m))) /\ UNCHANGED got
        /\ phase[m] = "hello"
    BY <1>2, <1>7, Zenon DEF SendHello, Moves
  <2>2. Hello(Far(m)).to = Far(m) /\ Hello(Far(m)) \in May(Far(m))'
    BY Packets DEF May
  <2>3. TestTypes' /\ Carried'
    BY <2>1, <2>2, MailSent, Zenon DEF AfterAck, Phases
  <2>4. Told'
    BY <1>3, <1>5, <2>1, ToldOn, Zenon DEF AfterAck, BeforeHello
  <2> QED BY <2>3, <2>4 DEF TestInv
<1>8. CASE HelloSent(m)
  <2>1. /\ Moves(m, "sending hello", "await hello") /\ SendFinish(m, "main") /\ UNCHANGED got
        /\ phase[m] = "sending hello"
    BY <1>8, Zenon DEF HelloSent, Moves
  <2>2. TestTypes' /\ Carried'
    BY <2>1, MailWasSent, Zenon DEF AfterAck, Phases
  <2>3. Told'
    BY <1>3, <1>5, <2>1, ToldOn, Zenon DEF AfterAck, BeforeHello
  <2> QED BY <2>2, <2>3 DEF TestInv
<1>9. CASE GetHello(m)
  <2> DEFINE x == Head(boxes[m][0])
  <2>1. /\ Moves(m, "await hello", "ack") /\ Get(m, 0) /\ got' = [got EXCEPT ![m] = Append(@, x)]
        /\ phase[m] = "await hello"
    BY <1>9, Zenon DEF GetHello, Moves
  <2>2. TestTypes' /\ Carried' /\ x \in MayBox(m, 0)
    BY <1>4, <2>1, MailTaken, Zenon DEF AfterAck, Phases
  <2>3. x = Hello(m)
    BY <2>2, MayBoxes
  <2> HIDE DEF x
  <2>4. got[m] = <<>>
    BY <1>5, <2>1, Zenon DEF BeforeHello
  <2>5. got' = [got EXCEPT ![m] = <<Hello(m)>>]
    BY <2>1, <2>3, <2>4, Items, Zenon
  <2>6. Told'
    BY <2>1, <2>5, ToldOn, Zenon DEF AfterAck, BeforeHello
  <2> QED BY <2>2, <2>6 DEF TestInv
<1>10. CASE SendAck(m)
  <2>1. /\ Moves(m, "ack", "sending ack") /\ SendStart(m, "main", Ack(m)) /\ UNCHANGED got
        /\ phase[m] = "ack"
    BY <1>10, Zenon DEF SendAck, Moves
  <2>2. got[m] = <<Hello(m)>>
    BY <1>6, <2>1, Zenon
  <2>3. got[m][1] = Hello(m)
    BY <2>2
  <2>4. Ack(m) = AckTo(Far(m))
    BY <1>2, <2>3, Packets, Zenon DEF Ack
  <2>5. AckTo(Far(m)).to = Far(m)
    BY Packets
  <2>6. AckTo(Far(m)) \in May(Far(m))'
    <3>1. phase'[m] \in AfterAck
      BY <2>1, Zenon DEF Moves, AfterAck, TestInv, TestTypes
    <3> QED BY <1>1, <3>1 DEF May
  <2>7. TestTypes' /\ Carried'
    BY <2>1, <2>4, <2>5, <2>6, MailSent, Zenon DEF AfterAck, Phases
  <2>8. Told'
    BY <1>3, <2>1, <2>2, ToldOn, Zenon DEF AfterAck, BeforeHello
  <2> QED BY <2>7, <2>8 DEF TestInv
<1>11. CASE AckSent(m)
  <2>1. /\ Moves(m, "sending ack", "await ack") /\ SendFinish(m, "main") /\ UNCHANGED got
        /\ phase[m] = "sending ack"
    BY <1>11, Zenon DEF AckSent, Moves
  <2>2. TestTypes' /\ Carried'
    BY <2>1, MailWasSent, Zenon DEF AfterAck, Phases
  <2>3. got[m] = <<Hello(m)>>
    BY <1>6, <2>1, Zenon
  <2>4. Told'
    BY <1>3, <2>1, <2>3, ToldOn, Zenon DEF AfterAck, BeforeHello
  <2> QED BY <2>2, <2>4 DEF TestInv
<1>12. CASE GetAck(m)
  <2> DEFINE x == Head(boxes[m][1])
  <2>1. /\ Moves(m, "await ack", "halted") /\ Get(m, 1) /\ got' = [got EXCEPT ![m] = Append(@, x)]
        /\ phase[m] = "await ack"
    BY <1>12, Zenon DEF GetAck, Moves
  <2>2. TestTypes' /\ Carried' /\ x \in MayBox(m, 1)
    BY <1>4, <2>1, MailTaken, Zenon DEF AfterAck, Phases
  <2>3. x = AckTo(m) /\ phase[Far(m)] \in AfterAck
    BY <2>2, MayBoxes
  <2> HIDE DEF x
  <2>4. got[m] = <<Hello(m)>>
    BY <1>6, <2>1, Zenon
  <2>5. got' = [got EXCEPT ![m] = <<Hello(m), AckTo(m)>>]
    <3>1. Append(<<Hello(m)>>, AckTo(m)) = <<Hello(m), AckTo(m)>>
      BY Items
    <3> QED BY <2>1, <2>3, <2>4, <3>1, Zenon
  <2>6. Told'
    BY <2>1, <2>3, <2>5, ToldOn, Zenon DEF AfterAck, BeforeHello
  <2> QED BY <2>2, <2>6 DEF TestInv
<1> QED BY <1>7, <1>8, <1>9, <1>10, <1>11, <1>12 DEF Test

(* The interrupts and the postal workers *)
LEMMA OfficeKept ==
  ASSUME TwoMachines, TestInv, NEW m \in Machines, OfficeStep(m), UNCHANGED <<phase, got>>
  PROVE  TestInv'
<1>1. \A n : May(n)' = May(n) /\ \A b : MayBox(n, b)' = MayBox(n, b)
  BY DEF May, MayBox
<1>2. Told'
  BY Zenon DEF TestInv, Told
<1>3. ASSUME UNCHANGED <<sock, inbox, boxes>> PROVE TestInv'
  BY <1>1, <1>2, <1>3 DEF TestInv, TestTypes, Carried
<1>4. CASE SendDone(m)
  BY <1>3, <1>4 DEF SendDone
<1>5. CASE CheckPktAvail(m)
  <2>1. /\ sock[m] # <<>> /\ sock' = [sock EXCEPT ![m] = Tail(@)]
        /\ inbox' = [inbox EXCEPT ![m] = <<Head(sock[m])>>] /\ UNCHANGED boxes
    BY <1>5 DEF CheckPktAvail, PollSocket, ReadFromSocket
  <2>2. TestTypes'
    BY <2>1, Zenon DEF TestInv, TestTypes
  <2>3. ASSUME NEW n \in Machines PROVE sock'[n] \in Seq(May(n)) /\ inbox'[n] \in Seq(May(n))
    <3>1. sock[n] \in Seq(May(n)) /\ inbox[n] \in Seq(May(n))
      BY DEF TestInv, Carried
    <3>2. CASE n = m
      <4>1. sock'[n] = Tail(sock[n]) /\ inbox'[n] = <<Head(sock[n])>>
        BY <2>1, <3>2 DEF TestInv, TestTypes
      <4>2. Tail(sock[n]) \in Seq(May(n)) /\ Head(sock[n]) \in May(n)
        BY <2>1, <3>1, <3>2, Removed
      <4>3. <<Head(sock[n])>> \in Seq(May(n))
        BY <4>2
      <4> QED BY <4>1, <4>2, <4>3
    <3>3. CASE n # m
      <4>1. sock'[n] = sock[n] /\ inbox'[n] = inbox[n]
        BY <2>1, <3>3, Zenon DEF TestInv, TestTypes
      <4> QED BY <3>1, <4>1
    <3> QED BY <3>2, <3>3
  <2>4. Carried'
    BY <1>1, <2>1, <2>3 DEF TestInv, Carried
  <2> QED BY <1>2, <2>2, <2>4 DEF TestInv
<1>6. CASE MessageAvailableP(m)
  BY <1>3, <1>6 DEF MessageAvailableP, netVars
<1>7. CASE PostalDelivery(m)
  <2> DEFINE x == inbox[m][1]
  <2>1. /\ inbox[m] # <<>> /\ inbox' = [inbox EXCEPT ![m] = <<>>] /\ UNCHANGED sock
        /\ boxes' = [boxes EXCEPT ![m][x.box] = Append(@, x)]
    BY <1>7 DEF PostalDelivery, NetworkReceive, Put
  <2>2. x \in May(m)
    <3>1. inbox[m] \in Seq(May(m))
      BY DEF TestInv, Carried
    <3> QED BY <2>1, <3>1, Removed
  <2> HIDE DEF x
  <2>3. TestTypes'
    BY <2>1, Zenon DEF TestInv, TestTypes
  <2>4. ASSUME NEW n \in Machines, NEW b \in Boxes PROVE boxes'[n][b] \in Seq(MayBox(n, b))
    <3>1. boxes[n][b] \in Seq(MayBox(n, b))
      BY DEF TestInv, Carried
    <3>2. CASE n = m /\ b = x.box
      <4>1. boxes'[n][b] = Append(boxes[n][b], x)
        BY <2>1, <3>2 DEF TestInv, TestTypes
      <4>2. x \in MayBox(n, b)
        BY <2>2, <3>2 DEF MayBox
      <4> QED BY <3>1, <4>1, <4>2, Appended
    <3>3. CASE n # m \/ b # x.box
      <4>1. boxes'[n][b] = boxes[n][b]
        BY <2>1, <3>3 DEF TestInv, TestTypes
      <4> QED BY <3>1, <4>1
    <3> QED BY <3>2, <3>3
  <2>5. \A n \in Machines : sock'[n] \in Seq(May(n)) /\ inbox'[n] \in Seq(May(n))
    BY <2>1 DEF TestInv, TestTypes, Carried
  <2>6. Carried'
    BY <1>1, <2>4, <2>5 DEF Carried
  <2> QED BY <1>2, <2>3, <2>6 DEF TestInv
<1> QED BY <1>4, <1>5, <1>6, <1>7 DEF OfficeStep

LEMMA TestInvKept ==
  ASSUME TwoMachines, TestInv, [MailNext]_mailVars
  PROVE  TestInv'
<1>1. CASE UNCHANGED mailVars
  <2>1. UNCHANGED <<sock, inbox, boxes, phase, got>>
    BY <1>1 DEF mailVars, officeVars, netVars, postVars, testVars
  <2>2. \A n : May(n)' = May(n) /\ \A b : MayBox(n, b)' = MayBox(n, b)
    BY <2>1 DEF May, MayBox
  <2> QED BY <2>1, <2>2, Zenon DEF TestInv, TestTypes, Carried, Told
<1>2. ASSUME NEW m \in Machines, Test(m) PROVE TestInv'
  BY <1>2, TestKept
<1>3. ASSUME NEW m \in Machines, Devices(OfficeStep(m), m) PROVE TestInv'
  BY <1>3, OfficeKept DEF Devices
<1> QED BY <1>1, <1>2, <1>3 DEF MailNext

LEMMA TestInvHeard == TwoMachines /\ TestInv => HaltedMeansHeard
<1> SUFFICES ASSUME TwoMachines, TestInv, NEW m \in Machines, phase[m] = "halted"
             PROVE  /\ got[m] = <<Hello(m), AckTo(m)>> /\ got[Far(m)] # <<>>
                    /\ got[Far(m)][1] = Mail(Far(m), m, 0, 1, "Hello there!")
  BY Zenon DEF HaltedMeansHeard, Hello, AckTo
<1> DEFINE f == Far(m)
<1>1. f \in Machines /\ Far(f) = m
  BY FarIsOther
<1>2. got[m] = <<Hello(m), AckTo(m)>> /\ phase[f] \in AfterAck
  BY Zenon DEF TestInv, Told
<1>3. got[f] = <<Hello(f)>> \/ got[f] = <<Hello(f), AckTo(f)>>
  BY <1>1, <1>2, Zenon DEF TestInv, Told, AfterAck
<1>4. got[f] # <<>> /\ got[f][1] = Hello(f)
  BY <1>3
<1> QED BY <1>1, <1>2, <1>4, Zenon DEF Hello

(* Only a machine that may not have halted yet is sent anything. *)
LEMMA TestInvNobodyGone ==
  ASSUME TwoMachines, TestInv, [MailNext]_mailVars
  PROVE  [\A m \in Machines : Len(sock'[m]) > Len(sock[m]) => Running(m)]_mailVars
<1> SUFFICES ASSUME MailNext, NEW n \in Machines, Len(sock'[n]) > Len(sock[n])
             PROVE  phase[n] # "halted"
  BY DEF Running
<1>1. ASSUME UNCHANGED sock PROVE FALSE
  <2>1. Len(sock[n]) \in Nat /\ Len(sock'[n]) = Len(sock[n])
    BY <1>1 DEF TestInv, Carried
  <2> QED BY <2>1
<1>2. ASSUME NEW m \in Machines, NEW mail, SendStart(m, "main", mail), mail.to = Far(m),
             phase[m] \notin AfterAck
      PROVE  phase[n] # "halted"
  <2>1. Far(m) \in Machines /\ Far(Far(m)) = m
    BY FarIsOther
  <2>2. phase[Far(m)] # "halted"
    BY <1>2, <2>1, Zenon DEF TestInv, Told
  <2>3. n = Far(m)
    <3>1. sock' = [sock EXCEPT ![Far(m)] = Append(@, mail)]
      BY <1>1, <1>2, Zenon DEF SendStart, NetworkSend, SendToSocket
    <3>2. ASSUME n # Far(m) PROVE FALSE
      <4>1. sock'[n] = sock[n]
        BY <3>1, <3>2 DEF TestInv, TestTypes
      <4>2. Len(sock[n]) \in Nat
        BY DEF TestInv, Carried
      <4>3. Len(sock'[n]) = Len(sock[n])
        BY <4>1
      <4> QED BY <4>2, <4>3
    <3> QED BY <3>2
  <2> QED BY <2>2, <2>3
<1>3. PICK m \in Machines : Test(m) \/ Devices(OfficeStep(m), m)
  BY DEF MailNext
<1>4. CASE SendHello(m)
  <2>1. Mail(Far(m), m, 0, 1, "Hello there!").to = Far(m)
    BY DEF Mail
  <2> QED BY <1>2, <1>4, <2>1, Zenon DEF SendHello, Moves, AfterAck
<1>5. CASE SendAck(m)
  <2>1. phase[m] = "ack" /\ SendStart(m, "main", Ack(m))
    BY <1>5, Zenon DEF SendAck, Moves
  <2>2. got[m] = <<Hello(m)>>
    BY <2>1, Zenon DEF TestInv, Told
  <2>3. got[m][1] = Hello(m)
    BY <2>2
  <2>4. Ack(m).to = Far(m)
    BY <2>3, Packets DEF Ack, Mail
  <2> QED BY <1>2, <2>1, <2>4, Zenon DEF AfterAck
<1>6. CASE HelloSent(m) \/ AckSent(m)
  BY <1>1, <1>6, Zenon DEF HelloSent, AckSent, SendFinish, netVars
<1>7. CASE GetHello(m) \/ GetAck(m)
  BY <1>1, <1>7, Zenon DEF GetHello, GetAck, Get, netVars
<1>8. CASE OfficeStep(m)
  <2>1. CASE SendDone(m) \/ MessageAvailableP(m) \/ PostalDelivery(m)
    BY <1>1, <2>1, Zenon DEF SendDone, MessageAvailableP, PostalDelivery, netVars
  <2>2. CASE CheckPktAvail(m)
    <3>1. sock[m] # <<>> /\ sock' = [sock EXCEPT ![m] = Tail(@)]
      BY <2>2 DEF CheckPktAvail, PollSocket, ReadFromSocket
    <3>2. sock[n] \in Seq(May(n)) /\ Len(sock[n]) \in Nat
      BY DEF TestInv, Carried
    <3>3. CASE n = m
      <4>1. sock'[n] = Tail(sock[n])
        BY <3>1, <3>3 DEF TestInv, TestTypes
      <4>2. Len(Tail(sock[n])) = Len(sock[n]) - 1
        BY <3>1, <3>2, <3>3, Removed
      <4>3. Len(sock'[n]) = Len(sock[n]) - 1
        BY <4>1, <4>2
      <4> QED BY <3>2, <4>3
    <3>4. CASE n # m
      <4>1. sock'[n] = sock[n]
        BY <3>1, <3>4 DEF TestInv, TestTypes
      <4>2. Len(sock'[n]) = Len(sock[n])
        BY <4>1
      <4> QED BY <3>2, <4>2
    <3> QED BY <3>3, <3>4
  <2> QED BY <1>8, <2>1, <2>2 DEF OfficeStep
<1> QED BY <1>3, <1>4, <1>5, <1>6, <1>7, <1>8 DEF Test, Devices

(* The mail test of nettest.cc on two machines: whatever packets are lost, a
   machine halts only when each of the two has had the message of the other, and
   nothing is ever sent to a machine that has halted. *)
THEOREM MailTestAgrees ==
  ASSUME TwoMachines
  PROVE  MailSpec => HaltIsAgreed
<1>1. MailInit => TestInv
  BY TestInitInv
<1>2. TestInv /\ [MailNext]_mailVars => TestInv'
  BY TestInvKept
<1>3. TestInv => HaltedMeansHeard
  BY TestInvHeard
<1>4. TestInv /\ [MailNext]_mailVars =>
        [\A m \in Machines : Len(sock'[m]) > Len(sock[m]) => Running(m)]_mailVars
  BY TestInvNobodyGone
<1> QED BY <1>1, <1>2, <1>3, <1>4, PTL DEF MailSpec, HaltIsAgreed, NobodyGone

-----------------------------------------------------------------------------
(***************************************************************************)
(* The boxes of the post office: the mails for a box are counted, which    *)
(* takes the facts about finite sets.                                      *)
(***************************************************************************)
F == INSTANCE FiniteSetTheorems

(* The library's cardinality is that of the model. *)
LEMMA SameCardinality ==
  \A S : F!Cardinality(S) = Cardinality(S) /\ F!IsFiniteSet(S) = IsFiniteSet(S)
BY Zenon DEF F!Cardinality, Cardinality, F!IsFiniteSet, IsFiniteSet

(* The letters to a box are finitely many. *)
LEMMA ToBoxFinite ==
  ASSUME NEW l, NEW b, NEW k \in Nat
  PROVE  IsFiniteSet(ToBox(l, b, k)) /\ Cardinality(ToBox(l, b, k)) \in Nat
<1>1. IsFiniteSet(1..k)
  BY SameCardinality, F!FS_Interval
<1>2. IsFiniteSet(ToBox(l, b, k))
  BY <1>1, SameCardinality, F!FS_Subset DEF ToBox
<1> QED BY <1>2, SameCardinality, F!FS_CardinalityType

(* The box of a packet that is delivered gets it, ... *)
LEMMA OrderedAdds ==
  ASSUME NEW q \in Seq(Letters), NEW l \in Seq(Letters), NEW e \in Letters,
         Ordered(q, l, e.box)
  PROVE  Ordered(Append(q, e), Append(l, e), e.box)
<1> DEFINE l2 == Append(l, e)
           q2 == Append(q, e)
           b == e.box
<1>1. /\ l2 \in Seq(Letters) /\ Len(l2) = Len(l) + 1 /\ Len(l) \in Nat
      /\ \A i \in 1..Len(l) : l2[i] = l[i]
      /\ l2[Len(l) + 1] = e
  BY Appended
<1>2. /\ q2 \in Seq(Letters) /\ Len(q2) = Len(q) + 1 /\ Len(q) \in Nat
      /\ \A i \in 1..Len(q) : q2[i] = q[i]
      /\ q2[Len(q) + 1] = e
  BY Appended
<1> HIDE DEF l2, q2
<1>3. /\ ToBox(l2, b, Len(l)) = ToBox(l, b, Len(l))
      /\ \A x, i : IsNth(x, i, l, b) => IsNth(x, i, l2, b)
  <2>1. Len(l) <= Len(l2) /\ Len(l) \in 0..Len(l)
    BY <1>1
  <2> QED BY <1>1, <2>1, SamePrefix
<1>4. ToBox(l2, b, Len(l) + 1) = ToBox(l2, b, Len(l)) \cup {Len(l) + 1}
  <2>1. 1..(Len(l) + 1) = (1..Len(l)) \cup {Len(l) + 1}
    BY <1>1
  <2> QED BY <1>1, <2>1 DEF ToBox
<1>5. Len(l) + 1 \notin ToBox(l2, b, Len(l))
  BY <1>1 DEF ToBox
<1>6. Cardinality(ToBox(l, b, Len(l))) = Len(q)
  BY DEF Ordered
<1>7. Cardinality(ToBox(l2, b, Len(l2))) = Len(q) + 1
  <2>1. IsFiniteSet(ToBox(l2, b, Len(l)))
    BY <1>1, ToBoxFinite
  <2>2. Cardinality(ToBox(l2, b, Len(l)) \cup {Len(l) + 1}) = Cardinality(ToBox(l2, b, Len(l))) + 1
    BY <1>5, <2>1, SameCardinality, F!FS_AddElement, Zenon
  <2> QED BY <1>1, <1>3, <1>4, <1>6, <2>2, Zenon
<1>8. ASSUME NEW i \in 1..Len(q2) PROVE IsNth(q2[i], i, l2, b)
  <2>1. CASE i \in 1..Len(q)
    <3>1. IsNth(q[i], i, l, b)
      BY <2>1 DEF Ordered
    <3> QED BY <1>2, <1>3, <2>1, <3>1
  <2>2. CASE i = Len(q) + 1
    <3>1. Len(l2) \in 1..Len(l2) /\ q2[i] = l2[Len(l2)] /\ q2[i].box = b
      BY <1>1, <1>2, <2>2
    <3> QED BY <1>7, <2>2, <3>1 DEF IsNth
  <2> QED BY <1>2, <2>1, <2>2
<1> QED BY <1>2, <1>7, <1>8 DEF Ordered, l2, q2

LEMMA PostInitInv == PostInit => PostInv
<1> SUFFICES ASSUME PostInit PROVE PostInv
  OBVIOUS
<1> USE DEF PostInit, OfficeInit
<1>1. PostTypes
  BY DEF PostTypes
<1>2. OneBuffered /\ OneOutstanding /\ OneSignalPerPacket /\ InOrder
  BY DEF OneBuffered, OneOutstanding, OneSignalPerPacket, InOrder
<1>3. ASSUME NEW m \in Machines, NEW b \in Boxes
      PROVE  Ordered(received[m][b] \o boxes[m][b], delivered[m], b)
  <2>1. received[m][b] \o boxes[m][b] = <<>> /\ delivered[m] = <<>>
    OBVIOUS
  <2>2. ToBox(<<>>, b, Len(<<>>)) = {} /\ Len(<<>>) = 0
    BY DEF ToBox
  <2>3. Cardinality({}) = 0
    BY SameCardinality, F!FS_EmptySet
  <2>4. \A i \in 1..0 : FALSE
    OBVIOUS
  <2>5. Ordered(<<>>, <<>>, b)
    BY <2>2, <2>3, <2>4, Zenon DEF Ordered
  <2> QED BY <2>1, <2>5
<1> QED BY <1>1, <1>2, <1>3 DEF PostInv, BoxesInOrder

(* The mails of a box are those that were delivered to it, in this order. *)
LEMMA BoxesInOrderKept ==
  ASSUME PostTypes, OneBuffered, BoxesInOrder, [PostNext]_<<officeVars, trafficVars>>
  PROVE  BoxesInOrder'
<1>1. /\ delivered \in [Machines -> Seq(Letters)]
      /\ boxes \in [Machines -> [Boxes -> Seq(Letters)]]
      /\ received \in [Machines -> [Boxes -> Seq(Letters)]]
  BY DEF PostTypes
<1>2. ASSUME UNCHANGED <<boxes, received, delivered>> PROVE BoxesInOrder'
  BY <1>2 DEF BoxesInOrder
<1>3. ASSUME NEW m \in Sending, NEW t \in Senders, Send(m, t) PROVE BoxesInOrder'
  <2>1. PICK mail \in Letters : SendStart(m, t, mail)
    BY <1>3, SendSendsMail
  <2> QED BY <1>2, <1>3, <2>1 DEF SendStart, Send
<1>4. ASSUME NEW m \in Sending, NEW t \in Senders, Sent(m, t) PROVE BoxesInOrder'
  BY <1>2, <1>4 DEF Sent, SendFinish, trafficVars
<1>5. ASSUME NEW m \in Machines, NEW b \in Boxes, Receive(m, b) PROVE BoxesInOrder'
  <2>1. /\ boxes[m][b] # <<>> /\ boxes' = [boxes EXCEPT ![m][b] = Tail(@)]
        /\ received' = [received EXCEPT ![m][b] = Append(@, Head(boxes[m][b]))]
        /\ UNCHANGED delivered
    BY <1>5 DEF Receive, Get
  <2> SUFFICES ASSUME NEW n \in Machines, NEW c \in Boxes
               PROVE  Ordered(received'[n][c] \o boxes'[n][c], delivered'[n], c)
    BY Zenon DEF BoxesInOrder
  <2>2. received'[n][c] \o boxes'[n][c] = received[n][c] \o boxes[n][c]
    <3>1. CASE n = m /\ c = b
      <4>1. received'[n][c] = Append(received[m][b], Head(boxes[m][b])) /\ boxes'[n][c] = Tail(boxes[m][b])
        BY <1>1, <2>1, <3>1
      <4>2. boxes[m][b] \in Seq(Letters) /\ received[m][b] \in Seq(Letters)
        BY <1>1
      <4>3. \A s, t \in Seq(Letters) : t # <<>> => Append(s, Head(t)) \o Tail(t) = s \o t
        BY MovesOver
      <4>4. Append(received[m][b], Head(boxes[m][b])) \o Tail(boxes[m][b]) = received[m][b] \o boxes[m][b]
        BY <2>1, <4>2, <4>3, Zenon
      <4> QED BY <3>1, <4>1, <4>4, Zenon
    <3>2. CASE n # m \/ c # b
      BY <1>1, <2>1, <3>2, Zenon
    <3> QED BY <3>1, <3>2, Zenon
  <2> QED BY <2>1, <2>2, Zenon DEF BoxesInOrder
<1>6. ASSUME NEW m \in Machines, Office(m) PROVE BoxesInOrder'
  <2>1. CASE SendDone(m)
    BY <1>2, <1>6, <2>1 DEF Office, SendDone, trafficVars
  <2>2. CASE CheckPktAvail(m)
    BY <1>2, <1>6, <2>2 DEF Office, CheckPktAvail, trafficVars
  <2>3. CASE MessageAvailableP(m)
    BY <1>2, <1>6, <2>3 DEF Office, MessageAvailableP, netVars, trafficVars
  <2>4. CASE PostalDelivery(m)
    <3>1. inbox[m] # <<>>
      BY <2>4 DEF PostalDelivery
    <3>2. PICK x \in Letters : inbox[m] = <<x>>
      BY <3>1 DEF OneBuffered
    <3>3. inbox[m][1] = x /\ x.box \in Boxes
      BY <3>2 DEF Letters
    <3>4. /\ boxes' = [boxes EXCEPT ![m][x.box] = Append(@, x)]
          /\ delivered' = [delivered EXCEPT ![m] = Append(@, x)] /\ UNCHANGED received
      BY <1>6, <2>4, <3>3 DEF PostalDelivery, Put, Office, trafficVars
    <3> SUFFICES ASSUME NEW n \in Machines, NEW c \in Boxes
                 PROVE  Ordered(received'[n][c] \o boxes'[n][c], delivered'[n], c)
      BY DEF BoxesInOrder
    <3>5. Ordered(received[n][c] \o boxes[n][c], delivered[n], c)
      BY DEF BoxesInOrder
    <3>6. received[n][c] \in Seq(Letters) /\ boxes[n][c] \in Seq(Letters) /\ delivered[n] \in Seq(Letters)
      BY <1>1
    <3>7. CASE n = m /\ c = x.box
      <4>1. boxes'[n][c] = Append(boxes[n][c], x) /\ delivered'[n] = Append(delivered[n], x)
        BY <1>1, <3>4, <3>7
      <4>2. received[n][c] \o Append(boxes[n][c], x) = Append(received[n][c] \o boxes[n][c], x)
        <5>1. \A s, t \in Seq(Letters) : s \o Append(t, x) = Append(s \o t, x)
          BY AppendsToBoth
        <5> QED BY <3>6, <5>1, Zenon
      <4>3. received[n][c] \o boxes[n][c] \in Seq(Letters)
        BY <3>6, Concatenated
      <4>4. Ordered(Append(received[n][c] \o boxes[n][c], x), Append(delivered[n], x), x.box)
        BY <3>5, <3>6, <3>7, <4>3, OrderedAdds, Zenon
      <4> QED BY <3>4, <3>7, <4>1, <4>2, <4>4, Zenon
    <3>8. CASE n = m /\ c # x.box
      <4>1. boxes'[n][c] = boxes[n][c] /\ delivered'[n] = Append(delivered[n], x)
        BY <1>1, <3>4, <3>8
      <4>2. Ordered(received[n][c] \o boxes[n][c], Append(delivered[n], x), c)
        BY <3>5, <3>6, <3>8, OrderedOther
      <4> QED BY <3>4, <4>1, <4>2
    <3>9. CASE n # m
      <4>1. boxes'[n][c] = boxes[n][c] /\ delivered'[n] = delivered[n]
        BY <1>1, <3>4, <3>9
      <4> QED BY <3>4, <3>5, <4>1
    <3> QED BY <3>7, <3>8, <3>9
  <2> QED BY <1>6, <2>1, <2>2, <2>3, <2>4 DEF Office, OfficeStep
<1>7. CASE UNCHANGED <<officeVars, trafficVars>>
  BY <1>2, <1>7 DEF officeVars, postVars, trafficVars
<1> QED BY <1>3, <1>4, <1>5, <1>6, <1>7 DEF PostNext

(* Whatever threads of whatever machines send and receive mails, and whichever
   packets are lost, every mail is received from the box that it was sent to,
   once and in the order in which the mails were sent (network.cc, post.cc). *)
THEOREM MailArrivesInOrder == PostSpec => []MailInOrder
<1>1. PostInit => PostInv
  BY PostInitInv
<1>2. PostInv /\ [PostNext]_<<officeVars, trafficVars>> => PostInv'
  BY PostTypesKept, OneBufferedKept, OneOutstandingKept, OneSignalKept, InOrderKept,
     BoxesInOrderKept DEF PostInv
<1>3. PostInv => MailInOrder
  BY PostInvInOrder
<1> QED BY <1>1, <1>2, <1>3, PTL DEF PostSpec

=============================================================================
