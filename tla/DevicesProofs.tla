--------------------------- MODULE DevicesProofs ----------------------------
(***************************************************************************)
(* Proofs about the console and its test, and about the elevators with     *)
(* their self test, for any characters, cars and floors.                   *)
(***************************************************************************)
EXTENDS WellFoundedInduction, Console, ElevatorSelfTest, TLAPS

(* A leaf that names no prover is for SMT, twice, and then for Zenon. *)
USE SMTT(10), Z3T(20), Zenon

(* Appending to a sequence *)
LEMMA Appended ==
  ASSUME NEW S, NEW s \in Seq(S), NEW e \in S
  PROVE  /\ Append(s, e) \in Seq(S) /\ Len(Append(s, e)) = Len(s) + 1 /\ Len(s) \in Nat
         /\ \A i \in 1..Len(s) : Append(s, e)[i] = s[i]
         /\ Append(s, e)[Len(s) + 1] = e
OBVIOUS

(* Taking the first of a sequence *)
LEMMA Removed ==
  ASSUME NEW S, NEW s \in Seq(S), s # <<>>
  PROVE  /\ Head(s) \in S /\ Head(s) = s[1] /\ Len(s) \in Nat /\ Len(s) > 0
         /\ Tail(s) \in Seq(S) /\ Len(Tail(s)) = Len(s) - 1
         /\ \A i \in 1..(Len(s) - 1) : Tail(s)[i] = s[i + 1]
OBVIOUS

(* A set of natural numbers has a least element. *)
LEMMA LeastExists ==
  ASSUME NEW S, S \subseteq Nat, S # {}
  PROVE  \E x \in S : \A y \in S : x <= y
<1>1. \E x \in S : \A y \in S : ~(<<y, x>> \in OpToRel(<, Nat))
  BY NatLessThanWellFounded, WFMin, Zenon
<1>2. ASSUME NEW x \in S, NEW y \in S, ~(<<y, x>> \in OpToRel(<, Nat))
      PROVE  x <= y
  <2>1. <<y, x>> \in Nat \X Nat
    OBVIOUS
  <2>2. ~(y < x)
    BY <1>2, <2>1 DEF OpToRel
  <2> QED BY <2>2
<1> QED BY <1>1, <1>2, Zenon

-----------------------------------------------------------------------------
(***************************************************************************)
(* The console and its test (machine/console.cc, userprog/progtest.cc).    *)
(***************************************************************************)
One(condition) == IF condition THEN 1 ELSE 0

ConsoleTypes ==
  /\ typed \in Seq(Chars) /\ keyboard \in Seq(Chars) /\ display \in Seq(Chars)
  /\ incoming \in Chars \cup {"EOF"}
  /\ readAvail \in Nat /\ writeDone \in Nat
  /\ place \in {"read", "echo", "wait", "halted"}

(* The semaphores match the device: readAvail, or ConsoleTest after its P,
   stands for the buffered character, and writeDone, or the device at work,
   for the write that ConsoleTest waits for.                               *)
ConsoleSignals ==
  /\ readAvail + One(place = "echo") = One(incoming # "EOF")
  /\ writeDone + One(putBusy) = One(place = "wait")

(* What was typed is on the display, in the buffer or in the keyboard, in this
   order.                                                                  *)
Grabbed == Len(display) + One(incoming # "EOF")
TypedIsSomewhere ==
  /\ Len(typed) = Grabbed + Len(keyboard)
  /\ \A i \in 1..Len(display) : typed[i] = display[i]
  /\ incoming # "EOF" => typed[Grabbed] = incoming
  /\ \A i \in 1..Len(keyboard) : typed[Grabbed + i] = keyboard[i]

ConsoleInv == ConsoleTypes /\ ConsoleSignals /\ TypedIsSomewhere

LEMMA ConsoleStarts == ConsoleInit => ConsoleInv
<1> SUFFICES ASSUME ConsoleInit PROVE ConsoleInv
  OBVIOUS
<1> USE DEF ConsoleInit, EOF
<1>1. ConsoleTypes
  BY DEF ConsoleTypes
<1>2. ConsoleSignals
  BY DEF ConsoleSignals, One
<1>3. TypedIsSomewhere
  BY DEF TypedIsSomewhere, Grabbed, One
<1> QED BY <1>1, <1>2, <1>3 DEF ConsoleInv

LEMMA ConsoleStep == ConsoleInv /\ [ConsoleNext]_consoleVars => ConsoleInv'
<1> SUFFICES ASSUME ConsoleInv, [ConsoleNext]_consoleVars PROVE ConsoleInv'
  OBVIOUS
<1> USE DEF EOF
<1>0. ConsoleTypes /\ ConsoleSignals /\ TypedIsSomewhere
  BY DEF ConsoleInv
<1>1. ASSUME NEW c \in Chars, Type(c) PROVE ConsoleInv'
  <2>1. ConsoleTypes'
    BY <1>0, <1>1 DEF ConsoleTypes, Type
  <2>2. ConsoleSignals'
    BY <1>0, <1>1 DEF ConsoleSignals, One, Type
  <2>3. Grabbed' = Grabbed /\ Grabbed \in Nat
    BY <1>0, <1>1 DEF ConsoleTypes, Grabbed, One, Type
  <2>4. /\ Len(typed') = Len(typed) + 1 /\ Len(keyboard') = Len(keyboard) + 1
        /\ typed'[Len(typed) + 1] = c /\ keyboard'[Len(keyboard) + 1] = c
        /\ \A i \in 1..Len(typed) : typed'[i] = typed[i]
        /\ \A i \in 1..Len(keyboard) : keyboard'[i] = keyboard[i]
    BY <1>0, <1>1, Appended DEF ConsoleTypes, Type
  <2>5. TypedIsSomewhere'
    <3> USE <1>0 DEF TypedIsSomewhere
    <3>1. Len(typed') = Grabbed + Len(keyboard')
      BY <2>3, <2>4 DEF ConsoleTypes
    <3>2. \A i \in 1..Len(display) : typed'[i] = display[i]
      BY <2>3, <2>4 DEF ConsoleTypes, Grabbed, One
    <3>3. incoming # "EOF" => typed'[Grabbed] = incoming
      BY <2>3, <2>4 DEF ConsoleTypes, Grabbed, One
    <3>4. ASSUME NEW i \in 1..Len(keyboard') PROVE typed'[Grabbed + i] = keyboard'[i]
      <4>1. Len(keyboard) \in Nat /\ (i \in 1..Len(keyboard) \/ i = Len(keyboard) + 1)
        BY <2>4 DEF ConsoleTypes
      <4>2. CASE i \in 1..Len(keyboard)
        <5>1. Grabbed + i \in 1..Len(typed)
          BY <2>3, <4>1, <4>2
        <5> QED BY <2>4, <4>2, <5>1
      <4>3. CASE i = Len(keyboard) + 1
        BY <2>3, <2>4, <4>1, <4>3
      <4> QED BY <4>1, <4>2, <4>3
    <3> QED BY <1>1, <2>3, <3>1, <3>2, <3>3, <3>4, Zenon DEF Type
  <2> QED BY <2>1, <2>2, <2>5 DEF ConsoleInv
<1>2. ASSUME CheckCharAvail PROVE ConsoleInv'
  <2> USE DEF CheckCharAvail, Buffered
  <2>1. ConsoleTypes'
    BY <1>0, <1>2, Removed DEF ConsoleTypes
  <2>2. incoming = "EOF" /\ incoming' # "EOF"
    BY <1>0, <1>2, Removed, ConsoleAssumption DEF ConsoleTypes
  <2>3. ConsoleSignals'
    BY <1>0, <1>2, <2>2 DEF ConsoleTypes, ConsoleSignals, One
  <2>4. Grabbed' = Grabbed + 1 /\ Grabbed = Len(display) /\ Grabbed \in Nat
    BY <1>0, <1>2, <2>2 DEF ConsoleTypes, Grabbed, One
  <2>5. /\ Len(keyboard') = Len(keyboard) - 1 /\ incoming' = keyboard[1]
        /\ Len(keyboard) \in Nat /\ Len(keyboard) > 0
        /\ \A i \in 1..(Len(keyboard) - 1) : keyboard'[i] = keyboard[i + 1]
    BY <1>0, <1>2, Removed DEF ConsoleTypes
  <2>6. TypedIsSomewhere'
    <3>0. /\ Len(typed) = Grabbed + Len(keyboard) /\ \A i \in 1..Len(display) : typed[i] = display[i]
          /\ \A i \in 1..Len(keyboard) : typed[Grabbed + i] = keyboard[i]
          /\ UNCHANGED <<typed, display>>
      BY <1>0, <1>2 DEF TypedIsSomewhere
    <3>1. Len(typed') = Grabbed' + Len(keyboard')
      <4>1. Len(typed') = Len(typed)
        BY <3>0
      <4>2. Len(typed) = (Grabbed + 1) + (Len(keyboard) - 1)
        BY <2>4, <2>5, <3>0
      <4> QED BY <2>4, <2>5, <4>1, <4>2
    <3>2. \A i \in 1..Len(display') : typed'[i] = display'[i]
      BY <3>0
    <3>3. typed'[Grabbed'] = incoming'
      BY <2>4, <2>5, <3>0
    <3>4. ASSUME NEW i \in 1..Len(keyboard') PROVE typed'[Grabbed' + i] = keyboard'[i]
      <4>1. /\ i + 1 \in 1..Len(keyboard) /\ Grabbed' + i = Grabbed + (i + 1)
            /\ i \in 1..(Len(keyboard) - 1)
        BY <2>4, <2>5
      <4> QED BY <2>5, <3>0, <4>1
    <3> QED BY <3>1, <3>2, <3>3, <3>4 DEF TypedIsSomewhere
  <2> QED BY <2>1, <2>3, <2>6 DEF ConsoleInv
<1>3. ASSUME WriteDone PROVE ConsoleInv'
  <2> USE <1>3 DEF WriteDone
  <2>1. ConsoleTypes'
    BY <1>0 DEF ConsoleTypes
  <2>2. ConsoleSignals'
    BY <1>0 DEF ConsoleTypes, ConsoleSignals, One
  <2>3. TypedIsSomewhere'
    BY <1>0 DEF ConsoleTypes, ConsoleSignals, TypedIsSomewhere, Grabbed, One
  <2> QED BY <2>1, <2>2, <2>3 DEF ConsoleInv
<1>4. ASSUME ReadAvailP PROVE ConsoleInv'
  <2> USE <1>4 DEF ReadAvailP
  <2>1. ConsoleTypes'
    BY <1>0 DEF ConsoleTypes
  <2>2. ConsoleSignals'
    BY <1>0 DEF ConsoleTypes, ConsoleSignals, One
  <2>3. TypedIsSomewhere'
    BY <1>0 DEF ConsoleTypes, ConsoleSignals, TypedIsSomewhere, Grabbed, One
  <2> QED BY <2>1, <2>2, <2>3 DEF ConsoleInv
<1>5. ASSUME Echo PROVE ConsoleInv'
  <2> USE <1>5 DEF Echo, GetChar, PutChar
  <2>1. ConsoleTypes'
    BY <1>0 DEF ConsoleTypes, ConsoleSignals, One
  <2>2. ConsoleSignals'
    BY <1>0 DEF ConsoleTypes, ConsoleSignals, One
  <2>3. TypedIsSomewhere'
    BY <1>0 DEF ConsoleTypes, ConsoleSignals, TypedIsSomewhere, Grabbed, One
  <2> QED BY <2>1, <2>2, <2>3 DEF ConsoleInv
<1>6. ASSUME WriteDoneP PROVE ConsoleInv'
  <2> USE <1>6 DEF WriteDoneP
  <2>1. ConsoleTypes'
    BY <1>0 DEF ConsoleTypes
  <2>2. ConsoleSignals'
    BY <1>0 DEF ConsoleTypes, ConsoleSignals, One
  <2>3. TypedIsSomewhere'
    BY <1>0 DEF ConsoleTypes, ConsoleSignals, TypedIsSomewhere, Grabbed, One
  <2> QED BY <2>1, <2>2, <2>3 DEF ConsoleInv
<1>7. ASSUME UNCHANGED consoleVars PROVE ConsoleInv'
  BY <1>7 DEF consoleVars, ConsoleInv, ConsoleTypes, ConsoleSignals, TypedIsSomewhere, Grabbed, One
<1> QED BY <1>1, <1>2, <1>3, <1>4, <1>5, <1>6, <1>7 DEF ConsoleNext, ConsoleTest

(* What the console displays is what was typed, and PutChar finds the device
   idle, whatever is typed and however device and thread interleave.       *)
THEOREM ConsoleEchoes == ConsoleSpec => []EchoIsFaithful
<1>1. ConsoleInv => EchoIsFaithful
  BY DEF ConsoleInv, ConsoleTypes, ConsoleSignals, TypedIsSomewhere, Grabbed, One, EchoIsFaithful, DisplaysTyped, PutOnlyWhenIdle
<1> QED BY <1>1, ConsoleStarts, ConsoleStep, PTL DEF ConsoleSpec

-----------------------------------------------------------------------------
(***************************************************************************)
(* The bank of elevators (machine/elevator.cc).                            *)
(***************************************************************************)
InfoSet ==
  [display : Direction, doorsOpen : BOOLEAN, inMotion : BOOLEAN, lastFloor : Int, goingTo : Int,
   willArrive : Int, riders : SUBSET Riders]

LiftTypes ==
  elevators \in [Elevators -> InfoSet] /\ due \in Seq(Nat) /\ totalTicks \in Nat

(* An interrupt is due that is not before the time at which the car is at
   its next floor.                                                         *)
Watched(info) == info.inMotion => \E i \in 1..Len(due) : due[i] >= info.willArrive
Standing(info) == IF info.inMotion THEN ~info.doorsOpen ELSE info.lastFloor = info.goingTo

LiftInv == LiftTypes /\ \A e \in Elevators : Watched(elevators[e]) /\ Standing(elevators[e])

(* What ScheduleDone adds to the list of interrupts *)
LEMMA Scheduled ==
  ASSUME NEW queue \in Seq(Nat), NEW delay \in Nat, totalTicks \in Nat
  PROVE  /\ ScheduleDone(queue, delay) \in Seq(Nat)
         /\ \E i \in 1..Len(ScheduleDone(queue, delay)) : ScheduleDone(queue, delay)[i] = totalTicks + delay
         /\ \A j \in 1..Len(queue) :
              \E i \in 1..Len(ScheduleDone(queue, delay)) : ScheduleDone(queue, delay)[i] = queue[j]
<1> DEFINE when == totalTicks + delay
           key == [t \in Items(queue) \cup {when} |-> t]
           larger == {i \in 1..Len(queue) : key[when] < key[queue[i]]}
           p == InsertPosition(queue, when, key)
           r == ScheduleDone(queue, delay)
<1>1. r = InsertedAt(queue, p, when)
  BY DEF ScheduleDone, SortedInsert
<1>2. p = IF larger = {} THEN Len(queue) + 1 ELSE CHOOSE i \in larger : \A j \in larger : i <= j
  BY DEF InsertPosition
<1>3. Len(queue) \in Nat /\ when \in Nat /\ \A i \in 1..Len(queue) : queue[i] \in Nat
  OBVIOUS
<1>4. larger \subseteq 1..Len(queue) /\ larger \subseteq Nat
  BY <1>3
<1> HIDE DEF p, r, when, larger
<1>5. p \in 1..(Len(queue) + 1)
  <2>1. CASE larger = {}
    BY <1>2, <1>3, <2>1
  <2>2. CASE larger # {}
    <3>1. PICK n \in larger : \A j \in larger : n <= j
      BY <1>4, <2>2, LeastExists, Zenon
    <3>2. p \in larger
      BY <1>2, <2>2, <3>1
    <3> QED BY <1>3, <1>4, <3>2
  <2> QED BY <2>1, <2>2
<1>6. r = [i \in 1..(Len(queue) + 1) |->
             IF i < p THEN queue[i] ELSE IF i = p THEN when ELSE queue[i - 1]]
  BY <1>1 DEF InsertedAt
<1>7. r \in Seq(Nat) /\ Len(r) = Len(queue) + 1
  BY <1>3, <1>5, <1>6
<1>8. r[p] = when /\ p \in 1..Len(r)
  BY <1>3, <1>5, <1>6, <1>7
<1>9. ASSUME NEW j \in 1..Len(queue) PROVE \E i \in 1..Len(r) : r[i] = queue[j]
  <2>1. CASE j < p
    <3>1. j \in 1..Len(r) /\ r[j] = queue[j]
      BY <1>3, <1>5, <1>6, <1>7, <2>1
    <3> QED BY <3>1
  <2>2. CASE ~(j < p)
    <3>1. j + 1 \in 1..Len(r) /\ r[j + 1] = queue[j]
      BY <1>3, <1>5, <1>6, <1>7, <2>2
    <3> QED BY <3>1
  <2> QED BY <2>1, <2>2
<1> QED BY <1>7, <1>8, <1>9 DEF r, when

(* A car is watched as long as its interrupt stays on the list. *)
LEMMA StaysWatched ==
  ASSUME NEW info, NEW delay \in Nat, LiftTypes, Watched(info),
         due' = due \/ due' = ScheduleDone(due, delay)
  PROVE  due' \in Seq(Nat)
         /\ (info.inMotion => \E i \in 1..Len(due') : due'[i] >= info.willArrive)
<1>1. CASE due' = due
  BY <1>1 DEF LiftTypes, Watched
<1>2. CASE due' = ScheduleDone(due, delay)
  <2>1. /\ due' \in Seq(Nat)
        /\ \A j \in 1..Len(due) : \E i \in 1..Len(due') : due'[i] = due[j]
    BY <1>2, Scheduled DEF LiftTypes
  <2>2. ASSUME info.inMotion PROVE \E i \in 1..Len(due') : due'[i] >= info.willArrive
    <3>1. PICK j \in 1..Len(due) : due[j] >= info.willArrive
      BY <2>2 DEF Watched
    <3> QED BY <2>1, <3>1
  <2> QED BY <2>1, <2>2
<1> QED BY <1>1, <1>2

LEMMA LiftStarts == BankInit => LiftInv
<1> SUFFICES ASSUME BankInit PROVE LiftInv
  OBVIOUS
<1>1. ElevatorInfo \in InfoSet /\ ~ElevatorInfo.inMotion /\ ElevatorInfo.lastFloor = ElevatorInfo.goingTo
  BY DEF ElevatorInfo, InfoSet, Direction
<1>2. elevators \in [Elevators -> InfoSet] /\ \A e \in Elevators : elevators[e] = ElevatorInfo
  BY <1>1 DEF BankInit
<1>3. LiftTypes
  BY <1>2 DEF BankInit, LiftTypes
<1> QED BY <1>1, <1>2, <1>3 DEF LiftInv, Watched, Standing

(* A call that changes one car only *)
LEMMA OneCar ==
  ASSUME LiftInv, NEW c \in Elevators, NEW info \in InfoSet, NEW delay \in Nat,
         elevators' = [elevators EXCEPT ![c] = info], totalTicks' = totalTicks,
         due' = due \/ due' = ScheduleDone(due, delay),
         Standing(info),
         info.inMotion => \E i \in 1..Len(due') : due'[i] >= info.willArrive
  PROVE  LiftInv'
<1>1. /\ LiftTypes /\ elevators' \in [Elevators -> InfoSet]
      /\ \A e \in Elevators : elevators'[e] = IF e = c THEN info ELSE elevators[e]
  BY DEF LiftInv, LiftTypes
<1>2. due' \in Seq(Nat)
  BY <1>1, StaysWatched DEF LiftInv
<1>3. LiftTypes'
  BY <1>1, <1>2 DEF LiftTypes
<1>4. ASSUME NEW e \in Elevators PROVE (Watched(elevators[e]) /\ Standing(elevators[e]))'
  <2>1. CASE e = c
    BY <1>1, <2>1 DEF Watched, Standing
  <2>2. CASE e # c
    <3>1. Watched(elevators[e]) /\ Standing(elevators[e])
      BY DEF LiftInv
    <3>2. elevators[e].inMotion => \E i \in 1..Len(due') : due'[i] >= elevators[e].willArrive
      BY <1>1, <3>1, StaysWatched
    <3> QED BY <1>1, <2>2, <3>1, <3>2 DEF Watched, Standing
  <2> QED BY <2>1, <2>2
<1> QED BY <1>3, <1>4 DEF LiftInv

(* A call that changes no car *)
LEMMA NoCar ==
  ASSUME LiftInv, UNCHANGED <<elevators, totalTicks>>,
         due' = due \/ due' = ScheduleDone(due, 1)
  PROVE  LiftInv'
<1>1. LiftTypes
  BY DEF LiftInv
<1>2. ASSUME NEW e \in Elevators
      PROVE  due' \in Seq(Nat) /\ (Watched(elevators[e]) /\ Standing(elevators[e]))'
  <2>1. Watched(elevators[e]) /\ Standing(elevators[e])
    BY DEF LiftInv
  <2>2. /\ due' \in Seq(Nat)
        /\ elevators[e].inMotion =>
             \E i \in 1..Len(due') : due'[i] >= elevators[e].willArrive
    BY <1>1, <2>1, StaysWatched
  <2> QED BY <2>1, <2>2, Zenon DEF Watched, Standing
<1>3. 0 \in Elevators
  BY ElevatorAssumption DEF Elevators
<1>4. LiftTypes'
  BY <1>1, <1>2, <1>3 DEF LiftTypes
<1> QED BY <1>2, <1>4 DEF LiftInv

(* An interrupt: the cars that have reached a floor stop or go on. *)
LEMMA LiftInterrupt == ASSUME LiftInv, HandleInterrupt PROVE LiftInv'
<1>1. /\ LiftTypes /\ due \in Seq(Nat) /\ due # <<>> /\ totalTicks \in Nat
      /\ DelayPerFloor \in Nat /\ totalTicks' = totalTicks
      /\ Head(due) <= totalTicks
  BY ElevatorAssumption DEF LiftInv, LiftTypes, HandleInterrupt
<1>2. /\ Len(due) \in Nat /\ Head(due) = due[1] /\ Tail(due) \in Seq(Nat)
      /\ Len(Tail(due)) = Len(due) - 1
      /\ \A i \in 1..(Len(due) - 1) : Tail(due)[i] = due[i + 1]
      /\ \A i \in 1..Len(due) : due[i] \in Nat
  BY <1>1, Removed
<1>3. due' = IF GoesOn = {} THEN Tail(due) ELSE ScheduleDone(Tail(due), DelayPerFloor)
  BY DEF HandleInterrupt
<1>4. /\ due' \in Seq(Nat)
      /\ GoesOn # {} => \E i \in 1..Len(due') : due'[i] = totalTicks + DelayPerFloor
      /\ \A j \in 1..Len(Tail(due)) : \E i \in 1..Len(due') : due'[i] = Tail(due)[j]
  <2>1. CASE GoesOn = {}
    BY <1>2, <1>3, <2>1
  <2>2. CASE GoesOn # {}
    BY <1>1, <1>2, <1>3, <2>2, Scheduled, Zenon
  <2> QED BY <2>1, <2>2
<1>5. elevators' = [e \in Elevators |-> Moved(e)]
  BY DEF HandleInterrupt
<1>6. ASSUME NEW e \in Elevators
      PROVE  /\ Moved(e) \in InfoSet /\ Standing(Moved(e))
             /\ Moved(e).inMotion => \E i \in 1..Len(due') : due'[i] >= Moved(e).willArrive
  <2> DEFINE info == elevators[e]
             passed == PassFloor(info)
  <2>1. info \in InfoSet /\ Watched(info) /\ Standing(info)
    BY DEF LiftInv, LiftTypes
  <2>2. info.lastFloor \in Int /\ info.goingTo \in Int /\ info.willArrive \in Int
    BY <2>1 DEF InfoSet
  <2>3. /\ passed \in InfoSet /\ passed.inMotion = info.inMotion
        /\ passed.doorsOpen = info.doorsOpen /\ passed.goingTo = info.goingTo
        /\ passed.willArrive = info.willArrive
    BY <2>1, <2>2 DEF InfoSet, PassFloor
  <2>4. CASE e \notin ReachedNextFloor
    <3>1. Moved(e) = info
      BY <2>4 DEF Moved, CheckArrived, FirstOn, GoesOn
    <3>2. ASSUME info.inMotion PROVE \E i \in 1..Len(due') : due'[i] >= info.willArrive
      <4>1. PICK j \in 1..Len(due) : due[j] >= info.willArrive
        BY <2>1, <3>2 DEF Watched
      <4>2. ~(totalTicks >= info.willArrive)
        BY <2>4, <3>2 DEF ReachedNextFloor
      <4>3. j # 1
        BY <1>1, <1>2, <2>2, <4>1, <4>2
      <4>4. j - 1 \in 1..Len(Tail(due)) /\ Tail(due)[j - 1] = due[j]
        BY <1>2, <4>3
      <4> QED BY <1>4, <4>1, <4>4, Zenon
    <3> QED BY <2>1, <3>1, <3>2
  <2>5. CASE e \in CheckArrived
    <3>1. Moved(e) = [passed EXCEPT !.inMotion = FALSE]
      BY <2>5 DEF Moved, CheckArrived, FirstOn, GoesOn
    <3>2. passed.lastFloor = info.goingTo
      BY <2>5 DEF CheckArrived
    <3> HIDE DEF passed
    <3>3. /\ Moved(e) \in InfoSet /\ Moved(e).inMotion = FALSE
          /\ Moved(e).lastFloor = passed.lastFloor /\ Moved(e).goingTo = passed.goingTo
      BY <2>3, <3>1, Zenon DEF InfoSet
    <3> QED BY <2>3, <3>2, <3>3 DEF Standing
  <2>6. CASE e \in GoesOn
    <3>1. e \in ReachedNextFloor /\ e \notin CheckArrived /\ info.inMotion
      BY <2>6 DEF GoesOn, ReachedNextFloor
    <3>2. info.willArrive <= totalTicks
      BY <1>1, <2>2, <3>1 DEF ReachedNextFloor
    <3>3. Moved(e) = IF FirstOn(e) THEN [passed EXCEPT !.willArrive = @ + DelayPerFloor] ELSE passed
      BY <3>1 DEF Moved
    <3>4. ~info.doorsOpen
      BY <2>1, <3>1 DEF Standing
    <3> HIDE DEF passed
    <3>5. /\ Moved(e) \in InfoSet /\ Moved(e).inMotion = passed.inMotion
          /\ Moved(e).doorsOpen = passed.doorsOpen
          /\ Moved(e).willArrive \in {passed.willArrive, passed.willArrive + DelayPerFloor}
      <4>1. passed.willArrive + DelayPerFloor \in Int
        BY <1>1, <2>2, <2>3
      <4>2. CASE FirstOn(e)
        BY <2>3, <3>3, <4>1, <4>2 DEF InfoSet
      <4>3. CASE ~FirstOn(e)
        BY <2>3, <3>3, <4>3
      <4> QED BY <4>2, <4>3
    <3>6. Moved(e).willArrive <= totalTicks + DelayPerFloor
      BY <1>1, <2>2, <2>3, <3>2, <3>5
    <3>7. PICK i \in 1..Len(due') : due'[i] = totalTicks + DelayPerFloor
      BY <1>4, <2>6
    <3>8. due'[i] >= Moved(e).willArrive
      BY <1>1, <2>2, <2>3, <3>5, <3>6, <3>7
    <3>9. Standing(Moved(e))
      BY <2>3, <3>1, <3>4, <3>5 DEF Standing
    <3> QED BY <3>5, <3>8, <3>9
  <2> QED BY <2>4, <2>5, <2>6 DEF GoesOn
<1>7. LiftTypes'
  BY <1>1, <1>4, <1>5, <1>6 DEF LiftTypes
<1> QED BY <1>5, <1>6, <1>7 DEF LiftInv, Watched, Standing

LEMMA LiftStep == LiftInv /\ [TrafficNext]_bankVars => LiftInv'
<1> SUFFICES ASSUME LiftInv, [TrafficNext]_bankVars PROVE LiftInv'
  OBVIOUS
<1>1. /\ elevators \in [Elevators -> InfoSet] /\ totalTicks \in Nat /\ DelayPerFloor \in Nat
      /\ due \in Seq(Nat)
      /\ \A e \in Elevators : Watched(elevators[e]) /\ Standing(elevators[e])
  BY ElevatorAssumption DEF LiftInv, LiftTypes
<1>2. ASSUME NEW e \in Elevators, OpenDoors(e) PROVE LiftInv'
  <2> DEFINE info == [elevators[e] EXCEPT !.doorsOpen = TRUE]
  <2>1. /\ elevators' = [elevators EXCEPT ![e] = info] /\ ~elevators[e].inMotion
        /\ due' = ScheduleDone(due, 1) /\ totalTicks' = totalTicks
    BY <1>1, <1>2 DEF OpenDoors, PostEvent
  <2>2. /\ info \in InfoSet /\ info.inMotion = elevators[e].inMotion
        /\ info.lastFloor = elevators[e].lastFloor /\ info.goingTo = elevators[e].goingTo
    BY <1>1, Zenon DEF InfoSet
  <2>3. Standing(info) /\ ~info.inMotion
    BY <1>1, <2>1, <2>2 DEF Standing
  <2> HIDE DEF info
  <2> QED BY <2>1, <2>2, <2>3, OneCar, Zenon
<1>3. ASSUME NEW e \in Elevators, CloseDoors(e) PROVE LiftInv'
  <2> DEFINE info == [elevators[e] EXCEPT !.doorsOpen = FALSE]
  <2>1. /\ elevators' = [elevators EXCEPT ![e] = info]
        /\ due' = due /\ totalTicks' = totalTicks
    BY <1>1, <1>3 DEF CloseDoors
  <2>2. /\ info \in InfoSet /\ info.inMotion = elevators[e].inMotion /\ info.doorsOpen = FALSE
        /\ info.lastFloor = elevators[e].lastFloor /\ info.goingTo = elevators[e].goingTo
        /\ info.willArrive = elevators[e].willArrive
    BY <1>1, Zenon DEF InfoSet
  <2>3. Standing(info)
    BY <1>1, <2>2 DEF Standing
  <2>4. info.inMotion => \E i \in 1..Len(due') : due'[i] >= info.willArrive
    BY <1>1, <2>1, <2>2 DEF Watched
  <2> HIDE DEF info
  <2> QED BY <2>1, <2>2, <2>3, <2>4, OneCar, 0 \in Nat, Zenon
<1>4. ASSUME NEW e \in Elevators, NEW floor \in Floors, MoveTo(floor, e) PROVE LiftInv'
  <2> DEFINE info == InfoMoveTo(elevators[e], floor)
  <2>1. /\ elevators' = [elevators EXCEPT ![e] = info] /\ totalTicks' = totalTicks
        /\ due' = IF elevators[e].inMotion THEN due ELSE ScheduleDone(due, DelayPerFloor)
        /\ ~elevators[e].doorsOpen /\ floor \in Int /\ totalTicks + DelayPerFloor \in Int
    BY <1>1, <1>4 DEF MoveTo, MayMove, Floors
  <2>2. CASE elevators[e].inMotion
    <3>1. info = [elevators[e] EXCEPT !.goingTo = floor]
      BY <2>2 DEF InfoMoveTo
    <3>2. /\ info \in InfoSet /\ info.inMotion = elevators[e].inMotion
          /\ info.doorsOpen = elevators[e].doorsOpen /\ info.willArrive = elevators[e].willArrive
      BY <1>1, <2>1, <3>1, Zenon DEF InfoSet
    <3>3. Standing(info)
      BY <2>1, <2>2, <3>2 DEF Standing
    <3>4. due' = due
      BY <2>1, <2>2
    <3>5. info.inMotion => \E i \in 1..Len(due') : due'[i] >= info.willArrive
      BY <1>1, <3>2, <3>4, Zenon DEF Watched
    <3> HIDE DEF info
    <3> QED BY <1>1, <2>1, <3>2, <3>3, <3>4, <3>5, OneCar, Zenon
  <2>3. CASE ~elevators[e].inMotion
    <3>1. info = [elevators[e] EXCEPT !.goingTo = floor, !.inMotion = TRUE,
                                      !.willArrive = totalTicks + DelayPerFloor]
      BY <2>3 DEF InfoMoveTo
    <3>2. /\ info \in InfoSet /\ info.inMotion = TRUE /\ info.doorsOpen = elevators[e].doorsOpen
          /\ info.willArrive = totalTicks + DelayPerFloor
      BY <1>1, <2>1, <3>1, Zenon DEF InfoSet
    <3>3. Standing(info)
      BY <2>1, <3>2 DEF Standing
    <3>4. due' = ScheduleDone(due, DelayPerFloor)
      BY <2>1, <2>3
    <3>5. \E i \in 1..Len(due') : due'[i] >= info.willArrive
      <4>1. PICK i \in 1..Len(due') : due'[i] = totalTicks + DelayPerFloor
        BY <1>1, <3>4, Scheduled
      <4>2. due'[i] >= info.willArrive
        BY <1>1, <3>2, <4>1
      <4> QED BY <4>2
    <3> HIDE DEF info
    <3> QED BY <1>1, <2>1, <3>2, <3>3, <3>4, <3>5, OneCar, Zenon
  <2> QED BY <2>2, <2>3
<1>5. ASSUME NEW e \in Elevators, NEW on \in SUBSET Riders,
             elevators' = [elevators EXCEPT ![e].riders = on], UNCHANGED <<totalTicks, due>>
      PROVE  LiftInv'
  <2> DEFINE info == [elevators[e] EXCEPT !.riders = on]
  <2>1. elevators' = [elevators EXCEPT ![e] = info]
    BY <1>1, <1>5
  <2>2. /\ info \in InfoSet /\ info.inMotion = elevators[e].inMotion
        /\ info.doorsOpen = elevators[e].doorsOpen
        /\ info.lastFloor = elevators[e].lastFloor /\ info.goingTo = elevators[e].goingTo
        /\ info.willArrive = elevators[e].willArrive
    BY <1>1, Zenon DEF InfoSet
  <2>3. Standing(info)
    BY <1>1, <2>2 DEF Standing
  <2>4. info.inMotion => \E i \in 1..Len(due') : due'[i] >= info.willArrive
    BY <1>1, <1>5, <2>2 DEF Watched
  <2> HIDE DEF info
  <2> QED BY <1>5, <2>1, <2>2, <2>3, <2>4, OneCar, 0 \in Nat, Zenon
<1>6. \A e \in Elevators : elevators[e].riders \in SUBSET Riders
  BY <1>1 DEF InfoSet
<1>7. ASSUME NEW r \in Riders, NEW e \in Elevators, NEW floor \in Floors, EnterElevator(floor, e, r)
      PROVE  LiftInv'
  <2> DEFINE on == IF DoorsAt(e, floor) THEN elevators[e].riders \union {r} ELSE elevators[e].riders
  <2>1. on \in SUBSET Riders
    BY <1>6
  <2>2. elevators' = [elevators EXCEPT ![e].riders = on] /\ UNCHANGED <<totalTicks, due>>
    BY <1>7 DEF EnterElevator
  <2> QED BY <1>5, <2>1, <2>2, Zenon
<1>8. ASSUME NEW r \in Riders, NEW e \in Elevators, NEW floor \in Floors, ExitElevator(floor, e, r)
      PROVE  LiftInv'
  <2> DEFINE on == IF DoorsAt(e, floor) THEN elevators[e].riders \ {r} ELSE elevators[e].riders
  <2>1. on \in SUBSET Riders
    BY <1>6
  <2>2. elevators' = [elevators EXCEPT ![e].riders = on] /\ UNCHANGED <<totalTicks, due>>
    BY <1>8 DEF ExitElevator
  <2> QED BY <1>5, <2>1, <2>2, Zenon
<1>9. ASSUME NEW floor \in Floors, NEW e \in Elevators,
             PressButton(floor, "Up") \/ PressFloor(floor, e)
      PROVE  LiftInv'
  BY <1>9, NoCar DEF PressButton, PressFloor, PostEvent
<1>10. ASSUME Take \/ UNCHANGED bankVars PROVE LiftInv'
  BY <1>10, NoCar DEF Take, bankVars
<1>11. ASSUME Tick PROVE LiftInv'
  <2>1. totalTicks' \in Nat /\ UNCHANGED <<elevators, due>>
    BY <1>1, <1>11, ElevatorAssumption DEF Tick
  <2> QED BY <2>1 DEF LiftInv, LiftTypes, Watched, Standing
<1>12. ASSUME NEW e \in Elevators, Controller(e) PROVE LiftInv'
  BY <1>2, <1>3, <1>4, <1>12 DEF Controller
<1>13. ASSUME NEW r \in Riders, Rider(r) PROVE LiftInv'
  <2>1. 0 \in Elevators
    BY ElevatorAssumption DEF Elevators
  <2> QED BY <1>7, <1>8, <1>9, <1>13, <2>1 DEF Rider
<1> QED BY <1>10, <1>11, <1>12, <1>13, LiftInterrupt DEF TrafficNext

(* For any bank and any callers, every car that moves is looked at again and
   every car that stands is where it was sent.                             *)
LEMMA CarsStop == TrafficSpec => [](MovingIsWatched /\ StopsWhereSent)
<1>1. LiftInv => MovingIsWatched
  <2> SUFFICES ASSUME LiftInv, NEW e \in Elevators, elevators[e].inMotion PROVE due # <<>>
    BY DEF MovingIsWatched
  <2>1. PICK i \in 1..Len(due) : due[i] >= elevators[e].willArrive
    BY DEF LiftInv, Watched
  <2> QED BY <2>1
<1>2. LiftInv => StopsWhereSent
  BY DEF LiftInv, Standing, StopsWhereSent
<1> QED BY <1>1, <1>2, LiftStarts, LiftStep, PTL DEF TrafficSpec

-----------------------------------------------------------------------------
(***************************************************************************)
(* The self test of the elevators (machine/elevatortest.cc).               *)
(***************************************************************************)
CarSet ==
  [display : Direction, doorsOpen : BOOLEAN, inMotion : BOOLEAN, lastFloor : Int, goingTo : Int,
   willArrive : Int, riders : SUBSET {"rider"}]

SelfTypes == car \in [Tested!Elevators -> CarSet] /\ testClock \in Int

Event(name, floor) == Tested!PendingElevatorEvent(name, floor, 0)

(* Rider r and controller c are at these places, the car is at a floor with its
   doors open, closed, or moving, and these events wait for the two.       *)
At(r, c, floor, doors, moving, to, forRider, forController) ==
  /\ rider = r /\ controller = c /\ toRider = forRider /\ toController = forController
  /\ car[0].lastFloor = floor /\ car[0].doorsOpen = doors /\ car[0].inMotion = moving
  /\ car[0].goingTo = to

(* How far the test has come *)
Called ==
  \/ At("press", "call", 0, FALSE, FALSE, 0, <<>>, <<>>)
  \/ At("board", "call", 0, FALSE, FALSE, 0, <<>>, <<Event("UpButtonPressed", 0)>>)
  \/ At("board", "mark", 0, FALSE, FALSE, 0, <<>>, <<>>)
  \/ At("board", "open", 0, FALSE, FALSE, 0, <<>>, <<>>) /\ car[0].display = "Up"
Boarded ==
  \/ At("board", "drive", 0, TRUE, FALSE, 0, <<Event("DoorsOpened", 0)>>, <<>>)
       /\ car[0].display = "Up"
  \/ At("enter", "drive", 0, TRUE, FALSE, 0, <<>>, <<>>)
  \/ At("floor", "drive", 0, TRUE, FALSE, 0, <<>>, <<>>)
  \/ At("leave", "drive", 0, TRUE, FALSE, 0, <<>>, <<Event("FloorButtonPressed", 1)>>)
Driven ==
  \/ At("leave", "close", 0, TRUE, FALSE, 0, <<>>, <<>>)
  \/ At("leave", "move", 0, FALSE, FALSE, 0, <<>>, <<>>)
  \/ At("leave", "arrive", 0, FALSE, TRUE, 1, <<>>, <<>>)
  \/ At("leave", "arrive", 1, FALSE, FALSE, 1, <<>>, <<Event("ElevatorArrived", 1)>>)
Left ==
  \/ At("leave", "open", 1, FALSE, FALSE, 1, <<>>, <<>>)
  \/ At("leave", "done", 1, TRUE, FALSE, 1, <<Event("DoorsOpened", 1)>>, <<>>)
  \/ At("exit", "done", 1, TRUE, FALSE, 1, <<>>, <<>>)
  \/ At("done", "done", 1, TRUE, FALSE, 1, <<>>, <<>>)

SelfInv == SelfTypes /\ (Called \/ Boarded \/ Driven \/ Left)

LEMMA SelfStarts == SelfInit => SelfInv
<1> SUFFICES ASSUME SelfInit PROVE SelfInv
  OBVIOUS
<1>1. 0 \in Tested!Elevators
  BY DEF Tested!Elevators
<1>2. Tested!ElevatorInfo \in CarSet
  BY DEF Tested!ElevatorInfo, CarSet, Direction
<1>3. SelfTypes
  BY <1>2 DEF SelfInit, Tested!BankInit, SelfTypes
<1>4. At("press", "call", 0, FALSE, FALSE, 0, <<>>, <<>>)
  BY <1>1 DEF SelfInit, Tested!BankInit, Tested!ElevatorInfo, At
<1> QED BY <1>3, <1>4, Zenon DEF SelfInv, Called

(* The one car and what it posts *)
LEMMA OnlyCar ==
  /\ 0 \in Tested!Elevators /\ \A e \in Tested!Elevators : e = 0
  /\ Tested!Arrivals[1] = IF 0 \in Tested!CheckArrived
                            THEN <<Event("ElevatorArrived", car[0].goingTo)>> ELSE <<>>
<1>1. 0 \in Tested!Elevators /\ \A e \in Tested!Elevators : e = 0
  BY DEF Tested!Elevators
<1> DEFINE posted == Event("ElevatorArrived", car[0].goingTo)
           G(f, n) == IF n = 0 THEN <<>>
                      ELSE IF n - 1 \in Tested!CheckArrived
                           THEN Append(f[n - 1], Tested!PendingElevatorEvent(
                                         "ElevatorArrived", car[n - 1].goingTo, n - 1))
                           ELSE f[n - 1]
           F(f) == [n \in 0..1 |-> G(f, n)]
           w == [n \in 0..1 |-> IF n = 0 THEN <<>>
                                ELSE IF 0 \in Tested!CheckArrived THEN <<posted>> ELSE <<>>]
<1>2. w = F(w)
  BY DEF Event
<1>3. Tested!Arrivals = CHOOSE f : f = F(f)
  BY DEF Tested!Arrivals
<1> HIDE DEF w
<1>4. Tested!Arrivals = F(Tested!Arrivals)
  <2> HIDE DEF F
  <2> QED BY <1>2, <1>3
<1> HIDE DEF G
<1>5. 0 \in 0..1 /\ 1 \in 0..1 /\ 1 - 1 = 0 /\ 1 # 0
  OBVIOUS
<1>6. /\ Tested!Arrivals[0] = G(Tested!Arrivals, 0)
      /\ Tested!Arrivals[1] = G(Tested!Arrivals, 1)
  BY <1>4, <1>5, Zenon
<1>7. Tested!Arrivals[0] = <<>>
  BY <1>6 DEF G
<1>8. Tested!Arrivals[1] = IF 0 \in Tested!CheckArrived THEN Append(<<>>, posted) ELSE <<>>
  <2>1. CASE 0 \in Tested!CheckArrived
    BY <1>5, <1>6, <1>7, <2>1, Zenon DEF G, Event
  <2>2. CASE 0 \notin Tested!CheckArrived
    BY <1>5, <1>6, <1>7, <2>2, Zenon DEF G, Event
  <2> QED BY <2>1, <2>2
<1> QED BY <1>1, <1>8

(* A step that leaves the car, the events and both threads where they are *)
LEMMA SelfStutters ==
  ASSUME SelfInv, UNCHANGED <<car, toRider, toController, rider, controller>>, testClock' \in Int
  PROVE  SelfInv'
<1> QED BY Zenon DEF SelfInv, SelfTypes, Called, Boarded, Driven, Left, At

(* An interrupt: the car arrives, if it moves. *)
LEMMA SelfInterrupt ==
  ASSUME SelfInv, Tested!HandleInterrupt, UNCHANGED <<rider, controller>>
  PROVE  SelfInv'
<1>1. car[0] \in CarSet /\ car \in [Tested!Elevators -> CarSet] /\ testClock \in Int
  BY OnlyCar DEF SelfInv, SelfTypes
<1>2. /\ car' = [e \in Tested!Elevators |-> Tested!Moved(e)]
      /\ toController' = toController \o Tested!Arrivals[1]
      /\ toRider' = toRider /\ testClock' = testClock
  BY DEF Tested!HandleInterrupt
<1>3. CASE 0 \notin Tested!ReachedNextFloor
  <2>1. 0 \notin Tested!CheckArrived
    BY <1>3 DEF Tested!CheckArrived
  <2>2. Tested!Moved(0) = car[0]
    BY <1>3, <2>1 DEF Tested!Moved, Tested!FirstOn, Tested!GoesOn
  <2>3. car' = car
    BY <1>1, <1>2, <2>2, OnlyCar
  <2>4. toController' = toController \o <<>>
    BY <1>2, <2>1, OnlyCar
  <2>5. toController' = toController
    <3>1. toController = <<>> \/ \E name, floor : toController = <<Event(name, floor)>>
      BY Zenon DEF SelfInv, Called, Boarded, Driven, Left, At
    <3>2. \A x : <<x>> \o <<>> = <<x>>
      OBVIOUS
    <3>3. <<>> \o <<>> = <<>>
      OBVIOUS
    <3> QED BY <2>4, <3>1, <3>2, <3>3, Zenon
  <2> QED BY <1>1, <1>2, <2>3, <2>5, SelfStutters
<1>4. CASE 0 \in Tested!ReachedNextFloor
  <2>1. car[0].inMotion
    BY <1>4 DEF Tested!ReachedNextFloor
  <2>2. At("leave", "arrive", 0, FALSE, TRUE, 1, <<>>, <<>>)
    BY <2>1, Zenon DEF SelfInv, Called, Boarded, Driven, Left, At
  <2> DEFINE passed == Tested!PassFloor(car[0])
  <2>3. /\ passed \in CarSet /\ passed.lastFloor = 1 /\ passed.goingTo = 1
        /\ passed.doorsOpen = FALSE
    <3>1. car[0].goingTo > car[0].lastFloor /\ car[0].lastFloor + 1 = 1
      BY <2>2 DEF At
    <3>2. passed = [car[0] EXCEPT !.lastFloor = 1]
      BY <1>1, <3>1 DEF Tested!PassFloor, CarSet
    <3> HIDE DEF passed
    <3> QED BY <1>1, <2>2, <3>2, Zenon DEF At, CarSet
  <2>4. 0 \in Tested!CheckArrived
    BY <1>4, <2>2, <2>3 DEF Tested!CheckArrived, At
  <2>5. Tested!Moved(0) = [passed EXCEPT !.inMotion = FALSE]
    BY <1>4, <2>4 DEF Tested!Moved, Tested!FirstOn, Tested!GoesOn
  <2> HIDE DEF passed
  <2>6. /\ Tested!Moved(0) \in CarSet /\ Tested!Moved(0).lastFloor = 1
        /\ Tested!Moved(0).goingTo = 1 /\ Tested!Moved(0).doorsOpen = FALSE
        /\ Tested!Moved(0).inMotion = FALSE
    BY <2>3, <2>5, Zenon DEF CarSet
  <2>7. car' \in [Tested!Elevators -> CarSet] /\ car'[0] = Tested!Moved(0)
    BY <1>2, <2>6, OnlyCar
  <2>8. toController' = <<Event("ElevatorArrived", 1)>>
    <3>1. Tested!Arrivals[1] = <<Event("ElevatorArrived", 1)>>
      BY <2>2, <2>4, OnlyCar DEF At
    <3> QED BY <1>2, <2>2, <3>1 DEF At
  <2>9. At("leave", "arrive", 1, FALSE, FALSE, 1, <<>>, <<Event("ElevatorArrived", 1)>>)'
    BY <1>2, <2>2, <2>6, <2>7, <2>8, Zenon DEF At, Event, Tested!PendingElevatorEvent
  <2> QED BY <1>1, <1>2, <2>7, <2>9, Zenon DEF SelfInv, SelfTypes, Driven
<1> QED BY <1>3, <1>4

LEMMA SelfStep == SelfInv /\ [SelfNext]_selfVars => SelfInv'
<1> SUFFICES ASSUME SelfInv, [SelfNext]_selfVars PROVE SelfInv'
  OBVIOUS
<1>0. /\ SelfTypes /\ car \in [Tested!Elevators -> CarSet] /\ car[0] \in CarSet
      /\ 0 \in Tested!Elevators /\ testClock \in Int /\ TestDelay \in Int
      /\ testClock + TestDelay \in Int /\ car[0].riders \in SUBSET {"rider"}
  <2>1. SelfTypes /\ TestDelay \in Int
    BY SelfTestAssumption DEF SelfInv
  <2> QED BY <2>1, OnlyCar DEF SelfTypes, CarSet
<1>1. ASSUME RiderPress PROVE SelfInv'
  <2>1. At("press", "call", 0, FALSE, FALSE, 0, <<>>, <<>>)
    BY <1>1, Zenon DEF SelfInv, Called, Boarded, Driven, Left, At, RiderPress
  <2>2. SelfTypes' /\ car'[0] = car[0]
    BY <1>0, <1>1 DEF SelfTypes, RiderPress, Tested!PressButton, Tested!PostEvent
  <2>3. At("board", "call", 0, FALSE, FALSE, 0, <<>>, <<Event("UpButtonPressed", 0)>>)'
    BY <1>0, <1>1, <2>1, <2>2 DEF At, Event, CarSet, Tested!PendingElevatorEvent,
       RiderPress, Tested!PressButton, Tested!PostEvent
  <2> QED BY <2>2, <2>3, Zenon DEF SelfInv, Called
<1>2. ASSUME RiderEvent PROVE SelfInv'
  <2>1. \/ At("board", "drive", 0, TRUE, FALSE, 0, <<Event("DoorsOpened", 0)>>, <<>>)
           /\ car[0].display = "Up"
        \/ At("leave", "done", 1, TRUE, FALSE, 1, <<Event("DoorsOpened", 1)>>, <<>>)
    BY <1>2, Zenon DEF SelfInv, Called, Boarded, Driven, Left, At, RiderEvent,
       Tested!getNextRiderEvent
  <2>2. CASE At("board", "drive", 0, TRUE, FALSE, 0, <<Event("DoorsOpened", 0)>>, <<>>)
           /\ car[0].display = "Up"
    <3>1. SelfTypes' /\ car'[0] = car[0]
      BY <1>0, <1>2 DEF SelfTypes, RiderEvent, Tested!getNextRiderEvent, Then,
         IsEvent, Tested!getDirection
    <3>2. At("enter", "drive", 0, TRUE, FALSE, 0, <<>>, <<>>)'
      BY <1>0, <1>2, <2>2, <3>1 DEF At, Event, CarSet, Tested!PendingElevatorEvent,
         RiderEvent, Tested!getNextRiderEvent, Then, IsEvent,
         Tested!getDirection
    <3> QED BY <3>1, <3>2, Zenon DEF SelfInv, Boarded
  <2>3. CASE At("leave", "done", 1, TRUE, FALSE, 1, <<Event("DoorsOpened", 1)>>, <<>>)
    <3>1. SelfTypes' /\ car'[0] = car[0]
      BY <1>0, <1>2 DEF SelfTypes, RiderEvent, Tested!getNextRiderEvent, Then,
         IsEvent, Tested!getDirection
    <3>2. At("exit", "done", 1, TRUE, FALSE, 1, <<>>, <<>>)'
      BY <1>0, <1>2, <2>3, <3>1 DEF At, Event, CarSet, Tested!PendingElevatorEvent,
         RiderEvent, Tested!getNextRiderEvent, Then, IsEvent,
         Tested!getDirection
    <3> QED BY <3>1, <3>2, Zenon DEF SelfInv, Left
  <2> QED BY <2>1, <2>2, <2>3, Zenon
<1>3. ASSUME RiderEnters PROVE SelfInv'
  <2>1. At("enter", "drive", 0, TRUE, FALSE, 0, <<>>, <<>>)
    BY <1>3, Zenon DEF SelfInv, Called, Boarded, Driven, Left, At, RiderEnters
  <2>2. car' = [car EXCEPT ![0] = [car[0] EXCEPT !.riders = car[0].riders \union {"rider"}]]
        /\ testClock' = testClock
    BY <1>0, <1>3, <2>1 DEF At, RiderEnters, Tested!EnterElevator, Then,
       Tested!DoorsAt
  <2>3. SelfTypes' /\ car'[0] = [car[0] EXCEPT !.riders = car[0].riders \union {"rider"}]
    BY <1>0, <2>2 DEF SelfTypes, CarSet
  <2>4. At("floor", "drive", 0, TRUE, FALSE, 0, <<>>, <<>>)'
    BY <1>0, <1>3, <2>1, <2>3 DEF At, Event, CarSet, Tested!PendingElevatorEvent,
       RiderEnters, Tested!EnterElevator, Then, Tested!DoorsAt
  <2> QED BY <2>3, <2>4, Zenon DEF SelfInv, Boarded
<1>4. ASSUME RiderPressFloor PROVE SelfInv'
  <2>1. At("floor", "drive", 0, TRUE, FALSE, 0, <<>>, <<>>)
    BY <1>4, Zenon DEF SelfInv, Called, Boarded, Driven, Left, At, RiderPressFloor
  <2>2. SelfTypes' /\ car'[0] = car[0]
    BY <1>0, <1>4 DEF SelfTypes, RiderPressFloor, Tested!PressFloor, Tested!PostEvent
  <2>3. At("leave", "drive", 0, TRUE, FALSE, 0, <<>>, <<Event("FloorButtonPressed", 1)>>)'
    BY <1>0, <1>4, <2>1, <2>2 DEF At, Event, CarSet, Tested!PendingElevatorEvent,
       RiderPressFloor, Tested!PressFloor, Tested!PostEvent
  <2> QED BY <2>2, <2>3, Zenon DEF SelfInv, Boarded
<1>5. ASSUME RiderExits PROVE SelfInv'
  <2>1. At("exit", "done", 1, TRUE, FALSE, 1, <<>>, <<>>)
    BY <1>5, Zenon DEF SelfInv, Called, Boarded, Driven, Left, At, RiderExits
  <2>2. car' = [car EXCEPT ![0] = [car[0] EXCEPT !.riders = car[0].riders \ {"rider"}]]
        /\ testClock' = testClock
    BY <1>0, <1>5, <2>1, Zenon DEF At, RiderExits, Tested!ExitElevator, Then,
       Tested!DoorsAt
  <2>3. SelfTypes' /\ car'[0] = [car[0] EXCEPT !.riders = car[0].riders \ {"rider"}]
    BY <1>0, <2>2 DEF SelfTypes, CarSet
  <2>4. At("done", "done", 1, TRUE, FALSE, 1, <<>>, <<>>)'
    BY <1>0, <1>5, <2>1, <2>3 DEF At, Event, CarSet, Tested!PendingElevatorEvent,
       RiderExits, Tested!ExitElevator, Then, Tested!DoorsAt
  <2> QED BY <2>3, <2>4, Zenon DEF SelfInv, Left
<1>6. ASSUME ControllerEvent PROVE SelfInv'
  <2>1. \/ At("board", "call", 0, FALSE, FALSE, 0, <<>>, <<Event("UpButtonPressed", 0)>>)
        \/ At("leave", "drive", 0, TRUE, FALSE, 0, <<>>, <<Event("FloorButtonPressed", 1)>>)
        \/ At("leave", "arrive", 1, FALSE, FALSE, 1, <<>>, <<Event("ElevatorArrived", 1)>>)
    BY <1>6, Zenon DEF SelfInv, Called, Boarded, Driven, Left, At, ControllerEvent,
       Tested!getNextControllerEvent, Waiting
  <2>2. CASE At("board", "call", 0, FALSE, FALSE, 0, <<>>, <<Event("UpButtonPressed", 0)>>)
    <3>1. SelfTypes' /\ car'[0] = car[0]
      BY <1>0, <1>6, Zenon DEF SelfTypes, ControllerEvent, Tested!getNextControllerEvent,
         Then, IsEvent, Awaited, AfterEvent,
         Tested!WhereIsElevator
    <3>2. At("board", "mark", 0, FALSE, FALSE, 0, <<>>, <<>>)'
      BY <1>0, <1>6, <2>2, <3>1 DEF At, Event, CarSet, Tested!PendingElevatorEvent,
         ControllerEvent, Tested!getNextControllerEvent, Then,
         IsEvent, Awaited, AfterEvent, Tested!WhereIsElevator
    <3> QED BY <3>1, <3>2, Zenon DEF SelfInv, Called
  <2>3. CASE At("leave", "drive", 0, TRUE, FALSE, 0, <<>>, <<Event("FloorButtonPressed", 1)>>)
    <3>1. SelfTypes' /\ car'[0] = car[0]
      BY <1>0, <1>6 DEF SelfTypes, ControllerEvent, Tested!getNextControllerEvent,
         Then, IsEvent, Awaited, AfterEvent,
         Tested!WhereIsElevator
    <3>2. At("leave", "close", 0, TRUE, FALSE, 0, <<>>, <<>>)'
      BY <1>0, <1>6, <2>3, <3>1 DEF At, Event, CarSet, Tested!PendingElevatorEvent,
         ControllerEvent, Tested!getNextControllerEvent, Then,
         IsEvent, Awaited, AfterEvent, Tested!WhereIsElevator
    <3> QED BY <3>1, <3>2, Zenon DEF SelfInv, Driven
  <2>4. CASE At("leave", "arrive", 1, FALSE, FALSE, 1, <<>>, <<Event("ElevatorArrived", 1)>>)
    <3>1. SelfTypes' /\ car'[0] = car[0]
      BY <1>0, <1>6 DEF SelfTypes, ControllerEvent, Tested!getNextControllerEvent,
         Then, IsEvent, Awaited, AfterEvent,
         Tested!WhereIsElevator
    <3>2. At("leave", "open", 1, FALSE, FALSE, 1, <<>>, <<>>)'
      BY <1>0, <1>6, <2>4, <3>1 DEF At, Event, CarSet, Tested!PendingElevatorEvent,
         ControllerEvent, Tested!getNextControllerEvent, Then,
         IsEvent, Awaited, AfterEvent, Tested!WhereIsElevator
    <3> QED BY <3>1, <3>2, Zenon DEF SelfInv, Left
  <2> QED BY <2>1, <2>2, <2>3, <2>4, Zenon
<1>7. ASSUME ControllerMarks PROVE SelfInv'
  <2>1. At("board", "mark", 0, FALSE, FALSE, 0, <<>>, <<>>)
    BY <1>7, Zenon DEF SelfInv, Called, Boarded, Driven, Left, At, ControllerMarks
  <2>2. car' = [car EXCEPT ![0] = [car[0] EXCEPT !.display = "Up"]]
        /\ testClock' = testClock
    BY <1>0, <1>7, <2>1 DEF At, ControllerMarks, Tested!MarkDirection
  <2>3. SelfTypes' /\ car'[0] = [car[0] EXCEPT !.display = "Up"]
    BY <1>0, <2>2 DEF SelfTypes, CarSet, Direction
  <2>4. At("board", "open", 0, FALSE, FALSE, 0, <<>>, <<>>)'
           /\ car'[0].display = "Up"
    BY <1>0, <1>7, <2>1, <2>3 DEF At, Event, CarSet, Tested!PendingElevatorEvent,
       ControllerMarks, Tested!MarkDirection
  <2> QED BY <2>3, <2>4, Zenon DEF SelfInv, Called
<1>8. ASSUME ControllerOpens PROVE SelfInv'
  <2>1. \/ At("board", "open", 0, FALSE, FALSE, 0, <<>>, <<>>)
           /\ car[0].display = "Up"
        \/ At("leave", "open", 1, FALSE, FALSE, 1, <<>>, <<>>)
    BY <1>8, Zenon DEF SelfInv, Called, Boarded, Driven, Left, At, ControllerOpens
  <2>2. CASE At("board", "open", 0, FALSE, FALSE, 0, <<>>, <<>>)
           /\ car[0].display = "Up"
    <3>1. car' = [car EXCEPT ![0] = [car[0] EXCEPT !.doorsOpen = TRUE]]
          /\ testClock' = testClock
      BY <1>0, <1>8, <2>2 DEF At, ControllerOpens, Tested!OpenDoors, Tested!PostEvent
    <3>2. SelfTypes' /\ car'[0] = [car[0] EXCEPT !.doorsOpen = TRUE]
      BY <1>0, <3>1, Zenon DEF SelfTypes, CarSet
    <3>3. At("board", "drive", 0, TRUE, FALSE, 0, <<Event("DoorsOpened", 0)>>, <<>>)'
           /\ car'[0].display = "Up"
      BY <1>0, <1>8, <2>2, <3>2 DEF At, Event, CarSet, Tested!PendingElevatorEvent,
         ControllerOpens, Tested!OpenDoors, Tested!PostEvent
    <3> QED BY <3>2, <3>3, Zenon DEF SelfInv, Boarded
  <2>3. CASE At("leave", "open", 1, FALSE, FALSE, 1, <<>>, <<>>)
    <3>1. car' = [car EXCEPT ![0] = [car[0] EXCEPT !.doorsOpen = TRUE]]
          /\ testClock' = testClock
      BY <1>0, <1>8, <2>3 DEF At, ControllerOpens, Tested!OpenDoors, Tested!PostEvent
    <3>2. SelfTypes' /\ car'[0] = [car[0] EXCEPT !.doorsOpen = TRUE]
      BY <1>0, <3>1, Zenon DEF SelfTypes, CarSet
    <3>3. At("leave", "done", 1, TRUE, FALSE, 1, <<Event("DoorsOpened", 1)>>, <<>>)'
      BY <1>0, <1>8, <2>3, <3>2 DEF At, Event, CarSet, Tested!PendingElevatorEvent,
         ControllerOpens, Tested!OpenDoors, Tested!PostEvent
    <3> QED BY <3>2, <3>3, Zenon DEF SelfInv, Left
  <2> QED BY <2>1, <2>2, <2>3, Zenon
<1>9. ASSUME ControllerCloses PROVE SelfInv'
  <2>1. At("leave", "close", 0, TRUE, FALSE, 0, <<>>, <<>>)
    BY <1>9, Zenon DEF SelfInv, Called, Boarded, Driven, Left, At, ControllerCloses
  <2>2. car' = [car EXCEPT ![0] = [car[0] EXCEPT !.doorsOpen = FALSE]]
        /\ testClock' = testClock
    BY <1>0, <1>9, <2>1 DEF At, ControllerCloses, Tested!CloseDoors
  <2>3. SelfTypes' /\ car'[0] = [car[0] EXCEPT !.doorsOpen = FALSE]
    BY <1>0, <2>2, Zenon DEF SelfTypes, CarSet
  <2>4. At("leave", "move", 0, FALSE, FALSE, 0, <<>>, <<>>)'
    BY <1>0, <1>9, <2>1, <2>3 DEF At, Event, CarSet, Tested!PendingElevatorEvent,
       ControllerCloses, Tested!CloseDoors
  <2> QED BY <2>3, <2>4, Zenon DEF SelfInv, Driven
<1>10. ASSUME ControllerMoves PROVE SelfInv'
  <2> DEFINE arrival == testClock + TestDelay
             info == [car[0] EXCEPT !.goingTo = 1, !.inMotion = TRUE, !.willArrive = arrival]
  <2>1. At("leave", "move", 0, FALSE, FALSE, 0, <<>>, <<>>)
    BY <1>10, Zenon DEF SelfInv, Called, Boarded, Driven, Left, At, ControllerMoves
  <2>2. car' = [car EXCEPT ![0] = info] /\ testClock' = testClock
    BY <1>0, <1>10, <2>1, Zenon DEF At, ControllerMoves, Tested!MoveTo, Tested!InfoMoveTo
  <2>3. /\ info \in CarSet /\ info.goingTo = 1 /\ info.inMotion = TRUE
        /\ info.lastFloor = car[0].lastFloor /\ info.doorsOpen = car[0].doorsOpen
    <3>1. arrival \in Int /\ car[0] \in CarSet
      BY <1>0
    <3> HIDE DEF arrival
    <3> DEFINE sent == [car[0] EXCEPT !.goingTo = 1]
               off == [sent EXCEPT !.inMotion = TRUE]
    <3>2. /\ sent \in CarSet /\ sent.goingTo = 1
          /\ sent.lastFloor = car[0].lastFloor /\ sent.doorsOpen = car[0].doorsOpen
      BY <3>1 DEF CarSet
    <3>3. info = [off EXCEPT !.willArrive = arrival]
      OBVIOUS
    <3> HIDE DEF sent, info
    <3>4. /\ off \in CarSet /\ off.goingTo = 1 /\ off.inMotion = TRUE
          /\ off.lastFloor = car[0].lastFloor /\ off.doorsOpen = car[0].doorsOpen
      BY <3>2, Zenon DEF CarSet
    <3> HIDE DEF off
    <3> QED BY <3>1, <3>3, <3>4 DEF CarSet
  <2> HIDE DEF info
  <2>4. SelfTypes' /\ car'[0] = info
    BY <1>0, <2>2, <2>3 DEF SelfTypes
  <2>5. At("leave", "arrive", 0, FALSE, TRUE, 1, <<>>, <<>>)'
    BY <1>10, <2>1, <2>3, <2>4 DEF At, ControllerMoves, Tested!MoveTo
  <2> QED BY <2>4, <2>5, Zenon DEF SelfInv, Driven
<1>11. ASSUME \/ RiderWaits \/ RiderWakes
              \/ ControllerWaits \/ ControllerWakes
              \/ UNCHANGED selfVars
       PROVE  SelfInv'
  <2>1. UNCHANGED <<car, toRider, toController, rider, controller, testClock>>
    BY <1>11 DEF RiderWaits, RiderWakes, ControllerWaits,
                 ControllerWakes, selfVars, testBankVars
  <2> QED BY <1>0, <2>1, SelfStutters
<1>12. ASSUME Bank(Tested!Tick) PROVE SelfInv'
  <2>1. UNCHANGED <<car, toRider, toController, rider, controller>> /\ testClock' \in Int
    BY <1>0, <1>12, SelfTestAssumption DEF Bank, Tested!Tick
  <2> QED BY <2>1, SelfStutters
<1>13. ASSUME Bank(Tested!HandleInterrupt) PROVE SelfInv'
  BY <1>13, SelfInterrupt DEF Bank
<1> QED
  BY <1>1, <1>2, <1>3, <1>4, <1>5, <1>6, <1>7, <1>8, <1>9, <1>10, <1>11, <1>12, <1>13
     DEF SelfNext, RiderTest, ControllerTest

(* No assertion of the self test fails, for any delay per floor and any clock. *)
LEMMA SelfTestPasses == SelfSpec => []NoAssertionFails
<1>1. SelfInv => NoAssertionFails
  BY Zenon DEF SelfInv, Called, Boarded, Driven, Left, At, NoAssertionFails
<1> QED BY <1>1, SelfStarts, SelfStep, PTL DEF SelfSpec

(* For any bank and its callers and for the self test, cars that move are looked
   at again, stand where they were sent, and no assertion fails.           *)
THEOREM CarsSafe == TrafficSpec /\ SelfSpec => []CarsAreSafe
BY CarsStop, SelfTestPasses, PTL DEF CarsAreSafe

=============================================================================
