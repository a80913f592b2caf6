--------------------------- MODULE MachineProofs ----------------------------
(***************************************************************************)
(* Proofs about interrupts and simulated time, for any sources and times,  *)
(* and about the synchronous disk, for any threads, sectors and values.    *)
(***************************************************************************)
EXTENDS WellFoundedInduction, Interrupt, SynchDisk, TLAPS

(* A leaf that names no prover is for SMT, twice, and then for Zenon. *)
USE SMTT(10), Z3T(20), Zenon

(* Taking the first of a sequence *)
LEMMA Removed ==
  ASSUME NEW S, NEW s \in Seq(S), s # <<>>
  PROVE  /\ Head(s) \in S /\ Head(s) = s[1] /\ Len(s) \in Nat /\ Len(s) > 0
         /\ Tail(s) \in Seq(S) /\ Len(Tail(s)) = Len(s) - 1
         /\ \A i \in 1..(Len(s) - 1) : Tail(s)[i] = s[i + 1]
OBVIOUS

(* A sequence of one *)
LEMMA Single ==
  ASSUME NEW S, NEW s \in Seq(S), s # <<>>, Tail(s) = <<>>
  PROVE  Len(s) = 1 /\ Head(s) = s[1]
<1>1. Len(Tail(s)) = Len(s) - 1 /\ Len(s) \in Nat /\ Head(s) = s[1]
  BY Removed
<1>2. ASSUME NEW t \in Seq(S), t = <<>> PROVE Len(t) = 0
  BY <1>2
<1>3. Len(Tail(s)) = 0
  BY <1>2, Removed, Zenon
<1> QED BY <1>1, <1>3

(* A set of natural numbers has a least element. *)
LEMMA LeastExists ==
  ASSUME NEW S, S \subseteq Nat, S # {}
  PROVE  \E x \in S : \A y \in S : x <= y
<1>1. \E x \in S : \A y \in S : ~(<<y, x>> \in OpToRel(<, Nat))
  BY NatLessThanWellFounded, WFMin, Zenon
<1>2. ASSUME NEW x \in S, NEW y \in S, ~(<<y, x>> \in OpToRel(<, Nat))
      PROVE  x <= y
  <2>1. <<y, x>> \in Nat \X Nat
    OBVIOUS
  <2>2. ~(y < x)
    BY <1>2, <2>1 DEF OpToRel
  <2> QED BY <2>2
<1> QED BY <1>1, <1>2, Zenon

-----------------------------------------------------------------------------
(***************************************************************************)
(* Interrupts and simulated time (machine/interrupt.cc, timer.cc).         *)
(***************************************************************************)
PendingSet == [type : Sources \cup {"timer"}, when : Nat]
ClockSet == [totalTicks : Nat, idleTicks : Nat, systemTicks : Nat, userTicks : Nat]

ByTime(list) == \A i, j \in 1..Len(list) : i <= j => list[i].when <= list[j].when
NoTimer(list) == \A i \in 1..Len(list) : list[i].type # "timer"
OneTimer(list) ==
  \E i \in 1..Len(list) : \A j \in 1..Len(list) : list[j].type = "timer" <=> j = i
NotBefore(list, time) == \A i \in 1..Len(list) : list[i].when >= time

LEMMA PendingTimes ==
  /\ \A p \in PendingSet : p.when \in Nat
  /\ \A list \in Seq(PendingSet) :
       Len(list) \in Nat /\ \A i \in 1..Len(list) : list[i] \in PendingSet
<1>1. \A p \in PendingSet : p.when \in Nat
  BY DEF PendingSet
<1> QED BY <1>1

(* Where SortedInsert puts an interrupt. *)
LEMMA InsertedThere ==
  ASSUME NEW list \in Seq(PendingSet), NEW e \in PendingSet
  PROVE  \E q \in 1..(Len(list) + 1) :
           /\ Insert(list, e) =
                [i \in 1..(Len(list) + 1) |->
                   IF i < q THEN list[i] ELSE IF i = q THEN e ELSE list[i - 1]]
           /\ \A i \in 1..Len(list) : i < q => list[i].when <= e.when
           /\ q <= Len(list) => e.when < list[q].when
<1> DEFINE key == [p \in Items(list) \cup {e} |-> p.when]
           larger == {i \in 1..Len(list) : key[e] < key[list[i]]}
           q == InsertPosition(list, e, key)
<1>1. Insert(list, e) = InsertedAt(list, q, e)
  BY DEF Insert, SortedInsert
<1>2. key[e] = e.when /\ \A i \in 1..Len(list) : key[list[i]] = list[i].when
  <2>1. \A i \in 1..Len(list) : list[i] \in Items(list)
    BY DEF Items
  <2> QED BY <2>1
<1>3. Len(list) \in Nat /\ e.when \in Nat /\ \A i \in 1..Len(list) : list[i].when \in Nat
  BY PendingTimes
<1>4. q = IF larger = {} THEN Len(list) + 1 ELSE CHOOSE i \in larger : \A j \in larger : i <= j
  BY DEF InsertPosition
<1> HIDE DEF q, key
<1>5. CASE larger = {}
  <2>1. q = Len(list) + 1
    BY <1>4, <1>5
  <2>2. \A i \in 1..Len(list) : list[i].when <= e.when
    BY <1>2, <1>3, <1>5
  <2>3. q \in 1..(Len(list) + 1) /\ ~(q <= Len(list))
    BY <1>3, <2>1
  <2> QED BY <1>1, <2>2, <2>3 DEF InsertedAt
<1>6. CASE larger # {}
  <2>1. larger \subseteq Nat
    BY <1>3
  <2>2. PICK n \in larger : \A j \in larger : n <= j
    BY <1>6, <2>1, LeastExists, Zenon
  <2>3. q \in larger /\ \A j \in larger : q <= j
    BY <1>4, <1>6, <2>2, Zenon
  <2>4. q \in 1..Len(list) /\ e.when < list[q].when
    BY <1>2, <2>3
  <2>5. \A i \in 1..Len(list) : i < q => list[i].when <= e.when
    BY <1>2, <1>3, <2>3
  <2>6. q \in 1..(Len(list) + 1)
    BY <1>3, <2>4
  <2> QED BY <1>1, <2>4, <2>5, <2>6 DEF InsertedAt
<1> QED BY <1>5, <1>6

(* SortedInsert keeps the order and adds the one interrupt. *)
LEMMA Inserted ==
  ASSUME NEW list \in Seq(PendingSet), NEW e \in PendingSet
  PROVE  /\ Insert(list, e) \in Seq(PendingSet)
         /\ ByTime(list) => ByTime(Insert(list, e))
         /\ \A time \in Nat : NotBefore(list, time) /\ e.when >= time
                              => NotBefore(Insert(list, e), time)
         /\ NoTimer(list) /\ e.type = "timer" => OneTimer(Insert(list, e))
         /\ OneTimer(list) /\ e.type # "timer" => OneTimer(Insert(list, e))
         /\ \A i \in 1..Len(Insert(list, e)) :
              \/ Insert(list, e)[i] = e
              \/ \E j \in 1..Len(list) : Insert(list, e)[i] = list[j]
<1> DEFINE r == Insert(list, e)
<1>1. PICK q \in 1..(Len(list) + 1) :
        /\ r = [i \in 1..(Len(list) + 1) |->
                  IF i < q THEN list[i] ELSE IF i = q THEN e ELSE list[i - 1]]
        /\ \A i \in 1..Len(list) : i < q => list[i].when <= e.when
        /\ q <= Len(list) => e.when < list[q].when
  BY InsertedThere
<1>2. /\ Len(list) \in Nat /\ e.when \in Nat
      /\ \A i \in 1..Len(list) : list[i] \in PendingSet /\ list[i].when \in Nat
  BY PendingTimes
<1>3. /\ r \in Seq(PendingSet) /\ Len(r) = Len(list) + 1
      /\ \A i \in 1..Len(r) : r[i] = IF i < q THEN list[i] ELSE IF i = q THEN e ELSE list[i - 1]
  BY <1>1, <1>2
<1> HIDE DEF r
<1>4. ASSUME ByTime(list) PROVE ByTime(r)
  <2>1. \A i \in 1..Len(list) : i >= q => e.when <= list[i].when
    BY <1>1, <1>2, <1>4 DEF ByTime
  <2>2. ASSUME NEW i \in 1..Len(r), NEW j \in 1..Len(r), i <= j PROVE r[i].when <= r[j].when
    <3>1. CASE j < q
      <4>1. r[i] = list[i] /\ r[j] = list[j] /\ i \in 1..Len(list) /\ j \in 1..Len(list)
        BY <1>2, <1>3, <2>2, <3>1
      <4> QED BY <1>4, <2>2, <4>1 DEF ByTime
    <3>2. CASE j = q
      BY <1>1, <1>2, <1>3, <2>2, <3>2
    <3>3. CASE j > q /\ i < q
      <4>1. j - 1 \in 1..Len(list) /\ i \in 1..Len(list) /\ i <= j - 1
        BY <1>2, <1>3, <3>3
      <4>2. r[i] = list[i] /\ r[j] = list[j - 1]
        BY <1>2, <1>3, <3>3
      <4> QED BY <1>4, <4>1, <4>2 DEF ByTime
    <3>4. CASE j > q /\ i = q
      <4>1. j - 1 \in 1..Len(list) /\ j - 1 >= q
        BY <1>2, <1>3, <3>4
      <4> QED BY <1>2, <1>3, <2>1, <3>4, <4>1
    <3>5. CASE j > q /\ i > q
      <4>1. j - 1 \in 1..Len(list) /\ i - 1 \in 1..Len(list) /\ i - 1 <= j - 1
        BY <1>2, <1>3, <2>2, <3>5
      <4>2. r[i] = list[i - 1] /\ r[j] = list[j - 1]
        BY <1>2, <1>3, <3>5
      <4> QED BY <1>4, <4>1, <4>2 DEF ByTime
    <3> QED BY <1>2, <1>3, <3>1, <3>2, <3>3, <3>4, <3>5
  <2> QED BY <2>2 DEF ByTime
<1>5. ASSUME NEW i \in 1..Len(r) PROVE r[i] = e \/ \E j \in 1..Len(list) : r[i] = list[j]
  <2>1. CASE i < q
    BY <1>2, <1>3, <2>1
  <2>2. CASE i = q
    BY <1>3, <2>2
  <2>3. CASE i > q
    <3>1. i - 1 \in 1..Len(list)
      BY <1>2, <1>3, <2>3
    <3> QED BY <1>2, <1>3, <2>3, <3>1
  <2> QED BY <1>2, <1>3, <2>1, <2>2, <2>3
<1>6. ASSUME NEW time \in Nat, NotBefore(list, time), e.when >= time PROVE NotBefore(r, time)
  BY <1>5, <1>6 DEF NotBefore
<1>7. ASSUME NoTimer(list), e.type = "timer" PROVE OneTimer(r)
  <2>1. \A j \in 1..Len(r) : j # q => r[j].type # "timer"
    <3> SUFFICES ASSUME NEW j \in 1..Len(r), j # q PROVE r[j].type # "timer"
      OBVIOUS
    <3>1. CASE j < q
      BY <1>2, <1>3, <1>7, <3>1 DEF NoTimer
    <3>2. CASE j > q
      <4>1. j - 1 \in 1..Len(list)
        BY <1>2, <1>3, <3>2
      <4>2. r[j] = list[j - 1]
        BY <1>2, <1>3, <3>2
      <4> QED BY <1>7, <4>1, <4>2 DEF NoTimer
    <3> QED BY <1>2, <1>3, <3>1, <3>2
  <2>2. q \in 1..Len(r) /\ r[q].type = "timer"
    BY <1>2, <1>3, <1>7
  <2> QED BY <2>1, <2>2, Zenon DEF OneTimer
<1>8. ASSUME OneTimer(list), e.type # "timer" PROVE OneTimer(r)
  <2>1. PICK k \in 1..Len(list) : \A j \in 1..Len(list) : list[j].type = "timer" <=> j = k
    BY <1>8 DEF OneTimer
  <2> DEFINE n == IF k < q THEN k ELSE k + 1
  <2>2. n \in 1..Len(r)
    BY <1>2, <1>3
  <2>3. ASSUME NEW j \in 1..Len(r) PROVE r[j].type = "timer" <=> j = n
    <3>1. CASE j < q
      BY <1>2, <1>3, <2>1, <3>1
    <3>2. CASE j = q
      BY <1>2, <1>3, <1>8, <3>2
    <3>3. CASE j > q
      <4>1. j - 1 \in 1..Len(list)
        BY <1>2, <1>3, <3>3
      <4>2. r[j] = list[j - 1]
        BY <1>2, <1>3, <3>3
      <4>3. j = n <=> j - 1 = k
        BY <1>2, <1>3, <3>3
      <4> QED BY <2>1, <4>1, <4>2, <4>3
    <3> QED BY <1>2, <1>3, <3>1, <3>2, <3>3
  <2> QED BY <2>2, <2>3, Zenon DEF OneTimer
<1> QED BY <1>3, <1>4, <1>5, <1>6, <1>7, <1>8 DEF r

(* Taking the first interrupt off the list. *)
LEMMA Taken ==
  ASSUME NEW list \in Seq(PendingSet), ByTime(list), OneTimer(list)
  PROVE  /\ list # <<>> /\ Head(list) \in PendingSet /\ Tail(list) \in Seq(PendingSet)
         /\ ByTime(Tail(list)) /\ NotBefore(list, Head(list).when)
         /\ NotBefore(Tail(list), Head(list).when)
         /\ \A time \in Nat : NotBefore(list, time) => NotBefore(Tail(list), time)
         /\ IF Head(list).type = "timer" THEN NoTimer(Tail(list)) ELSE OneTimer(Tail(list))
<1>1. list # <<>>
  BY DEF OneTimer
<1>2. /\ Len(list) \in Nat /\ Len(list) > 0 /\ Head(list) = list[1] /\ Head(list) \in PendingSet
      /\ Tail(list) \in Seq(PendingSet) /\ Len(Tail(list)) = Len(list) - 1
      /\ \A i \in 1..(Len(list) - 1) : Tail(list)[i] = list[i + 1]
  BY <1>1, Removed
<1> DEFINE t == Tail(list)
<1> HIDE DEF t
<1>3. /\ Len(t) = Len(list) - 1
      /\ \A i \in 1..Len(t) : t[i] = list[i + 1] /\ i + 1 \in 1..Len(list)
  BY <1>2 DEF t
<1>4. ByTime(t)
  <2> SUFFICES ASSUME NEW i \in 1..Len(t), NEW j \in 1..Len(t), i <= j
               PROVE  t[i].when <= t[j].when
    BY DEF ByTime
  <2>1. i + 1 <= j + 1
    BY <1>2, <1>3
  <2> QED BY <1>3, <2>1 DEF ByTime
<1>5. NotBefore(list, Head(list).when)
  <2> SUFFICES ASSUME NEW i \in 1..Len(list) PROVE list[i].when >= list[1].when
    BY <1>2 DEF NotBefore
  <2>1. list[1].when <= list[i].when
    BY <1>2 DEF ByTime
  <2>2. list[1].when \in Nat /\ list[i].when \in Nat
    BY <1>2, PendingTimes
  <2> QED BY <2>1, <2>2
<1>6. ASSUME NEW time, NotBefore(list, time) PROVE NotBefore(t, time)
  BY <1>3, <1>6 DEF NotBefore
<1>7. PICK k \in 1..Len(list) : \A j \in 1..Len(list) : list[j].type = "timer" <=> j = k
  BY DEF OneTimer
<1>8. CASE k = 1
  <2>1. \A i \in 1..Len(t) : i + 1 # 1
    BY <1>2, <1>3
  <2>2. NoTimer(t)
    BY <1>3, <1>7, <1>8, <2>1 DEF NoTimer
  <2> QED BY <1>1, <1>2, <1>4, <1>5, <1>6, <1>7, <1>8, <2>2 DEF t
<1>9. CASE k # 1
  <2>1. k - 1 \in 1..Len(t) /\ \A i \in 1..Len(t) : (i + 1 = k <=> i = k - 1)
    BY <1>2, <1>3, <1>9
  <2>2. OneTimer(t)
    <3>1. \A i \in 1..Len(t) : t[i].type = "timer" <=> i = k - 1
      BY <1>3, <1>7, <2>1
    <3> QED BY <2>1, <3>1, Zenon DEF OneTimer
  <2>3. list[1].type # "timer"
    BY <1>2, <1>7, <1>9
  <2> QED BY <1>1, <1>2, <1>4, <1>5, <1>6, <2>2, <2>3 DEF t
<1> QED BY <1>8, <1>9

-----------------------------------------------------------------------------
IntTypes ==
  /\ pending \in Seq(PendingSet) /\ stats \in ClockSet /\ lastFired \in Nat
  /\ status \in MachineStatus /\ loop \in {"none", "OneTick", "Idle"}

(* The list is in the order of the times, and the last interrupt that was taken
   was not later than any that is on it.                                   *)
IntOrder ==
  /\ ByTime(pending) /\ OneTimer(pending)
  /\ NotBefore(pending, lastFired) /\ lastFired <= stats.totalTicks

(* Idle is the only one that runs in IdleMode. *)
IntModes ==
  /\ (loop = "none" /\ ~halted) \/ loop = "OneTick" => status # "IdleMode"
  /\ loop = "Idle" => status = "IdleMode"
  /\ loop # "none" => ~halted
  /\ loop = "none" => ~yieldOnReturn
  /\ halted => sleeping /\ \A i \in 1..Len(pending) : pending[i].type = "timer"

(* What is on the list has still to come; Idle has advanced the clock no
   further than to the first of them.                                      *)
IntFuture ==
  /\ loop = "none" /\ ~halted =>
       \A i \in 1..Len(pending) :
         IF pending[i].type = "timer" THEN pending[i].when >= stats.totalTicks
                                      ELSE pending[i].when > stats.totalTicks
  /\ loop = "Idle" => NotBefore(pending, stats.totalTicks)

IntInv == IntTypes /\ IntOrder /\ IntModes /\ IntFuture /\ TicksAccounted

(* The clock as CheckIfDue leaves it. *)
LEMMA ClockAdvanced ==
  ASSUME IntInv, NEW adv \in BOOLEAN
  PROVE  /\ Advanced(adv) \in ClockSet
         /\ adv /\ Head(pending).when > stats.totalTicks
              => Advanced(adv).totalTicks = Head(pending).when
         /\ ~(adv /\ Head(pending).when > stats.totalTicks) => Advanced(adv) = stats
         /\ Advanced(adv).totalTicks >= stats.totalTicks
         /\ Advanced(adv).totalTicks = Advanced(adv).idleTicks
              + Advanced(adv).systemTicks + Advanced(adv).userTicks
<1>1. Head(pending) \in PendingSet /\ Head(pending).when \in Nat
  BY Taken, PendingTimes DEF IntInv, IntTypes, IntOrder
<1>2. stats \in ClockSet /\ TicksAccounted
  BY DEF IntInv, IntTypes
<1> HIDE DEF IntInv
<1>3. CASE adv /\ Head(pending).when > stats.totalTicks
  <2>1. Advanced(adv) =
          [stats EXCEPT !.idleTicks = @ + (Head(pending).when - stats.totalTicks),
                        !.totalTicks = Head(pending).when]
    BY <1>3 DEF Advanced, toOccur
  <2>2. /\ stats.totalTicks \in Nat /\ stats.idleTicks \in Nat
        /\ stats.systemTicks \in Nat /\ stats.userTicks \in Nat
    BY <1>2 DEF ClockSet
  <2>3. /\ Advanced(adv).totalTicks = Head(pending).when
        /\ Advanced(adv).idleTicks = stats.idleTicks + (Head(pending).when - stats.totalTicks)
        /\ Advanced(adv).systemTicks = stats.systemTicks
        /\ Advanced(adv).userTicks = stats.userTicks
    BY <1>2, <2>1 DEF ClockSet
  <2>4. stats.idleTicks + (Head(pending).when - stats.totalTicks) \in Nat
    BY <1>1, <1>3, <2>2
  <2>5. Advanced(adv) \in ClockSet
    BY <1>1, <1>2, <2>1, <2>4, Zenon DEF ClockSet
  <2>6. Advanced(adv).totalTicks >= stats.totalTicks
    <3>1. Head(pending).when > stats.totalTicks
      BY <1>3
    <3> QED BY <1>1, <2>2, <2>3, <3>1
  <2>7. Advanced(adv).totalTicks = Advanced(adv).idleTicks
          + Advanced(adv).systemTicks + Advanced(adv).userTicks
    BY <1>1, <1>2, <2>2, <2>3 DEF TicksAccounted
  <2> QED BY <1>3, <2>3, <2>5, <2>6, <2>7, Zenon
<1>4. CASE ~(adv /\ Head(pending).when > stats.totalTicks)
  <2>1. Advanced(adv) = stats
    BY <1>4 DEF Advanced, toOccur
  <2> QED BY <1>2, <1>4, <2>1 DEF ClockSet, TicksAccounted
<1> QED BY <1>3, <1>4

(* A call of a handler keeps the list in order, with the timer on it once; the
   clock is not before the interrupt that was taken.                       *)
LEMMA Fired ==
  ASSUME IntInv, NEW adv \in BOOLEAN, Fire(adv), ~NotYet(adv)
  PROVE  /\ pending' \in Seq(PendingSet) /\ ByTime(pending') /\ OneTimer(pending')
         /\ stats' \in ClockSet /\ TicksAccounted'
         /\ lastFired' \in Nat /\ lastFired' <= stats'.totalTicks
         /\ NotBefore(pending', lastFired')
         /\ NotBefore(pending, stats.totalTicks) => NotBefore(pending', stats'.totalTicks)
<1> DEFINE first == Head(pending)
           rest == Tail(pending)
           now == stats'.totalTicks
<1>1. /\ pending \in Seq(PendingSet) /\ ByTime(pending) /\ OneTimer(pending)
      /\ stats \in ClockSet
  BY DEF IntInv, IntTypes, IntOrder
<1>2. /\ first \in PendingSet /\ rest \in Seq(PendingSet) /\ ByTime(rest)
      /\ NotBefore(rest, first.when) /\ NotBefore(pending, first.when)
      /\ \A time \in Nat : NotBefore(pending, time) => NotBefore(rest, time)
      /\ IF first.type = "timer" THEN NoTimer(rest) ELSE OneTimer(rest)
  BY <1>1, Taken
<1>3. first.when \in Nat /\ stats.totalTicks \in Nat
  BY <1>1, <1>2, PendingTimes DEF ClockSet
<1>4. /\ stats' \in ClockSet /\ TicksAccounted' /\ now >= stats.totalTicks
      /\ adv /\ first.when > stats.totalTicks => now = first.when
      /\ ~(adv /\ first.when > stats.totalTicks) => stats' = stats
  BY ClockAdvanced, Zenon DEF Fire, TicksAccounted
<1>5. now \in Nat
  BY <1>4 DEF ClockSet
<1>6. lastFired' = first.when
  BY DEF Fire, toOccur
<1>7. first.when <= now
  <2>1. CASE adv
    BY <1>3, <1>4, <1>5, <2>1
  <2>2. CASE ~adv
    BY <1>3, <1>4, <1>5, <2>2 DEF NotYet, toOccur
  <2> QED BY <2>1, <2>2
<1>8. ASSUME NotBefore(pending, stats.totalTicks) PROVE NotBefore(rest, now)
  <2>1. CASE adv /\ first.when > stats.totalTicks
    BY <1>2, <1>4, <2>1
  <2>2. CASE ~(adv /\ first.when > stats.totalTicks)
    BY <1>2, <1>3, <1>4, <1>8, <2>2
  <2> QED BY <2>1, <2>2
<1>9. Handled(first.type, rest, now)
  BY DEF Fire, toOccur
<1> HIDE DEF first, rest, now
<1>10. CASE first.type = "timer"
  <2>1. PICK slice \in TimeOfNextInterrupt :
          pending' = Insert(rest, PendingInterrupt("timer", now + slice))
    BY <1>9, <1>10 DEF Handled, TimerInt
  <2> DEFINE e == PendingInterrupt("timer", now + slice)
  <2>2. slice \in Nat
    BY InterruptAssumption DEF TimeOfNextInterrupt
  <2>3. e \in PendingSet /\ e.type = "timer" /\ e.when = now + slice
    BY <1>5, <2>2 DEF PendingSet, PendingInterrupt
  <2>4. e.when >= now /\ e.when >= first.when
    BY <1>3, <1>5, <1>7, <2>2, <2>3
  <2> HIDE DEF e
  <2>5. NoTimer(rest)
    BY <1>2, <1>10
  <2>6. pending' = Insert(rest, e)
    BY <2>1 DEF e
  <2>7. /\ pending' \in Seq(PendingSet) /\ ByTime(pending') /\ OneTimer(pending')
        /\ NotBefore(pending', first.when)
        /\ NotBefore(rest, now) => NotBefore(pending', now)
    BY <1>2, <1>3, <1>5, <2>3, <2>4, <2>5, <2>6, Inserted, Zenon
  <2> QED BY <1>3, <1>4, <1>6, <1>7, <1>8, <2>7 DEF now
<1>11. CASE first.type # "timer"
  <2>1. pending' = rest
    BY <1>9, <1>11 DEF Handled, TimerInt
  <2> QED BY <1>2, <1>3, <1>4, <1>6, <1>7, <1>8, <1>11, <2>1 DEF now
<1> QED BY <1>10, <1>11

(* Putting the first interrupt back keeps the list in order, and adds nothing. *)
LEMMA WasPutBack ==
  ASSUME IntInv, NEW adv \in BOOLEAN, PutBack(adv)
  PROVE  /\ pending' \in Seq(PendingSet) /\ ByTime(pending') /\ OneTimer(pending')
         /\ stats' = Advanced(adv)
         /\ stats' \in ClockSet /\ TicksAccounted'
         /\ stats'.totalTicks >= stats.totalTicks /\ lastFired' = lastFired
         /\ \A time \in Nat : NotBefore(pending, time) => NotBefore(pending', time)
         /\ \A i \in 1..Len(pending') :
              \E j \in 1..Len(pending) : pending'[i] = pending[j]
<1> DEFINE first == Head(pending)
           rest == Tail(pending)
<1>1. pending \in Seq(PendingSet) /\ ByTime(pending) /\ OneTimer(pending)
  BY DEF IntInv, IntTypes, IntOrder
<1>2. /\ pending # <<>> /\ first \in PendingSet /\ rest \in Seq(PendingSet) /\ ByTime(rest)
      /\ NotBefore(rest, first.when)
      /\ \A time \in Nat : NotBefore(pending, time) => NotBefore(rest, time)
      /\ IF first.type = "timer" THEN NoTimer(rest) ELSE OneTimer(rest)
  BY <1>1, Taken
<1>3. pending' = Insert(rest, first) /\ stats' = Advanced(adv)
  BY <1>2 DEF PutBack, toOccur
<1>4. /\ Len(pending) > 0 /\ Len(pending) \in Nat /\ first = pending[1]
      /\ Len(rest) = Len(pending) - 1
      /\ \A i \in 1..(Len(pending) - 1) : rest[i] = pending[i + 1]
  BY <1>1, <1>2, Removed
<1>5. \A time \in Nat : NotBefore(pending, time) => first.when >= time
  BY <1>4 DEF NotBefore
<1> HIDE DEF first, rest
<1>6. /\ pending' \in Seq(PendingSet) /\ ByTime(pending') /\ OneTimer(pending')
      /\ \A time \in Nat : NotBefore(pending, time) => NotBefore(pending', time)
  BY <1>2, <1>3, <1>5, Inserted
<1>7. \A i \in 1..Len(pending') :
        pending'[i] = first \/ \E j \in 1..Len(rest) : pending'[i] = rest[j]
  BY <1>2, <1>3, Inserted, Zenon
<1>8. \A j \in 1..Len(rest) : rest[j] = pending[j + 1] /\ j + 1 \in 1..Len(pending)
  BY <1>4
<1>9. 1 \in 1..Len(pending)
  BY <1>4
<1>10. stats' \in ClockSet /\ TicksAccounted' /\ stats'.totalTicks >= stats.totalTicks
  BY <1>3, ClockAdvanced, Zenon DEF TicksAccounted
<1> QED BY <1>3, <1>4, <1>6, <1>7, <1>8, <1>9, <1>10 DEF PutBack

-----------------------------------------------------------------------------
LEMMA IntStarts == IntInit => IntInv
<1> SUFFICES ASSUME IntInit PROVE IntInv
  OBVIOUS
<1>1. PICK t \in TimeOfNextInterrupt :
        pending = <<PendingInterrupt("timer", t)>>
  BY DEF IntInit, TimerInt
<1>2. t \in Nat
  BY InterruptAssumption DEF TimeOfNextInterrupt
<1>3. /\ Len(pending) = 1 /\ pending[1].type = "timer" /\ pending[1].when = t
      /\ pending \in Seq(PendingSet) /\ \A i \in 1..Len(pending) : i = 1
  BY <1>1, <1>2 DEF PendingInterrupt, PendingSet
<1>4. IntTypes
  BY <1>3 DEF IntInit, IntTypes, ClockSet, MachineStatus
<1>5. IntOrder
  <2>1. lastFired = 0 /\ stats.totalTicks = 0
    BY DEF IntInit
  <2>2. ByTime(pending)
    BY <1>2, <1>3 DEF ByTime
  <2>3. OneTimer(pending)
    BY <1>3 DEF OneTimer
  <2>4. NotBefore(pending, lastFired)
    BY <1>2, <1>3, <2>1 DEF NotBefore
  <2> QED BY <2>1, <2>2, <2>3, <2>4 DEF IntOrder
<1>6. IntModes
  BY DEF IntInit, IntModes
<1>7. IntFuture
  <2>1. loop = "none" /\ stats.totalTicks = 0
    BY DEF IntInit
  <2> QED BY <1>2, <1>3, <2>1 DEF IntFuture
<1>8. TicksAccounted
  BY DEF IntInit, TicksAccounted
<1> QED BY <1>4, <1>5, <1>6, <1>7, <1>8 DEF IntInv

(* OneTick, called by code that runs *)
LEMMA TickStep == ASSUME IntInv, CodeRuns, OneTick PROVE IntInv'
<1>1. loop = "none" /\ ~halted
  BY DEF CodeRuns
<1>2. /\ loop' = "OneTick" /\ status' = status /\ pending' = pending
      /\ lastFired' = lastFired /\ halted' = halted
  BY DEF OneTick
<1>3. /\ stats \in ClockSet /\ lastFired \in Nat /\ lastFired <= stats.totalTicks
      /\ stats.totalTicks \in Nat /\ stats.idleTicks \in Nat
      /\ stats.systemTicks \in Nat /\ stats.userTicks \in Nat
      /\ stats.totalTicks = stats.idleTicks + stats.systemTicks + stats.userTicks
      /\ SystemTick \in Nat /\ UserTick \in Nat
  BY InterruptAssumption DEF IntInv, IntTypes, IntOrder, ClockSet, TicksAccounted
<1>4. stats' \in ClockSet /\ stats'.totalTicks >= stats.totalTicks /\ TicksAccounted'
  <2>1. CASE status = "SystemMode"
    <3>1. stats' = [stats EXCEPT !.totalTicks = @ + SystemTick, !.systemTicks = @ + SystemTick]
      BY <2>1 DEF OneTick
    <3>2. /\ stats'.totalTicks = stats.totalTicks + SystemTick
          /\ stats'.idleTicks = stats.idleTicks
          /\ stats'.systemTicks = stats.systemTicks + SystemTick /\ stats'.userTicks = stats.userTicks
      BY <1>3, <3>1 DEF ClockSet
    <3>3. stats.totalTicks + SystemTick \in Nat /\ stats.systemTicks + SystemTick \in Nat
      BY <1>3
    <3>4. stats' \in ClockSet
      BY <1>3, <3>1, <3>3, Zenon DEF ClockSet
    <3> QED BY <1>3, <3>2, <3>4 DEF TicksAccounted
  <2>2. CASE status # "SystemMode"
    <3>1. stats' = [stats EXCEPT !.totalTicks = @ + UserTick, !.userTicks = @ + UserTick]
      BY <2>2 DEF OneTick
    <3>2. /\ stats'.totalTicks = stats.totalTicks + UserTick
          /\ stats'.idleTicks = stats.idleTicks
          /\ stats'.systemTicks = stats.systemTicks /\ stats'.userTicks = stats.userTicks + UserTick
      BY <1>3, <3>1 DEF ClockSet
    <3>3. stats.totalTicks + UserTick \in Nat /\ stats.userTicks + UserTick \in Nat
      BY <1>3
    <3>4. stats' \in ClockSet
      BY <1>3, <3>1, <3>3, Zenon DEF ClockSet
    <3> QED BY <1>3, <3>2, <3>4 DEF TicksAccounted
  <2> QED BY <2>1, <2>2
<1>5. stats'.totalTicks \in Nat
  BY <1>4 DEF ClockSet
<1>6. IntTypes'
  BY <1>2, <1>4 DEF IntInv, IntTypes
<1>7. IntOrder'
  <2>1. lastFired' <= stats'.totalTicks
    BY <1>2, <1>3, <1>4, <1>5
  <2> QED BY <1>2, <2>1 DEF IntInv, IntOrder
<1>8. IntModes'
  BY <1>1, <1>2 DEF IntInv, IntModes
<1>9. IntFuture'
  BY <1>2 DEF IntFuture
<1> QED BY <1>4, <1>6, <1>7, <1>8, <1>9 DEF IntInv

(* The end of either loop, once nothing is due *)
LEMMA LoopEnds ==
  ASSUME IntInv, loop # "none", ~IsDue(FALSE, status), PutBack(FALSE),
         loop' = "none", status' \in MachineStatus, status' # "IdleMode",
         ~yieldOnReturn', halted' = halted
  PROVE  IntInv'
<1>1. ~halted
  BY DEF IntInv, IntModes
<1>2. /\ pending' \in Seq(PendingSet) /\ ByTime(pending') /\ OneTimer(pending')
      /\ stats' = stats /\ lastFired' = lastFired
      /\ \A time \in Nat : NotBefore(pending, time) => NotBefore(pending', time)
      /\ \A i \in 1..Len(pending') :
           \E j \in 1..Len(pending) : pending'[i] = pending[j]
  BY WasPutBack, ClockAdvanced, FALSE \in BOOLEAN, Zenon
<1>3. IntTypes' /\ TicksAccounted'
  BY <1>2 DEF IntInv, IntTypes, TicksAccounted
<1>4. IntOrder'
  BY <1>2 DEF IntInv, IntTypes, IntOrder
<1>5. IntModes'
  BY <1>1 DEF IntModes
<1>6. /\ pending \in Seq(PendingSet) /\ ByTime(pending) /\ OneTimer(pending)
      /\ stats \in ClockSet
  BY DEF IntInv, IntTypes, IntOrder
<1>7. /\ pending # <<>> /\ Head(pending) \in PendingSet
      /\ NotBefore(pending, Head(pending).when)
  BY <1>6, Taken
<1>8. /\ Len(pending) \in Nat /\ \A i \in 1..Len(pending) : pending[i].when \in Nat
      /\ stats.totalTicks \in Nat /\ Head(pending).when \in Nat
  BY <1>6, <1>7, PendingTimes DEF ClockSet
<1>9. ASSUME NEW i \in 1..Len(pending)
      PROVE  IF pending[i].type = "timer" THEN pending[i].when >= stats.totalTicks
                                             ELSE pending[i].when > stats.totalTicks
  <2>1. CASE Head(pending).when > stats.totalTicks
    BY <1>7, <1>8, <2>1 DEF NotBefore
  <2>2. CASE ~(Head(pending).when > stats.totalTicks)
    <3>1. /\ status = "IdleMode" /\ Head(pending).type = "timer"
          /\ Tail(pending) = <<>>
      BY <1>7, <2>2 DEF IsDue, NotYet, NothingToDo, toOccur,
                        TimerInt
    <3>2. Len(pending) = 1 /\ pending[1] = Head(pending)
      BY <1>6, <1>7, <3>1, Single
    <3>3. i = 1
      BY <3>2
    <3>4. NotBefore(pending, stats.totalTicks)
      BY <3>1 DEF IntInv, IntTypes, IntModes, IntFuture
    <3> QED BY <3>1, <3>2, <3>3, <3>4 DEF NotBefore
  <2> QED BY <2>1, <2>2
<1>10. IntFuture'
  BY <1>2, <1>9 DEF IntFuture
<1> QED BY <1>3, <1>4, <1>5, <1>10 DEF IntInv

LEMMA IntStep == IntInv /\ [IntNext]_intVars => IntInv'
<1> SUFFICES ASSUME IntInv, [IntNext]_intVars PROVE IntInv'
  OBVIOUS
<1>0. /\ IntTypes /\ IntOrder /\ IntModes /\ IntFuture /\ TicksAccounted
      /\ pending \in Seq(PendingSet) /\ stats \in ClockSet
      /\ ByTime(pending) /\ OneTimer(pending)
      /\ stats.totalTicks \in Nat /\ lastFired \in Nat /\ lastFired <= stats.totalTicks
  BY DEF IntInv, IntTypes, IntOrder, ClockSet
<1>1. ASSUME NEW d \in Sources, NEW n \in Delays, StartDevice(d, n) PROVE IntInv'
  <2> DEFINE e == PendingInterrupt(d, stats.totalTicks + n)
  <2>1. /\ pending' = Insert(pending, e)
        /\ stats' = stats /\ lastFired' = lastFired /\ loop' = loop /\ status' = status
        /\ halted' = halted /\ yieldOnReturn' = yieldOnReturn /\ sleeping' = sleeping
        /\ loop = "none" /\ ~halted
    BY <1>1 DEF StartDevice, Schedule, CodeRuns
  <2>2. n \in Nat /\ n > 0 /\ d # "timer"
    BY InterruptAssumption
  <2>3. e \in PendingSet /\ e.type = d /\ e.when = stats.totalTicks + n
    BY <1>0, <2>2 DEF PendingSet, PendingInterrupt
  <2>4. e.when \in Nat /\ e.when > stats.totalTicks /\ e.when >= lastFired
    BY <1>0, <2>2, <2>3
  <2> HIDE DEF e
  <2>5. /\ pending' \in Seq(PendingSet) /\ ByTime(pending') /\ OneTimer(pending')
        /\ NotBefore(pending', lastFired)
        /\ \A i \in 1..Len(pending') :
             pending'[i] = e \/ \E j \in 1..Len(pending) : pending'[i] = pending[j]
    BY <1>0, <2>1, <2>2, <2>3, <2>4, Inserted, Zenon DEF IntOrder
  <2>6. IntTypes' /\ TicksAccounted'
    BY <1>0, <2>1, <2>5 DEF IntTypes, TicksAccounted
  <2>7. IntOrder'
    BY <1>0, <2>1, <2>5 DEF IntOrder
  <2>8. IntModes'
    BY <1>0, <2>1 DEF IntModes
  <2>9. IntFuture'
    BY <1>0, <2>1, <2>2, <2>3, <2>4, <2>5 DEF IntFuture
  <2> QED BY <2>6, <2>7, <2>8, <2>9 DEF IntInv
<1>2. ASSUME NEW now \in IntStatus, SetLevel(now) PROVE IntInv'
  <2>1. CASE OneTick
    BY <1>2, <2>1, TickStep DEF SetLevel
  <2>2. CASE UNCHANGED <<status, pending, yieldOnReturn, loop, stats, sleeping, lastFired, halted>>
    BY <2>2 DEF IntInv, IntTypes, IntOrder, IntModes, IntFuture, TicksAccounted
  <2> QED BY <1>2, <2>1, <2>2 DEF SetLevel
<1>3. ASSUME Instruction PROVE IntInv'
  BY <1>3, TickStep DEF Instruction
<1>4. ASSUME NEW st \in MachineStatus, setStatus(st) PROVE IntInv'
  <2>1. /\ status' \in {"SystemMode", "UserMode"} /\ loop = "none" /\ ~halted
        /\ UNCHANGED <<pending, yieldOnReturn, loop, stats, sleeping, lastFired, halted>>
    BY <1>4 DEF setStatus, CodeRuns
  <2>2. IntTypes' /\ IntOrder' /\ IntFuture' /\ TicksAccounted'
    BY <1>0, <2>1 DEF IntTypes, IntOrder, IntFuture, TicksAccounted, MachineStatus
  <2>3. IntModes'
    BY <1>0, <2>1, Zenon DEF IntModes
  <2> QED BY <2>2, <2>3 DEF IntInv
<1>5. ASSUME Sleep PROVE IntInv'
  <2>1. /\ UNCHANGED <<status, pending, yieldOnReturn, loop, stats, lastFired, halted>>
        /\ ~halted
    BY <1>5 DEF Sleep, CodeRuns
  <2>2. IntTypes' /\ IntOrder' /\ IntFuture' /\ TicksAccounted'
    BY <1>0, <2>1, Zenon DEF IntTypes, IntOrder, IntFuture, TicksAccounted
  <2>3. IntModes'
    BY <1>0, <2>1, Zenon DEF IntModes
  <2> QED BY <2>2, <2>3 DEF IntInv
<1>6. ASSUME Idle PROVE IntInv'
  <2>1. loop = "none" /\ sleeping /\ ~halted /\ status' = "IdleMode" /\ TRUE \in BOOLEAN
    BY <1>6 DEF Idle
  <2>2. CASE IsDue(TRUE, "IdleMode")
    <3>1. Fire(TRUE) /\ loop' = "Idle" /\ ~NotYet(TRUE) /\ halted' = halted
      BY <1>6, <2>2, Zenon DEF Idle, IsDue, Fire
    <3>2. NotBefore(pending, stats.totalTicks)
      <4>1. \A i \in 1..Len(pending) : pending[i].when \in Nat
        BY <1>0, PendingTimes
      <4> QED BY <1>0, <2>1, <4>1 DEF IntFuture, NotBefore
    <3>3. /\ pending' \in Seq(PendingSet) /\ ByTime(pending') /\ OneTimer(pending')
          /\ stats' \in ClockSet /\ TicksAccounted'
          /\ lastFired' \in Nat /\ lastFired' <= stats'.totalTicks
          /\ NotBefore(pending', lastFired') /\ NotBefore(pending', stats'.totalTicks)
      BY <2>1, <3>1, <3>2, Fired, Zenon
    <3>4. IntTypes' /\ IntOrder' /\ IntFuture'
      BY <2>1, <3>1, <3>3, Zenon DEF IntTypes, IntOrder, IntFuture, MachineStatus
    <3>5. IntModes'
      BY <2>1, <3>1 DEF IntModes
    <3> QED BY <3>3, <3>4, <3>5 DEF IntInv
  <2>3. CASE ~IsDue(TRUE, "IdleMode")
    <3>1. /\ PutBack(TRUE) /\ halted' /\ loop' = loop /\ yieldOnReturn' = yieldOnReturn
          /\ sleeping' = sleeping
      BY <1>6, <2>3, Zenon DEF Idle, PutBack
    <3>2. /\ pending' \in Seq(PendingSet) /\ ByTime(pending') /\ OneTimer(pending')
          /\ stats' \in ClockSet /\ TicksAccounted'
          /\ stats'.totalTicks >= stats.totalTicks /\ lastFired' = lastFired
          /\ \A time \in Nat : NotBefore(pending, time) => NotBefore(pending', time)
          /\ \A i \in 1..Len(pending') :
               \E j \in 1..Len(pending) : pending'[i] = pending[j]
      BY <2>1, <3>1, WasPutBack, Zenon
    <3>3. pending # <<>>
      BY <1>0, Taken
    <3>4. Head(pending).type = "timer" /\ Tail(pending) = <<>>
      BY <2>3, <3>3 DEF IsDue, NotYet, NothingToDo, toOccur,
                        TimerInt
    <3>5. \A j \in 1..Len(pending) : pending[j].type = "timer"
      BY <1>0, <3>3, <3>4, Single
    <3>6. stats'.totalTicks \in Nat
      BY <3>2 DEF ClockSet
    <3>7. lastFired' <= stats'.totalTicks
      BY <1>0, <3>2, <3>6
    <3>8. IntTypes'
      BY <1>0, <2>1, <3>1, <3>2 DEF IntTypes, MachineStatus
    <3>9. IntOrder'
      BY <1>0, <3>2, <3>7 DEF IntOrder
    <3>10. IntModes'
      BY <1>0, <2>1, <3>1, <3>2, <3>5 DEF IntModes
    <3>11. IntFuture'
      BY <2>1, <3>1 DEF IntFuture
    <3> QED BY <3>2, <3>8, <3>9, <3>10, <3>11 DEF IntInv
  <2> QED BY <2>2, <2>3, Zenon
<1>7. ASSUME loop # "none", Check PROVE IntInv'
  <2>1. /\ Fire(FALSE) /\ ~NotYet(FALSE) /\ FALSE \in BOOLEAN
        /\ status' = status /\ loop' = loop /\ halted' = halted
    BY <1>7, Zenon DEF Check, IsDue, Fire
  <2>2. /\ pending' \in Seq(PendingSet) /\ ByTime(pending') /\ OneTimer(pending')
        /\ stats' \in ClockSet /\ TicksAccounted'
        /\ lastFired' \in Nat /\ lastFired' <= stats'.totalTicks
        /\ NotBefore(pending', lastFired')
        /\ NotBefore(pending, stats.totalTicks) => NotBefore(pending', stats'.totalTicks)
    BY <2>1, Fired, Zenon
  <2>3. IntTypes' /\ IntOrder'
    BY <1>0, <2>1, <2>2 DEF IntTypes, IntOrder
  <2>4. IntFuture'
    BY <1>0, <1>7, <2>1, <2>2, Zenon DEF IntFuture
  <2>5. IntModes'
    BY <1>0, <1>7, <2>1, Zenon DEF IntModes
  <2> QED BY <2>2, <2>3, <2>4, <2>5 DEF IntInv
<1>8. ASSUME loop = "OneTick", OneTickEnds PROVE IntInv'
  <2>1. status' \in MachineStatus /\ status' # "IdleMode"
    BY <1>0, <1>8 DEF IntTypes, IntModes, OneTickEnds
  <2> QED BY <1>8, <2>1, LoopEnds DEF OneTickEnds
<1>9. ASSUME loop = "Idle", IdleEnds PROVE IntInv'
  <2>1. status' \in MachineStatus /\ status' # "IdleMode"
    BY <1>9 DEF IdleEnds, MachineStatus
  <2> QED BY <1>9, <2>1, LoopEnds DEF IdleEnds
<1>10. ASSUME UNCHANGED intVars PROVE IntInv'
  BY <1>10, Zenon DEF intVars, IntInv, IntTypes, IntOrder, IntModes, IntFuture,
               TicksAccounted
<1> QED
  BY <1>1, <1>2, <1>3, <1>4, <1>5, <1>6, <1>7, <1>8, <1>9, <1>10 DEF IntNext

(* No interrupt is late or lost, every tick is accounted for, the timer is
   pending once, no request to yield is left behind and Nachos halts only when
   it has nothing to wait for, whatever the devices, the delays and the
   lengths of the time slices.                                             *)
THEOREM TimeKept == IntSpec => []TimeIsExact
<1>1. IntInv => TimeIsExact
  <2> SUFFICES ASSUME IntInv PROVE TimeIsExact
    OBVIOUS
  <2>1. NothingOverdue
    BY Zenon DEF IntInv, IntOrder, IntFuture, NotBefore, NothingOverdue, Items,
           TimerInt
  <2>2. OneTimerPending
    BY DEF IntInv, IntOrder, OneTimer, OneTimerPending, TimerInt
  <2>3. NoStaleYield /\ HaltOnlyWhenDone
    BY DEF IntInv, IntModes, NoStaleYield, HaltOnlyWhenDone, Items,
           TimerInt
  <2> QED BY <2>1, <2>2, <2>3 DEF IntInv, TimeIsExact
<1> QED BY <1>1, IntStarts, IntStep, PTL DEF IntSpec

-----------------------------------------------------------------------------
(***************************************************************************)
(* The synchronous disk is correct for any number of threads, sectors and  *)
(* values: one request at a time, and data that is current when a call     *)
(* returns.                                                                *)
(***************************************************************************)

(* The inductive invariant: the lock covers a call from end to end, and the
   semaphore and the disk together account for the one that waits.         *)
DiskInv ==
  /\ TypeOK
  /\ LockCoversCall
  /\ CompletionMatchesRequest

(* There is one lock and one semaphore. *)
LEMMA Objects ==
  /\ lock \in Lock /\ semaphore \in Semaphore
  /\ None \notin Thread /\ 0 \in Sectors /\ Zero \in Data
  /\ initialValue \in [Semaphore -> Nat] /\ initialValue[semaphore] = 0
<1>1. NumSectors \in Nat \ {0}
  BY DiskAssumption DEF NumSectors
<1>2. QED
  BY <1>1, SynchDiskAssumption, SynchSpecAssumption, DiskAssumption DEF Sectors

(* Two threads are never inside a call at the same time. *)
LEMMA OneInside ==
  ASSUME LockCoversCall, NEW t \in Thread, pc[t] # "idle",
         NEW u \in Thread, pc[u] # "idle"
  PROVE  t = u
BY DEF LockCoversCall

LEMMA DiskInitInv == Init => DiskInv
<1> USE Objects DEF Init, SynchInit, DiskInit
<1>1. Init => TypeOK
  <2> SUFFICES ASSUME Init PROVE TypeOK
    BY Zenon
  <2>1. value \in [Semaphore -> Nat] /\ owner \in [Lock -> Thread \cup {None}]
    OBVIOUS
  <2>2. pc \in [Thread -> {"idle", "request", "wait", "return"}] /\ active \in BOOLEAN
    BY Zenon
  <2>3. contents \in [Sectors -> Data] /\ buf \in [Thread -> Data]
    OBVIOUS
  <2>4. [op |-> "read", sector |-> 0, data |-> Zero]
          \in [op : {"read", "write"}, sector : Sectors, data : Data]
    OBVIOUS
  <2>5. req \in [Thread -> [op : {"read", "write"}, sector : Sectors, data : Data]]
    BY <2>4
  <2>6. QED
    BY <2>1, <2>2, <2>3, <2>5 DEF TypeOK
<1>2. Init => LockCoversCall
  BY DEF LockCoversCall
<1>3. Init => CompletionMatchesRequest
  BY DEF CompletionMatchesRequest
<1>4. QED
  BY <1>1, <1>2, <1>3 DEF DiskInv

(* The call that takes the lock found nobody inside, and so nobody waiting. *)
LEMMA BeginKeepsInv ==
  ASSUME DiskInv, NEW t \in Thread, Begin(t)
  PROVE  DiskInv'
<1> USE Objects DEF DiskInv
<1>1. /\ pc[t] = "idle" /\ pc' = [pc EXCEPT ![t] = "request"]
      /\ owner[lock] = None /\ owner' = [owner EXCEPT ![lock] = t]
      /\ UNCHANGED <<value, contents, active, buf>>
  BY DEF Begin, Goto, Acquire, diskVars
<1>2. PICK s \in Sectors, d \in Data, o \in {"read", "write"} :
        req' = [req EXCEPT ![t] = [op |-> o, sector |-> s, data |-> d]]
  BY Zenon DEF Begin
<1>3. TypeOK'
  BY <1>1, <1>2 DEF TypeOK
<1>4. \A u \in Thread : pc[u] = "idle"
  BY <1>1, Zenon DEF LockCoversCall
<1>5. LockCoversCall'
  BY <1>1, <1>4, Zenon DEF TypeOK, LockCoversCall
<1>6. CompletionMatchesRequest'
  BY <1>1, <1>4 DEF TypeOK, CompletionMatchesRequest
<1>7. QED
  BY <1>3, <1>5, <1>6

(* The request goes to an idle disk, whose semaphore is down. *)
LEMMA StartKeepsInv ==
  ASSUME DiskInv, NEW t \in Thread, Start(t)
  PROVE  DiskInv'
<1> USE Objects DEF DiskInv
<1>1. /\ pc[t] = "request" /\ pc' = [pc EXCEPT ![t] = "wait"]
      /\ UNCHANGED <<value, owner, req>> /\ active' = TRUE
      /\ \/ /\ req[t].op = "read" /\ contents' = contents
            /\ buf' = [buf EXCEPT ![t] = contents[req[t].sector]]
         \/ /\ req[t].op = "write" /\ buf' = buf
            /\ contents' = [contents EXCEPT ![req[t].sector] = req[t].data]
  BY Zenon DEF Start, Goto, ReadRequest, WriteRequest, Request, synchVars
<1>2. req[t].sector \in Sectors /\ req[t].data \in Data
  BY DEF TypeOK
<1>3. TypeOK'
  BY <1>1, <1>2 DEF TypeOK
<1>4. \A u \in Thread : u # t => pc[u] = "idle" /\ pc'[u] = "idle"
  BY <1>1, OneInside DEF TypeOK
<1>5. LockCoversCall'
  BY <1>1, <1>2, <1>4 DEF TypeOK, LockCoversCall
<1>6. ~ \E u \in Thread : pc[u] = "wait"
  BY <1>1, <1>4, Zenon
<1>7. value[semaphore] = 0
  BY <1>6 DEF TypeOK, CompletionMatchesRequest
<1>8. CompletionMatchesRequest'
  BY <1>1, <1>7 DEF TypeOK, CompletionMatchesRequest
<1>9. QED
  BY <1>3, <1>5, <1>8

(* P returns only when the interrupt of this request has come. *)
LEMMA WaitForInterruptKeepsInv ==
  ASSUME DiskInv, NEW t \in Thread, WaitForInterrupt(t)
  PROVE  DiskInv'
<1> USE Objects DEF DiskInv
<1>1. /\ pc[t] = "wait" /\ pc' = [pc EXCEPT ![t] = "return"]
      /\ value[semaphore] > 0
      /\ value' = [value EXCEPT ![semaphore] = @ - 1]
      /\ UNCHANGED <<owner, contents, active, req, buf>>
  BY DEF WaitForInterrupt, Goto, P, diskVars
<1>2. TypeOK'
  BY <1>1 DEF TypeOK
<1>3. \A u \in Thread : u # t => pc[u] = "idle" /\ pc'[u] = "idle"
  BY <1>1, OneInside DEF TypeOK
<1>4. LockCoversCall'
  BY <1>1 DEF TypeOK, LockCoversCall
<1>5. value[semaphore] = 1 /\ active = FALSE
  BY <1>1 DEF TypeOK, CompletionMatchesRequest
<1>6. ~ \E u \in Thread : pc'[u] = "wait"
  BY <1>1, <1>3 DEF TypeOK
<1>7. CompletionMatchesRequest'
  BY <1>1, <1>5, <1>6 DEF TypeOK, CompletionMatchesRequest
<1>8. QED
  BY <1>2, <1>4, <1>7

LEMMA ReturnKeepsInv ==
  ASSUME DiskInv, NEW t \in Thread, Return(t)
  PROVE  DiskInv'
<1> USE Objects DEF DiskInv
<1>1. /\ pc[t] = "return" /\ pc' = [pc EXCEPT ![t] = "idle"]
      /\ owner[lock] = t /\ owner' = [owner EXCEPT ![lock] = None]
      /\ UNCHANGED <<value, contents, active, req, buf>>
  BY DEF Return, Goto, Release, diskVars
<1>2. TypeOK'
  BY <1>1 DEF TypeOK
<1>3. \A u \in Thread : u # t => pc[u] = "idle" /\ pc'[u] = "idle"
  BY <1>1, OneInside DEF TypeOK
<1>4. LockCoversCall'
  BY <1>1, <1>3 DEF TypeOK, LockCoversCall
<1>5. CompletionMatchesRequest'
  BY <1>1, <1>3 DEF TypeOK, CompletionMatchesRequest
<1>6. QED
  BY <1>2, <1>4, <1>5

(* The interrupt of an active disk finds the semaphore down. *)
LEMMA RequestDoneKeepsInv ==
  ASSUME DiskInv, RequestDone
  PROVE  DiskInv'
<1> USE Objects DEF DiskInv
<1>1. /\ active /\ active' = FALSE
      /\ value' = [value EXCEPT ![semaphore] = @ + 1]
      /\ UNCHANGED <<owner, contents, pc, req, buf>>
  BY DEF RequestDone, HandleInterrupt, V
<1>2. TypeOK'
  <2>1. value' \in [Semaphore -> Nat]
    BY <1>1 DEF TypeOK
  <2>2. active' \in BOOLEAN
    BY <1>1, Zenon
  <2>3. QED
    BY <1>1, <2>1, <2>2, Zenon DEF TypeOK
<1>3. LockCoversCall'
  BY <1>1 DEF LockCoversCall
<1>4. value[semaphore] = 0 /\ \E u \in Thread : pc[u] = "wait"
  BY <1>1 DEF TypeOK, CompletionMatchesRequest
<1>5. CompletionMatchesRequest'
  BY <1>1, <1>4 DEF TypeOK, CompletionMatchesRequest
<1>6. QED
  BY <1>2, <1>3, <1>5

(* The inductive invariant holds in every reachable state. *)
THEOREM SynchDiskInvariant == Spec => []DiskInv
<1>1. DiskInv /\ UNCHANGED vars => DiskInv'
  BY DEF vars, synchVars, diskVars, DiskInv, TypeOK, LockCoversCall, CompletionMatchesRequest
<1>2. DiskInv /\ Next => DiskInv'
  BY BeginKeepsInv, StartKeepsInv, WaitForInterruptKeepsInv, ReturnKeepsInv,
     RequestDoneKeepsInv DEF Next, Step
<1>3. QED
  BY <1>1, <1>2, DiskInitInv, PTL DEF Spec

(* ASSERT(!active) of Disk::ReadRequest and WriteRequest never fails, however
   many threads use the disk.                                              *)
THEOREM OneRequestHolds == Spec => []OneRequestAtATime
<1>1. ASSUME DiskInv, NEW t \in Thread, pc[t] = "request"
      PROVE  ~active
  <2>1. ~ \E u \in Thread : pc[u] = "wait"
    BY <1>1, OneInside DEF DiskInv, TypeOK
  <2>2. QED
    BY <1>1, <2>1, Objects DEF DiskInv, TypeOK, CompletionMatchesRequest
<1>2. DiskInv => OneRequestAtATime
  BY <1>1 DEF OneRequestAtATime
<1>3. QED
  BY <1>2, SynchDiskInvariant, PTL

(* A V of the disk interrupt is taken by the thread whose request it ends. *)
THEOREM CompletionMatches == Spec => []CompletionMatchesRequest
<1>1. DiskInv => CompletionMatchesRequest
  BY DEF DiskInv
<1>2. QED
  BY <1>1, SynchDiskInvariant, PTL

(* SynchDisk::ReadSector and WriteSector return with the disk idle and with
   the data that the disk holds, whatever the other threads do.            *)
THEOREM DataIsCurrent == Spec => []DataCurrentAtReturn
<1>1. ASSUME DiskInv, NEW t \in Thread, pc[t] = "return"
      PROVE  ~active
  <2>1. ~ \E u \in Thread : pc[u] = "wait"
    BY <1>1, OneInside DEF DiskInv, TypeOK
  <2>2. QED
    BY <1>1, <2>1, Objects DEF DiskInv, TypeOK, CompletionMatchesRequest
<1>2. DiskInv => DataCurrentAtReturn
  BY <1>1 DEF DataCurrentAtReturn, DiskInv, LockCoversCall
<1>3. QED
  BY <1>2, SynchDiskInvariant, PTL

(* Concurrent calls of ReadSector and WriteSector are safe for any number of
   threads, sectors and values.                                            *)
THEOREM DriverIsCorrect == Spec => []DriverCorrect
<1>1. DiskInv => LockCoversCall
  BY DEF DiskInv
<1>2. LockCoversCall /\ OneRequestAtATime /\ CompletionMatchesRequest /\ DataCurrentAtReturn
        => DriverCorrect
  BY DEF DriverCorrect
<1>3. QED
  BY <1>1, <1>2, SynchDiskInvariant, OneRequestHolds, CompletionMatches, DataIsCurrent, PTL

=============================================================================
