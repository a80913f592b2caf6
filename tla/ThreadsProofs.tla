---------------------------- MODULE ThreadsProofs ---------------------------
(***************************************************************************)
(* The invariants of module Threads hold for every number of threads,      *)
(* every id table size and both settings of SCHED_PRIORITY.  One lemma per *)
(* operation shows that it keeps the inductive invariant ThreadsInv.       *)
(***************************************************************************)
EXTENDS FiniteSetTheorems, Threads, TLAPS

(* List::Append adds one item and keeps the list free of duplicates. *)
LEMMA AppendItems ==
  ASSUME NEW S, NEW list \in Seq(S), NEW x \in S
  PROVE  /\ Append(list, x) \in Seq(S)
         /\ Items(Append(list, x)) = Items(list) \cup {x}
         /\ NoDuplicates(list) /\ x \notin Items(list) => NoDuplicates(Append(list, x))
<1> DEFINE app == Append(list, x)
<1>1. /\ app \in Seq(S)
      /\ Len(app) = Len(list) + 1
      /\ \A i \in 1..Len(list) : app[i] = list[i]
      /\ app[Len(list) + 1] = x
  OBVIOUS
<1>2. Len(list) \in Nat
  OBVIOUS
<1> HIDE DEF app
<1>3. Items(app) = Items(list) \cup {x}
  BY <1>1, <1>2 DEF Items
<1>4. ASSUME NoDuplicates(list), x \notin Items(list)
      PROVE  NoDuplicates(app)
  BY <1>1, <1>2, <1>4 DEF NoDuplicates, Items
<1>5. QED
  BY <1>1, <1>3, <1>4 DEF app

(* List::Remove takes one item away, the first. *)
LEMMA RemoveItems ==
  ASSUME NEW S, NEW list \in Seq(S), list # <<>>
  PROVE  /\ Head(list) \in S
         /\ Head(list) \in Items(list)
         /\ Tail(list) \in Seq(S)
         /\ Items(list) = Items(Tail(list)) \cup {Head(list)}
         /\ NoDuplicates(list) => NoDuplicates(Tail(list))
         /\ NoDuplicates(list) => Head(list) \notin Items(Tail(list))
<1> DEFINE tl == Tail(list)
           hd == Head(list)
<1>1. /\ hd \in S
      /\ tl \in Seq(S)
      /\ Len(tl) = Len(list) - 1
      /\ \A i \in 1..Len(tl) : tl[i] = list[i + 1]
  OBVIOUS
<1>2. Len(list) \in Nat \ {0}
  OBVIOUS
<1>3. hd = list[1]
  OBVIOUS
<1> HIDE DEF tl, hd
<1>4. hd \in Items(list)
  BY <1>2, <1>3 DEF Items
<1>5. \A i \in 2..Len(list) : list[i] = tl[i - 1] /\ i - 1 \in 1..Len(tl)
  BY <1>1, <1>2
<1>6. Items(list) = Items(tl) \cup {hd}
  <2>1. Items(tl) \subseteq Items(list)
    BY <1>1, <1>2 DEF Items
  <2>2. ASSUME NEW i \in 1..Len(list) PROVE list[i] \in Items(tl) \cup {hd}
    <3>1. CASE i = 1
      BY <3>1, <1>3
    <3>2. CASE i # 1
      <4>1. list[i] = tl[i - 1] /\ i - 1 \in 1..Len(tl)
        BY <3>2, <1>2, <1>5
      <4>2. QED
        BY <4>1 DEF Items
    <3>3. QED
      BY <3>1, <3>2
  <2>3. QED
    BY <2>1, <2>2, <1>4 DEF Items
<1>7. NoDuplicates(list) => NoDuplicates(tl)
  BY <1>1, <1>2 DEF NoDuplicates
<1>8. NoDuplicates(list) => hd \notin Items(tl)
  BY <1>1, <1>2, <1>3 DEF NoDuplicates, Items
<1>9. QED
  BY <1>1, <1>4, <1>6, <1>7, <1>8 DEF tl, hd

(* Linking an item anywhere into a list adds that item and no other. *)
LEMMA InsertedItems ==
  ASSUME NEW S, NEW list \in Seq(S), NEW x \in S, NEW p \in 1..(Len(list) + 1)
  PROVE  /\ InsertedAt(list, p, x) \in Seq(S)
         /\ Items(InsertedAt(list, p, x)) = Items(list) \cup {x}
         /\ NoDuplicates(list) /\ x \notin Items(list)
              => NoDuplicates(InsertedAt(list, p, x))
<1> DEFINE ins == InsertedAt(list, p, x)
           n == Len(list)
<1>1. /\ n \in Nat
      /\ \A i \in 1..n : list[i] \in S
  OBVIOUS
<1>2. ins \in [1..(n + 1) -> S]
  BY <1>1 DEF InsertedAt
<1>3. ins \in Seq(S) /\ Len(ins) = n + 1
  BY <1>1, <1>2
<1>4. /\ \A i \in 1..(p - 1) : ins[i] = list[i]
      /\ ins[p] = x
      /\ \A i \in (p + 1)..(n + 1) : ins[i] = list[i - 1]
  BY <1>1 DEF InsertedAt
<1> HIDE DEF ins
<1>5. Items(ins) = Items(list) \cup {x}
  <2>1. ASSUME NEW i \in 1..(n + 1) PROVE ins[i] \in Items(list) \cup {x}
    <3>1. CASE i < p
      <4>1. i \in 1..n /\ ins[i] = list[i]
        BY <3>1, <1>1, <1>4
      <4>2. QED
        BY <4>1 DEF Items
    <3>2. CASE i = p
      BY <3>2, <1>4
    <3>3. CASE i > p
      <4>1. i - 1 \in 1..n /\ ins[i] = list[i - 1]
        BY <3>3, <1>1, <1>4
      <4>2. QED
        BY <4>1 DEF Items
    <3>4. QED
      BY <3>1, <3>2, <3>3, <1>1
  <2>2. x \in Items(ins)
    BY <1>1, <1>3, <1>4 DEF Items
  <2>3. ASSUME NEW i \in 1..n PROVE list[i] \in Items(ins)
    <3>1. CASE i < p
      BY <3>1, <1>1, <1>3, <1>4 DEF Items
    <3>2. CASE i >= p
      <4>1. i + 1 \in (p + 1)..(n + 1) /\ i + 1 \in 1..(n + 1) /\ ins[i + 1] = list[i]
        BY <3>2, <1>1, <1>4
      <4>2. QED
        BY <4>1, <1>3 DEF Items
    <3>3. QED
      BY <3>1, <3>2, <1>1
  <2>4. QED
    BY <2>1, <2>2, <2>3, <1>3 DEF Items
<1>6. ASSUME NoDuplicates(list), x \notin Items(list)
      PROVE  NoDuplicates(ins)
  <2> SUFFICES ASSUME NEW i \in 1..(n + 1), NEW j \in 1..(n + 1), ins[i] = ins[j]
               PROVE  i = j
    BY <1>3 DEF NoDuplicates
  <2>1. \A k \in 1..n : list[k] # x
    BY <1>6 DEF Items
  <2>2. CASE i = p \/ j = p
    BY <2>1, <2>2, <1>1, <1>4
  <2>3. CASE i # p /\ j # p
    BY <2>3, <1>1, <1>4, <1>6 DEF NoDuplicates
  <2>4. QED
    BY <2>2, <2>3
<1>7. QED
  BY <1>3, <1>5, <1>6 DEF ins


(* A nonempty set of natural numbers has a smallest element, which is the
   one CHOOSE picks: the first free id of allocatedThreadID and the first
   larger key of SortedInsert exist.                                       *)
LEMMA SmallestExists ==
  ASSUME NEW S, S \subseteq Nat, S # {}
  PROVE  /\ (CHOOSE i \in S : \A j \in S : i <= j) \in S
         /\ \A k \in S : (CHOOSE i \in S : \A j \in S : i <= j) <= k
<1>1. \E x \in S : \A y \in S : ~(<<y, x>> \in OpToRel(<, Nat))
  BY NatLessThanWellFounded, WFMin, Zenon
<1>2. ASSUME NEW x \in S, NEW y \in S, ~(<<y, x>> \in OpToRel(<, Nat))
      PROVE  x <= y
  <2>1. <<y, x>> \in Nat \X Nat
    OBVIOUS
  <2>2. ~(y < x)
    BY <1>2, <2>1 DEF OpToRel
  <2>3. QED
    BY <2>2
<1>3. \E x \in S : \A y \in S : x <= y
  BY <1>1, <1>2, Zenon
<1>4. QED
  BY <1>3, Zenon

(* The inductive invariant: the parts need one another, as ThreadsInv of the
   state before a step is what tells the freed thread from the next one.   *)
ThreadsInv ==
  /\ ThreadsTypeOK
  /\ SchedulerInv
  /\ CarcassInv
  /\ ThreadIdsExact
  /\ ReadyListSorted

(* The threads of a list are in the order of their priorities. *)
Ordered(list) ==
  \A i, j \in 1..Len(list) : i < j => priority[list[i]] <= priority[list[j]]

(* allocatedThreadID is a free slot of the table, or -1 when it is full. *)
LEMMA AllocatedIsFree ==
  ASSUME ThreadsTypeOK
  PROVE  \/ allocatedThreadID = -1
         \/ allocatedThreadID \in IdRange /\ threadIds[allocatedThreadID] = 0
<1> DEFINE free == {i \in IdRange : threadIds[i] = 0}
<1>1. free \subseteq Nat
  BY ThreadsAssumption DEF IdRange
<1>2. free # {} => (CHOOSE i \in free : \A j \in free : i <= j) \in free
  BY <1>1, SmallestExists, Zenon
<1>3. QED
  BY <1>2 DEF allocatedThreadID

(* Scheduler::ReadyToRun adds the thread, loses none and keeps the order. *)
LEMMA ReadyToRunItems ==
  ASSUME priority \in [Thread -> Int], NEW list \in Seq(Thread), NEW t \in Thread
  PROVE  /\ ReadyToRun(list, t) \in Seq(Thread)
         /\ Items(ReadyToRun(list, t)) = Items(list) \cup {t}
         /\ NoDuplicates(list) /\ t \notin Items(list)
              => NoDuplicates(ReadyToRun(list, t))
         /\ SCHED_PRIORITY /\ Ordered(list) => Ordered(ReadyToRun(list, t))
<1>1. CASE ~SCHED_PRIORITY
  BY <1>1, AppendItems DEF ReadyToRun
<1>2. CASE SCHED_PRIORITY
  <2> DEFINE n == Len(list)
             larger == {i \in 1..n : priority[t] < priority[list[i]]}
             least == CHOOSE i \in larger : \A j \in larger : i <= j
             p == IF larger = {} THEN n + 1 ELSE least
             ins == InsertedAt(list, p, t)
  <2>1. ReadyToRun(list, t) = ins
    BY <1>2 DEF ReadyToRun, SortedInsert, InsertPosition
  <2>2. n \in Nat /\ \A i \in 1..n : list[i] \in Thread
    OBVIOUS
  <2>3. larger \subseteq Nat
    OBVIOUS
  <2>4. larger # {} => least \in larger /\ \A j \in larger : least <= j
    BY <2>3, SmallestExists, Zenon
  <2> HIDE DEF least
  <2>5. /\ p \in 1..(n + 1)
        /\ \A i \in 1..n : i < p => priority[list[i]] <= priority[t]
        /\ p <= n => priority[t] < priority[list[p]]
    <3>1. \A i \in 1..n : priority[list[i]] \in Int /\ priority[t] \in Int
      BY <2>2
    <3>2. CASE larger = {}
      BY <2>2, <3>1, <3>2
    <3>3. CASE larger # {}
      <4>1. p = least /\ least \in larger /\ \A j \in larger : least <= j
        BY <3>3, <2>4
      <4>2. p \in 1..n /\ priority[t] < priority[list[p]]
        BY <4>1
      <4>3. ASSUME NEW i \in 1..n, i < p PROVE i \notin larger
        BY <4>1, <4>2, <4>3, SMTT(30)
      <4>4. ASSUME NEW i \in 1..n, i < p PROVE priority[list[i]] <= priority[t]
        BY <4>3, <4>4, <3>1
      <4> HIDE DEF p, larger
      <4>5. QED
        BY <4>2, <4>4, <2>2
    <3>4. QED
      BY <3>2, <3>3, Zenon
  <2> HIDE DEF p
  <2>6. /\ ins \in Seq(Thread)
        /\ Items(ins) = Items(list) \cup {t}
        /\ NoDuplicates(list) /\ t \notin Items(list) => NoDuplicates(ins)
    BY <2>5, InsertedItems
  <2>7. ASSUME Ordered(list) PROVE Ordered(ins)
    <3>1. ins = [i \in 1..(n + 1) |->
                   IF i < p THEN list[i] ELSE IF i = p THEN t ELSE list[i - 1]]
      BY DEF InsertedAt
    <3> HIDE DEF ins
    <3>2. Len(ins) = n + 1
      BY <2>6, <3>1, <2>2
    <3> SUFFICES ASSUME NEW i \in 1..(n + 1), NEW j \in 1..(n + 1), i < j
                 PROVE  priority[ins[i]] <= priority[ins[j]]
      BY <3>2 DEF Ordered
    <3>3. \A k \in 1..n : priority[list[k]] \in Int
      BY <2>2
    <3>4. \A k, m \in 1..n : k < m => priority[list[k]] <= priority[list[m]]
      BY <2>7 DEF Ordered
    <3>5. \A k \in 1..n : k >= p => priority[t] <= priority[list[k]]
      <4> SUFFICES ASSUME NEW k \in 1..n, k >= p
                   PROVE  priority[t] <= priority[list[k]]
        OBVIOUS
      <4>1. p \in 1..n /\ priority[t] < priority[list[p]]
        BY <2>5, <2>2
      <4>2. priority[list[p]] <= priority[list[k]]
        BY <4>1, <3>3, <3>4
      <4>3. QED
        BY <4>1, <4>2, <3>3
    <3>6. CASE j < p
      BY <3>6, <3>1, <3>4, <2>2, <2>5, SMTT(30)
    <3>7. CASE j = p
      BY <3>7, <3>1, <2>2, <2>5, SMTT(30)
    <3>8. CASE j > p /\ i = p
      <4>1. ins[i] = t /\ ins[j] = list[j - 1] /\ j - 1 \in 1..n /\ j - 1 >= p
        BY <3>8, <3>1, <2>2, <2>5
      <4>2. QED
        BY <4>1, <3>5
    <3>9. CASE j > p /\ i < p
      <4>1. ins[i] = list[i] /\ ins[j] = list[j - 1] /\ i \in 1..n /\ j - 1 \in 1..n
        BY <3>9, <3>1, <2>2, <2>5, SMTT(30)
      <4>2. i < p /\ p <= j - 1
        BY <3>9, <2>5
      <4>3. priority[list[i]] <= priority[t] /\ priority[t] <= priority[list[j - 1]]
        BY <4>1, <4>2, <3>5, <2>5
      <4>4. QED
        BY <4>1, <4>3, <3>3
    <3>10. CASE j > p /\ i > p
      <4>1. /\ ins[i] = list[i - 1] /\ i - 1 \in 1..n
            /\ ins[j] = list[j - 1] /\ j - 1 \in 1..n
            /\ i - 1 < j - 1
        BY <3>10, <3>1, <2>2, <2>5, SMTT(30)
      <4>2. QED
        BY <4>1, <3>4
    <3>11. QED
      BY <3>6, <3>7, <3>8, <3>9, <3>10, <2>5
  <2>8. QED
    BY <1>2, <2>1, <2>6, <2>7
<1>3. QED
  BY <1>1, <1>2, ThreadsAssumption

(* What is left of an ordered list after List::Remove is ordered. *)
LEMMA TailOrdered ==
  ASSUME NEW list \in Seq(Thread), list # <<>>, Ordered(list)
  PROVE  Ordered(Tail(list))
<1>1. /\ Len(list) \in Nat
      /\ Len(Tail(list)) = Len(list) - 1
      /\ \A i \in 1..Len(Tail(list)) : Tail(list)[i] = list[i + 1]
  OBVIOUS
<1>2. QED
  BY <1>1 DEF Ordered

(* Scheduler::FindNextToRun for Yield either takes the head away or leaves
   the same threads on the list.                                           *)
LEMMA FindNextItems ==
  ASSUME ThreadsInv
  PROVE  \/ /\ FindNextToRun.next = None
            /\ FindNextToRun.list \in Seq(Thread)
            /\ Items(FindNextToRun.list) = Items(readyList)
            /\ NoDuplicates(FindNextToRun.list)
            /\ SCHED_PRIORITY => Ordered(FindNextToRun.list)
         \/ /\ readyList # <<>>
            /\ FindNextToRun.next = Head(readyList)
            /\ FindNextToRun.list = Tail(readyList)
            /\ SCHED_PRIORITY => priority[Head(readyList)] < priority[currentThread]
<1> USE DEF ThreadsInv, ThreadsTypeOK, SchedulerInv, ReadyListSorted, Ordered
<1>1. CASE readyList = <<>>
  BY <1>1 DEF FindNextToRun
<1>2. CASE readyList # <<>>
  <2> DEFINE hd == Head(readyList)
             tl == Tail(readyList)
             back == ReadyToRun(tl, hd)
  <2>1. /\ hd \in Thread
        /\ tl \in Seq(Thread)
        /\ Items(readyList) = Items(tl) \cup {hd}
        /\ NoDuplicates(tl)
        /\ hd \notin Items(tl)
    BY <1>2, RemoveItems
  <2>2. SCHED_PRIORITY => Ordered(tl)
    BY <1>2, TailOrdered
  <2>3. /\ back \in Seq(Thread)
        /\ Items(back) = Items(readyList)
        /\ NoDuplicates(back)
        /\ SCHED_PRIORITY => Ordered(back)
    BY <2>1, <2>2, ReadyToRunItems, Zenon
  <2>4. CASE SCHED_PRIORITY /\ priority[hd] >= priority[currentThread]
    BY <1>2, <2>3, <2>4 DEF FindNextToRun
  <2>5. CASE ~(SCHED_PRIORITY /\ priority[hd] >= priority[currentThread])
    BY <1>2, <2>1, <2>5 DEF FindNextToRun
  <2>6. QED
    BY <2>4, <2>5
<1>3. QED
  BY <1>1, <1>2

(* Scheduler::Run, called by Yield or Sleep with statuses st and resume
   points at that differ from the current ones at currentThread only: the
   thread that it deletes is neither the one it switches to nor one that is
   on the ready list, and its id is carried by no other thread.            *)
LEMMA RunKeepsInv ==
  ASSUME ThreadsInv,
         NEW next \in Thread,
         NEW st \in [Thread -> ThreadStatus],
         NEW at \in [Thread -> ResumePoint],
         \A t \in Thread : t # currentThread => st[t] = status[t] /\ at[t] = pc[t],
         \A t \in Thread : st[t] # "RUNNING",
         st[next] = "READY",
         st[currentThread] \notin {"FREE", "JUST_CREATED"},
         st[currentThread] = "READY" => at[currentThread] \in {"ThreadRoot", "Yield", "Sleep"},
         at[currentThread] = "Finish" => st[currentThread] = "BLOCKED",
         pc[currentThread] = "Finish" => at[currentThread] = "Finish",
         Run(next, st, at),
         readyList' \in Seq(Thread),
         NoDuplicates(readyList'),
         \A t \in Thread : t \in Items(readyList') <=> st[t] = "READY" /\ t # next,
         ReadyListSorted',
         level' = "IntOff",
         mode # "Aborted", mode' = "SystemMode",
         UNCHANGED <<priority, threadId>>
  PROVE  ThreadsInv'
<1> USE DEF ThreadsInv
<1> DEFINE tbd == threadToBeDestroyed
<1>1. tbd # None => /\ tbd \in Thread
                    /\ st[tbd] = "BLOCKED"
                    /\ at[tbd] = "Finish"
                    /\ tbd # next
  BY DEF ThreadsTypeOK, CarcassInv, Finished
<1>2. \A t \in Thread : st[t] \in {"FREE", "JUST_CREATED"} => at[t] = "none" /\ t # currentThread
  BY DEF ThreadsTypeOK, CarcassInv
<1>3. \A t \in Thread : at[t] = "Finish" => st[t] = "BLOCKED"
  BY <1>2 DEF ThreadsTypeOK, CarcassInv, Finished
<1>4. \A t \in Thread : st[t] = "READY" => at[t] \in {"ThreadRoot", "Yield", "Sleep"}
  BY Zenon DEF ThreadsTypeOK, SchedulerInv
<1>5. \A t \in Thread : st[t] = "FREE" <=> status[t] = "FREE"
  BY DEF ThreadsTypeOK, CarcassInv
<1>6. CASE pc[next] = "ThreadRoot" \/ tbd = None
  <2>1. /\ currentThread' = next
        /\ status' = [st EXCEPT ![next] = "RUNNING"]
        /\ pc' = at
        /\ UNCHANGED <<threadIds, threadToBeDestroyed>>
    BY <1>6 DEF Run
  <2>2. ThreadsTypeOK'
    BY <2>1 DEF ThreadsTypeOK, ThreadStatus
  <2>3. SchedulerInv'
    BY <2>1, <1>4 DEF SchedulerInv
  <2>4. CarcassInv'
    BY <2>1, <1>1, <1>2, <1>3 DEF CarcassInv, Finished
  <2>5. \A t \in Thread : status'[t] = "FREE" <=> status[t] = "FREE"
    BY <2>1, <1>5
  <2>6. ThreadIdsExact'
    BY <2>1, <2>5 DEF ThreadIdsExact
  <2>7. QED
    BY <2>2, <2>3, <2>4, <2>6
<1>7. CASE ~(pc[next] = "ThreadRoot" \/ tbd = None)
  <2>1. /\ currentThread' = next
        /\ status' = [st EXCEPT ![next] = "RUNNING", ![tbd] = "FREE"]
        /\ pc' = [at EXCEPT ![tbd] = "none"]
        /\ threadIds' = [threadIds EXCEPT ![threadId[tbd]] = 0]
        /\ threadToBeDestroyed' = None
    BY <1>7 DEF Run
  <2>2. tbd \in Thread /\ st[tbd] = "BLOCKED" /\ tbd # next
    BY <1>1, <1>7
  <2> HIDE DEF tbd
  <2>3. ThreadsTypeOK'
    BY <2>1, <2>2, Zenon DEF ThreadsTypeOK, ThreadStatus, ResumePoint
  <2>4. SchedulerInv'
    BY <2>1, <2>2, <1>4 DEF SchedulerInv
  <2>5. CarcassInv'
    BY <2>1, <2>2, <1>2, <1>3 DEF CarcassInv, Finished
  <2>6. /\ status'[tbd] = "FREE" /\ status[tbd] # "FREE"
        /\ \A t \in Thread : t # tbd => (status'[t] = "FREE" <=> status[t] = "FREE")
    BY <2>1, <2>2, <1>5
  <2>7. \A i \in IdRange :
          threadIds'[i] = 1 <=> threadIds[i] = 1 /\ i # threadId[tbd]
    BY <2>1 DEF ThreadsTypeOK
  <2>8. ThreadIdsExact'
    BY <2>2, <2>6, <2>7 DEF ThreadIdsExact
  <2>9. QED
    BY <2>3, <2>4, <2>5, <2>8
<1>8. QED
  BY <1>6, <1>7

-----------------------------------------------------------------------------
(* new Thread(name, pri): the new object takes a free id and is not on the
   ready list, so its priority disturbs no order.                          *)
LEMMA NewThreadKeepsInv ==
  ASSUME ThreadsInv, NEW t \in Thread, NEW pri \in Pri, NewThread(t, pri)
  PROVE  ThreadsInv'
<1> USE DEF ThreadsInv
<1> DEFINE id == allocatedThreadID
<1>1. id = -1 \/ (id \in IdRange /\ threadIds[id] = 0)
  BY AllocatedIsFree
<1>2. /\ status' = [status EXCEPT ![t] = "JUST_CREATED"]
      /\ threadId' = [threadId EXCEPT ![t] = id]
      /\ status[t] = "FREE" /\ mode = "SystemMode"
      /\ UNCHANGED <<pc, readyList, currentThread, threadToBeDestroyed, level>>
      /\ id = -1 => mode' = "Aborted" /\ threadIds' = threadIds
      /\ id # -1 => mode' = mode /\ threadIds' = [threadIds EXCEPT ![id] = 1]
  BY DEF NewThread, InFunc
<1> HIDE DEF id
<1>3. PICK p \in Int : priority' = [priority EXCEPT ![t] = p]
  BY ThreadsAssumption, Zenon DEF NewThread, ConstructedPriority
<1>4. ThreadsTypeOK'
  <2>1. /\ status' \in [Thread -> ThreadStatus]
        /\ priority' \in [Thread -> Int]
        /\ threadId' \in [Thread -> IdRange \cup {-1}]
    BY <1>1, <1>2, <1>3 DEF ThreadsTypeOK, ThreadStatus
  <2>2. threadIds' \in [IdRange -> {0, 1}] /\ mode' \in {"SystemMode", "Aborted"}
    BY <1>1, <1>2 DEF ThreadsTypeOK
  <2>3. QED
    BY <2>1, <2>2, <1>2 DEF ThreadsTypeOK
<1>5. SchedulerInv'
  BY <1>2 DEF ThreadsTypeOK, SchedulerInv
<1>6. CarcassInv'
  BY <1>2 DEF ThreadsTypeOK, CarcassInv, Finished
<1>7. ThreadIdsExact'
  <2>1. CASE id = -1
    BY <1>2, <2>1 DEF ThreadIdsExact
  <2>2. CASE id # -1
    <3>1. id \in IdRange /\ threadIds[id] = 0
      BY <1>1, <2>2
    <3>2. \A u \in Thread : status[u] # "FREE" => threadId[u] # id
      BY <3>1, <1>2 DEF ThreadIdsExact
    <3>3. /\ \A u \in Thread : u # t => status'[u] = status[u] /\ threadId'[u] = threadId[u]
          /\ status'[t] = "JUST_CREATED" /\ threadId'[t] = id
      BY <1>2 DEF ThreadsTypeOK
    <3>4. \A i \in IdRange : threadIds'[i] = IF i = id THEN 1 ELSE threadIds[i]
      BY <1>2, <2>2 DEF ThreadsTypeOK
    <3>5. \A i \in IdRange :
            threadIds'[i] = 1
              <=> \E u \in Thread : status'[u] # "FREE" /\ threadId'[u] = i
      <4> SUFFICES ASSUME NEW i \in IdRange
                   PROVE  threadIds'[i] = 1
                            <=> \E u \in Thread : status'[u] # "FREE" /\ threadId'[u] = i
        OBVIOUS
      <4>1. CASE i = id
        BY <4>1, <3>3, <3>4
      <4>2. CASE i # id
        <5>1. threadIds[i] = 1 <=> \E u \in Thread : status[u] # "FREE" /\ threadId[u] = i
          BY <1>2 DEF ThreadIdsExact
        <5>2. QED
          BY <4>2, <5>1, <3>3, <3>4, <1>2
      <4>3. QED
        BY <4>1, <4>2
    <3>6. \A u, w \in Thread :
            status'[u] # "FREE" /\ status'[w] # "FREE" /\ threadId'[u] = threadId'[w]
              => u = w
      BY <3>2, <3>3, <1>2 DEF ThreadIdsExact
    <3>7. QED
      BY <3>5, <3>6 DEF ThreadIdsExact
  <2>3. QED
    BY <2>1, <2>2
<1>8. ReadyListSorted'
  <2>1. \A i \in 1..Len(readyList) : readyList[i] \in Thread /\ readyList[i] # t
    <3>1. \A i \in 1..Len(readyList) : readyList[i] \in Thread /\ readyList[i] \in Items(readyList)
      BY DEF ThreadsTypeOK, Items
    <3>2. t \notin Items(readyList)
      BY <1>2 DEF SchedulerInv
    <3>3. QED
      BY <3>1, <3>2
  <2>2. QED
    BY <1>2, <1>3, <2>1 DEF ReadyListSorted, ThreadsTypeOK
<1>9. QED
  BY <1>4, <1>5, <1>6, <1>7, <1>8

(* t->Fork(func, arg) puts a thread on the ready list that was not there. *)
LEMMA ForkKeepsInv ==
  ASSUME ThreadsInv, NEW t \in Thread, Fork(t)
  PROVE  ThreadsInv'
<1> USE DEF ThreadsInv
<1>1. /\ readyList' = ReadyToRun(readyList, t)
      /\ status[t] = "JUST_CREATED"
      /\ status' = [status EXCEPT ![t] = "READY"]
      /\ pc' = [pc EXCEPT ![t] = "ThreadRoot"]
      /\ UNCHANGED <<priority, threadId, threadIds, currentThread,
                     threadToBeDestroyed, level, mode>>
  BY DEF Fork
<1>2. t \notin Items(readyList) /\ t # currentThread
  BY <1>1 DEF SchedulerInv, CarcassInv
<1>3. /\ readyList' \in Seq(Thread)
      /\ Items(readyList') = Items(readyList) \cup {t}
      /\ NoDuplicates(readyList')
      /\ SCHED_PRIORITY => Ordered(readyList')
  BY <1>1, <1>2, ReadyToRunItems, Zenon DEF ThreadsTypeOK, SchedulerInv, ReadyListSorted, Ordered
<1>4. ThreadsTypeOK'
  BY <1>1, <1>3 DEF ThreadsTypeOK, ThreadStatus, ResumePoint
<1>5. SchedulerInv'
  BY <1>1, <1>2, <1>3 DEF ThreadsTypeOK, SchedulerInv
<1>6. CarcassInv'
  BY <1>1, <1>2 DEF ThreadsTypeOK, CarcassInv, Finished
<1>7. ThreadIdsExact'
  BY <1>1 DEF ThreadsTypeOK, ThreadIdsExact
<1>8. ReadyListSorted'
  BY <1>1, <1>3 DEF ReadyListSorted, Ordered
<1>9. QED
  BY <1>4, <1>5, <1>6, <1>7, <1>8

(* The head of the ready list is a READY thread, and what is left of the list
   is the other READY threads in the same order.                           *)
LEMMA ReadyHead ==
  ASSUME ThreadsInv, readyList # <<>>
  PROVE  /\ Head(readyList) \in Thread
         /\ status[Head(readyList)] = "READY"
         /\ Tail(readyList) \in Seq(Thread)
         /\ NoDuplicates(Tail(readyList))
         /\ \A t \in Thread : t \in Items(Tail(readyList))
                               <=> status[t] = "READY" /\ t # Head(readyList)
         /\ SCHED_PRIORITY => Ordered(Tail(readyList))
<1> USE DEF ThreadsInv
<1>1. /\ Head(readyList) \in Thread
      /\ Tail(readyList) \in Seq(Thread)
      /\ Items(readyList) = Items(Tail(readyList)) \cup {Head(readyList)}
      /\ NoDuplicates(Tail(readyList))
      /\ Head(readyList) \notin Items(Tail(readyList))
  BY RemoveItems DEF ThreadsTypeOK, SchedulerInv
<1>2. SCHED_PRIORITY => Ordered(Tail(readyList))
  BY TailOrdered, Zenon DEF ThreadsTypeOK, ReadyListSorted, Ordered
<1>3. QED
  BY <1>1, <1>2 DEF SchedulerInv

(* currentThread->Yield() *)
LEMMA YieldKeepsInv ==
  ASSUME ThreadsInv, Yield
  PROVE  ThreadsInv'
<1> USE DEF ThreadsInv
<1>1. /\ mode = "SystemMode" /\ level = "IntOn" /\ status[currentThread] = "RUNNING"
      /\ pc[currentThread] = "func"
      /\ UNCHANGED <<priority, threadId, mode>>
  BY DEF Yield, InFunc, SchedulerInv
<1>2. CASE FindNextToRun.next = None
  <2>1. /\ readyList' = FindNextToRun.list
        /\ UNCHANGED <<status, pc, threadIds, currentThread, threadToBeDestroyed, level>>
    BY <1>2 DEF Yield
  <2>2. /\ FindNextToRun.list \in Seq(Thread)
        /\ Items(FindNextToRun.list) = Items(readyList)
        /\ NoDuplicates(FindNextToRun.list)
        /\ SCHED_PRIORITY => Ordered(FindNextToRun.list)
    BY <1>2, FindNextItems, ReadyHead, ThreadsAssumption
  <2>3. ThreadsTypeOK'
    BY <1>1, <2>1, <2>2 DEF ThreadsTypeOK
  <2>4. SchedulerInv'
    BY <1>1, <2>1, <2>2 DEF SchedulerInv
  <2>5. CarcassInv' /\ ThreadIdsExact'
    BY <1>1, <2>1 DEF CarcassInv, Finished, ThreadIdsExact
  <2>6. ReadyListSorted'
    BY <1>1, <2>1, <2>2 DEF ReadyListSorted, Ordered
  <2>7. QED
    BY <2>3, <2>4, <2>5, <2>6
<1>3. CASE FindNextToRun.next # None
  <2> DEFINE next == Head(readyList)
             st == [status EXCEPT ![currentThread] = "READY"]
             at == [pc EXCEPT ![currentThread] = "Yield"]
  <2>1. readyList # <<>> /\ FindNextToRun.next = next /\ FindNextToRun.list = Tail(readyList)
    BY <1>3, FindNextItems
  <2>2. /\ readyList' = ReadyToRun(Tail(readyList), currentThread)
        /\ level' = "IntOff"
        /\ Run(next, st, at)
    BY <1>3, <2>1 DEF Yield
  <2>3. /\ next \in Thread /\ status[next] = "READY" /\ next # currentThread
        /\ currentThread \in Thread
        /\ currentThread \notin Items(Tail(readyList))
    BY <1>1, <2>1, ReadyHead DEF ThreadsTypeOK
  <2>4. /\ readyList' \in Seq(Thread)
        /\ Items(readyList') = Items(Tail(readyList)) \cup {currentThread}
        /\ NoDuplicates(readyList')
        /\ SCHED_PRIORITY => Ordered(readyList')
    BY <2>1, <2>2, <2>3, ReadyHead, ReadyToRunItems, Zenon DEF ThreadsTypeOK
  <2>5. /\ st \in [Thread -> ThreadStatus]
        /\ at \in [Thread -> ResumePoint]
        /\ \A t \in Thread : t # currentThread => st[t] = status[t] /\ at[t] = pc[t]
        /\ \A t \in Thread : st[t] # "RUNNING"
        /\ st[next] = "READY"
        /\ st[currentThread] = "READY" /\ at[currentThread] = "Yield"
    BY <2>3 DEF ThreadsTypeOK, ThreadStatus, ResumePoint, SchedulerInv
  <2>6. \A t \in Thread : t \in Items(readyList') <=> st[t] = "READY" /\ t # next
    BY <2>1, <2>3, <2>4, <2>5, ReadyHead
  <2>7. ReadyListSorted'
    BY <1>1, <2>4 DEF ReadyListSorted, Ordered
  <2> HIDE DEF st, at, next
  <2>8. QED
    BY <1>1, <2>2, <2>3, <2>4, <2>5, <2>6, <2>7, RunKeepsInv
<1>4. QED
  BY <1>2, <1>3

(* The end of Yield, or ThreadRoot, in the thread that was switched to. *)
LEMMA ResumeKeepsInv ==
  ASSUME ThreadsInv, Resume
  PROVE  ThreadsInv'
<1> USE DEF ThreadsInv, Resume, Resumed
<1>1. ThreadsTypeOK'
  BY DEF ThreadsTypeOK, ResumePoint
<1>2. SchedulerInv'
  BY DEF ThreadsTypeOK, SchedulerInv
<1>3. CarcassInv'
  BY DEF ThreadsTypeOK, CarcassInv, Finished
<1>4. ThreadIdsExact' /\ ReadyListSorted'
  BY DEF ThreadIdsExact, ReadyListSorted
<1>5. QED
  BY <1>1, <1>2, <1>3, <1>4

(* currentThread->Finish(), up to the loop of Sleep. *)
LEMMA FinishKeepsInv ==
  ASSUME ThreadsInv, Finish
  PROVE  ThreadsInv'
<1> USE DEF ThreadsInv, Finish, InFunc
<1>1. ThreadsTypeOK'
  BY DEF ThreadsTypeOK, ThreadStatus, ResumePoint
<1>2. SchedulerInv'
  BY DEF ThreadsTypeOK, SchedulerInv
<1>3. CarcassInv'
  BY DEF ThreadsTypeOK, CarcassInv, Finished
<1>4. ThreadIdsExact' /\ ReadyListSorted'
  BY DEF ThreadsTypeOK, ThreadIdsExact, ReadyListSorted
<1>5. QED
  BY <1>1, <1>2, <1>3, <1>4

(* The loop of Sleep switches to the head of the ready list. *)
LEMMA DispatchKeepsInv ==
  ASSUME ThreadsInv, Dispatch
  PROVE  ThreadsInv'
<1> USE DEF ThreadsInv
<1>1. /\ mode # "Aborted" /\ mode' = "SystemMode"
      /\ level' = "IntOff"
      /\ status[currentThread] # "RUNNING"
      /\ readyList # <<>> /\ readyList' = Tail(readyList)
      /\ Run(Head(readyList), status, pc)
      /\ UNCHANGED <<priority, threadId>>
  BY DEF Dispatch, Sleeping
<1>2. /\ status \in [Thread -> ThreadStatus]
      /\ pc \in [Thread -> ResumePoint]
      /\ currentThread \in Thread
      /\ \A t \in Thread : status[t] # "RUNNING"
      /\ status[currentThread] \notin {"FREE", "JUST_CREATED"}
      /\ status[currentThread] = "READY" => pc[currentThread] \in {"ThreadRoot", "Yield", "Sleep"}
      /\ pc[currentThread] = "Finish" => status[currentThread] = "BLOCKED"
  BY <1>1 DEF ThreadsTypeOK, SchedulerInv, CarcassInv, Finished
<1>3. ReadyListSorted'
  BY <1>1, ReadyHead DEF ReadyListSorted, Ordered
<1>4. QED
  BY <1>1, <1>2, <1>3, ReadyHead, RunKeepsInv

(* Idle halts Nachos, or Nachos has stopped. *)
LEMMA HaltKeepsInv ==
  ASSUME ThreadsInv, Halt \/ UNCHANGED threadVars
  PROVE  ThreadsInv'
BY DEF ThreadsInv, Halt, Sleeping, threadVars, ThreadsTypeOK, SchedulerInv, CarcassInv,
       Finished, ThreadIdsExact, ReadyListSorted

(* The state that Initialize() leaves satisfies the invariant. *)
LEMMA InitInv ==
  ASSUME ThreadsInit
  PROVE  ThreadsInv
<1> USE ThreadsAssumption DEF ThreadsInit
<1>1. 0 \in IdRange /\ IdRange \subseteq Int /\ -1 \notin IdRange
  BY DEF IdRange
<1>2. ThreadsTypeOK
  BY <1>1 DEF ThreadsTypeOK, ThreadStatus, ResumePoint
<1>3. Items(readyList) = {} /\ NoDuplicates(readyList) /\ Len(readyList) = 0
  BY DEF Items, NoDuplicates
<1>4. SchedulerInv
  BY <1>3 DEF SchedulerInv
<1>5. CarcassInv
  BY DEF CarcassInv, Finished
<1>6. ThreadIdsExact
  BY <1>1 DEF ThreadIdsExact
<1>7. ReadyListSorted
  BY <1>3 DEF ReadyListSorted
<1>8. QED
  BY <1>2, <1>4, <1>5, <1>6, <1>7 DEF ThreadsInv

(* Every step of the thread system keeps the invariant. *)
LEMMA NextKeepsInv ==
  ASSUME ThreadsInv, [ThreadsNext]_threadVars
  PROVE  ThreadsInv'
<1>1. CASE UNCHANGED threadVars
  BY <1>1, HaltKeepsInv
<1>2. ASSUME NEW t \in Thread, NEW pri \in Pri, NewThread(t, pri)
      PROVE  ThreadsInv'
  BY <1>2, NewThreadKeepsInv
<1>3. ASSUME NEW t \in Thread, Fork(t)
      PROVE  ThreadsInv'
  BY <1>3, ForkKeepsInv
<1>4. CASE Yield
  BY <1>4, YieldKeepsInv
<1>5. CASE Resume
  BY <1>5, ResumeKeepsInv
<1>6. CASE Finish
  BY <1>6, FinishKeepsInv
<1>7. CASE Dispatch
  BY <1>7, DispatchKeepsInv
<1>8. CASE Halt
  BY <1>8, HaltKeepsInv
<1>9. CASE Stopped
  BY <1>9, HaltKeepsInv DEF Stopped
<1>10. QED
  BY <1>1, <1>2, <1>3, <1>4, <1>5, <1>6, <1>7, <1>8, <1>9 DEF ThreadsNext, ThreadStep

(* The inductive invariant holds in every reachable state. *)
THEOREM ThreadsInvariant == ThreadsSpec => []ThreadsInv
<1>1. ThreadsInit => ThreadsInv
  BY InitInv
<1>2. ThreadsInv /\ [ThreadsNext]_threadVars => ThreadsInv'
  BY NextKeepsInv
<1>3. QED
  BY <1>1, <1>2, PTL DEF ThreadsSpec

(* Type correctness of the kernel's thread state, for any set of threads. *)
THEOREM ThreadsTypeCorrect == ThreadsSpec => []ThreadsTypeOK
<1>1. ThreadsInv => ThreadsTypeOK
  BY DEF ThreadsInv
<1>2. QED
  BY <1>1, ThreadsInvariant, PTL

(* The ready list is exactly the READY threads and at most the current thread
   runs, whatever sequence of Fork, Yield, Finish and dispatches happened. *)
THEOREM SchedulerCorrect == ThreadsSpec => []SchedulerInv
<1>1. ThreadsInv => SchedulerInv
  BY DEF ThreadsInv
<1>2. QED
  BY <1>1, ThreadsInvariant, PTL

(* Scheduler::Run only ever deletes a thread that has called Finish and is
   neither running nor queued.                                             *)
THEOREM CarcassCorrect == ThreadsSpec => []CarcassInv
<1>1. ThreadsInv => CarcassInv
  BY DEF ThreadsInv
<1>2. QED
  BY <1>1, ThreadsInvariant, PTL

(* Thread ids are unique among the existing threads, for any table size. *)
THEOREM ThreadIdsCorrect == ThreadsSpec => []ThreadIdsExact
<1>1. ThreadsInv => ThreadIdsExact
  BY DEF ThreadsInv
<1>2. QED
  BY <1>1, ThreadsInvariant, PTL

(* With SCHED_PRIORITY the ready list is always in priority order. *)
THEOREM ReadyListOrdered == ThreadsSpec => []ReadyListSorted
<1>1. ThreadsInv => ReadyListSorted
  BY DEF ThreadsInv
<1>2. QED
  BY <1>1, ThreadsInvariant, PTL

-----------------------------------------------------------------------------
(* Scheduler::Run makes "next" the current thread. *)
LEMMA RunSwitches ==
  ASSUME NEW next, NEW st, NEW at, Run(next, st, at)
  PROVE  currentThread' = next
BY DEF Run

(* With SCHED_PRIORITY, Yield and Sleep never switch to a thread while one of
   higher priority stays on the ready list.                                *)
THEOREM NoPriorityInversion == ThreadsSpec => NoPriorityInversionAtSwitch
<1> DEFINE Best == SCHED_PRIORITY /\ currentThread' # currentThread
                     => \A t \in Items(readyList') : priority[currentThread'] <= priority[t]
<1>1. ASSUME ThreadsInv, [ThreadsNext]_threadVars
      PROVE  Best
  <2> SUFFICES ASSUME SCHED_PRIORITY, currentThread' # currentThread,
                      NEW t \in Items(readyList')
               PROVE  priority[currentThread'] <= priority[t]
    OBVIOUS
  <2>1. ASSUME readyList # <<>>, NEW u \in Items(Tail(readyList))
        PROVE  priority[Head(readyList)] <= priority[u]
    <3>1. PICK i \in 1..Len(Tail(readyList)) : u = Tail(readyList)[i]
      BY <2>1 DEF Items
    <3>2. /\ Len(readyList) \in Nat
          /\ Len(Tail(readyList)) = Len(readyList) - 1
          /\ Tail(readyList)[i] = readyList[i + 1]
          /\ Head(readyList) = readyList[1]
      BY <1>1, <2>1 DEF ThreadsInv, ThreadsTypeOK
    <3>3. 1 \in 1..Len(readyList) /\ i + 1 \in 1..Len(readyList) /\ 1 < i + 1
      BY <3>2
    <3>4. QED
      BY <1>1, <3>1, <3>2, <3>3 DEF ThreadsInv, ReadyListSorted
  <2>2. CASE Yield
    <3>1. FindNextToRun.next # None
      BY <2>2 DEF Yield
    <3>2. /\ readyList # <<>>
          /\ FindNextToRun.next = Head(readyList)
          /\ FindNextToRun.list = Tail(readyList)
          /\ priority[Head(readyList)] < priority[currentThread]
      BY <1>1, <3>1, FindNextItems
    <3>3. /\ readyList' = ReadyToRun(Tail(readyList), currentThread)
          /\ currentThread' = Head(readyList)
      BY <2>2, <3>1, <3>2, RunSwitches DEF Yield
    <3>4. t \in Items(Tail(readyList)) \cup {currentThread}
      BY <1>1, <3>2, <3>3, ReadyHead, ReadyToRunItems, Zenon DEF ThreadsInv, ThreadsTypeOK
    <3>5. /\ priority[Head(readyList)] \in Int
          /\ priority[currentThread] \in Int
      BY <1>1, <3>2, ReadyHead DEF ThreadsInv, ThreadsTypeOK
    <3>6. QED
      BY <2>1, <3>2, <3>3, <3>4, <3>5
  <2>3. CASE Dispatch
    BY <2>1, <2>3, RunSwitches DEF Dispatch
  <2>4. CASE ~Yield /\ ~Dispatch
    BY <1>1, <2>4 DEF ThreadsNext, ThreadStep, NewThread, Fork, Resume, Finish, Halt,
                      Stopped, threadVars
  <2>5. QED
    BY <2>2, <2>3, <2>4
<1>2. QED
  BY <1>1, ThreadsInvariant, PTL DEF ThreadsSpec, NoPriorityInversionAtSwitch

(* Without SCHED_PRIORITY no operation reorders the waiting threads or takes
   any but the first one off the ready list.                               *)
THEOREM FirstInFirstOut == ThreadsSpec => ReadyListFifo
<1> DEFINE Kept(k) == /\ k <= Len(readyList) /\ Len(readyList) - k <= Len(readyList')
                      /\ \A i \in 1..(Len(readyList) - k) : readyList'[i] = readyList[i + k]
           Fifo == ~SCHED_PRIORITY => \E k \in {0, 1} : Kept(k)
<1>1. ASSUME ThreadsInv, [ThreadsNext]_threadVars
      PROVE  Fifo
  <2> SUFFICES ASSUME ~SCHED_PRIORITY PROVE Kept(0) \/ Kept(1)
    OBVIOUS
  <2>1. /\ readyList \in Seq(Thread)
        /\ Len(readyList) \in Nat
        /\ currentThread \in Thread
    BY <1>1 DEF ThreadsInv, ThreadsTypeOK
  <2>2. ASSUME readyList' = readyList PROVE Kept(0)
    BY <2>1, <2>2
  <2>3. ASSUME NEW t \in Thread, readyList' = Append(readyList, t) PROVE Kept(0)
    BY <2>1, <2>3
  <2>4. ASSUME readyList # <<>>
        PROVE  /\ Tail(readyList) \in Seq(Thread)
               /\ 1 <= Len(readyList)
               /\ Len(Tail(readyList)) = Len(readyList) - 1
               /\ \A i \in 1..(Len(readyList) - 1) : Tail(readyList)[i] = readyList[i + 1]
    BY <2>1, <2>4
  <2>5. ASSUME readyList # <<>>, readyList' = Tail(readyList) PROVE Kept(1)
    BY <2>1, <2>4, <2>5
  <2>6. ASSUME readyList # <<>>, readyList' = Append(Tail(readyList), currentThread)
        PROVE  Kept(1)
    <3>1. /\ Len(readyList') = Len(Tail(readyList)) + 1
          /\ \A i \in 1..Len(Tail(readyList)) : readyList'[i] = Tail(readyList)[i]
      BY <2>1, <2>4, <2>6
    <3>2. QED
      BY <2>1, <2>4, <2>6, <3>1
  <2>7. CASE Yield
    <3>1. CASE readyList = <<>>
      <4>1. readyList' = readyList
        BY <2>7, <3>1 DEF Yield, FindNextToRun
      <4>2. QED
        BY <4>1, <2>2
    <3>2. CASE readyList # <<>>
      <4>1. FindNextToRun = [next |-> Head(readyList), list |-> Tail(readyList)]
        BY <3>2 DEF FindNextToRun
      <4>2. Head(readyList) # None
        BY <1>1, <3>2, ReadyHead, ThreadsAssumption
      <4>3. readyList' = Append(Tail(readyList), currentThread)
        BY <2>7, <4>1, <4>2 DEF Yield, ReadyToRun
      <4>4. QED
        BY <2>6, <3>2, <4>3
    <3>3. QED
      BY <3>1, <3>2
  <2>8. CASE Dispatch
    BY <2>5, <2>8 DEF Dispatch
  <2>9. ASSUME NEW t \in Thread, Fork(t) PROVE Kept(0)
    <3>1. readyList' = Append(readyList, t)
      BY <2>9 DEF Fork, ReadyToRun
    <3>2. QED
      BY <2>3, <3>1
  <2>10. CASE ~Yield /\ ~Dispatch /\ ~\E t \in Thread : Fork(t)
    <3>1. readyList' = readyList
      BY <1>1, <2>10 DEF ThreadsNext, ThreadStep, NewThread, Resume, Finish, Halt, Stopped,
                         threadVars
    <3>2. QED
      BY <2>2, <3>1
  <2>11. QED
    BY <2>7, <2>8, <2>9, <2>10
<1>2. QED
  BY <1>1, ThreadsInvariant, PTL DEF ThreadsSpec, ReadyListFifo
=============================================================================
