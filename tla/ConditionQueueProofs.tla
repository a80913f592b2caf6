----------------------- MODULE ConditionQueueProofs -------------------------
(***************************************************************************)
(* The monitor of threads/threadtest.cc and the list of                    *)
(* threads/synchlist.cc, whose threads sleep on conditions, strand nobody, *)
(* and the list implements an atomic queue, for any number of threads, any *)
(* size of the buffer and any number of items.                             *)
(***************************************************************************)
EXTENDS SynchProgramsProofs

(* A leaf that names no prover is for SMT, twice, and then for Zenon. *)
USE SMTT(10), Z3T(20), Zenon

(* Threads of T that are about to test the buffer again: they hold the lock,
   or were signalled and only need the lock.                               *)
About(T) == {t \in T : mPc[t] = "test" \/ (mPc[t] = "woken" /\ ~On(mQueue[Monitor!Own(t)], t))}

(* The inductive invariant of the monitor: each condition's queue holds the
   sleepers of its own side, each once, and Signal keeps their number in step
   with the buffer.                                                        *)
MonitorTypes ==
  /\ mPc \in [Thread -> {"acquire", "test", "woken", "release"}]
  /\ mOwner \in [{"pcLock"} -> Thread \cup {None}]
  /\ mQueue \in [{"condc", "condp"} -> Seq(Thread)]
  /\ shareNum \in 0..N

MonitorHolder == \A t \in Thread : mOwner["pcLock"] = t <=> mPc[t] \in {"test", "release"}

MonitorQueues ==
  \A c \in {"condc", "condp"} :
    /\ Once(mQueue[c])
    /\ \A t \in Thread : On(mQueue[c], t) => mPc[t] = "woken" /\ Monitor!Own(t) = c

MonitorEnough ==
  /\ mQueue["condc"] # <<>> => shareNum <= Cardinality(About(Customers))
  /\ mQueue["condp"] # <<>> => N - shareNum <= Cardinality(About(Producers))

MonitorInv == MonitorTypes /\ MonitorHolder /\ MonitorQueues /\ MonitorEnough

(* The two sides. *)
LEMMA MonitorSides ==
  /\ N \in Nat \ {0} /\ Thread = Producers \cup Customers /\ Producers \cap Customers = {}
  /\ IsFiniteSet(Thread) /\ None \notin Thread
  /\ \A t \in Producers : Monitor!Own(t) = "condp" /\ Monitor!Other(t) = "condc" /\ t \notin Customers
  /\ \A t \in Customers : Monitor!Own(t) = "condc" /\ Monitor!Other(t) = "condp" /\ t \notin Producers
BY ProducerConsumerAssumption, SynchSpecAssumption DEF Monitor!Own, Monitor!Other

LEMMA AboutFinite ==
  ASSUME NEW T \in SUBSET Thread
  PROVE  IsFiniteSet(About(T)) /\ Cardinality(About(T)) \in Nat
<1>1. About(T) \subseteq Thread
  BY DEF About
<1>2. QED
  BY <1>1, MonitorSides, FS_Subset, FS_CardinalityType

(* What a step in which only the thread u changes sides does to About. *)
LEMMA AboutMoves ==
  ASSUME NEW T \in SUBSET Thread, NEW u \in Thread,
         \A t \in T : t # u => (t \in About(T) <=> t \in About(T)')
  PROVE  Cardinality(About(T)') = Cardinality(About(T))
           + (IF u \in About(T)' THEN 1 ELSE 0) - (IF u \in About(T) THEN 1 ELSE 0)
<1>1. IsFiniteSet(About(T))
  BY AboutFinite
<1>2. \A t : t # u => (t \in About(T) <=> t \in About(T)')
  BY DEF About
<1>3. QED
  BY <1>1, <1>2, OneDiffers

LEMMA MonitorInitInv == Monitor!Init => MonitorInv
<1> SUFFICES ASSUME Monitor!Init PROVE MonitorInv
  OBVIOUS
<1>1. /\ mPc = [t \in Thread |-> "acquire"] /\ shareNum = 0
      /\ mOwner = [l \in {"pcLock"} |-> None]
      /\ mQueue = [c \in {"condc", "condp"} |-> <<>>]
  BY DEF Monitor!Init, Monitor!SynchInit
<1>2. \A c \in {"condc", "condp"} : Once(mQueue[c]) /\ \A t : ~On(mQueue[c], t)
  BY <1>1 DEF Once, On
<1>3. QED
  BY <1>1, <1>2, MonitorSides DEF MonitorInv, MonitorTypes, MonitorHolder, MonitorQueues, MonitorEnough

(* pcLock->Acquire(), at first and at the end of Wait: a thread that was
   signalled stays counted, a newcomer is counted from now on.             *)
LEMMA MonitorAcquireKeeps ==
  ASSUME MonitorInv, NEW t \in Thread, Monitor!AcquireLock(t) \/ Monitor!Resume(t)
  PROVE  MonitorInv'
<1>1. /\ mPc[t] \in {"acquire", "woken"} /\ mPc' = [mPc EXCEPT ![t] = "test"]
      /\ mPc[t] = "woken" => ~On(mQueue[Monitor!Own(t)], t)
      /\ mOwner["pcLock"] = None /\ mOwner' = [mOwner EXCEPT !["pcLock"] = t]
      /\ UNCHANGED <<mQueue, shareNum>>
  BY DEF Monitor!AcquireLock, Monitor!Resume, Monitor!Goto, Monitor!Acquire, Monitor!Asleep, On
<1>2. \A c \in {"condc", "condp"} : ~On(mQueue[c], t)
  BY <1>1 DEF MonitorInv, MonitorQueues
<1>3. ASSUME NEW T \in SUBSET Thread
      PROVE  Cardinality(About(T)') >= Cardinality(About(T)) /\ Cardinality(About(T)') \in Nat
  <2>1. \A u \in T : u # t => (u \in About(T) <=> u \in About(T)')
    BY <1>1 DEF About, MonitorInv, MonitorTypes
  <2>2. t \in T => t \in About(T)'
    BY <1>1 DEF About, MonitorInv, MonitorTypes
  <2>3. t \in About(T) => t \in T
    BY DEF About
  <2>4. QED
    BY <2>1, <2>2, <2>3, AboutMoves, AboutFinite
<1>4. /\ Cardinality(About(Customers)') >= Cardinality(About(Customers))
      /\ Cardinality(About(Producers)') >= Cardinality(About(Producers))
      /\ Cardinality(About(Customers)') \in Nat /\ Cardinality(About(Customers)) \in Nat
      /\ Cardinality(About(Producers)') \in Nat /\ Cardinality(About(Producers)) \in Nat
  BY <1>3, MonitorSides, AboutFinite
<1>5. MonitorEnough'
  BY <1>1, <1>4, MonitorSides DEF MonitorInv, MonitorTypes, MonitorEnough
<1>6. MonitorQueues'
  BY <1>1, <1>2 DEF MonitorInv, MonitorTypes, MonitorQueues
<1>7. MonitorTypes' /\ MonitorHolder'
  BY <1>1, MonitorSides DEF MonitorInv, MonitorTypes, MonitorHolder
<1>8. QED
  BY <1>5, <1>6, <1>7 DEF MonitorInv

(* pcLock->Release() *)
LEMMA MonitorReleaseKeeps ==
  ASSUME MonitorInv, NEW t \in Thread, Monitor!ReleaseLock(t)
  PROVE  MonitorInv'
<1>1. /\ mPc[t] = "release" /\ mPc' = [mPc EXCEPT ![t] = "acquire"]
      /\ mOwner["pcLock"] = t /\ mOwner' = [mOwner EXCEPT !["pcLock"] = None]
      /\ UNCHANGED <<mQueue, shareNum>>
  BY DEF Monitor!ReleaseLock, Monitor!Goto, Monitor!Release
<1>2. \A T \in SUBSET Thread : About(T)' = About(T)
  BY <1>1 DEF About, MonitorInv, MonitorTypes, Monitor!Own
<1>3. About(Customers)' = About(Customers) /\ About(Producers)' = About(Producers)
  BY <1>2, MonitorSides
<1>4. MonitorEnough'
  BY <1>1, <1>3 DEF MonitorInv, MonitorEnough
<1>5. MonitorQueues'
  BY <1>1 DEF MonitorInv, MonitorTypes, MonitorQueues
<1>6. MonitorTypes' /\ MonitorHolder'
  BY <1>1, MonitorSides DEF MonitorInv, MonitorTypes, MonitorHolder
<1>7. QED
  BY <1>4, <1>5, <1>6 DEF MonitorInv

(* condp->Wait(pcLock) or condc->Wait(pcLock): who goes to sleep has just seen
   that there is nothing for their side.                                   *)
LEMMA MonitorWaitKeeps ==
  ASSUME MonitorInv, NEW t \in Thread, Monitor!WaitForOther(t)
  PROVE  MonitorInv'
<1> DEFINE o == Monitor!Own(t)
<1>1. /\ mPc[t] = "test" /\ mPc' = [mPc EXCEPT ![t] = "woken"]
      /\ mOwner["pcLock"] = t /\ mOwner' = [mOwner EXCEPT !["pcLock"] = None]
      /\ mQueue' = [mQueue EXCEPT ![o] = Append(@, t)]
      /\ UNCHANGED shareNum /\ Monitor!Blocked(t)
  BY DEF Monitor!WaitForOther, Monitor!Goto, Monitor!Wait
<1>2. o \in {"condc", "condp"}
  BY DEF Monitor!Own
<1>3. /\ mQueue[o] \in Seq(Thread) /\ mQueue'[o] = Append(mQueue[o], t)
      /\ \A c \in {"condc", "condp"} : c # o => mQueue'[c] = mQueue[c]
      /\ ~On(mQueue[o], t) /\ Once(mQueue[o])
  BY <1>1, <1>2 DEF MonitorInv, MonitorTypes, MonitorQueues
<1>4. /\ mQueue'[o] \in Seq(Thread) /\ Once(mQueue'[o])
      /\ \A u : On(mQueue'[o], u) <=> On(mQueue[o], u) \/ u = t
  BY <1>3, QueueAppend
<1>5. mQueue' \in [{"condc", "condp"} -> Seq(Thread)]
  BY <1>1, <1>2, <1>4 DEF MonitorInv, MonitorTypes
<1>6. \A u \in Thread : u # t => mPc'[u] = mPc[u]
  BY <1>1 DEF MonitorInv, MonitorTypes
<1>7. mPc'[t] = "woken"
  BY <1>1 DEF MonitorInv, MonitorTypes
<1>8. MonitorQueues'
  <2> SUFFICES ASSUME NEW c \in {"condc", "condp"}
               PROVE  /\ Once(mQueue'[c])
                      /\ \A u \in Thread : On(mQueue'[c], u) =>
                                             mPc'[u] = "woken" /\ Monitor!Own(u) = c
    BY DEF MonitorQueues
  <2>1. CASE c = o
    BY <2>1, <1>4, <1>6, <1>7 DEF MonitorInv, MonitorQueues
  <2>2. CASE c # o
    BY <2>2, <1>3, <1>6, <1>7 DEF MonitorInv, MonitorQueues
  <2>3. QED
    BY <2>1, <2>2
<1>9. CASE t \in Producers
  <2>1. o = "condp" /\ N - shareNum' <= 0
    BY <1>1, <1>9, MonitorSides DEF Monitor!Blocked, MonitorInv, MonitorTypes
  <2>2. About(Customers)' = About(Customers)
    BY <1>3, <1>6, <1>9, <2>1, MonitorSides DEF About, Monitor!Own
  <2>3. Cardinality(About(Producers)') \in Nat
    <3>1. About(Producers)' \subseteq Thread
      BY MonitorSides DEF About
    <3>2. QED
      BY <3>1, MonitorSides, FS_Subset, FS_CardinalityType
  <2>4. MonitorEnough'
    BY <1>1, <1>3, <2>1, <2>2, <2>3, MonitorSides DEF MonitorInv, MonitorTypes, MonitorEnough
  <2>5. MonitorTypes' /\ MonitorHolder'
    BY <1>1, <1>5, MonitorSides DEF MonitorInv, MonitorTypes, MonitorHolder
  <2>6. QED
    BY <1>8, <2>4, <2>5 DEF MonitorInv
<1>10. CASE t \in Customers
  <2>1. o = "condc" /\ shareNum' <= 0
    BY <1>1, <1>10, MonitorSides DEF Monitor!Blocked, MonitorInv, MonitorTypes
  <2>2. About(Producers)' = About(Producers)
    BY <1>3, <1>6, <1>10, <2>1, MonitorSides DEF About, Monitor!Own
  <2>3. Cardinality(About(Customers)') \in Nat
    <3>1. About(Customers)' \subseteq Thread
      BY MonitorSides DEF About
    <3>2. QED
      BY <3>1, MonitorSides, FS_Subset, FS_CardinalityType
  <2>4. MonitorEnough'
    BY <1>1, <1>3, <2>1, <2>2, <2>3, MonitorSides DEF MonitorInv, MonitorTypes, MonitorEnough
  <2>5. MonitorTypes' /\ MonitorHolder'
    BY <1>1, <1>5, MonitorSides DEF MonitorInv, MonitorTypes, MonitorHolder
  <2>6. QED
    BY <1>8, <2>4, <2>5 DEF MonitorInv
<1>11. QED
  BY <1>9, <1>10, MonitorSides

(* t, which tests, signals the condition o. *)
Signals(t, o) ==
  /\ mPc[t] = "test" /\ mPc' = [mPc EXCEPT ![t] = "release"]
  /\ mQueue' = [mQueue EXCEPT ![o] = IF @ = <<>> THEN @ ELSE Tail(@)]

(* A Signal takes the first sleeper, if any, off the queue. *)
LEMMA MonitorSignalQueue ==
  ASSUME MonitorInv, NEW t \in Thread, NEW o \in {"condc", "condp"}, Signals(t, o)
  PROVE  /\ mPc'[t] = "release" /\ \A u \in Thread : u # t => mPc'[u] = mPc[u]
         /\ mQueue' \in [{"condc", "condp"} -> Seq(Thread)]
         /\ \A c \in {"condc", "condp"} : c # o => mQueue'[c] = mQueue[c]
         /\ MonitorQueues'
         /\ mQueue[o] = <<>> => mQueue'[o] = <<>>
         /\ mQueue[o] # <<>> =>
              /\ Head(mQueue[o]) \in Thread /\ On(mQueue[o], Head(mQueue[o]))
              /\ \A u : On(mQueue'[o], u) <=> On(mQueue[o], u) /\ u # Head(mQueue[o])
<1>1. mPc'[t] = "release" /\ \A u \in Thread : u # t => mPc'[u] = mPc[u]
  BY DEF MonitorInv, MonitorTypes, Signals
<1>2. /\ mQueue[o] \in Seq(Thread)
      /\ mQueue'[o] = IF mQueue[o] = <<>> THEN <<>> ELSE Tail(mQueue[o])
      /\ \A c \in {"condc", "condp"} : c # o => mQueue'[c] = mQueue[c]
      /\ Once(mQueue[o]) /\ \A c \in {"condc", "condp"} : ~On(mQueue[c], t)
  BY DEF MonitorInv, MonitorTypes, MonitorQueues, Signals
<1>3. mQueue[o] # <<>> =>
        /\ mQueue'[o] \in Seq(Thread) /\ Head(mQueue[o]) \in Thread
        /\ On(mQueue[o], Head(mQueue[o])) /\ Once(mQueue'[o])
        /\ \A u : On(mQueue'[o], u) <=> On(mQueue[o], u) /\ u # Head(mQueue[o])
  BY <1>2, QueueTail
<1>4. /\ mQueue'[o] \in Seq(Thread) /\ Once(mQueue'[o])
      /\ \A u : On(mQueue'[o], u) => On(mQueue[o], u)
  BY <1>2, <1>3
<1>5. mQueue' \in [{"condc", "condp"} -> Seq(Thread)]
  BY <1>4 DEF MonitorInv, MonitorTypes, Signals
<1>6. MonitorQueues'
  BY <1>1, <1>2, <1>4 DEF MonitorInv, MonitorQueues
<1>7. QED
  BY <1>1, <1>2, <1>3, <1>5, <1>6

(* The thread that signals is no longer about to test, *)
LEMMA MonitorSignalOwn ==
  ASSUME MonitorInv, NEW t \in Thread, NEW o \in {"condc", "condp"}, Signals(t, o),
         NEW T \in SUBSET Thread, t \in T, \A u \in T : Monitor!Own(u) # o
  PROVE  Cardinality(About(T)') = Cardinality(About(T)) - 1
<1>1. mPc'[t] = "release" /\ \A u \in Thread : u # t => mPc'[u] = mPc[u]
  BY MonitorSignalQueue
<1>2. \A u \in T : mQueue'[Monitor!Own(u)] = mQueue[Monitor!Own(u)]
  BY MonitorSignalQueue DEF Monitor!Own
<1>3. \A u \in T : Monitor!Own(u)' = Monitor!Own(u)
  BY DEF Monitor!Own
<1>4. \A u \in T : u # t => (u \in About(T) <=> u \in About(T)')
  BY <1>1, <1>2, <1>3 DEF About
<1>5. t \in About(T) /\ t \notin About(T)'
  BY <1>1 DEF About, Signals
<1>6. QED
  BY <1>4, <1>5, AboutMoves, AboutFinite

(* and the thread that it signals is. *)
LEMMA MonitorSignalOther ==
  ASSUME MonitorInv, NEW t \in Thread, NEW o \in {"condc", "condp"}, Signals(t, o),
         NEW T \in SUBSET Thread, t \notin T, \A u \in T : Monitor!Own(u) = o,
         mQueue[o] # <<>>, Head(mQueue[o]) \in T
  PROVE  Cardinality(About(T)') = Cardinality(About(T)) + 1
<1> DEFINE h == Head(mQueue[o])
<1>1. /\ \A u \in Thread : u # t => mPc'[u] = mPc[u]
      /\ On(mQueue[o], h) /\ ~On(mQueue'[o], h)
      /\ \A u : u # h => (On(mQueue'[o], u) <=> On(mQueue[o], u))
  BY MonitorSignalQueue
<1> HIDE DEF h
<1>2. h \in T /\ mPc[h] = "woken" /\ mPc'[h] = "woken"
  BY <1>1 DEF MonitorInv, MonitorQueues, h
<1>3. \A u \in T : u # t /\ Monitor!Own(u) = o /\ Monitor!Own(u)' = o
  BY DEF Monitor!Own
<1>4. \A u \in T : u # h => (u \in About(T) <=> u \in About(T)')
  BY <1>1, <1>3 DEF About
<1>5. h \notin About(T) /\ h \in About(T)'
  BY <1>1, <1>2, <1>3 DEF About
<1>6. QED
  BY <1>2, <1>4, <1>5, AboutMoves, AboutFinite

(* The change of the buffer with its Signal *)
LEMMA MonitorChangeKeeps ==
  ASSUME MonitorInv, NEW t \in Thread, Monitor!Change(t)
  PROVE  MonitorInv'
<1>1. /\ mPc[t] = "test" /\ mPc' = [mPc EXCEPT ![t] = "release"]
      /\ mOwner["pcLock"] = t /\ UNCHANGED mOwner
      /\ mQueue' = [mQueue EXCEPT ![Monitor!Other(t)] = IF @ = <<>> THEN @ ELSE Tail(@)]
      /\ shareNum' = IF t \in Producers THEN shareNum + 1 ELSE shareNum - 1
      /\ ~Monitor!Blocked(t)
  BY DEF Monitor!Change, Monitor!Goto, Monitor!Signal
<1>2. CASE t \in Producers
  <2>1. /\ Signals(t, "condc") /\ "condc" \in {"condc", "condp"}
        /\ Producers \in SUBSET Thread /\ Customers \in SUBSET Thread /\ t \notin Customers
        /\ \A u \in Customers : Monitor!Own(u) = "condc"
        /\ \A u \in Producers : Monitor!Own(u) # "condc"
    BY <1>1, <1>2, MonitorSides, Zenon DEF Signals
  <2>2. /\ mQueue' \in [{"condc", "condp"} -> Seq(Thread)]
        /\ mQueue'["condp"] = mQueue["condp"]
        /\ MonitorQueues'
        /\ mQueue["condc"] = <<>> => mQueue'["condc"] = <<>>
        /\ mQueue["condc"] # <<>> =>
             Head(mQueue["condc"]) \in Thread /\ On(mQueue["condc"], Head(mQueue["condc"]))
    BY <2>1, MonitorSignalQueue
  <2>3. mQueue["condc"] # <<>> => Head(mQueue["condc"]) \in Customers
    BY <2>1, <2>2, MonitorSides DEF MonitorInv, MonitorQueues
  <2>4. Cardinality(About(Producers)') = Cardinality(About(Producers)) - 1
    BY <1>2, <2>1, MonitorSignalOwn
  <2>5. mQueue["condc"] # <<>> => Cardinality(About(Customers)') = Cardinality(About(Customers)) + 1
    BY <2>1, <2>3, MonitorSignalOther
  <2>6. shareNum' = shareNum + 1 /\ shareNum' \in 0..N
    BY <1>1, <1>2, MonitorSides DEF MonitorInv, MonitorTypes, Monitor!Blocked
  <2>7. Cardinality(About(Customers)) \in Nat /\ Cardinality(About(Producers)) \in Nat
    BY <2>1, AboutFinite
  <2>8. MonitorEnough'
    BY <2>2, <2>4, <2>5, <2>6, <2>7, MonitorSides DEF MonitorInv, MonitorEnough, MonitorTypes
  <2>9. MonitorTypes' /\ MonitorHolder'
    BY <1>1, <2>2, <2>6 DEF MonitorInv, MonitorTypes, MonitorHolder
  <2>10. QED
    BY <2>2, <2>8, <2>9 DEF MonitorInv
<1>3. CASE t \in Customers
  <2>1. /\ Signals(t, "condp") /\ "condp" \in {"condc", "condp"}
        /\ Customers \in SUBSET Thread /\ Producers \in SUBSET Thread /\ t \notin Producers
        /\ \A u \in Producers : Monitor!Own(u) = "condp"
        /\ \A u \in Customers : Monitor!Own(u) # "condp"
    BY <1>1, <1>3, MonitorSides, Zenon DEF Signals
  <2>2. /\ mQueue' \in [{"condc", "condp"} -> Seq(Thread)]
        /\ mQueue'["condc"] = mQueue["condc"]
        /\ MonitorQueues'
        /\ mQueue["condp"] = <<>> => mQueue'["condp"] = <<>>
        /\ mQueue["condp"] # <<>> =>
             Head(mQueue["condp"]) \in Thread /\ On(mQueue["condp"], Head(mQueue["condp"]))
    BY <2>1, MonitorSignalQueue
  <2>3. mQueue["condp"] # <<>> => Head(mQueue["condp"]) \in Producers
    BY <2>1, <2>2, MonitorSides DEF MonitorInv, MonitorQueues
  <2>4. Cardinality(About(Customers)') = Cardinality(About(Customers)) - 1
    BY <1>3, <2>1, MonitorSignalOwn
  <2>5. mQueue["condp"] # <<>> => Cardinality(About(Producers)') = Cardinality(About(Producers)) + 1
    BY <2>1, <2>3, MonitorSignalOther
  <2>6. shareNum' = shareNum - 1 /\ shareNum' \in 0..N
    BY <1>1, <1>3, MonitorSides DEF MonitorInv, MonitorTypes, Monitor!Blocked
  <2>7. Cardinality(About(Customers)) \in Nat /\ Cardinality(About(Producers)) \in Nat
    BY <2>1, AboutFinite
  <2>8. MonitorEnough'
    BY <2>2, <2>4, <2>5, <2>6, <2>7, MonitorSides DEF MonitorInv, MonitorEnough, MonitorTypes
  <2>9. MonitorTypes' /\ MonitorHolder'
    BY <1>1, <2>2, <2>6 DEF MonitorInv, MonitorTypes, MonitorHolder
  <2>10. QED
    BY <2>2, <2>8, <2>9 DEF MonitorInv
<1>4. QED
  BY <1>2, <1>3, MonitorSides

(* One Signal per change of the buffer is enough (threadtest.cc 186-237), for
   any number of producers and consumers and any size of the buffer.       *)
THEOREM MonitorStrandsNobody == Monitor!Spec => []Monitor!NoStrandedWaiter
<1>1. MonitorInv /\ [Monitor!Next]_(Monitor!vars) => MonitorInv'
  <2> SUFFICES ASSUME MonitorInv, [Monitor!Next]_(Monitor!vars) PROVE MonitorInv'
    OBVIOUS
  <2>1. CASE UNCHANGED Monitor!vars
    BY <2>1 DEF MonitorInv, MonitorTypes, MonitorHolder, MonitorQueues, MonitorEnough, About,
                Monitor!Own, Monitor!vars, Monitor!synchVars
  <2>2. ASSUME NEW t \in Thread, Monitor!Step(t) PROVE MonitorInv'
    BY <2>2, MonitorAcquireKeeps, MonitorWaitKeeps, MonitorChangeKeeps, MonitorReleaseKeeps
       DEF Monitor!Step
  <2>3. QED
    BY <2>1, <2>2 DEF Monitor!Next
<1>2. ASSUME MonitorInv, NEW T \in SUBSET Thread
      PROVE  Monitor!Woken(T) \cup {t \in T : mOwner["pcLock"] = t /\ mPc[t] = "test"} = About(T)
  BY <1>2 DEF MonitorInv, MonitorTypes, MonitorHolder, Monitor!Woken, Monitor!Asleep, About, On
<1>3. MonitorInv => Monitor!NoStrandedWaiter
  BY <1>2, MonitorSides, SameCardinality, Zenon DEF MonitorInv, MonitorEnough, Monitor!NoStrandedWaiter
<1>4. QED
  BY <1>1, <1>3, MonitorInitInv, PTL DEF Monitor!Spec

-----------------------------------------------------------------------------
Places == {"idle", "append", "remove", "mapcar", "woken", "release", "done"}

(* The threads asleep in listEmpty->Wait(lock). *)
Sleepers == slQueue["listEmpty"]

(* The removers that are about to look at the list: they hold the lock, or
   were signalled and only need the lock.                                  *)
Looking ==
  {t \in Removers : slPc[t] = "remove" \/ (slPc[t] = "woken" /\ ~On(Sleepers, t))}

(* The inductive invariant of the list: who holds the lock, who sleeps, and
   enough removers on their way for the items that are there.              *)
ListTypes ==
  /\ slPc \in [ListThread -> Places]
  /\ slOwner \in [{"lock"} -> ListThread \cup {None}]
  /\ slQueue \in [{"listEmpty"} -> Seq(ListThread)] /\ Once(Sleepers)
  /\ sent \in 0..MaxItems /\ list \in Seq(1..MaxItems)
  /\ slGot \in [ListThread -> (1..MaxItems) \cup {None}]

ListPlaces ==
  \A t \in ListThread :
    /\ slOwner["lock"] = t <=> slPc[t] \in {"append", "remove", "mapcar", "release"}
    /\ slPc[t] = "append" => sent < MaxItems
    /\ slPc[t] \in {"remove", "woken"} => t \in Removers /\ slGot[t] = None
    /\ On(Sleepers, t) => slPc[t] = "woken"

EnoughLooking == Sleepers # <<>> => Len(list) <= Cardinality(Looking)

ListInv == ListTypes /\ ListPlaces /\ EnoughLooking

LEMMA ListThreads ==
  /\ None \notin ListThread /\ IsFiniteSet(ListThread) /\ MaxItems \in Nat
  /\ Removers \subseteq ListThread
BY ProgramsAssumption DEF ListThread

LEMMA LookingFinite == IsFiniteSet(Looking) /\ Cardinality(Looking) \in Nat
<1>1. Looking \subseteq ListThread
  BY ListThreads DEF Looking
<1>2. QED
  BY <1>1, ListThreads, FS_Subset, FS_CardinalityType

(* What a step in which only the thread u starts or stops looking does. *)
LEMMA LookingMoves ==
  ASSUME NEW u, \A t \in Removers : t # u => (t \in Looking <=> t \in Looking')
  PROVE  Cardinality(Looking') = Cardinality(Looking)
           + (IF u \in Looking' THEN 1 ELSE 0) - (IF u \in Looking THEN 1 ELSE 0)
<1>1. \A t : t # u => (t \in Looking <=> t \in Looking')
  BY DEF Looking
<1>2. QED
  BY <1>1, LookingFinite, OneDiffers

LEMMA ListInitInv == Shared!Init => ListInv
<1> SUFFICES ASSUME Shared!Init PROVE ListInv
  OBVIOUS
<1>1. /\ slPc = [t \in ListThread |-> "idle"] /\ list = <<>> /\ sent = 0
      /\ slGot = [t \in ListThread |-> None]
      /\ slOwner = [l \in {"lock"} |-> None]
      /\ slQueue = [c \in {"listEmpty"} |-> <<>>]
  BY DEF Shared!Init, Shared!SynchInit
<1>2. Sleepers = <<>> /\ Once(Sleepers) /\ \A t : ~On(Sleepers, t)
  BY <1>1 DEF Once, On, Sleepers
<1>3. QED
  BY <1>1, <1>2, ListThreads DEF ListInv, ListTypes, ListPlaces, EnoughLooking, Places

(* lock->Acquire() of Append, Remove and Mapcar *)
LEMMA ListBeginKeeps ==
  ASSUME ListInv, NEW t \in ListThread, NEW op \in {"append", "remove", "mapcar"},
         Shared!Begin(t, op), op = "append" => sent < MaxItems, op = "remove" => t \in Removers
  PROVE  ListInv'
<1>1. /\ slPc[t] = "idle" /\ slPc' = [slPc EXCEPT ![t] = op]
      /\ slOwner["lock"] = None /\ slOwner' = [slOwner EXCEPT !["lock"] = t]
      /\ slGot' = [slGot EXCEPT ![t] = None]
      /\ UNCHANGED <<slQueue, list, sent>>
  BY DEF Shared!Begin, Shared!Goto, Shared!Acquire
<1>2. Sleepers' = Sleepers
  BY <1>1 DEF Sleepers
<1>3. \A u \in Removers : u # t => (u \in Looking <=> u \in Looking')
  BY <1>1, <1>2, ListThreads DEF Looking, ListInv, ListTypes
<1>4. t \notin Looking
  BY <1>1 DEF Looking
<1>5. EnoughLooking'
  <2>1. Len(list) \in Nat
    BY DEF ListInv, ListTypes
  <2>2. QED
    BY <1>1, <1>2, <1>3, <1>4, <2>1, LookingMoves, LookingFinite DEF ListInv, EnoughLooking
<1>6. ListPlaces'
  BY <1>1, <1>2, ListThreads DEF ListInv, ListTypes, ListPlaces
<1>7. ListTypes'
  BY <1>1, <1>2, ListThreads DEF ListInv, ListTypes, Places
<1>8. QED
  BY <1>5, <1>6, <1>7 DEF ListInv

(* The Acquire at the end of Wait: the remover was looking all along. *)
LEMMA ListResumeKeeps ==
  ASSUME ListInv, NEW t \in ListThread, Shared!Resume(t)
  PROVE  ListInv'
<1>1. /\ slPc[t] = "woken" /\ slPc' = [slPc EXCEPT ![t] = "remove"]
      /\ slOwner["lock"] = None /\ slOwner' = [slOwner EXCEPT !["lock"] = t]
      /\ ~On(Sleepers, t)
      /\ UNCHANGED <<slQueue, list, sent, slGot>>
  BY DEF Shared!Resume, Shared!Goto, Shared!Acquire, Shared!Asleep, On, Sleepers
<1>2. Sleepers' = Sleepers
  BY <1>1 DEF Sleepers
<1>3. Looking' = Looking
  BY <1>1, <1>2, ListThreads DEF Looking, ListInv, ListTypes
<1>4. ListPlaces'
  BY <1>1, <1>2, ListThreads DEF ListInv, ListTypes, ListPlaces
<1>5. ListTypes'
  BY <1>1, <1>2, ListThreads DEF ListInv, ListTypes, Places
<1>6. EnoughLooking'
  BY <1>1, <1>2, <1>3 DEF ListInv, EnoughLooking
<1>7. QED
  BY <1>4, <1>5, <1>6 DEF ListInv

(* lock->Release() at the end of Append and Mapcar *)
LEMMA ListEndKeeps ==
  ASSUME ListInv, NEW t \in ListThread, Shared!End(t)
  PROVE  ListInv'
<1>1. PICK to \in {"idle", "done"} : slPc' = [slPc EXCEPT ![t] = to]
  BY DEF Shared!End, Shared!Goto
<1>2. /\ slPc[t] \in {"release", "mapcar"}
      /\ slOwner["lock"] = t /\ slOwner' = [slOwner EXCEPT !["lock"] = None]
      /\ UNCHANGED <<slQueue, list, sent, slGot>>
  BY DEF Shared!End, Shared!Goto, Shared!Release
<1>3. Sleepers' = Sleepers
  BY <1>2 DEF Sleepers
<1>4. Looking' = Looking
  BY <1>1, <1>2, <1>3, ListThreads DEF Looking, ListInv, ListTypes
<1>5. ListPlaces'
  BY <1>1, <1>2, <1>3, ListThreads DEF ListInv, ListTypes, ListPlaces
<1>6. ListTypes'
  BY <1>1, <1>2, <1>3, ListThreads DEF ListInv, ListTypes, Places
<1>7. EnoughLooking'
  BY <1>2, <1>3, <1>4 DEF ListInv, EnoughLooking
<1>8. QED
  BY <1>5, <1>6, <1>7 DEF ListInv

(* listEmpty->Wait(lock): who goes to sleep has just seen an empty list. *)
LEMMA ListWaitKeeps ==
  ASSUME ListInv, NEW t \in ListThread, Shared!WaitForItem(t)
  PROVE  ListInv'
<1>1. /\ slPc[t] = "remove" /\ slPc' = [slPc EXCEPT ![t] = "woken"]
      /\ slOwner["lock"] = t /\ slOwner' = [slOwner EXCEPT !["lock"] = None]
      /\ slQueue' = [slQueue EXCEPT !["listEmpty"] = Append(@, t)]
      /\ list = <<>> /\ UNCHANGED <<list, sent, slGot>>
  BY DEF Shared!WaitForItem, Shared!Goto, Shared!Wait
<1>2. /\ Sleepers \in Seq(ListThread) /\ Sleepers' = Append(Sleepers, t)
      /\ ~On(Sleepers, t) /\ Once(Sleepers)
  BY <1>1 DEF ListInv, ListTypes, ListPlaces, Sleepers
<1>3. /\ Sleepers' \in Seq(ListThread) /\ Once(Sleepers')
      /\ \A u : On(Sleepers', u) <=> On(Sleepers, u) \/ u = t
  BY <1>2, QueueAppend
<1>4. slQueue' \in [{"listEmpty"} -> Seq(ListThread)]
  BY <1>1, <1>3 DEF ListInv, ListTypes, Sleepers
<1>5. EnoughLooking'
  <2>1. Looking' \subseteq ListThread
    BY ListThreads DEF Looking
  <2>2. Cardinality(Looking') \in Nat
    BY <2>1, ListThreads, FS_Subset, FS_CardinalityType
  <2>3. QED
    BY <1>1, <2>2 DEF EnoughLooking
<1>6. ListPlaces'
  BY <1>1, <1>3, ListThreads DEF ListInv, ListTypes, ListPlaces
<1>7. ListTypes'
  BY <1>1, <1>3, <1>4, ListThreads DEF ListInv, ListTypes, Places
<1>8. QED
  BY <1>5, <1>6, <1>7 DEF ListInv

(* item = list->Remove(): one item and one remover less *)
LEMMA ListRemoveKeeps ==
  ASSUME ListInv, NEW t \in ListThread, Shared!RemoveItem(t)
  PROVE  ListInv'
<1>1. /\ slPc[t] = "remove" /\ slPc' = [slPc EXCEPT ![t] = "idle"]
      /\ slOwner["lock"] = t /\ slOwner' = [slOwner EXCEPT !["lock"] = None]
      /\ list # <<>> /\ list' = Tail(list) /\ slGot' = [slGot EXCEPT ![t] = Head(list)]
      /\ UNCHANGED <<slQueue, sent>>
  BY DEF Shared!RemoveItem, Shared!Goto, Shared!Release
<1>2. Sleepers' = Sleepers
  BY <1>1 DEF Sleepers
<1>3. /\ Len(list) \in Nat /\ Len(list') = Len(list) - 1 /\ list' \in Seq(1..MaxItems)
      /\ Head(list) \in 1..MaxItems
  <2>1. list \in Seq(1..MaxItems) /\ list # <<>> /\ list' = Tail(list)
    BY <1>1 DEF ListInv, ListTypes
  <2>2. Len(list) \in Nat /\ Len(list') = Len(list) - 1
    BY <2>1
  <2>3. QED
    BY <2>1, <2>2, QueueTail, Zenon
<1>4. \A u \in Removers : u # t => (u \in Looking <=> u \in Looking')
  BY <1>1, <1>2, ListThreads DEF Looking, ListInv, ListTypes
<1>5. t \in Looking /\ t \notin Looking'
  BY <1>1 DEF Looking, ListInv, ListTypes, ListPlaces
<1>6. EnoughLooking'
  BY <1>2, <1>3, <1>4, <1>5, LookingMoves, LookingFinite DEF ListInv, EnoughLooking
<1>7. ListPlaces'
  BY <1>1, <1>2, ListThreads DEF ListInv, ListTypes, ListPlaces
<1>8. ListTypes'
  BY <1>1, <1>2, <1>3, ListThreads DEF ListInv, ListTypes, Places
<1>9. QED
  BY <1>6, <1>7, <1>8 DEF ListInv

(* list->Append(item) with its Signal: one item and, if anyone slept, one
   remover more                                                            *)
LEMMA ListAppendKeeps ==
  ASSUME ListInv, NEW t \in ListThread, Shared!AppendItem(t)
  PROVE  ListInv'
<1>1. /\ slPc[t] = "append" /\ slPc' = [slPc EXCEPT ![t] = "release"]
      /\ slOwner["lock"] = t /\ sent' = sent + 1 /\ list' = Append(list, sent')
      /\ slQueue' = [slQueue EXCEPT !["listEmpty"] = IF @ = <<>> THEN @ ELSE Tail(@)]
      /\ UNCHANGED <<slOwner, slGot>>
  BY DEF Shared!AppendItem, Shared!Goto, Shared!Signal
<1>2. /\ Sleepers \in Seq(ListThread) /\ ~On(Sleepers, t) /\ Once(Sleepers)
      /\ Sleepers' = IF Sleepers = <<>> THEN <<>> ELSE Tail(Sleepers)
  BY <1>1 DEF ListInv, ListTypes, ListPlaces, Sleepers
<1>3. sent' \in 1..MaxItems
  BY <1>1, ListThreads DEF ListInv, ListTypes, ListPlaces
<1>4. Len(list) \in Nat /\ Len(list') = Len(list) + 1 /\ list' \in Seq(1..MaxItems)
  BY <1>1, <1>3 DEF ListInv, ListTypes
<1>5. CASE Sleepers = <<>>
  <2>1. slQueue' = slQueue /\ Sleepers' = Sleepers
    BY <1>1, <1>2, <1>5 DEF Sleepers, ListInv, ListTypes
  <2>2. ListPlaces'
    BY <1>1, <2>1, ListThreads DEF ListInv, ListTypes, ListPlaces
  <2>3. ListTypes'
    BY <1>1, <1>3, <1>4, <2>1, ListThreads DEF ListInv, ListTypes, Places
  <2>4. EnoughLooking'
    BY <1>5, <2>1 DEF EnoughLooking
  <2>5. QED
    BY <2>2, <2>3, <2>4 DEF ListInv
<1>6. CASE Sleepers # <<>>
  <2> DEFINE h == Head(Sleepers)
  <2>1. /\ Sleepers' \in Seq(ListThread) /\ h \in ListThread /\ Once(Sleepers')
        /\ On(Sleepers, h) /\ \A u : On(Sleepers', u) <=> On(Sleepers, u) /\ u # h
    BY <1>2, <1>6, QueueTail
  <2> HIDE DEF h
  <2>2. slQueue' \in [{"listEmpty"} -> Seq(ListThread)]
    BY <1>1, <2>1 DEF ListInv, ListTypes, Sleepers
  <2>3. slPc[h] = "woken" /\ slPc'[h] = "woken" /\ h \in Removers
    BY <1>1, <2>1 DEF ListInv, ListTypes, ListPlaces
  <2>4. \A u \in Removers : u # h => (u \in Looking <=> u \in Looking')
    BY <1>1, <2>1, ListThreads DEF Looking, ListInv, ListTypes
  <2>5. h \notin Looking /\ h \in Looking'
    BY <2>1, <2>3 DEF Looking
  <2>6. EnoughLooking'
    BY <1>4, <1>6, <2>4, <2>5, LookingMoves, LookingFinite DEF ListInv, EnoughLooking
  <2>7. ListPlaces'
    BY <1>1, <2>1, ListThreads DEF ListInv, ListTypes, ListPlaces
  <2>8. ListTypes'
    BY <1>1, <1>3, <1>4, <2>1, <2>2, ListThreads DEF ListInv, ListTypes, Places
  <2>9. QED
    BY <2>6, <2>7, <2>8 DEF ListInv
<1>7. QED
  BY <1>5, <1>6

LEMMA ListStepKeeps ==
  ASSUME ListInv, NEW t \in ListThread, Shared!Step(t)
  PROVE  ListInv'
<1>1. \/ \E op \in {"append", "remove", "mapcar"} :
           Shared!Begin(t, op) /\ (op = "append" => sent < MaxItems) /\ (op = "remove" => t \in Removers)
      \/ Shared!AppendItem(t) \/ Shared!WaitForItem(t) \/ Shared!Resume(t)
      \/ Shared!RemoveItem(t) \/ Shared!End(t)
  BY DEF Shared!Step
<1>2. QED
  BY <1>1, ListBeginKeeps, ListAppendKeeps, ListWaitKeeps, ListResumeKeeps, ListRemoveKeeps,
     ListEndKeeps

(* The invariant holds in every reachable state. *)
LEMMA ListInvariant == Shared!Spec => []ListInv
<1>1. ListInv /\ [Shared!Next]_(Shared!vars) => ListInv'
  <2>1. ListInv /\ Shared!Next => ListInv'
    BY ListStepKeeps DEF Shared!Next
  <2>2. ListInv /\ UNCHANGED Shared!vars => ListInv'
    BY DEF Shared!vars, Shared!synchVars, ListInv, ListTypes, ListPlaces, EnoughLooking,
           Looking, Sleepers
  <2>3. QED
    BY <2>1, <2>2
<1>2. QED
  BY <1>1, ListInitInv, PTL DEF Shared!Spec

(* One Signal per Append is enough for the removers of a synchronized list,
   for any number of threads and items (synchlist.cc 76-78).               *)
THEOREM ListStrandsNobody == Shared!Spec => []Shared!NoStrandedRemover
<1>1. ListInv => Shared!NoStrandedRemover
  <2> SUFFICES ASSUME ListInv PROVE Shared!NoStrandedRemover
    OBVIOUS
  <2>1. Looking = {t \in Removers : slPc[t] = "remove"
                                      \/ (slPc[t] = "woken" /\ ~Shared!Asleep(t, "listEmpty"))}
    BY DEF Looking, Shared!Asleep, On, Sleepers
  <2>2. QED
    BY <2>1, SameCardinality DEF ListInv, EnoughLooking, Shared!NoStrandedRemover, Sleepers
<1>2. QED
  BY <1>1, ListInvariant, PTL

(* The synchronized list is an atomic first-in first-out queue: under any
   interleaving of any number of threads, each operation of synchlist.cc
   takes effect in one step, the item appended or removed.                 *)
THEOREM ListImplementsQueue == Shared!Spec => Shared!ImplementsBlockingQueue
<1>1. Shared!Init => Shared!Queue!Init
  BY DEF Shared!Init, Shared!Queue!Init
<1>2. ListInv /\ [Shared!Next]_(Shared!vars) => [Shared!Queue!Next]_<<list, slGot>>
  <2> SUFFICES ASSUME ListInv, [Shared!Next]_(Shared!vars)
               PROVE  Shared!Queue!Next \/ UNCHANGED <<list, slGot>>
    OBVIOUS
  <2>1. CASE UNCHANGED Shared!vars
    BY <2>1 DEF Shared!vars
  <2>2. ASSUME NEW t \in ListThread, NEW op, Shared!Begin(t, op)
        PROVE  Shared!Queue!Next
    <3>1. Shared!Queue!Ask(t)
      BY <2>2 DEF Shared!Begin, Shared!Queue!Ask
    <3>2. QED
      BY <3>1 DEF Shared!Queue!Next
  <2>3. ASSUME NEW t \in ListThread, Shared!AppendItem(t)
        PROVE  Shared!Queue!Next
    <3>1. sent' \in 1..MaxItems
      BY <2>3, ListThreads DEF ListInv, ListTypes, ListPlaces, Shared!AppendItem, Shared!Goto
    <3>2. Shared!Queue!Put(sent')
      BY <2>3 DEF Shared!AppendItem, Shared!Queue!Put
    <3>3. QED
      BY <3>1, <3>2 DEF Shared!Queue!Next
  <2>4. ASSUME NEW t \in ListThread, Shared!RemoveItem(t)
        PROVE  Shared!Queue!Next
    <3>1. slGot[t] = None
      BY <2>4 DEF ListInv, ListPlaces, Shared!RemoveItem, Shared!Goto
    <3>2. Shared!Queue!Get(t)
      BY <2>4, <3>1 DEF Shared!RemoveItem, Shared!Queue!Get
    <3>3. QED
      BY <3>2 DEF Shared!Queue!Next
  <2>5. ASSUME NEW t \in ListThread, Shared!WaitForItem(t) \/ Shared!Resume(t) \/ Shared!End(t)
        PROVE  UNCHANGED <<list, slGot>>
    BY <2>5 DEF Shared!WaitForItem, Shared!Resume, Shared!End
  <2>6. CASE Shared!Next
    BY <2>6, <2>2, <2>3, <2>4, <2>5 DEF Shared!Next, Shared!Step
  <2>7. QED
    BY <2>1, <2>6
<1>3. QED
  BY <1>1, <1>2, ListInvariant, PTL
  DEF Shared!Spec, Shared!ImplementsBlockingQueue, Shared!Queue!Spec

-----------------------------------------------------------------------------
(* Neither the monitor of Producer1 and Customer1 nor the synchronized list
   leaves a thread asleep beside what it waits for.                        *)
THEOREM ProgramsStrandNobody == ProgramsSpec => []NobodyStranded
<1>1. Monitor!NoStrandedWaiter /\ Shared!NoStrandedRemover => NobodyStranded
  BY DEF NobodyStranded
<1>2. QED
  BY <1>1, MonitorStrandsNobody, ListStrandsNobody, PTL DEF ProgramsSpec

(* The synchronized list implements an atomic queue beside the other programs. *)
THEOREM ProgramsQueueIsAtomic == ProgramsSpec => ImplementsBlockingQueue
BY ListImplementsQueue, PTL DEF ProgramsSpec, ImplementsBlockingQueue
=============================================================================
