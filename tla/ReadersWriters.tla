--------------------------- MODULE ReadersWriters ---------------------------
(***************************************************************************)
(* Readers and writers of threads/threadtest.cc (lab 3): readFunc,         *)
(* writeFunc and readWriteThreadTest.  A step is the code up to and        *)
(* including the next operation on rLock or wLock; the Yield at the end of *)
(* a round only lets other threads go first, which every step does.        *)
(***************************************************************************)
EXTENDS SynchSpec, FiniteSets

CONSTANTS
  Readers, Writers,  \* the threads that run readFunc and writeFunc, all of Thread
  rLock, wLock,      \* the lock on rCnt, the semaphore of the writers, initially 1
  IntBits            \* width of bufSize

VARIABLES
  pc,       \* what each thread does next
  rCnt,     \* how many readers there are
  bufSize   \* what is read and written

vars == <<synchVars, pc, rCnt, bufSize>>

Init ==
  /\ SynchInit
  /\ pc = [t \in Thread |-> IF t \in Readers THEN "arrive" ELSE "lockWriters"]
  /\ rCnt = 0
  /\ bufSize = 0

Goto(t, from, to) == pc[t] = from /\ pc' = [pc EXCEPT ![t] = to]

(* A reader's first rLock->Acquire() *)
Arrive(t) ==
  /\ Goto(t, "arrive", "enter")
  /\ Acquire(t, rLock)
  /\ UNCHANGED <<rCnt, bufSize>>

(* ++rCnt; the first reader goes on to wLock->P() with rLock held, the others
   release rLock.                                                          *)
Enter(t) ==
  /\ rCnt' = rCnt + 1
  /\ \/ rCnt' = 1 /\ Goto(t, "enter", "first") /\ UNCHANGED synchVars
     \/ rCnt' # 1 /\ Goto(t, "enter", "read") /\ Release(t, rLock)
  /\ UNCHANGED bufSize

(* wLock->P() of the first reader *)
LockWriters(t) ==
  /\ Goto(t, "first", "entered")
  /\ P(wLock)
  /\ UNCHANGED <<rCnt, bufSize>>

(* The first reader's rLock->Release() *)
EnterFirst(t) ==
  /\ Goto(t, "entered", "read")
  /\ Release(t, rLock)
  /\ UNCHANGED <<rCnt, bufSize>>

(* bufSize is read, then rLock->Acquire() *)
Read(t) ==
  /\ Goto(t, "read", "leave")
  /\ Acquire(t, rLock)
  /\ UNCHANGED <<rCnt, bufSize>>

(* Mutant of Leave: every reader that leaves lets the writers in. *)
LeaveUnlocks(t) ==
  /\ rCnt' = rCnt - 1
  /\ Goto(t, "leave", "left") /\ V(wLock)
  /\ UNCHANGED bufSize

(* Mutant of Leave: the count is tested before it is decremented. *)
LeaveTestFirst(t) ==
  /\ rCnt' = rCnt - 1
  /\ \/ rCnt = 0 /\ Goto(t, "leave", "left") /\ V(wLock)
     \/ rCnt # 0 /\ Goto(t, "leave", "arrive") /\ Release(t, rLock)
  /\ UNCHANGED bufSize

(* --rCnt; the last reader calls wLock->V(), the others release rLock. *)
Leave(t) ==
  /\ rCnt' = rCnt - 1
  /\ \/ rCnt' = 0 /\ Goto(t, "leave", "left") /\ V(wLock)
     \/ rCnt' # 0 /\ Goto(t, "leave", "arrive") /\ Release(t, rLock)
  /\ UNCHANGED bufSize

(* The last reader's rLock->Release() *)
LeaveLast(t) ==
  /\ Goto(t, "left", "arrive")
  /\ Release(t, rLock)
  /\ UNCHANGED <<rCnt, bufSize>>

(* A writer's wLock->P() *)
StartWrite(t) ==
  /\ Goto(t, "lockWriters", "write")
  /\ P(wLock)
  /\ UNCHANGED <<rCnt, bufSize>>

(* ++bufSize and wLock->V() *)
Write(t) ==
  /\ Goto(t, "write", "lockWriters")
  /\ bufSize' = (bufSize + 1) % 2^IntBits
  /\ V(wLock)
  /\ UNCHANGED rCnt

Next ==
  \/ \E t \in Readers : Arrive(t) \/ Enter(t) \/ LockWriters(t) \/ EnterFirst(t)
                          \/ Read(t) \/ Leave(t) \/ LeaveLast(t)
  \/ \E t \in Writers : StartWrite(t) \/ Write(t)

Spec == Init /\ [][Next]_vars

-----------------------------------------------------------------------------
(* Threads whose next step is one of those in at. *)
At(at) == {t \in Thread : pc[t] \in at}

(* Readers that hold wLock together: from its P to its V. *)
Reading == At({"read", "leave"})

(* The semaphore is at any time free, held by one writer, or held by the
   readers together: taken by the first and given back by the last, who need
   not be the same thread (threadtest.cc 304-306, 315-317).                *)
WriteLockExact ==
  1 = value[wLock] + Cardinality(At({"write"}))
      + (IF rCnt > 0 /\ At({"first"}) = {} THEN 1 ELSE 0)

(* A reader reads only while no writer is between its P and its V, and rCnt
   then counts exactly the readers inside.                                 *)
ReadersExcludeWriters ==
  Reading # {} =>
    /\ At({"write"}) = {}
    /\ rCnt = Cardinality(Reading \cup At({"first", "entered"}))
=============================================================================
