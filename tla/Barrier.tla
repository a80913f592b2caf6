------------------------------ MODULE Barrier -------------------------------
(***************************************************************************)
(* The barrier of threads/threadtest.cc (lab 3): barrierThreadTest forks   *)
(* barrierThreadNum threads that each run barrierFun once.  A step is the  *)
(* code up to and including the next operation on the lock or condition.   *)
(***************************************************************************)
EXTENDS SynchSpec, FiniteSets

CONSTANTS barrLock, barrCond  \* the only Lock, the only Condition

barrierThreadNum == Cardinality(Thread)

VARIABLES
  pc,          \* what each thread does next
  barrierCnt   \* how many threads have arrived

vars == <<synchVars, pc, barrierCnt>>

Init ==
  /\ SynchInit
  /\ pc = [t \in Thread |-> "acquire"]
  /\ barrierCnt = 0

Goto(t, from, to) == pc[t] = from /\ pc' = [pc EXCEPT ![t] = to]

(* barrLock->Acquire() *)
AcquireLock(t) ==
  /\ Goto(t, "acquire", "arrive")
  /\ Acquire(t, barrLock)
  /\ UNCHANGED barrierCnt

(* Mutant of Arrive: a thread that is not the last polls with the lock held. *)
ArrivePolling(t) ==
  \/ /\ barrierCnt + 1 = barrierThreadNum
     /\ barrierCnt' = barrierCnt + 1
     /\ Goto(t, "arrive", "release")
     /\ Broadcast(t, barrCond, barrLock)
  \/ /\ barrierCnt + 1 # barrierThreadNum
     /\ pc[t] = "arrive"
     /\ UNCHANGED vars

(* Mutant of Arrive: the last thread but one opens the barrier. *)
ArriveEarly(t) ==
  /\ barrierCnt' = barrierCnt + 1
  /\ \/ /\ barrierCnt' >= barrierThreadNum - 1
        /\ Goto(t, "arrive", "release")
        /\ Broadcast(t, barrCond, barrLock)
     \/ /\ barrierCnt' < barrierThreadNum - 1
        /\ Goto(t, "arrive", "woken")
        /\ Wait(t, barrCond, barrLock)

(* ++barrierCnt, then Broadcast by the last thread to arrive or Wait by the
   others.                                                                 *)
Arrive(t) ==
  /\ barrierCnt' = barrierCnt + 1
  /\ \/ /\ barrierCnt' = barrierThreadNum
        /\ Goto(t, "arrive", "release")
        /\ Broadcast(t, barrCond, barrLock)
     \/ /\ barrierCnt' # barrierThreadNum
        /\ Goto(t, "arrive", "woken")
        /\ Wait(t, barrCond, barrLock)

(* The end of Wait, which takes the lock again; nothing is tested again. *)
Resume(t) ==
  /\ ~Asleep(t, barrCond)
  /\ Goto(t, "woken", "release")
  /\ Acquire(t, barrLock)
  /\ UNCHANGED barrierCnt

(* barrLock->Release(), after which the thread is past the barrier. *)
ReleaseLock(t) ==
  /\ Goto(t, "release", "past")
  /\ Release(t, barrLock)
  /\ UNCHANGED barrierCnt

Step(t) == AcquireLock(t) \/ Arrive(t) \/ Resume(t) \/ ReleaseLock(t)

Next == \E t \in Thread : Step(t)

Spec == Init /\ [][Next]_vars

(* Every thread that can go on is dispatched again and again. *)
FairSpec == Spec /\ \A t \in Thread : WF_vars(Step(t))

-----------------------------------------------------------------------------
(* "if and only if barrierThreadNum threads have arrived may they run on"
   (threadtest.cc 263), although a woken thread does not test the count
   again: a thread leaves Wait or passes only after every thread arrived,
   and then the condition's queue stays empty.                             *)
AllArrivedBeforeAnyPasses ==
  (\E t \in Thread : pc[t] \in {"release", "past"} \/ (pc[t] = "woken" /\ ~Asleep(t, barrCond)))
  => /\ barrierCnt = barrierThreadNum
     /\ queue[barrCond] = <<>>
     /\ \A t \in Thread : pc[t] \in {"woken", "release", "past"}

(* Nobody is left behind: the single Broadcast gets every thread past the
   barrier, whatever the order of arrival.                                 *)
AllPass == <>(\A t \in Thread : pc[t] = "past")
=============================================================================
