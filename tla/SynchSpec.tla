----------------------------- MODULE SynchSpec ------------------------------
(***************************************************************************)
(* What the semaphores, locks and conditions of threads/synch.cc promise   *)
(* to the code that uses them: every operation is atomic, whoever asks     *)
(* first may get what is free, and a thread that is not able to go on      *)
(* simply has no step.  Module Synch shows that the routines of synch.cc,  *)
(* with their sleeping and waking, implement this; the programs            *)
(* and drivers that use them extend this module.                           *)
(***************************************************************************)
EXTENDS Integers, Sequences

CONSTANTS
  Thread, None,                \* the threads, and NULL
  Semaphore, Lock, Condition,  \* the synchronization objects
  initialValue                 \* argument of each Semaphore's constructor

ASSUME SynchSpecAssumption ==
  None \notin Thread /\ initialValue \in [Semaphore -> Nat]

VARIABLES
  value,   \* Semaphore::value
  owner,   \* Lock::owner
  queue    \* the threads asleep in Condition::Wait, oldest first

synchVars == <<value, owner, queue>>

SynchInit ==
  /\ value = initialValue
  /\ owner = [l \in Lock |-> None]
  /\ queue = [c \in Condition |-> <<>>]

(* Semaphore::P returns. *)
P(s) ==
  /\ value[s] > 0
  /\ value' = [value EXCEPT ![s] = @ - 1]
  /\ UNCHANGED <<owner, queue>>

(* Semaphore::V *)
V(s) ==
  /\ value' = [value EXCEPT ![s] = @ + 1]
  /\ UNCHANGED <<owner, queue>>

(* Lock::Acquire returns, or the Acquire at the end of Condition::Wait. *)
Acquire(t, l) ==
  /\ owner[l] = None
  /\ owner' = [owner EXCEPT ![l] = t]
  /\ UNCHANGED <<value, queue>>

(* Lock::Release, by the holder. *)
Release(t, l) ==
  /\ owner[l] = t
  /\ owner' = [owner EXCEPT ![l] = None]
  /\ UNCHANGED <<value, queue>>

(* Condition::Wait up to its Sleep, by the holder of the lock. *)
Wait(t, c, l) ==
  /\ owner[l] = t
  /\ owner' = [owner EXCEPT ![l] = None]
  /\ queue' = [queue EXCEPT ![c] = Append(@, t)]
  /\ UNCHANGED value

(* t sleeps in Wait on c. *)
Asleep(t, c) == \E i \in 1..Len(queue[c]) : queue[c][i] = t

(* Condition::Signal, by the holder of the lock. *)
Signal(t, c, l) ==
  /\ owner[l] = t
  /\ queue' = [queue EXCEPT ![c] = IF @ = <<>> THEN @ ELSE Tail(@)]
  /\ UNCHANGED <<value, owner>>

(* Condition::Broadcast, by the holder of the lock. *)
Broadcast(t, c, l) ==
  /\ owner[l] = t
  /\ queue' = [queue EXCEPT ![c] = <<>>]
  /\ UNCHANGED <<value, owner>>

SynchNext ==
  \/ \E s \in Semaphore : P(s) \/ V(s)
  \/ \E t \in Thread, l \in Lock :
       \/ Acquire(t, l) \/ Release(t, l)
       \/ \E c \in Condition : Wait(t, c, l) \/ Signal(t, c, l) \/ Broadcast(t, c, l)

SynchAtomic == SynchInit /\ [][SynchNext]_synchVars
=============================================================================
