-------------------------- MODULE ProducerConsumer --------------------------
(***************************************************************************)
(* Producers and consumers with three semaphores (threads/threadtest.cc,   *)
(* lab 3): Producer, Customer and ThreadProducerConsumerTest.  Simulated   *)
(* time only advances at the end of P and V, so a step is the code up to   *)
(* and including the next P or V.                                          *)
(***************************************************************************)
EXTENDS SynchSpec, FiniteSets

CONSTANTS
  Producers, Customers,  \* the threads that run Producer and Customer
  N,                     \* size of the buffer
  empty, mutex, full     \* the semaphores

ASSUME ProducerConsumerAssumption ==
  /\ N \in Nat \ {0}
  /\ Thread = Producers \cup Customers
  /\ Producers \cap Customers = {}
  /\ IsFiniteSet(Thread)
  /\ Semaphore = {empty, mutex, full}
  /\ empty # mutex /\ empty # full /\ mutex # full
  /\ initialValue[empty] = N /\ initialValue[mutex] = 1 /\ initialValue[full] = 0

VARIABLES
  pc,       \* what each thread does next
  msgQueue  \* how many messages are in the buffer

vars == <<synchVars, pc, msgQueue>>

Init ==
  /\ SynchInit
  /\ pc = [t \in Thread |-> "claim"]
  /\ msgQueue = 0

Goto(t, from, to) == pc[t] = from /\ pc' = [pc EXCEPT ![t] = to]

(* Mutant of Claim: a producer forgets to wait for a free slot. *)
ClaimUnchecked(t) ==
  /\ Goto(t, "claim", "lock")
  /\ IF t \in Producers THEN UNCHANGED synchVars ELSE P(full)
  /\ UNCHANGED msgQueue

(* empty->P() of a producer, full->P() of a consumer *)
Claim(t) ==
  /\ Goto(t, "claim", "lock")
  /\ P(IF t \in Producers THEN empty ELSE full)
  /\ UNCHANGED msgQueue

(* Mutant of Enter: the critical section is entered without the mutex. *)
EnterUnlocked(t) ==
  /\ Goto(t, "lock", "change")
  /\ UNCHANGED <<synchVars, msgQueue>>

(* mutex->P() *)
Enter(t) ==
  /\ Goto(t, "lock", "change")
  /\ P(mutex)
  /\ UNCHANGED msgQueue

(* The producer's part of the critical section, up to mutex->V(); a full
   buffer is only reported.                                                *)
Produce(t) ==
  /\ t \in Producers
  /\ Goto(t, "change", "publish")
  /\ msgQueue' = IF msgQueue >= N THEN msgQueue ELSE msgQueue + 1
  /\ V(mutex)

(* The consumer's part, up to mutex->V(). *)
Consume(t) ==
  /\ t \in Customers
  /\ Goto(t, "change", "publish")
  /\ msgQueue' = IF msgQueue <= 0 THEN msgQueue ELSE msgQueue - 1
  /\ V(mutex)

(* Mutant of Publish: the two semaphores are exchanged. *)
PublishSwapped(t) ==
  /\ Goto(t, "publish", "claim")
  /\ V(IF t \in Producers THEN empty ELSE full)
  /\ UNCHANGED msgQueue

(* full->V() of a producer, empty->V() of a consumer *)
Publish(t) ==
  /\ Goto(t, "publish", "claim")
  /\ V(IF t \in Producers THEN full ELSE empty)
  /\ UNCHANGED msgQueue

Step(t) == Claim(t) \/ Enter(t) \/ Produce(t) \/ Consume(t) \/ Publish(t)

Next == \E t \in Thread : Step(t)

(* Every thread that can go on is dispatched again and again. *)
Fairness == \A t \in Thread : WF_vars(Step(t))

Spec == Init /\ [][Next]_vars

FairSpec == Spec /\ Fairness

-----------------------------------------------------------------------------
(* Threads of T whose next step is one of those in at. *)
At(T, at) == {t \in T : pc[t] \in at}

(* Every variable has its type. *)
TypeOK ==
  /\ value \in [Semaphore -> Nat]
  /\ pc \in [Thread -> {"claim", "lock", "change", "publish"}]
  /\ msgQueue \in 0..N

(* Exactly one thread is between mutex->P() and mutex->V() while the mutex is
   taken, and none while it is free.                                       *)
CriticalSection == Cardinality(At(Thread, {"change"})) + value[mutex] = 1

(* Each of the N slots is at any time in one place: counted by empty or by
   full, or claimed by one thread that has not given it back
   (threadtest.cc 118-128, 136-146).                                       *)
SlotsAccounted ==
  value[empty] + value[full] + Cardinality(At(Thread, {"lock", "change", "publish"})) = N

(* The messages in the buffer are those that full counts, those whose
   producer has yet to announce them and those whose consumer has yet to
   take them.                                                              *)
MessagesAccounted ==
  msgQueue = value[full] + Cardinality(At(Producers, {"publish"}))
               + Cardinality(At(Customers, {"lock", "change"}))

(* The branches that report a full or an empty buffer (threadtest.cc 120,
   138) are dead code: no interleaving of the threads gets there.          *)
BufferNeverOverrun ==
  /\ \A t \in At(Producers, {"change"}) : msgQueue < N
  /\ \A t \in At(Customers, {"change"}) : msgQueue > 0

(* The three semaphores keep the books of the buffer under any interleaving:
   one thread at a time in the critical section, no slot or message lost or
   counted twice, and never a full buffer for a producer or an empty one for
   a consumer.                                                             *)
BufferCorrect ==
  CriticalSection /\ SlotsAccounted /\ MessagesAccounted /\ BufferNeverOverrun

(* The threads never all wait for each other: messages are produced and
   consumed for ever, for any buffer size.                                 *)
Progress ==
  /\ []<><<\E t \in Thread : Produce(t)>>_vars
  /\ []<><<\E t \in Thread : Consume(t)>>_vars
=============================================================================
