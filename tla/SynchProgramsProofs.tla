------------------------ MODULE SynchProgramsProofs -------------------------
(***************************************************************************)
(* The producers and consumers with semaphores, the barrier, the readers   *)
(* and writers of threads/threadtest.cc are safe for any number of threads *)
(* and any size of the buffer.                                             *)
(***************************************************************************)
EXTENDS FiniteSetTheorems, SynchPrograms, TLAPS

(* A leaf that names no prover is for SMT, twice, and then for Zenon. *)
USE SMTT(10), Z3T(20), Zenon

(* Two finite sets that agree except on one element. *)
LEMMA OneDiffers ==
  ASSUME NEW A, NEW B, NEW t, IsFiniteSet(A), \A u : u # t => (u \in A <=> u \in B)
  PROVE  /\ IsFiniteSet(B) /\ Cardinality(A) \in Nat /\ Cardinality(B) \in Nat
         /\ Cardinality(B) = Cardinality(A) + (IF t \in B THEN 1 ELSE 0)
                                            - (IF t \in A THEN 1 ELSE 0)
<1>1. Cardinality(A) \in Nat
  BY FS_CardinalityType
<1>2. CASE t \in A /\ t \notin B
  <2>1. B = A \ {t}
    BY <1>2
  <2>2. QED
    BY <1>1, <1>2, <2>1, FS_RemoveElement, FS_CardinalityType
<1>3. CASE t \notin A /\ t \in B
  <2>1. B = A \cup {t}
    BY <1>3
  <2>2. QED
    BY <1>1, <1>3, <2>1, FS_AddElement, FS_CardinalityType
<1>4. CASE t \in A <=> t \in B
  <2>1. A = B
    BY <1>4
  <2>2. QED
    BY <1>1, <1>4, <2>1
<1>5. QED
  BY <1>2, <1>3, <1>4

(* The modules instantiated in SynchPrograms count as this one does. *)
LEMMA SameCardinality ==
  \A S : /\ Monitor!Cardinality(S) = Cardinality(S)
         /\ Meeting!Cardinality(S) = Cardinality(S)
         /\ Library!Cardinality(S) = Cardinality(S)
         /\ Shared!Cardinality(S) = Cardinality(S)
<1>1. \A S : Monitor!Cardinality(S) = Cardinality(S)
  BY Zenon DEF Monitor!Cardinality, Cardinality
<1>2. \A S : Meeting!Cardinality(S) = Cardinality(S)
  BY Zenon DEF Meeting!Cardinality, Cardinality
<1>3. \A S : Library!Cardinality(S) = Cardinality(S)
  BY Zenon DEF Library!Cardinality, Cardinality
<1>4. \A S : Shared!Cardinality(S) = Cardinality(S)
  BY Zenon DEF Shared!Cardinality, Cardinality
<1>5. QED
  BY <1>1, <1>2, <1>3, <1>4

(* t is one of the threads of the queue q; no thread is on q twice. *)
On(q, t) == \E i \in 1..Len(q) : q[i] = t
Once(q) == \A i, j \in 1..Len(q) : q[i] = q[j] => i = j

(* A thread joins a queue of a condition, at its end. *)
LEMMA QueueAppend ==
  ASSUME NEW S, NEW q \in Seq(S), NEW t \in S
  PROVE  /\ Append(q, t) \in Seq(S)
         /\ \A u : On(Append(q, t), u) <=> On(q, u) \/ u = t
         /\ Once(q) /\ ~On(q, t) => Once(Append(q, t))
<1> DEFINE r == Append(q, t)
<1>1. /\ r \in Seq(S) /\ Len(r) = Len(q) + 1 /\ Len(q) \in Nat /\ r[Len(q) + 1] = t
      /\ \A i \in 1..Len(q) : r[i] = q[i]
  OBVIOUS
<1> HIDE DEF r
<1>2. ASSUME NEW u PROVE On(r, u) <=> On(q, u) \/ u = t
  <2>1. On(q, u) => On(r, u)
    BY <1>1 DEF On
  <2>2. On(r, t)
    BY <1>1 DEF On
  <2>3. On(r, u) /\ u # t => On(q, u)
    BY <1>1 DEF On
  <2>4. QED
    BY <2>1, <2>2, <2>3
<1>3. ASSUME Once(q), ~On(q, t) PROVE Once(r)
  BY <1>1, <1>3 DEF On, Once
<1>4. QED
  BY <1>1, <1>2, <1>3 DEF r

(* The first thread leaves the queue, when it is signalled. *)
LEMMA QueueTail ==
  ASSUME NEW S, NEW q \in Seq(S), q # <<>>
  PROVE  /\ Tail(q) \in Seq(S) /\ Head(q) \in S /\ On(q, Head(q))
         /\ Once(q) => Once(Tail(q)) /\ \A u : On(Tail(q), u) <=> On(q, u) /\ u # Head(q)
<1> DEFINE r == Tail(q)
<1>1. /\ r \in Seq(S) /\ Len(q) \in Nat /\ Len(q) > 0 /\ Len(r) = Len(q) - 1
      /\ Head(q) = q[1] /\ Head(q) \in S
      /\ \A i \in 1..(Len(q) - 1) : r[i] = q[i + 1]
  OBVIOUS
<1> HIDE DEF r
<1>2. On(q, Head(q))
  BY <1>1 DEF On
<1>3. ASSUME Once(q) PROVE Once(r)
  <2> SUFFICES ASSUME NEW i \in 1..Len(r), NEW j \in 1..Len(r), r[i] = r[j] PROVE i = j
    BY DEF Once
  <2>1. i + 1 \in 1..Len(q) /\ j + 1 \in 1..Len(q) /\ q[i + 1] = q[j + 1]
    BY <1>1
  <2>2. QED
    BY <1>3, <2>1 DEF Once
<1>4. ASSUME Once(q), NEW u PROVE On(r, u) <=> On(q, u) /\ u # Head(q)
  <2>1. ASSUME NEW i \in 1..Len(r), r[i] = u PROVE On(q, u) /\ u # Head(q)
    <3>1. i + 1 \in 1..Len(q) /\ 1 \in 1..Len(q) /\ q[i + 1] = u /\ i + 1 # 1
      BY <1>1, <2>1
    <3>2. QED
      BY <1>1, <1>4, <3>1 DEF On, Once
  <2>2. ASSUME NEW i \in 1..Len(q), q[i] = u, u # Head(q) PROVE On(r, u)
    <3>1. i - 1 \in 1..Len(r) /\ r[i - 1] = u
      BY <1>1, <2>2
    <3>2. QED
      BY <3>1 DEF On
  <2>3. QED
    BY <2>1, <2>2 DEF On
<1>5. QED
  BY <1>1, <1>2, <1>3, <1>4 DEF r

-----------------------------------------------------------------------------
(* The inductive invariant: the values of the semaphores, the messages in the
   buffer and the places of the threads account for each other.            *)
BufferInv ==
  /\ TypeOK
  /\ CriticalSection
  /\ SlotsAccounted
  /\ MessagesAccounted

LEMMA SemaphoresDiffer ==
  /\ {empty, mutex, full} \subseteq Semaphore
  /\ empty # mutex /\ empty # full /\ mutex # full
BY ProducerConsumerAssumption

(* The number of threads of T that are in one of the places of at. *)
Count(T, at) == Cardinality(At(T, at))

LEMMA CountIsNat ==
  ASSUME NEW T \in SUBSET Thread, NEW at
  PROVE  IsFiniteSet(At(T, at)) /\ Count(T, at) \in Nat
<1>1. IsFiniteSet(At(T, at))
  BY ProducerConsumerAssumption, FS_Subset DEF At
<1>2. QED
  BY <1>1, FS_CardinalityType DEF Count

(* A thread that goes on is counted where it arrives, and no longer where it
   came from.                                                              *)
LEMMA CountMoves ==
  ASSUME TypeOK, NEW T \in SUBSET Thread, NEW at, NEW t \in Thread, NEW from, NEW to,
         Goto(t, from, to)
  PROVE  Count(T, at)' = Count(T, at)
                           + (IF t \in T /\ to \in at THEN 1 ELSE 0)
                           - (IF t \in T /\ from \in at THEN 1 ELSE 0)
<1> USE CountIsNat
<1>1. pc[t] = from /\ pc'[t] = to /\ \A u \in Thread : u # t => pc'[u] = pc[u]
  BY DEF Goto, TypeOK
<1>2. \A u : u # t => (u \in At(T, at) <=> u \in At(T, at)')
  BY <1>1 DEF At
<1>3. /\ t \in At(T, at) <=> t \in T /\ from \in at
      /\ t \in At(T, at)' <=> t \in T /\ to \in at
  BY <1>1 DEF At
<1>4. QED
  BY <1>2, <1>3, OneDiffers DEF Count

(* The counts of the invariant, as numbers. *)
LEMMA Counts ==
  /\ CriticalSection <=> Count(Thread, {"change"}) + value[mutex] = 1
  /\ SlotsAccounted <=>
       value[empty] + value[full] + Count(Thread, {"lock", "change", "publish"}) = N
  /\ MessagesAccounted <=>
       msgQueue = value[full] + Count(Producers, {"publish"})
                    + Count(Customers, {"lock", "change"})
  /\ Count(Thread, {"change"}) \in Nat
  /\ Count(Thread, {"lock", "change", "publish"}) \in Nat
  /\ Count(Producers, {"publish"}) \in Nat
  /\ Count(Customers, {"lock", "change"}) \in Nat
<1>1. Producers \subseteq Thread /\ Customers \subseteq Thread
  BY ProducerConsumerAssumption
<1>2. QED
  BY <1>1, CountIsNat DEF CriticalSection, SlotsAccounted, MessagesAccounted, Count

LEMMA CountsAfter ==
  /\ CriticalSection' <=> Count(Thread, {"change"})' + value'[mutex] = 1
  /\ SlotsAccounted' <=>
       value'[empty] + value'[full] + Count(Thread, {"lock", "change", "publish"})' = N
  /\ MessagesAccounted' <=>
       msgQueue' = value'[full] + Count(Producers, {"publish"})'
                     + Count(Customers, {"lock", "change"})'
BY DEF CriticalSection, SlotsAccounted, MessagesAccounted, Count

LEMMA DisjointUnion ==
  ASSUME NEW A, NEW B, IsFiniteSet(A), IsFiniteSet(B), A \cap B = {}
  PROVE  IsFiniteSet(A \cup B) /\ Cardinality(A \cup B) = Cardinality(A) + Cardinality(B)
<1>1. Cardinality(A \cap B) = 0
  BY FS_EmptySet
<1>2. Cardinality(A) \in Nat /\ Cardinality(B) \in Nat
  BY FS_CardinalityType
<1>3. /\ IsFiniteSet(A \cup B)
      /\ Cardinality(A \cup B) = Cardinality(A) + Cardinality(B) - Cardinality(A \cap B)
  BY FS_Union
<1>4. QED
  BY <1>1, <1>2, <1>3

(* The threads that hold a slot include those whose messages are counted and,
   beside them, any one producer that has not put its message yet.         *)
LEMMA HoldersBound ==
  ASSUME NEW extra \in SUBSET At(Producers, {"change"}), Cardinality(extra) \in Nat, IsFiniteSet(extra)
  PROVE  Count(Producers, {"publish"}) + Count(Customers, {"lock", "change"}) + Cardinality(extra)
           <= Count(Thread, {"lock", "change", "publish"})
<1> DEFINE a == At(Producers, {"publish"})
           b == At(Customers, {"lock", "change"})
           c == At(Thread, {"lock", "change", "publish"})
<1>1. Producers \subseteq Thread /\ Customers \subseteq Thread /\ Producers \cap Customers = {}
  BY ProducerConsumerAssumption
<1>2. /\ IsFiniteSet(a) /\ Cardinality(a) \in Nat
      /\ IsFiniteSet(b) /\ Cardinality(b) \in Nat
      /\ IsFiniteSet(c) /\ Cardinality(c) \in Nat
  BY <1>1, CountIsNat DEF Count
<1>3. a \cap b = {} /\ a \cup b \subseteq c
  BY <1>1 DEF At
<1>4. (a \cup b) \cap extra = {} /\ (a \cup b) \cup extra \subseteq c
  BY <1>1 DEF At
<1> HIDE DEF a, b, c
<1>5. IsFiniteSet(a \cup b) /\ Cardinality(a \cup b) = Cardinality(a) + Cardinality(b)
  BY <1>2, <1>3, DisjointUnion
<1>6. Cardinality((a \cup b) \cup extra) = Cardinality(a \cup b) + Cardinality(extra)
  BY <1>4, <1>5, DisjointUnion, Zenon
<1>7. Cardinality((a \cup b) \cup extra) <= Cardinality(c)
  BY <1>2, <1>4, FS_Subset
<1>8. QED
  BY <1>5, <1>6, <1>7 DEF Count, a, b, c

(* A producer in the critical section finds a free slot, a consumer a message. *)
LEMMA InvBounds == BufferInv => BufferNeverOverrun
<1> SUFFICES ASSUME BufferInv PROVE BufferNeverOverrun
  OBVIOUS
<1>1. value[empty] \in Nat /\ value[full] \in Nat /\ N \in Nat /\ msgQueue \in Int
  BY SemaphoresDiffer, ProducerConsumerAssumption DEF BufferInv, TypeOK
<1>2. ASSUME NEW t \in At(Producers, {"change"}) PROVE msgQueue < N
  <2>1. IsFiniteSet({t}) /\ Cardinality({t}) = 1
    BY FS_Singleton, Zenon
  <2>2. Count(Producers, {"publish"}) + Count(Customers, {"lock", "change"}) + 1
          <= Count(Thread, {"lock", "change", "publish"})
    BY <1>2, <2>1, HoldersBound
  <2>3. QED
    BY <1>1, <2>2, Counts DEF BufferInv
<1>3. ASSUME NEW t \in At(Customers, {"change"}) PROVE msgQueue > 0
  <2>1. IsFiniteSet(At(Customers, {"lock", "change"})) /\ t \in At(Customers, {"lock", "change"})
    BY <1>3, CountIsNat, ProducerConsumerAssumption, Zenon DEF At
  <2>2. Count(Customers, {"lock", "change"}) # 0
    BY <2>1, FS_EmptySet DEF Count
  <2>3. QED
    BY <1>1, <2>2, Counts DEF BufferInv
<1>4. QED
  BY <1>2, <1>3 DEF BufferNeverOverrun

LEMMA BufferInitInv == Init => BufferInv
<1> SUFFICES ASSUME Init PROVE BufferInv
  OBVIOUS
<1>1. /\ value \in [Semaphore -> Nat] /\ value[empty] = N /\ value[mutex] = 1 /\ value[full] = 0
      /\ msgQueue = 0 /\ N \in Nat
  BY ProducerConsumerAssumption, SynchSpecAssumption DEF Init, SynchInit
<1>2. TypeOK
  BY <1>1 DEF TypeOK, Init
<1>3. ASSUME NEW T \in SUBSET Thread, NEW at, "claim" \notin at PROVE Count(T, at) = 0
  <2>1. At(T, at) = {}
    BY <1>3 DEF At, Init
  <2>2. QED
    BY <2>1, FS_EmptySet DEF Count
<1>4. Producers \subseteq Thread /\ Customers \subseteq Thread
  BY ProducerConsumerAssumption
<1>5. /\ Count(Thread, {"change"}) = 0 /\ Count(Thread, {"lock", "change", "publish"}) = 0
      /\ Count(Producers, {"publish"}) = 0 /\ Count(Customers, {"lock", "change"}) = 0
  BY <1>3, <1>4
<1>6. CriticalSection /\ SlotsAccounted /\ MessagesAccounted
  BY <1>1, <1>5, Counts
<1>7. QED
  BY <1>2, <1>6 DEF BufferInv

(* What a thread's P or V leaves of the semaphores. *)
LEMMA StepKeepsTypes ==
  ASSUME BufferInv, NEW t \in Thread, Step(t)
  PROVE  TypeOK'
<1>1. /\ {empty, mutex, full} \subseteq Semaphore /\ N \in Nat
      /\ value \in [Semaphore -> Nat] /\ msgQueue \in 0..N
      /\ pc \in [Thread -> {"claim", "lock", "change", "publish"}]
  BY SemaphoresDiffer, ProducerConsumerAssumption DEF BufferInv, TypeOK
<1>2. pc' \in [Thread -> {"claim", "lock", "change", "publish"}]
  BY <1>1 DEF Step, Claim, Enter, Produce, Consume, Publish, Goto
<1>3. msgQueue' \in 0..N
  BY <1>1 DEF Step, Claim, Enter, Produce, Consume, Publish
<1>4. \E s \in Semaphore : P(s) \/ V(s)
  BY <1>1 DEF Step, Claim, Enter, Produce, Consume, Publish
<1>5. value' \in [Semaphore -> Nat]
  BY <1>1, <1>4 DEF P, V
<1>6. QED
  BY <1>2, <1>3, <1>5 DEF TypeOK

(* What the counts of the invariant become when a thread moves. *)
LEMMA AllCountsMove ==
  ASSUME TypeOK, NEW t \in Thread, NEW from, NEW to, Goto(t, from, to)
  PROVE  /\ Count(Thread, {"change"})' = Count(Thread, {"change"})
              + (IF to = "change" THEN 1 ELSE 0) - (IF from = "change" THEN 1 ELSE 0)
         /\ Count(Thread, {"lock", "change", "publish"})'
              = Count(Thread, {"lock", "change", "publish"})
                  + (IF to \in {"lock", "change", "publish"} THEN 1 ELSE 0)
                  - (IF from \in {"lock", "change", "publish"} THEN 1 ELSE 0)
         /\ Count(Producers, {"publish"})' = Count(Producers, {"publish"})
              + (IF t \in Producers /\ to = "publish" THEN 1 ELSE 0)
              - (IF t \in Producers /\ from = "publish" THEN 1 ELSE 0)
         /\ Count(Customers, {"lock", "change"})' = Count(Customers, {"lock", "change"})
              + (IF t \in Customers /\ to \in {"lock", "change"} THEN 1 ELSE 0)
              - (IF t \in Customers /\ from \in {"lock", "change"} THEN 1 ELSE 0)
<1>1. Producers \in SUBSET Thread /\ Customers \in SUBSET Thread /\ Thread \in SUBSET Thread
  BY ProducerConsumerAssumption
<1>2. QED
  BY <1>1, CountMoves

LEMMA InvTypes ==
  BufferInv => /\ value \in [Semaphore -> Nat] /\ N \in Nat /\ msgQueue \in Int
               /\ Producers \cap Customers = {} /\ Producers \cup Customers = Thread
BY ProducerConsumerAssumption DEF BufferInv, TypeOK

(* A slot or a message passes from its semaphore to the thread. *)
LEMMA ClaimKeepsInv ==
  ASSUME BufferInv, NEW t \in Thread, Claim(t)
  PROVE  BufferInv'
<1> USE Counts, InvTypes, SemaphoresDiffer
<1>1. TypeOK'
  BY StepKeepsTypes DEF Step
<1>2. Goto(t, "claim", "lock")
  BY DEF Claim
<1>3. /\ msgQueue' = msgQueue
      /\ \/ t \in Producers /\ value[empty] > 0 /\ value' = [value EXCEPT ![empty] = @ - 1]
         \/ t \in Customers /\ t \notin Producers /\ value[full] > 0
              /\ value' = [value EXCEPT ![full] = @ - 1]
  BY Zenon DEF Claim, P
<1>4. CriticalSection'
  BY <1>2, <1>3, AllCountsMove, CountsAfter DEF BufferInv
<1>5. SlotsAccounted'
  BY <1>2, <1>3, AllCountsMove, CountsAfter DEF BufferInv
<1>6. MessagesAccounted'
  BY <1>2, <1>3, AllCountsMove, CountsAfter DEF BufferInv
<1>7. QED
  BY <1>1, <1>4, <1>5, <1>6 DEF BufferInv

(* The thread takes the mutex with it. *)
LEMMA EnterKeepsInv ==
  ASSUME BufferInv, NEW t \in Thread, Enter(t)
  PROVE  BufferInv'
<1> USE Counts, InvTypes, SemaphoresDiffer
<1>1. TypeOK'
  BY StepKeepsTypes DEF Step
<1>2. Goto(t, "lock", "change")
  BY DEF Enter
<1>3. /\ msgQueue' = msgQueue /\ value[mutex] > 0
      /\ value' = [value EXCEPT ![mutex] = @ - 1]
  BY DEF Enter, P
<1>4. CriticalSection'
  BY <1>2, <1>3, AllCountsMove, CountsAfter DEF BufferInv
<1>5. SlotsAccounted'
  BY <1>2, <1>3, AllCountsMove, CountsAfter DEF BufferInv
<1>6. MessagesAccounted'
  BY <1>2, <1>3, AllCountsMove, CountsAfter DEF BufferInv
<1>7. QED
  BY <1>1, <1>4, <1>5, <1>6 DEF BufferInv

(* The producer finds a free slot, so the message is put. *)
LEMMA ProduceKeepsInv ==
  ASSUME BufferInv, NEW t \in Thread, Produce(t)
  PROVE  BufferInv'
<1> USE Counts, InvTypes, SemaphoresDiffer
<1>1. TypeOK'
  BY StepKeepsTypes DEF Step
<1>2. Goto(t, "change", "publish")
  BY DEF Produce
<1>3. /\ t \in Producers /\ t \notin Customers /\ msgQueue' = msgQueue + 1
      /\ value' = [value EXCEPT ![mutex] = @ + 1]
  BY <1>2, InvBounds DEF Produce, V, BufferNeverOverrun, At, Goto
<1>4. CriticalSection'
  BY <1>2, <1>3, AllCountsMove, CountsAfter DEF BufferInv
<1>5. SlotsAccounted'
  BY <1>2, <1>3, AllCountsMove, CountsAfter DEF BufferInv
<1>6. MessagesAccounted'
  BY <1>2, <1>3, AllCountsMove, CountsAfter DEF BufferInv
<1>7. QED
  BY <1>1, <1>4, <1>5, <1>6 DEF BufferInv

(* The consumer finds a message, so one is taken. *)
LEMMA ConsumeKeepsInv ==
  ASSUME BufferInv, NEW t \in Thread, Consume(t)
  PROVE  BufferInv'
<1> USE Counts, InvTypes, SemaphoresDiffer
<1>1. TypeOK'
  BY StepKeepsTypes DEF Step
<1>2. Goto(t, "change", "publish")
  BY DEF Consume
<1>3. /\ t \in Customers /\ t \notin Producers /\ msgQueue' = msgQueue - 1
      /\ value' = [value EXCEPT ![mutex] = @ + 1]
  BY <1>2, InvBounds DEF Consume, V, BufferNeverOverrun, At, Goto
<1>4. CriticalSection'
  BY <1>2, <1>3, AllCountsMove, CountsAfter DEF BufferInv
<1>5. SlotsAccounted'
  BY <1>2, <1>3, AllCountsMove, CountsAfter DEF BufferInv
<1>6. MessagesAccounted'
  BY <1>2, <1>3, AllCountsMove, CountsAfter DEF BufferInv
<1>7. QED
  BY <1>1, <1>4, <1>5, <1>6 DEF BufferInv

(* The slot or the message passes to the other semaphore. *)
LEMMA PublishKeepsInv ==
  ASSUME BufferInv, NEW t \in Thread, Publish(t)
  PROVE  BufferInv'
<1> USE Counts, InvTypes, SemaphoresDiffer
<1>1. TypeOK'
  BY StepKeepsTypes DEF Step
<1>2. Goto(t, "publish", "claim")
  BY DEF Publish
<1>3. /\ msgQueue' = msgQueue
      /\ \/ t \in Producers /\ t \notin Customers /\ value' = [value EXCEPT ![full] = @ + 1]
         \/ t \in Customers /\ t \notin Producers /\ value' = [value EXCEPT ![empty] = @ + 1]
  BY Zenon DEF Publish, V
<1>4. CriticalSection'
  BY <1>2, <1>3, AllCountsMove, CountsAfter DEF BufferInv
<1>5. SlotsAccounted'
  BY <1>2, <1>3, AllCountsMove, CountsAfter DEF BufferInv
<1>6. MessagesAccounted'
  BY <1>2, <1>3, AllCountsMove, CountsAfter DEF BufferInv
<1>7. QED
  BY <1>1, <1>4, <1>5, <1>6 DEF BufferInv

(* The inductive invariant holds in every reachable state. *)
THEOREM ProducerConsumerInvariant == Spec => []BufferInv
<1>1. BufferInv /\ UNCHANGED vars => BufferInv'
  BY DEF vars, synchVars, BufferInv, TypeOK, CriticalSection, SlotsAccounted,
         MessagesAccounted, At
<1>2. BufferInv /\ Next => BufferInv'
  BY ClaimKeepsInv, EnterKeepsInv, ProduceKeepsInv, ConsumeKeepsInv, PublishKeepsInv
  DEF Next, Step
<1>3. QED
  BY <1>1, <1>2, BufferInitInv, PTL DEF Spec

(* At most one thread is between mutex->P() and mutex->V(), and the mutex is
   free when none is, for any number of producers and consumers.           *)
THEOREM MutualExclusion == Spec => []CriticalSection
<1>1. BufferInv => CriticalSection
  BY DEF BufferInv
<1>2. QED
  BY <1>1, ProducerConsumerInvariant, PTL

(* No slot of the buffer is lost or counted twice, for any size of it. *)
THEOREM SlotsConserved == Spec => []SlotsAccounted
<1>1. BufferInv => SlotsAccounted
  BY DEF BufferInv
<1>2. QED
  BY <1>1, ProducerConsumerInvariant, PTL

(* The semaphore full and the threads on their way account for the messages
   in the buffer.                                                          *)
THEOREM MessagesConserved == Spec => []MessagesAccounted
<1>1. BufferInv => MessagesAccounted
  BY DEF BufferInv
<1>2. QED
  BY <1>1, ProducerConsumerInvariant, PTL

(* Producer never finds the buffer full in its critical section and Customer
   never finds it empty, for any number of threads and any N.              *)
THEOREM NeverOverrun == Spec => []BufferNeverOverrun
BY InvBounds, ProducerConsumerInvariant, PTL

(* The semaphores of Producer and Customer keep the books of the buffer, for
   any number of threads and slots.                                        *)
THEOREM BufferIsCorrect == Spec => []BufferCorrect
<1>1. CriticalSection /\ SlotsAccounted /\ MessagesAccounted /\ BufferNeverOverrun
        => BufferCorrect
  BY DEF BufferCorrect
<1>2. QED
  BY <1>1, MutualExclusion, SlotsConserved, MessagesConserved, NeverOverrun, PTL

-----------------------------------------------------------------------------
Arrived == {t \in BarrierThread : bPc[t] \in {"woken", "release", "past"}}

(* The inductive invariant of the barrier: barrierCnt counts the threads that
   arrived, and who sleeps on the condition is one of them.                *)
BarrierInv ==
  /\ bPc \in [BarrierThread -> {"acquire", "arrive", "woken", "release", "past"}]
  /\ bOwner \in [{"barrLock"} -> BarrierThread \cup {None}]
  /\ bQueue \in [{"barrCond"} -> Seq(BarrierThread)]
  /\ \A t \in BarrierThread : bOwner["barrLock"] = t <=> bPc[t] \in {"arrive", "release"}
  /\ \A i \in 1..Len(bQueue["barrCond"]) : bPc[bQueue["barrCond"][i]] = "woken"
  /\ barrierCnt = Cardinality(Arrived)
  /\ Meeting!AllArrivedBeforeAnyPasses

LEMMA BarrierInitInv == Meeting!Init => BarrierInv
<1> SUFFICES ASSUME Meeting!Init PROVE BarrierInv
  OBVIOUS
<1> USE DEF Meeting!Init, Meeting!SynchInit
<1>1. Arrived = {}
  BY DEF Arrived
<1>2. barrierCnt = Cardinality(Arrived)
  BY <1>1, FS_EmptySet
<1>3. QED
  BY <1>2, ProgramsAssumption DEF BarrierInv, Meeting!AllArrivedBeforeAnyPasses

(* What a step does to the number of threads that arrived. *)
LEMMA ArrivedAfter ==
  ASSUME BarrierInv, NEW t \in BarrierThread, NEW from, NEW to, Meeting!Goto(t, from, to)
  PROVE  /\ IsFiniteSet(Arrived') /\ Cardinality(Arrived) \in Nat
         /\ Cardinality(Arrived') = Cardinality(Arrived)
              + (IF to \in {"woken", "release", "past"} THEN 1 ELSE 0)
              - (IF from \in {"woken", "release", "past"} THEN 1 ELSE 0)
<1>1. /\ bPc[t] = from /\ bPc'[t] = to
      /\ \A u \in BarrierThread : u # t => bPc'[u] = bPc[u]
  BY DEF Meeting!Goto, BarrierInv
<1>2. IsFiniteSet(Arrived)
  BY ProgramsAssumption, FS_Subset DEF Arrived
<1>3. \A u : u # t => (u \in Arrived <=> u \in Arrived')
  BY <1>1 DEF Arrived
<1>4. /\ t \in Arrived <=> from \in {"woken", "release", "past"}
      /\ t \in Arrived' <=> to \in {"woken", "release", "past"}
  BY <1>1 DEF Arrived
<1> HIDE DEF Arrived
<1>5. QED
  BY <1>2, <1>3, <1>4, OneDiffers

(* barrLock->Acquire() at the start of barrierFun: nobody is past the barrier. *)
LEMMA BarrierAcquireKeeps ==
  ASSUME BarrierInv, NEW t \in BarrierThread, Meeting!AcquireLock(t)
  PROVE  BarrierInv'
<1>1. /\ bPc[t] = "acquire" /\ bPc' = [bPc EXCEPT ![t] = "arrive"]
      /\ bOwner["barrLock"] = None /\ bOwner' = [bOwner EXCEPT !["barrLock"] = t]
      /\ UNCHANGED <<bQueue, barrierCnt>>
  BY DEF Meeting!AcquireLock, Meeting!Goto, Meeting!Acquire
<1>2. barrierCnt' = Cardinality(Arrived')
  BY <1>1, ArrivedAfter DEF Meeting!AcquireLock, BarrierInv
<1>3. Meeting!AllArrivedBeforeAnyPasses'
  BY <1>1 DEF BarrierInv, Meeting!AllArrivedBeforeAnyPasses, Meeting!Asleep
<1>4. QED
  BY <1>1, <1>2, <1>3, ProgramsAssumption DEF BarrierInv

(* The last thread to arrive wakes the others: Arrived is then all of them. *)
LEMMA BarrierOpensKeeps ==
  ASSUME BarrierInv, NEW t \in BarrierThread, Meeting!Arrive(t),
         barrierCnt' = Meeting!barrierThreadNum
  PROVE  BarrierInv'
<1>1. /\ bPc[t] = "arrive" /\ bPc' = [bPc EXCEPT ![t] = "release"]
      /\ bQueue' = [bQueue EXCEPT !["barrCond"] = <<>>]
      /\ bOwner["barrLock"] = t /\ UNCHANGED bOwner
      /\ barrierCnt' = barrierCnt + 1
      /\ Meeting!Goto(t, "arrive", "release")
  BY DEF Meeting!Arrive, Meeting!Goto, Meeting!Broadcast
<1>2. barrierCnt' = Cardinality(Arrived') /\ IsFiniteSet(Arrived')
  BY <1>1, ArrivedAfter DEF BarrierInv
<1>3. Arrived' = BarrierThread
  <2>1. Arrived' \subseteq BarrierThread
    BY DEF Arrived
  <2>2. Cardinality(Arrived') = Cardinality(BarrierThread)
    BY <1>2, SameCardinality, Zenon DEF Meeting!barrierThreadNum
  <2>3. QED
    BY <2>1, <2>2, ProgramsAssumption, FS_Subset
<1>4. Meeting!AllArrivedBeforeAnyPasses'
  BY <1>1, <1>3 DEF BarrierInv, Arrived, Meeting!AllArrivedBeforeAnyPasses, Meeting!barrierThreadNum
<1>5. QED
  BY <1>1, <1>2, <1>4 DEF BarrierInv

(* A thread that is not the last goes to sleep: nobody has passed yet. *)
LEMMA BarrierWaitKeeps ==
  ASSUME BarrierInv, NEW t \in BarrierThread, Meeting!Arrive(t),
         barrierCnt' # Meeting!barrierThreadNum
  PROVE  BarrierInv'
<1> DEFINE q == bQueue["barrCond"]
<1>1. /\ bPc[t] = "arrive" /\ bPc' = [bPc EXCEPT ![t] = "woken"]
      /\ bQueue' = [bQueue EXCEPT !["barrCond"] = Append(@, t)]
      /\ bOwner["barrLock"] = t /\ bOwner' = [bOwner EXCEPT !["barrLock"] = None]
      /\ barrierCnt' = barrierCnt + 1
      /\ Meeting!Goto(t, "arrive", "woken")
  BY DEF Meeting!Arrive, Meeting!Goto, Meeting!Wait
<1>2. barrierCnt' = Cardinality(Arrived')
  BY <1>1, ArrivedAfter DEF BarrierInv
<1>3. /\ q \in Seq(BarrierThread) /\ q' = Append(q, t)
      /\ q' \in Seq(BarrierThread) /\ Len(q') = Len(q) + 1 /\ q'[Len(q) + 1] = t
      /\ \A i \in 1..Len(q) : q'[i] = q[i]
  BY <1>1 DEF BarrierInv
<1>4. \A u \in BarrierThread : bPc[u] \notin {"release", "past"}
                               /\ (bPc[u] = "woken" => Meeting!Asleep(u, "barrCond"))
  BY <1>1 DEF BarrierInv, Meeting!AllArrivedBeforeAnyPasses
<1>5. \A u \in BarrierThread : bPc'[u] \notin {"release", "past"}
                               /\ (bPc'[u] = "woken" => Meeting!Asleep(u, "barrCond")')
  BY <1>1, <1>3, <1>4 DEF BarrierInv, Meeting!Asleep
<1>6. Meeting!AllArrivedBeforeAnyPasses'
  BY <1>5 DEF Meeting!AllArrivedBeforeAnyPasses
<1>7. bQueue' \in [{"barrCond"} -> Seq(BarrierThread)]
  BY <1>1, <1>3 DEF BarrierInv
<1>8. \A i \in 1..Len(q') : bPc'[q'[i]] = "woken"
  BY <1>1, <1>3 DEF BarrierInv
<1>9. QED
  BY <1>1, <1>2, <1>6, <1>7, <1>8, ProgramsAssumption DEF BarrierInv

(* The end of Wait: the lock is taken again, everybody has arrived. *)
LEMMA BarrierResumeKeeps ==
  ASSUME BarrierInv, NEW t \in BarrierThread, Meeting!Resume(t)
  PROVE  BarrierInv'
<1>1. /\ bPc[t] = "woken" /\ bPc' = [bPc EXCEPT ![t] = "release"]
      /\ ~Meeting!Asleep(t, "barrCond")
      /\ bOwner["barrLock"] = None /\ bOwner' = [bOwner EXCEPT !["barrLock"] = t]
      /\ UNCHANGED <<bQueue, barrierCnt>>
      /\ Meeting!Goto(t, "woken", "release")
  BY DEF Meeting!Resume, Meeting!Goto, Meeting!Acquire
<1>2. barrierCnt' = Cardinality(Arrived')
  BY <1>1, ArrivedAfter DEF BarrierInv
<1>3. Meeting!AllArrivedBeforeAnyPasses'
  BY <1>1 DEF BarrierInv, Meeting!AllArrivedBeforeAnyPasses, Meeting!Asleep, Meeting!barrierThreadNum
<1>4. QED
  BY <1>1, <1>2, <1>3, ProgramsAssumption DEF BarrierInv, Meeting!Asleep

(* barrLock->Release() *)
LEMMA BarrierReleaseKeeps ==
  ASSUME BarrierInv, NEW t \in BarrierThread, Meeting!ReleaseLock(t)
  PROVE  BarrierInv'
<1>1. /\ bPc[t] = "release" /\ bPc' = [bPc EXCEPT ![t] = "past"]
      /\ bOwner["barrLock"] = t /\ bOwner' = [bOwner EXCEPT !["barrLock"] = None]
      /\ UNCHANGED <<bQueue, barrierCnt>>
      /\ Meeting!Goto(t, "release", "past")
  BY DEF Meeting!ReleaseLock, Meeting!Goto, Meeting!Release
<1>2. barrierCnt' = Cardinality(Arrived')
  BY <1>1, ArrivedAfter DEF BarrierInv
<1>3. Meeting!AllArrivedBeforeAnyPasses'
  BY <1>1 DEF BarrierInv, Meeting!AllArrivedBeforeAnyPasses, Meeting!Asleep, Meeting!barrierThreadNum
<1>4. QED
  BY <1>1, <1>2, <1>3, ProgramsAssumption DEF BarrierInv

(* Nobody is past the barrier of threadtest.cc 263 before all have arrived,
   for any number of threads.                                              *)
THEOREM BarrierHolds == Meeting!Spec => []Meeting!AllArrivedBeforeAnyPasses
<1>1. BarrierInv /\ [Meeting!Next]_(Meeting!vars) => BarrierInv'
  <2> SUFFICES ASSUME BarrierInv, [Meeting!Next]_(Meeting!vars) PROVE BarrierInv'
    OBVIOUS
  <2>1. CASE UNCHANGED Meeting!vars
    BY <2>1 DEF BarrierInv, Arrived, Meeting!AllArrivedBeforeAnyPasses, Meeting!Asleep,
                Meeting!barrierThreadNum, Meeting!vars, Meeting!synchVars
  <2>2. ASSUME NEW t \in BarrierThread, Meeting!Step(t) PROVE BarrierInv'
    BY <2>2, BarrierAcquireKeeps, BarrierOpensKeeps, BarrierWaitKeeps, BarrierResumeKeeps,
       BarrierReleaseKeeps DEF Meeting!Step
  <2>3. QED
    BY <2>1, <2>2 DEF Meeting!Next
<1>2. BarrierInv => Meeting!AllArrivedBeforeAnyPasses
  BY DEF BarrierInv
<1>3. QED
  BY <1>1, <1>2, BarrierInitInv, PTL DEF Meeting!Spec

-----------------------------------------------------------------------------
(* Where a thread of readWriteThreadTest holds rLock, and where rCnt counts it. *)
HoldingRLock == {"enter", "first", "entered", "leave", "left"}
CountedInRCnt == {"first", "entered", "read", "leave"}

(* The inductive invariant of readers and writers: rLock makes the changes of
   rCnt with the P and V of wLock that belong to them one section, and only
   the thread in it sees rCnt and wLock disagree.                          *)
LibraryInv ==
  /\ rwPc \in [LibraryThread -> {"arrive", "enter", "first", "entered", "read", "leave", "left",
                                 "lockWriters", "write"}]
  /\ rwValue \in [{"wLock"} -> Nat]
  /\ rwOwner \in [{"rLock"} -> LibraryThread \cup {None}]
  /\ \A t \in LibraryThread : rwOwner["rLock"] = t <=> rwPc[t] \in HoldingRLock
  /\ rCnt = Cardinality(Library!At(CountedInRCnt))
  /\ \A t \in LibraryThread : rwPc[t] = "first" => rCnt = 1
  /\ Library!WriteLockExact

(* How many threads are in one of the places of at, before and after a thread
   goes on.                                                                *)
LEMMA LibraryCount ==
  ASSUME NEW at
  PROVE  IsFiniteSet(Library!At(at)) /\ Cardinality(Library!At(at)) \in Nat
<1>1. Library!At(at) \subseteq LibraryThread
  BY DEF Library!At
<1>2. QED
  BY <1>1, ProgramsAssumption, FS_Subset, FS_CardinalityType

LEMMA LibraryCountMoves ==
  ASSUME LibraryInv, NEW at, NEW t \in LibraryThread, NEW from, NEW to, Library!Goto(t, from, to)
  PROVE  Cardinality(Library!At(at)') = Cardinality(Library!At(at))
           + (IF to \in at THEN 1 ELSE 0) - (IF from \in at THEN 1 ELSE 0)
<1>1. /\ rwPc[t] = from /\ rwPc'[t] = to
      /\ \A u \in LibraryThread : u # t => rwPc'[u] = rwPc[u]
  BY DEF Library!Goto, LibraryInv
<1> DEFINE A == Library!At(at)
           B == {u \in LibraryThread : rwPc'[u] \in at}
<1>2. IsFiniteSet(A) /\ Library!At(at)' = B
  BY LibraryCount DEF Library!At
<1>3. \A u : u # t => (u \in A <=> u \in B)
  BY <1>1 DEF Library!At
<1>4. (t \in A <=> from \in at) /\ (t \in B <=> to \in at)
  BY <1>1 DEF Library!At
<1> HIDE DEF A, B
<1>5. Cardinality(B) = Cardinality(A) + (IF t \in B THEN 1 ELSE 0) - (IF t \in A THEN 1 ELSE 0)
  BY <1>2, <1>3, OneDiffers
<1>6. QED
  BY <1>2, <1>4, <1>5 DEF A

(* The counts that the invariant uses, as numbers. *)
LEMMA LibraryCounts ==
  /\ Library!WriteLockExact <=>
       1 = rwValue["wLock"] + Cardinality(Library!At({"write"}))
             + (IF rCnt > 0 /\ Library!At({"first"}) = {} THEN 1 ELSE 0)
  /\ Cardinality(Library!At({"write"})) \in Nat
  /\ Cardinality(Library!At(CountedInRCnt)) \in Nat
BY SameCardinality, LibraryCount DEF Library!WriteLockExact

LEMMA LibraryCountsAfter ==
  Library!WriteLockExact' <=>
       1 = rwValue'["wLock"] + Cardinality(Library!At({"write"})')
             + (IF rCnt' > 0 /\ Library!At({"first"})' = {} THEN 1 ELSE 0)
BY SameCardinality DEF Library!WriteLockExact

(* The sections of threads that hold rLock exclude each other. *)
LEMMA OneHoldsRLock ==
  ASSUME LibraryInv, NEW t \in LibraryThread, rwPc[t] \in HoldingRLock,
         NEW u \in LibraryThread, rwPc[u] \in HoldingRLock
  PROVE  t = u
BY DEF LibraryInv

(* A thread that is counted makes rCnt positive, two make it more than one. *)
LEMMA CountedMembers ==
  ASSUME LibraryInv, NEW t \in LibraryThread, rwPc[t] \in CountedInRCnt
  PROVE  /\ rCnt \in Nat /\ rCnt > 0
         /\ rCnt = 1 => \A u \in LibraryThread : rwPc[u] \in CountedInRCnt => u = t
<1> DEFINE A == Library!At(CountedInRCnt)
<1>1. t \in A /\ IsFiniteSet(A) /\ rCnt = Cardinality(A) /\ rCnt \in Nat
  BY LibraryCount DEF Library!At, LibraryInv
<1>2. IsFiniteSet(A \ {t}) /\ Cardinality(A \ {t}) = rCnt - 1 /\ Cardinality(A \ {t}) \in Nat
  BY <1>1, FS_RemoveElement, FS_CardinalityType
<1>3. rCnt = 1 => A \ {t} = {}
  BY <1>2, FS_EmptySet
<1>4. \A u \in LibraryThread : rwPc[u] \in CountedInRCnt => u \in A
  BY DEF Library!At
<1> HIDE DEF A
<1>5. QED
  BY <1>1, <1>2, <1>3, <1>4

LEMMA LibraryInitInv == Library!Init => LibraryInv
<1> SUFFICES ASSUME Library!Init PROVE LibraryInv
  OBVIOUS
<1> USE DEF Library!Init, Library!SynchInit
<1>1. /\ Library!At(CountedInRCnt) = {} /\ Library!At({"write"}) = {}
      /\ Library!At({"first"}) = {}
  BY DEF Library!At, CountedInRCnt
<1>2. rCnt = Cardinality(Library!At(CountedInRCnt)) /\ Cardinality(Library!At({"write"})) = 0
  BY <1>1, FS_EmptySet
<1>3. Library!WriteLockExact
  BY <1>1, <1>2, LibraryCounts
<1>4. QED
  BY <1>2, <1>3, ProgramsAssumption DEF LibraryInv, HoldingRLock

(* A reader takes rLock: its first Acquire, and the one after reading. *)
LEMMA LibraryAcquireKeeps ==
  ASSUME LibraryInv, NEW t \in LibraryThread, Library!Arrive(t) \/ Library!Read(t)
  PROVE  LibraryInv'
<1> PICK from, to : /\ <<from, to>> \in {<<"arrive", "enter">>, <<"read", "leave">>}
                    /\ Library!Goto(t, from, to)
  BY DEF Library!Arrive, Library!Read
<1>1. /\ rwPc[t] = from /\ rwPc' = [rwPc EXCEPT ![t] = to]
      /\ rwOwner["rLock"] = None /\ rwOwner' = [rwOwner EXCEPT !["rLock"] = t]
      /\ UNCHANGED <<rwValue, rCnt>>
  BY DEF Library!Arrive, Library!Read, Library!Goto, Library!Acquire
<1>2. rCnt' = Cardinality(Library!At(CountedInRCnt)')
  BY <1>1, LibraryCountMoves, LibraryCounts DEF LibraryInv, CountedInRCnt
<1>3. Cardinality(Library!At({"write"})') = Cardinality(Library!At({"write"}))
  BY LibraryCountMoves, LibraryCounts
<1>4. Library!At({"first"})' = Library!At({"first"})
  BY <1>1 DEF Library!At, LibraryInv
<1>5. Library!WriteLockExact'
  BY <1>1, <1>3, <1>4, LibraryCounts, LibraryCountsAfter DEF LibraryInv
<1>6. QED
  BY <1>1, <1>2, <1>5, ProgramsAssumption DEF LibraryInv, HoldingRLock

(* ++rCnt: the first reader keeps rLock, for the P that belongs to it. *)
LEMMA LibraryEnterKeeps ==
  ASSUME LibraryInv, NEW t \in LibraryThread, Library!Enter(t)
  PROVE  LibraryInv'
<1>1. rwPc[t] = "enter" /\ rCnt' = rCnt + 1 /\ UNCHANGED rwValue /\ rwOwner["rLock"] = t
  BY DEF Library!Enter, Library!Goto, Library!synchVars, Library!Release, LibraryInv, HoldingRLock
<1>2. rCnt \in Nat
  BY LibraryCounts DEF LibraryInv
<1>3. \A u \in LibraryThread : rwPc[u] # "first"
  BY <1>1, OneHoldsRLock DEF HoldingRLock
<1>4. CASE rCnt' = 1
  <2>1. /\ rwPc' = [rwPc EXCEPT ![t] = "first"] /\ UNCHANGED rwOwner
        /\ Library!Goto(t, "enter", "first")
    BY <1>4 DEF Library!Enter, Library!Goto, Library!synchVars
  <2>2. rCnt' = Cardinality(Library!At(CountedInRCnt)')
    BY <1>1, <2>1, LibraryCountMoves, LibraryCounts DEF LibraryInv, CountedInRCnt
  <2>3. Cardinality(Library!At({"write"})') = Cardinality(Library!At({"write"}))
    BY <2>1, LibraryCountMoves, LibraryCounts
  <2>4. Library!At({"first"})' # {}
    BY <2>1 DEF Library!At, LibraryInv
  <2>5. Library!WriteLockExact'
    BY <1>1, <1>2, <1>4, <2>3, <2>4, LibraryCounts, LibraryCountsAfter DEF LibraryInv
  <2>6. QED
    BY <1>1, <1>4, <2>1, <2>2, <2>5 DEF LibraryInv, HoldingRLock
<1>5. CASE rCnt' # 1
  <2>1. /\ rwPc' = [rwPc EXCEPT ![t] = "read"] /\ rwOwner' = [rwOwner EXCEPT !["rLock"] = None]
        /\ Library!Goto(t, "enter", "read")
    BY <1>5 DEF Library!Enter, Library!Goto, Library!Release
  <2>2. rCnt' = Cardinality(Library!At(CountedInRCnt)')
    BY <1>1, <2>1, LibraryCountMoves, LibraryCounts DEF LibraryInv, CountedInRCnt
  <2>3. Cardinality(Library!At({"write"})') = Cardinality(Library!At({"write"}))
    BY <2>1, LibraryCountMoves, LibraryCounts
  <2>4. Library!At({"first"})' = {} /\ Library!At({"first"}) = {}
    BY <1>3, <2>1 DEF Library!At, LibraryInv
  <2>5. Library!WriteLockExact'
    BY <1>1, <1>2, <1>5, <2>3, <2>4, LibraryCounts, LibraryCountsAfter DEF LibraryInv
  <2>6. QED
    BY <1>1, <1>3, <2>1, <2>2, <2>5, ProgramsAssumption DEF LibraryInv, HoldingRLock
<1>6. QED
  BY <1>4, <1>5

(* wLock->P() of the first reader *)
LEMMA LibraryLockWritersKeeps ==
  ASSUME LibraryInv, NEW t \in LibraryThread, Library!LockWriters(t)
  PROVE  LibraryInv'
<1>1. /\ rwPc[t] = "first" /\ rwPc' = [rwPc EXCEPT ![t] = "entered"]
      /\ rwValue["wLock"] > 0 /\ rwValue' = [rwValue EXCEPT !["wLock"] = @ - 1]
      /\ UNCHANGED <<rwOwner, rCnt>>
      /\ Library!Goto(t, "first", "entered")
  BY DEF Library!LockWriters, Library!Goto, Library!P
<1>2. rCnt' = Cardinality(Library!At(CountedInRCnt)')
  BY <1>1, LibraryCountMoves, LibraryCounts DEF LibraryInv, CountedInRCnt
<1>3. Cardinality(Library!At({"write"})') = Cardinality(Library!At({"write"}))
  BY <1>1, LibraryCountMoves, LibraryCounts
<1>4. Library!At({"first"}) # {} /\ Library!At({"first"})' = {}
  BY <1>1, OneHoldsRLock DEF Library!At, LibraryInv, HoldingRLock
<1>5. rCnt = 1 /\ rwValue["wLock"] \in Nat /\ rwValue'["wLock"] = rwValue["wLock"] - 1
  BY <1>1 DEF LibraryInv
<1>6. Library!WriteLockExact'
  BY <1>1, <1>3, <1>4, <1>5, LibraryCounts, LibraryCountsAfter DEF LibraryInv
<1>7. rwValue' \in [{"wLock"} -> Nat]
  BY <1>1, <1>5 DEF LibraryInv
<1>8. QED
  BY <1>1, <1>2, <1>6, <1>7 DEF LibraryInv, HoldingRLock

(* A reader gives rLock back: the first one after its P, the last one after
   its V.                                                                  *)
LEMMA LibraryReleaseKeeps ==
  ASSUME LibraryInv, NEW t \in LibraryThread, Library!EnterFirst(t) \/ Library!LeaveLast(t)
  PROVE  LibraryInv'
<1> PICK from, to : /\ <<from, to>> \in {<<"entered", "read">>, <<"left", "arrive">>}
                    /\ Library!Goto(t, from, to)
  BY DEF Library!EnterFirst, Library!LeaveLast
<1>1. /\ rwPc[t] = from /\ rwPc' = [rwPc EXCEPT ![t] = to]
      /\ rwOwner["rLock"] = t /\ rwOwner' = [rwOwner EXCEPT !["rLock"] = None]
      /\ UNCHANGED <<rwValue, rCnt>>
  BY DEF Library!EnterFirst, Library!LeaveLast, Library!Goto, Library!Release
<1>2. rCnt' = Cardinality(Library!At(CountedInRCnt)')
  BY <1>1, LibraryCountMoves, LibraryCounts DEF LibraryInv, CountedInRCnt
<1>3. Cardinality(Library!At({"write"})') = Cardinality(Library!At({"write"}))
  BY LibraryCountMoves, LibraryCounts
<1>4. Library!At({"first"})' = Library!At({"first"})
  BY <1>1 DEF Library!At, LibraryInv
<1>5. Library!WriteLockExact'
  BY <1>1, <1>3, <1>4, LibraryCounts, LibraryCountsAfter DEF LibraryInv
<1>6. QED
  BY <1>1, <1>2, <1>5, ProgramsAssumption DEF LibraryInv, HoldingRLock

(* --rCnt: the last reader, who need not be the first, lets the writers in. *)
LEMMA LibraryLeaveKeeps ==
  ASSUME LibraryInv, NEW t \in LibraryThread, Library!Leave(t)
  PROVE  LibraryInv'
<1>1. rwPc[t] = "leave" /\ rCnt' = rCnt - 1 /\ rwOwner["rLock"] = t
  BY DEF Library!Leave, Library!Goto, LibraryInv, HoldingRLock
<1>2. rCnt \in Nat /\ rCnt > 0
  BY <1>1, CountedMembers DEF CountedInRCnt
<1>3. \A u \in LibraryThread : rwPc[u] # "first"
  BY <1>1, OneHoldsRLock DEF HoldingRLock
<1>4. CASE rCnt' = 0
  <2>1. /\ rwPc' = [rwPc EXCEPT ![t] = "left"] /\ UNCHANGED rwOwner
        /\ rwValue' = [rwValue EXCEPT !["wLock"] = @ + 1]
        /\ Library!Goto(t, "leave", "left")
    BY <1>4, Zenon DEF Library!Leave, Library!Goto, Library!V
  <2>2. rCnt' = Cardinality(Library!At(CountedInRCnt)')
    BY <1>1, <2>1, LibraryCountMoves, LibraryCounts DEF LibraryInv, CountedInRCnt
  <2>3. Cardinality(Library!At({"write"})') = Cardinality(Library!At({"write"}))
    BY <2>1, LibraryCountMoves, LibraryCounts
  <2>4. Library!At({"first"}) = {}
    BY <1>3 DEF Library!At
  <2>5. rwValue["wLock"] \in Nat /\ rwValue'["wLock"] = rwValue["wLock"] + 1
    BY <2>1 DEF LibraryInv
  <2>6. Library!WriteLockExact'
    BY <1>1, <1>2, <1>4, <2>3, <2>4, <2>5, LibraryCounts, LibraryCountsAfter DEF LibraryInv
  <2>7. rwValue' \in [{"wLock"} -> Nat]
    BY <2>1, <2>5 DEF LibraryInv
  <2>8. QED
    BY <1>1, <1>3, <2>1, <2>2, <2>6, <2>7 DEF LibraryInv, HoldingRLock
<1>5. CASE rCnt' # 0
  <2>1. /\ rwPc' = [rwPc EXCEPT ![t] = "arrive"] /\ rwOwner' = [rwOwner EXCEPT !["rLock"] = None]
        /\ UNCHANGED rwValue
        /\ Library!Goto(t, "leave", "arrive")
    BY <1>5 DEF Library!Leave, Library!Goto, Library!Release
  <2>2. rCnt' = Cardinality(Library!At(CountedInRCnt)')
    BY <1>1, <2>1, LibraryCountMoves, LibraryCounts DEF LibraryInv, CountedInRCnt
  <2>3. Cardinality(Library!At({"write"})') = Cardinality(Library!At({"write"}))
    BY <2>1, LibraryCountMoves, LibraryCounts
  <2>4. Library!At({"first"})' = {} /\ Library!At({"first"}) = {}
    BY <1>3, <2>1 DEF Library!At, LibraryInv
  <2>5. Library!WriteLockExact'
    BY <1>1, <1>2, <1>5, <2>1, <2>3, <2>4, LibraryCounts, LibraryCountsAfter DEF LibraryInv
  <2>6. QED
    BY <1>1, <1>3, <2>1, <2>2, <2>5, ProgramsAssumption DEF LibraryInv, HoldingRLock
<1>6. QED
  BY <1>4, <1>5

(* A writer's wLock->P() and wLock->V() *)
LEMMA LibraryWriterKeeps ==
  ASSUME LibraryInv, NEW t \in LibraryThread, Library!StartWrite(t) \/ Library!Write(t)
  PROVE  LibraryInv'
<1>1. UNCHANGED <<rwOwner, rCnt>> /\ rwValue["wLock"] \in Nat
  BY DEF Library!StartWrite, Library!Write, Library!P, Library!V, LibraryInv
<1>2. ASSUME NEW from, NEW to, Library!Goto(t, from, to),
             from \in {"lockWriters", "write"}, to \in {"lockWriters", "write"}
      PROVE  /\ rwPc[t] = from /\ rwPc' = [rwPc EXCEPT ![t] = to]
             /\ rCnt' = Cardinality(Library!At(CountedInRCnt)')
             /\ Library!At({"first"})' = Library!At({"first"})
  <2>1. rwPc[t] = from /\ rwPc' = [rwPc EXCEPT ![t] = to]
    BY <1>2 DEF Library!Goto
  <2>2. rCnt' = Cardinality(Library!At(CountedInRCnt)')
    BY <1>1, <1>2, LibraryCountMoves, LibraryCounts DEF LibraryInv, CountedInRCnt
  <2>3. Library!At({"first"})' = Library!At({"first"})
    BY <1>2, <2>1 DEF Library!At, LibraryInv
  <2>4. QED
    BY <2>1, <2>2, <2>3
<1>3. CASE Library!StartWrite(t)
  <2>1. /\ Library!Goto(t, "lockWriters", "write") /\ rwValue["wLock"] > 0
        /\ rwValue' = [rwValue EXCEPT !["wLock"] = @ - 1]
    BY <1>3 DEF Library!StartWrite, Library!P
  <2>2. rwValue'["wLock"] = rwValue["wLock"] - 1 /\ rwValue' \in [{"wLock"} -> Nat]
    BY <1>1, <2>1 DEF LibraryInv
  <2>3. Cardinality(Library!At({"write"})') = Cardinality(Library!At({"write"})) + 1
    BY <2>1, LibraryCountMoves, LibraryCounts
  <2>4. Library!WriteLockExact'
    BY <1>1, <1>2, <2>1, <2>2, <2>3, LibraryCounts, LibraryCountsAfter DEF LibraryInv
  <2>5. QED
    BY <1>1, <1>2, <2>1, <2>2, <2>4 DEF LibraryInv, HoldingRLock
<1>4. CASE Library!Write(t)
  <2>1. /\ Library!Goto(t, "write", "lockWriters")
        /\ rwValue' = [rwValue EXCEPT !["wLock"] = @ + 1]
    BY <1>4 DEF Library!Write, Library!V
  <2>2. rwValue'["wLock"] = rwValue["wLock"] + 1 /\ rwValue' \in [{"wLock"} -> Nat]
    BY <1>1, <2>1 DEF LibraryInv
  <2>3. Cardinality(Library!At({"write"})') = Cardinality(Library!At({"write"})) - 1
    BY <2>1, LibraryCountMoves, LibraryCounts
  <2>4. Library!WriteLockExact'
    BY <1>1, <1>2, <2>1, <2>2, <2>3, LibraryCounts, LibraryCountsAfter DEF LibraryInv
  <2>5. QED
    BY <1>1, <1>2, <2>1, <2>2, <2>4 DEF LibraryInv, HoldingRLock
<1>5. QED
  BY <1>3, <1>4

LEMMA LibraryInvariant == Library!Spec => []LibraryInv
<1>1. LibraryInv /\ [Library!Next]_(Library!vars) => LibraryInv'
  <2> SUFFICES ASSUME LibraryInv, [Library!Next]_(Library!vars) PROVE LibraryInv'
    OBVIOUS
  <2>1. CASE UNCHANGED Library!vars
    BY <2>1 DEF LibraryInv, Library!At, Library!WriteLockExact, Library!vars, Library!synchVars
  <2>2. ASSUME NEW t \in Readers,
               \/ Library!Arrive(t) \/ Library!Enter(t) \/ Library!LockWriters(t)
               \/ Library!EnterFirst(t) \/ Library!Read(t) \/ Library!Leave(t)
               \/ Library!LeaveLast(t)
        PROVE  LibraryInv'
    <3>1. t \in LibraryThread
      BY DEF LibraryThread
    <3>2. QED
      BY <2>2, <3>1, LibraryAcquireKeeps, LibraryEnterKeeps, LibraryLockWritersKeeps,
         LibraryReleaseKeeps, LibraryLeaveKeeps
  <2>3. ASSUME NEW t \in Writers, Library!StartWrite(t) \/ Library!Write(t) PROVE LibraryInv'
    BY <2>3, LibraryWriterKeeps DEF LibraryThread
  <2>4. QED
    BY <2>1, <2>2, <2>3 DEF Library!Next
<1>2. QED
  BY <1>1, LibraryInitInv, PTL DEF Library!Spec

(* wLock is free, held by one writer or held by the readers together, and
   nobody writes while somebody reads (threadtest.cc 300-350), for any number
   of readers and writers.                                                 *)
THEOREM ReadersAndWritersExclude ==
  Library!Spec => [](Library!WriteLockExact /\ Library!ReadersExcludeWriters)
<1>1. ASSUME LibraryInv, Library!Reading # {} PROVE Library!ReadersExcludeWriters
  <2> PICK r \in LibraryThread : rwPc[r] \in {"read", "leave"}
    BY <1>1 DEF Library!Reading, Library!At
  <2>1. rCnt \in Nat /\ rCnt > 0
    BY <1>1, CountedMembers DEF CountedInRCnt
  <2>2. Library!At({"first"}) = {}
    BY <1>1, CountedMembers DEF CountedInRCnt, LibraryInv, Library!At
  <2>3. Cardinality(Library!At({"write"})) = 0
    BY <1>1, <2>1, <2>2, LibraryCounts DEF LibraryInv
  <2>4. Library!At({"write"}) = {}
    BY <2>3, LibraryCount, FS_EmptySet
  <2>5. Library!Reading \cup Library!At({"first", "entered"}) = Library!At(CountedInRCnt)
    BY DEF Library!Reading, Library!At, CountedInRCnt
  <2>6. QED
    BY <1>1, <2>4, <2>5, SameCardinality DEF Library!ReadersExcludeWriters, LibraryInv
<1>2. LibraryInv => Library!WriteLockExact /\ Library!ReadersExcludeWriters
  BY <1>1 DEF LibraryInv, Library!ReadersExcludeWriters
<1>3. QED
  BY <1>2, LibraryInvariant, PTL

-----------------------------------------------------------------------------
(* The barrier, the readers and writers, whatever the programs beside them
   do: nobody passes early, and writers are alone.                         *)
THEOREM ProgramsMeetSafely == ProgramsSpec => []MeetingsAreSafe
<1>1. Meeting!AllArrivedBeforeAnyPasses /\ Library!WriteLockExact /\ Library!ReadersExcludeWriters
        => MeetingsAreSafe
  BY DEF MeetingsAreSafe
<1>2. QED
  BY <1>1, BarrierHolds, ReadersAndWritersExclude, PTL DEF ProgramsSpec
=============================================================================
