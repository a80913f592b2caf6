--------------------------- MODULE SynchPrograms ----------------------------
(***************************************************************************)
(* The programs of threads/threadtest.cc and threads/synchlist.cc that     *)
(* synchronize with semaphores, locks and conditions, side by side: each   *)
(* has objects of its own, so each goes through its behaviours whatever    *)
(* the others do.                                                          *)
(***************************************************************************)
EXTENDS ProducerConsumer

CONSTANTS
  BarrierThread,                 \* the threads of barrierThreadTest
  Readers, Writers,              \* the threads of readWriteThreadTest
  Appenders, Removers, Mappers,  \* who uses a synchronized list
  MaxItems                       \* how many items are appended to it

LibraryThread == Readers \cup Writers
ListThread == Appenders \cup Removers \cup Mappers

ASSUME ProgramsAssumption ==
  /\ IsFiniteSet(BarrierThread) /\ None \notin BarrierThread
  /\ IsFiniteSet(LibraryThread) /\ None \notin LibraryThread
  /\ IsFiniteSet(ListThread) /\ None \notin ListThread
  /\ MaxItems \in Nat

VARIABLES
  mOwner, mQueue, mPc, shareNum,                   \* ProducerConsumerMonitor
  bOwner, bQueue, bPc, barrierCnt,                 \* Barrier
  rwValue, rwOwner, rwPc, rCnt, bufSize,           \* ReadersWriters
  slOwner, slQueue, slPc, list, sent, slGot        \* SynchList

mVars == <<mOwner, mQueue, mPc, shareNum>>
bVars == <<bOwner, bQueue, bPc, barrierCnt>>
rwVars == <<rwValue, rwOwner, rwPc, rCnt, bufSize>>
slVars == <<slOwner, slQueue, slPc, list, sent, slGot>>

-----------------------------------------------------------------------------
(* The producers and consumers of ThreadProducerConsumerTest1, as many as in
   ThreadProducerConsumerTest.                                             *)
Monitor == INSTANCE ProducerConsumerMonitor WITH
  Semaphore <- {}, Lock <- {"pcLock"}, Condition <- {"condc", "condp"}, initialValue <- <<>>,
  pcLock <- "pcLock", condc <- "condc", condp <- "condp",
  value <- <<>>, owner <- mOwner, queue <- mQueue, pc <- mPc

(* barrierThreadTest *)
Meeting == INSTANCE Barrier WITH
  Thread <- BarrierThread, Semaphore <- {}, Lock <- {"barrLock"}, Condition <- {"barrCond"},
  initialValue <- <<>>, barrLock <- "barrLock", barrCond <- "barrCond",
  value <- <<>>, owner <- bOwner, queue <- bQueue, pc <- bPc

(* readWriteThreadTest *)
Library == INSTANCE ReadersWriters WITH
  Thread <- LibraryThread,
  Semaphore <- {"wLock"}, Lock <- {"rLock"}, Condition <- {},
  initialValue <- [s \in {"wLock"} |-> 1], rLock <- "rLock", wLock <- "wLock", IntBits <- 2,
  value <- rwValue, owner <- rwOwner, queue <- <<>>, pc <- rwPc

(* Appenders, removers and threads that map over the list. *)
Shared == INSTANCE SynchList WITH
  Thread <- ListThread,
  Semaphore <- {}, Lock <- {"lock"}, Condition <- {"listEmpty"}, initialValue <- <<>>,
  lock <- "lock", listEmpty <- "listEmpty",
  value <- <<>>, owner <- slOwner, queue <- slQueue, pc <- slPc, got <- slGot

(* The five programs. *)
ProgramsSpec == Spec /\ Monitor!Spec /\ Meeting!Spec /\ Library!Spec /\ Shared!Spec

-----------------------------------------------------------------------------
(* Nobody sleeps beside what they wait for: one Signal per change of the
   buffer is enough for producers and consumers (threadtest.cc 186-237), and
   one per Append for the removers of a synchronized list (synchlist.cc 76). *)
NobodyStranded == Monitor!NoStrandedWaiter /\ Shared!NoStrandedRemover

(* No thread is past the barrier before all have arrived (threadtest.cc 263),
   no writer is inside with a reader or another writer, and wLock is held
   exactly while somebody is (threadtest.cc 300-350).                      *)
MeetingsAreSafe ==
  /\ Meeting!AllArrivedBeforeAnyPasses
  /\ Library!WriteLockExact /\ Library!ReadersExcludeWriters

(* The list of synchlist.cc is an atomic first-in first-out queue. *)
ImplementsBlockingQueue == Shared!ImplementsBlockingQueue
=============================================================================
