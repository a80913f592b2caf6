----------------------------- MODULE SynchDisk ------------------------------
(***************************************************************************)
(* The synchronous disk (filesys/synchdisk.cc) on the disk of machine/     *)
(* disk.cc: threads that read and write sectors, with a lock for one       *)
(* request at a time and a semaphore on which the completion interrupt     *)
(* calls V.                                                                *)
(***************************************************************************)
EXTENDS SynchSpec, Disk

CONSTANTS lock, semaphore

ASSUME SynchDiskAssumption ==
  Lock = {lock} /\ Semaphore = {semaphore} /\ initialValue[semaphore] = 0

VARIABLES
  pc,   \* what each thread does next
  req,  \* each thread's call: sector, and the data of a write
  buf   \* what each thread's ReadSector got

vars == <<synchVars, diskVars, pc, req, buf>>

(* SynchDisk::SynchDisk *)
Init ==
  /\ SynchInit /\ DiskInit
  /\ pc = [t \in Thread |-> "idle"]
  /\ req = [t \in Thread |-> [op |-> "read", sector |-> 0, data |-> Zero]]
  /\ buf = [t \in Thread |-> Zero]

Goto(t, from, to) == pc[t] = from /\ pc' = [pc EXCEPT ![t] = to]

(* Mutant of Begin: the lock is not taken. *)
BeginUnlocked(t) ==
  /\ totalTicks <= MaxTicks
  /\ Goto(t, "idle", "request")
  /\ \E s \in Sectors, d \in Data, o \in {"read", "write"} :
       req' = [req EXCEPT ![t] = [op |-> o, sector |-> s, data |-> d]]
  /\ UNCHANGED <<synchVars, diskVars, buf>>

(* A call of ReadSector or WriteSector, up to lock->Acquire() *)
Begin(t) ==
  /\ totalTicks <= MaxTicks
  /\ Goto(t, "idle", "request")
  /\ \E s \in Sectors, d \in Data, o \in {"read", "write"} :
       req' = [req EXCEPT ![t] = [op |-> o, sector |-> s, data |-> d]]
  /\ Acquire(t, lock)
  /\ UNCHANGED <<diskVars, buf>>

(* disk->ReadRequest or disk->WriteRequest; the thread goes on to P *)
Start(t) ==
  /\ Goto(t, "request", "wait")
  /\ \/ /\ req[t].op = "read"
        /\ ReadRequest(req[t].sector)
        /\ buf' = [buf EXCEPT ![t] = contents[req[t].sector]]
     \/ /\ req[t].op = "write"
        /\ WriteRequest(req[t].sector, req[t].data)
        /\ UNCHANGED buf
  /\ UNCHANGED <<synchVars, req>>

(* Mutant of WaitForInterrupt: P is skipped when the disk is idle. *)
WaitForInterruptPolling(t) ==
  /\ Goto(t, "wait", "return")
  /\ IF active THEN P(semaphore) ELSE UNCHANGED synchVars
  /\ UNCHANGED <<diskVars, req, buf>>

(* semaphore->P() *)
WaitForInterrupt(t) ==
  /\ Goto(t, "wait", "return")
  /\ P(semaphore)
  /\ UNCHANGED <<diskVars, req, buf>>

(* lock->Release() *)
Return(t) ==
  /\ Goto(t, "return", "idle")
  /\ Release(t, lock)
  /\ UNCHANGED <<diskVars, req, buf>>

(* Mutant of RequestDone: the interrupt is spent without a V. *)
RequestDoneSilent ==
  /\ HandleInterrupt
  /\ UNCHANGED <<synchVars, pc, req, buf>>

(* Disk::HandleInterrupt, DiskRequestDone and SynchDisk::RequestDone *)
RequestDone ==
  /\ HandleInterrupt
  /\ V(semaphore)
  /\ UNCHANGED <<pc, req, buf>>

Step(t) == Begin(t) \/ Start(t) \/ WaitForInterrupt(t) \/ Return(t)

Next == RequestDone \/ \E t \in Thread : Step(t)

Spec == Init /\ [][Next]_vars

(* Threads that can go on are dispatched, and Idle lets a scheduled interrupt
   happen when no thread can.                                              *)
FairSpec ==
  Spec /\ WF_vars(RequestDone) /\ \A t \in Thread : WF_vars(Step(t))

-----------------------------------------------------------------------------
(* Every variable that the properties use has its type. *)
TypeOK ==
  /\ value \in [Semaphore -> Nat]
  /\ owner \in [Lock -> Thread \cup {None}]
  /\ pc \in [Thread -> {"idle", "request", "wait", "return"}]
  /\ active \in BOOLEAN
  /\ contents \in [Sectors -> Data]
  /\ req \in [Thread -> [op : {"read", "write"}, sector : Sectors, data : Data]]
  /\ buf \in [Thread -> Data]

(* "only one request at a time": ASSERT(!active) of disk.cc 119 and 139 never
   fails, because the lock is held until the interrupt has been consumed.  *)
OneRequestAtATime == \A t \in Thread : pc[t] = "request" => ~active

(* A V of the handler belongs to the thread that waits: the semaphore is up
   only when the request of the thread in P has completed, also when the
   interrupt came before P was called, so no later request returns early.  *)
CompletionMatchesRequest ==
  /\ active => value[semaphore] = 0
  /\ value[semaphore] + (IF active THEN 1 ELSE 0)
       = IF \E t \in Thread : pc[t] = "wait" THEN 1 ELSE 0

(* "Return only after the data has been read" or written (synchdisk.cc 66,
   84): when a call returns the disk is idle and holds what was read or
   written, whatever other threads asked for meanwhile.                    *)
DataCurrentAtReturn ==
  \A t \in Thread : pc[t] = "return" =>
    /\ ~active
    /\ contents[req[t].sector] = IF req[t].op = "read" THEN buf[t] ELSE req[t].data

(* The thread inside a call is the one that owns the lock, and the disk holds
   the data of its call from the request on.                               *)
LockCoversCall ==
  /\ \A t \in Thread : pc[t] # "idle" <=> owner[lock] = t
  /\ \A t \in Thread : pc[t] \in {"wait", "return"} =>
       contents[req[t].sector] = IF req[t].op = "read" THEN buf[t] ELSE req[t].data

(* Concurrent calls of ReadSector and WriteSector are safe (synchdisk.cc 72-103):
   the disk has one request at a time, each completion reaches the thread that
   waits for it, and a call returns with current data.                     *)
DriverCorrect ==
  LockCoversCall /\ OneRequestAtATime /\ CompletionMatchesRequest /\ DataCurrentAtReturn

(* A request that was started returns. *)
RequestsReturn == \A t \in Thread : pc[t] = "wait" ~> pc[t] = "idle"
=============================================================================
