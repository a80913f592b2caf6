---------------------------- MODULE UserPrograms ----------------------------
(***************************************************************************)
(* Two user programs in memory, as StartProcess of userprog/progtest.cc    *)
(* starts them in the build with a TLB (USE_TLB, TLB_LRU, MULTI_THREAD):   *)
(* address spaces (userprog/addrspace.cc), translation and TLB             *)
(* (machine/translate.cc, machine/machine.cc), page faults and exit        *)
(* (userprog/exception.cc), context switches (threads/scheduler.cc).       *)
(* Memory is counted in pages.  A frame holds the mark of the program and  *)
(* of the virtual page that was loaded into it; what the programs store    *)
(* there later is not tracked, only that they do.                          *)
(***************************************************************************)
EXTENDS BitMap, Sequences

CONSTANTS
  TLBSize, numPages,  \* entries that are searched, pages of a program, not fewer
  imagePages,         \* pages with code and initialised data, not more
  MaxHits             \* bound on the hit count of an entry

ASSUME KernelAssumption ==
  /\ numBits \in Nat /\ numPages \in Nat
  /\ TLBSize \in 1..numPages /\ imagePages \in 0..numPages

NumPhysPages == numBits

Threads == {"main", "2ndThread"}
Other(t) == CHOOSE u \in Threads : u # t
None == "none"
Zero == <<"zero", 0>>

VARIABLES
  bitMap, mainMemory, tlb, registers,  \* the machine; tlb: whose page table it is
  pageTable,      \* page table of each program; threads stand for their spaces
  frames,         \* the frames the constructor found for each program
  userRegisters,  \* whose values were saved for each thread
  currentThread, phase, halted

machineVars == <<bitMap, mainMemory, tlb, registers>>
threadVars == <<userRegisters, currentThread, phase, halted>>
kernelVars == <<machineVars, threadVars, pageTable, frames>>

VPages == 0..(numPages - 1)
Searched == 0..(TLBSize - 1)

-----------------------------------------------------------------------------
TranslationEntry(v, frame) ==
  [virtualPage |-> v, physicalPage |-> frame, valid |-> TRUE, dirty |-> FALSE, hitRate |-> 0]

(* Machine::Machine, before StartProcess runs *)
KernelInit ==
  /\ bitMap = BitMap /\ mainMemory = [f \in Bits |-> Zero]
  /\ tlb = None /\ registers = None
  /\ pageTable = [t \in Threads |-> <<>>] /\ frames = [t \in Threads |-> <<>>]
  /\ userRegisters = [t \in Threads |-> None]
  /\ currentThread = "main" /\ halted = FALSE
  /\ phase = [t \in Threads |-> IF t = "main" THEN "load" ELSE None]

(* Mutant of AddrSpace: code and data go to the frames with the numbers of
   their pages.                                                            *)
AddrSpaceUnmapped(t) ==
  LET found == FindMany(bitMap, numPages)
  IN /\ -1 \notin {found.sectors[i] : i \in 1..numPages}
     /\ bitMap' = found.map
     /\ frames' = [frames EXCEPT ![t] = found.sectors]
     /\ pageTable' = [pageTable EXCEPT ![t] =
                        [v \in VPages |-> TranslationEntry(v, found.sectors[v + 1])]]
     /\ mainMemory' = [f \in Bits |->
          IF f < imagePages THEN <<t, f>> ELSE IF f < numPages THEN Zero ELSE mainMemory[f]]

(* AddrSpace::AddrSpace: frames from the bit map (Machine::Find asserts that
   there are enough), the first frames of memory zeroed, code and data copied *)
AddrSpace(t) ==
  LET found == FindMany(bitMap, numPages)
      cleared == [f \in Bits |-> IF f < numPages THEN Zero ELSE mainMemory[f]]
  IN /\ -1 \notin {found.sectors[i] : i \in 1..numPages}
     /\ bitMap' = found.map
     /\ frames' = [frames EXCEPT ![t] = found.sectors]
     /\ pageTable' = [pageTable EXCEPT ![t] =
                        [v \in VPages |-> TranslationEntry(v, found.sectors[v + 1])]]
     /\ mainMemory' = [f \in Bits |->
          IF \E v \in 0..(imagePages - 1) : found.sectors[v + 1] = f
          THEN <<t, CHOOSE v \in 0..(imagePages - 1) : found.sectors[v + 1] = f>>
          ELSE cleared[f]]

(* StartProcess: the address spaces of both threads, one after the other *)
LoadFirst ==
  /\ phase["main"] = "load" /\ AddrSpace("main")
  /\ phase' = [phase EXCEPT !["main"] = "load2"]
  /\ UNCHANGED <<tlb, registers, userRegisters, currentThread, halted>>
LoadSecond ==
  /\ phase["main"] = "load2" /\ AddrSpace("2ndThread")
  /\ phase' = [phase EXCEPT !["main"] = "fork"]
  /\ UNCHANGED <<tlb, registers, userRegisters, currentThread, halted>>

(* AddrSpace::InitRegisters and AddrSpace::RestoreState of thread t *)
InitRegisters(t) == registers' = t
RestoreState(t) == tlb' = t

(* StartProcess: the state of the second program set up, Fork *)
ForkSecond ==
  /\ phase["main"] = "fork"
  /\ InitRegisters("2ndThread") /\ RestoreState("2ndThread")
  /\ phase' = [phase EXCEPT !["main"] = "yield", !["2ndThread"] = "new"]
  /\ UNCHANGED <<bitMap, mainMemory, pageTable, frames, userRegisters, currentThread, halted>>

(* AddrSpace::SaveState: the first entries of whatever table tlb points to *)
SaveState ==
  pageTable' = [pageTable EXCEPT ![tlb] = [v \in VPages |->
                  IF v \in Searched THEN [@[v] EXCEPT !.valid = FALSE] ELSE @[v]]]

(* Thread::SaveUserState and Thread::RestoreUserState *)
SaveUserState == userRegisters' = [userRegisters EXCEPT ![currentThread] = registers]
RestoreUserState(t) == registers' = userRegisters[t]

(* Scheduler::Run of thread t: a thread that has run before comes back here and
   restores its state, a new one starts at ThreadRoot.                     *)
RunThread(t) ==
  /\ SaveUserState /\ SaveState
  /\ currentThread' = t
  /\ IF phase[t] = "new" THEN UNCHANGED <<registers, tlb>>
     ELSE RestoreUserState(t) /\ RestoreState(t)

(* forkThreadFunc: a new thread goes on to user code *)
Started(p) == [p EXCEPT ![Other(currentThread)] = IF @ = "new" THEN "user" ELSE @]
Ready(t) == phase[t] \in {"new", "yield", "start", "user"}

(* StartProcess: the main thread yields to the second *)
YieldMain ==
  /\ ~halted /\ currentThread = "main" /\ phase["main"] = "yield"
  /\ IF Ready("2ndThread")
     THEN RunThread("2ndThread") ELSE UNCHANGED <<userRegisters, pageTable, currentThread, registers, tlb>>
  /\ phase' = [Started(phase) EXCEPT !["main"] = "start"]
  /\ UNCHANGED <<bitMap, mainMemory, frames, halted>>

(* Mutant of StartMain: the registers are not initialised again. *)
StartMainBare ==
  /\ ~halted /\ currentThread = "main" /\ phase["main"] = "start"
  /\ tlb' = "main"
  /\ phase' = [phase EXCEPT !["main"] = "user"]
  /\ UNCHANGED <<bitMap, registers, mainMemory, pageTable, frames, userRegisters, currentThread, halted>>

(* StartProcess: InitRegisters, RestoreState and Run for the first program *)
StartMain ==
  /\ ~halted /\ currentThread = "main" /\ phase["main"] = "start"
  /\ InitRegisters("main") /\ RestoreState("main")
  /\ phase' = [phase EXCEPT !["main"] = "user"]
  /\ UNCHANGED <<bitMap, mainMemory, pageTable, frames, userRegisters, currentThread, halted>>

(* A time slice ends: in user code, or where Fork or Yield enables interrupts. *)
Preempt ==
  /\ ~halted /\ phase[currentThread] \in {"yield", "start", "user"} /\ Ready(Other(currentThread))
  /\ RunThread(Other(currentThread))
  /\ phase' = Started(phase)
  /\ UNCHANGED <<bitMap, mainMemory, frames, halted>>

-----------------------------------------------------------------------------
(* Machine::Translate: the first valid entry of the page (-1: page fault) and
   the table with its use recorded                                         *)
Matches(table, v) == {i \in Searched : table[i].valid /\ table[i].virtualPage = v}
Translate(table, v, writing) ==
  IF Matches(table, v) = {} THEN [i |-> -1, table |-> table]
  ELSE LET i == CHOOSE i \in Matches(table, v) : \A j \in Matches(table, v) : i <= j
       IN [i |-> i, table |-> [table EXCEPT ![i].hitRate = @ + 1, ![i].dirty = @ \/ writing]]

(* Mutant of tlbSwap: pages and frames have the same numbers. *)
tlbSwapIdentity(table, v) ==
  LET i == CHOOSE i \in Searched : \A j \in Searched : table[i].hitRate <= table[j].hitRate
  IN [table EXCEPT ![i] = TranslationEntry(v, v)]

(* Machine::tlbSwap: the first invalid entry, or the first of those with the
   fewest hits, takes the virtual page and keeps its frame.                *)
tlbSwap(table, v) ==
  LET empty == {i \in Searched : ~table[i].valid}
      few == {i \in Searched : \A j \in Searched : table[i].hitRate <= table[j].hitRate}
      candidates == IF empty # {} THEN empty ELSE few
      i == CHOOSE i \in candidates : \A j \in candidates : i <= j
  IN [table EXCEPT ![i] = TranslationEntry(v, table[i].physicalPage)]

(* Mutant of PageFault: the entry that was found is loaded again. *)
PageFaultAlways(first, v) == Translate(tlbSwap(first.table, v), v, TRUE)

(* Machine::RaiseException, ExceptionHandler for a page fault, and the second
   translation, which is one for writing                                   *)
PageFault(first, v) ==
  IF first.i # -1 THEN first ELSE Translate(tlbSwap(first.table, v), v, TRUE)

Access(v, writing) ==
  LET done == PageFault(Translate(pageTable[tlb], v, writing), v)
  IN /\ ~halted /\ phase[currentThread] = "user"
     /\ done.table[done.i].hitRate <= MaxHits
     /\ pageTable' = [pageTable EXCEPT ![tlb] = done.table]
     /\ UNCHANGED <<machineVars, threadVars, frames>>

(* Machine::ReadMem and Machine::WriteMem *)
ReadMem(v) == Access(v, FALSE)
WriteMem(v) == Access(v, TRUE)

-----------------------------------------------------------------------------
FramesIn(table) == {table[v].physicalPage : v \in VPages}

(* Machine::ClearAll: the frames of the table that tlb points to *)
ClearAll == bitMap \ FramesIn(pageTable[tlb])

(* Mutant of Destroyed: the virtual pages are taken for frames. *)
DestroyedVirtual(t) == {pageTable[t][v].virtualPage : v \in VPages}

(* AddrSpace::~AddrSpace: the frames of the table that are still marked *)
Destroyed(t) == FramesIn(pageTable[t])

(* ExceptionHandler for SC_Exit: ClearAll, then Finish.  If another thread is
   left it deletes this one and its address space; else Nachos halts.      *)
Exit ==
  /\ ~halted /\ phase[currentThread] = "user"
  /\ phase' = [phase EXCEPT ![currentThread] = "done"]
  /\ IF Ready(Other(currentThread))
     THEN /\ RunThread(Other(currentThread))
          /\ bitMap' = ClearAll \ Destroyed(currentThread)
          /\ UNCHANGED halted
     ELSE /\ bitMap' = ClearAll /\ halted' = TRUE
          /\ UNCHANGED <<userRegisters, pageTable, currentThread, registers, tlb>>
  /\ UNCHANGED <<mainMemory, frames>>

(* ExceptionHandler for SC_Halt *)
HaltCall ==
  /\ ~halted /\ phase[currentThread] = "user"
  /\ bitMap' = ClearAll /\ halted' = TRUE
  /\ UNCHANGED <<mainMemory, tlb, registers, pageTable, frames, userRegisters, currentThread, phase>>

KernelNext ==
  \/ LoadFirst \/ LoadSecond \/ ForkSecond \/ YieldMain \/ StartMain \/ Preempt
  \/ \E v \in VPages : ReadMem(v) \/ WriteMem(v)
  \/ Exit \/ HaltCall

KernelSpec == KernelInit /\ [][KernelNext]_kernelVars

-----------------------------------------------------------------------------
Loaded == {t \in Threads : frames[t] # <<>>}
FramesOf(t) == {frames[t][i] : i \in 1..numPages}

(* However the TLB shuffles the mappings, the table of a program maps to the
   frames that were found for it, each once, so no program can reach a frame
   of the other.                                                           *)
FramesPrivate ==
  /\ \A t \in Loaded :
       /\ FramesIn(pageTable[t]) = FramesOf(t)
       /\ \A i, j \in 1..numPages : i # j => frames[t][i] # frames[t][j]
  /\ \A t, u \in Loaded : t # u => FramesOf(t) \cap FramesOf(u) = {}

(* The marked frames are those of the programs that have not exited, although
   exit clears them through the TLB and the destructor clears them again.  *)
FramesReleased ==
  ~halted => bitMap = UNION {FramesOf(t) : t \in {u \in Loaded : phase[u] # "done"}}

(* A thread runs user code with its own registers and its own page table: the
   second thread finds those that the main thread set up before it forked it,
   and the main thread sets up its own when it comes back.                 *)
OwnState ==
  ~halted /\ phase[currentThread] = "user" => registers = currentThread /\ tlb = currentThread

(* A virtual page has at most one entry among those that are searched. *)
OneEntryPerPage ==
  \A t \in Loaded, v \in VPages : \A i, j \in Matches(pageTable[t], v) : i = j

(* A program that was just loaded holds "the code and data segments" in its
   pages and zeros in the others (addrspace.cc 106-125), although its frames
   are wherever the bit map had some.  Loading the second program zeroes
   frames of the first, so nothing is said of that one any more.           *)
LastLoadedIntact ==
  phase["main"] \in {"load2", "fork"} =>
    LET t == IF phase["main"] = "load2" THEN "main" ELSE "2ndThread"
    IN \A v \in VPages :
         mainMemory[frames[t][v + 1]] = IF v < imagePages THEN <<t, v>> ELSE Zero

(* No two programs, and no two pages, have a frame in common, and a frame is
   marked in the bit map exactly while a program has it
   (addrspace.cc 60-104, exception.cc 63).                                 *)
FramesExact == FramesPrivate /\ FramesReleased /\ OneEntryPerPage

(* A thread runs with its own registers and page table after any switch, and a
   program that was just loaded has its code and data in its pages.        *)
RunsWithOwnState == OwnState /\ LastLoadedIntact
=============================================================================
