--------------------------- MODULE ContextSwitch ----------------------------
(***************************************************************************)
(* The i386 part of threads/switch.s with Thread::StackAllocate: the       *)
(* registers, the control blocks and the stacks of the threads.  A word is *)
(* a tuple whose first component says what it is.  SWITCH runs with the    *)
(* simulated interrupts off, so it is one step; the order of its moves is  *)
(* kept.  The code of the threads is external: it clobbers the registers   *)
(* that the calling convention gives it, forks, switches and returns.      *)
(***************************************************************************)
EXTENDS Integers, Sequences, SequencesExt

CONSTANTS
  Thread, Main,  \* the threads, the one that starts Nachos
  StackSize,     \* words of a stack, at least 11
  Clobber        \* values that running code leaves in its registers

VARIABLES
  m,              \* [regs, eaxSave, tcb, stack, outside]
  pc,             \* where the processor is: a function, in Run, in ThreadRoot
  currentThread,
  status,         \* "none", "alive" or "finished"
  left,           \* history: the registers with which a thread called SWITCH
  calls           \* history: what ThreadRoot has called, with the argument

vars == <<m, pc, currentThread, status, left, calls>>

Register == {"eax", "ebx", "ecx", "edx", "esi", "edi", "ebp", "esp"}

Junk == <<"junk", 0>>
Fn(name) == <<"fn", name>>     \* an entry point of the kernel
Func(t) == <<"func", t>>       \* the function that t is forked with
Pointer(t) == <<"thread", t>>
InStack(t, k) == <<"stack", t, k>>

----------------------------------------------------------------------------
(* Operands of movl: a register, a word above esp, a field of the control
   block that eax points to, the variable _eax_save.                       *)
R(r) == <<"reg", r>>
S(k) == <<"above", k>>
F(f) == <<"field", f>>
EaxSave == <<"save", 0>>

StackOf(x) == x.regs.esp[2]
Top(x) == x.regs.esp[3]

Value(x, loc) ==
  CASE loc[1] = "reg" -> x.regs[loc[2]]
    [] loc[1] = "above" -> x.stack[StackOf(x)][Top(x) + loc[2]]
    [] loc[1] = "field" -> x.tcb[x.regs.eax[2]][loc[2]]
    [] loc[1] = "save" -> x.eaxSave

PokeStack(x, t, k, w) ==
  IF k \in 0..(StackSize - 1) THEN [x EXCEPT !.stack[t][k] = w]
  ELSE [x EXCEPT !.outside = TRUE]

Stored(x, loc, w) ==
  CASE loc[1] = "reg" -> [x EXCEPT !.regs[loc[2]] = w]
    [] loc[1] = "above" -> PokeStack(x, StackOf(x), Top(x) + loc[2], w)
    [] loc[1] = "field" -> [x EXCEPT !.tcb[x.regs.eax[2]][loc[2]] = w]
    [] loc[1] = "save" -> [x EXCEPT !.eaxSave = w]

Movl(x, move) == Stored(x, move[2], Value(x, move[1]))

Pushl(x, w) ==
  PokeStack([x EXCEPT !.regs.esp = InStack(StackOf(x), Top(x) - 1)],
            StackOf(x), Top(x) - 1, w)

Popped(x, n) == [x EXCEPT !.regs.esp = InStack(StackOf(x), Top(x) + n)]

----------------------------------------------------------------------------
SwitchMovesEaxLate ==
  <<<<S(1), R("eax")>>,
    <<R("ebx"), F("ebx")>>, <<R("ecx"), F("ecx")>>, <<R("edx"), F("edx")>>,
    <<R("esi"), F("esi")>>, <<R("edi"), F("edi")>>, <<R("ebp"), F("ebp")>>,
    <<R("esp"), F("esp")>>, <<R("eax"), F("eax")>>,
    <<S(0), R("ebx")>>, <<R("ebx"), F("pc")>>,
    <<S(2), R("eax")>>, <<F("eax"), R("ebx")>>, <<R("ebx"), EaxSave>>,
    <<F("ebx"), R("ebx")>>, <<F("ecx"), R("ecx")>>, <<F("edx"), R("edx")>>,
    <<F("esi"), R("esi")>>, <<F("edi"), R("edi")>>, <<F("ebp"), R("ebp")>>,
    <<F("esp"), R("esp")>>,
    <<F("pc"), R("eax")>>, <<R("eax"), S(1)>>, <<EaxSave, R("eax")>>>>

(* SWITCH(t1, t2): save into t1, which is above the return address, load
   from t2, which is above t1, in the order of the instructions.           *)
SwitchMoves ==
  <<<<R("eax"), EaxSave>>, <<S(1), R("eax")>>,
    <<R("ebx"), F("ebx")>>, <<R("ecx"), F("ecx")>>, <<R("edx"), F("edx")>>,
    <<R("esi"), F("esi")>>, <<R("edi"), F("edi")>>, <<R("ebp"), F("ebp")>>,
    <<R("esp"), F("esp")>>,
    <<EaxSave, R("ebx")>>, <<R("ebx"), F("eax")>>,
    <<S(0), R("ebx")>>, <<R("ebx"), F("pc")>>,
    <<S(2), R("eax")>>, <<F("eax"), R("ebx")>>, <<R("ebx"), EaxSave>>,
    <<F("ebx"), R("ebx")>>, <<F("ecx"), R("ecx")>>, <<F("edx"), R("edx")>>,
    <<F("esi"), R("esi")>>, <<F("edi"), R("edi")>>, <<F("ebp"), R("ebp")>>,
    <<F("esp"), R("esp")>>,
    <<F("pc"), R("eax")>>, <<R("eax"), S(1)>>, <<EaxSave, R("eax")>>>>

SWITCH(x) == FoldLeft(Movl, x, SwitchMoves)

FirstTopUnsafe == StackSize - 1
FirstTop == StackSize - 4 - 1

InitialStateSwapped(t) ==
  [esp |-> InStack(t, FirstTop), pc |-> <<"ThreadRoot", 1>>,
   ecx |-> Fn("InterruptEnable"), esi |-> Fn("ThreadFinish"), edx |-> <<"arg", t>>,
   edi |-> Func(t), eax |-> Junk, ebx |-> Junk, ebp |-> Junk]

(* machineState as Thread::StackAllocate fills it *)
InitialState(t) ==
  [esp |-> InStack(t, FirstTop), pc |-> <<"ThreadRoot", 1>>,
   ecx |-> Fn("InterruptEnable"), esi |-> Func(t), edx |-> <<"arg", t>>,
   edi |-> Fn("ThreadFinish"), eax |-> Junk, ebx |-> Junk, ebp |-> Junk]

StackAllocate(x, t) ==
  PokeStack([x EXCEPT !.tcb[t] = InitialState(t),
                      !.stack[t] = [k \in 0..(StackSize - 1) |->
                                      IF k = 0 THEN <<"fencepost", 0>> ELSE Junk]],
            t, FirstTop, <<"ThreadRoot", 1>>)

----------------------------------------------------------------------------
Init ==
  /\ m = [regs |-> [r \in Register |-> IF r = "esp" THEN InStack(Main, StackSize - 1)
                                       ELSE Junk],
          eaxSave |-> Junk,
          tcb |-> [t \in Thread |-> [f \in Register \cup {"pc"} |-> Junk]],
          stack |-> [t \in Thread |-> [k \in 0..(StackSize - 1) |-> Junk]],
          outside |-> FALSE]
  /\ pc = Func(Main)
  /\ currentThread = Main
  /\ status = [t \in Thread |-> IF t = Main THEN "alive" ELSE "none"]
  /\ left = [t \in Thread |-> m.regs]
  /\ calls = [t \in Thread |-> <<>>]

InFunction == pc[1] \in {"fn", "func"}

(* The running function uses the registers that it may use. *)
Work(v) ==
  /\ InFunction
  /\ m' = [m EXCEPT !.regs = [r \in Register |->
                                IF r \in {"eax", "ebx", "ecx", "edx"} THEN <<r, v>> ELSE @[r]]]
  /\ UNCHANGED <<pc, currentThread, status, left, calls>>

Fork(t) ==
  /\ pc[1] = "func" /\ status[t] = "none"
  /\ m' = StackAllocate(m, t)
  /\ status' = [status EXCEPT ![t] = "alive"]
  /\ UNCHANGED <<pc, currentThread, left, calls>>

(* Scheduler::Run(t): the call of SWITCH, and its ret at the other end *)
Run(t) ==
  LET old == currentThread
      called == Pushl(Pushl(m, Pointer(t)), Pointer(old))
      done == SWITCH(Pushl(called, <<"Run", pc>>))
  IN  /\ InFunction /\ status[t] = "alive" /\ t # old
      /\ currentThread' = t
      /\ status' = [status EXCEPT ![old] = IF pc = Fn("ThreadFinish") THEN "finished" ELSE @]
      /\ left' = [left EXCEPT ![old] = called.regs]
      /\ pc' = Value(done, S(0))
      /\ m' = Popped(done, 1)
      /\ UNCHANGED calls

(* SWITCH has returned to Run, which drops the two arguments and returns. *)
Resume ==
  /\ pc[1] = "Run"
  /\ m' = Popped(m, 2)
  /\ pc' = pc[2]
  /\ UNCHANGED <<currentThread, status, left, calls>>

(* A call from ThreadRoot; the argument is the word on top of the stack. *)
Call(x, function, next) ==
  /\ m' = Pushl(x, <<"ThreadRoot", next>>)
  /\ pc' = function
  /\ calls' = [calls EXCEPT ![currentThread] = Append(@, <<function, Value(x, S(0))>>)]
  /\ UNCHANGED <<currentThread, status, left>>

Prologue ==
  LET entered == Pushl(m, m.regs.ebp)
  IN  Pushl([entered EXCEPT !.regs.ebp = entered.regs.esp], m.regs.edx)

ThreadRoot ==
  \/ pc = <<"ThreadRoot", 1>> /\ Call(Prologue, m.regs.ecx, 2)
  \/ pc = <<"ThreadRoot", 2>> /\ Call(m, m.regs.esi, 3)
  \/ pc = <<"ThreadRoot", 3>> /\ Call(m, m.regs.edi, 4)

Return ==
  /\ InFunction /\ pc # Fn("ThreadFinish") /\ pc # Func(Main)
  /\ pc' = Value(m, S(0))
  /\ m' = Popped(m, 1)
  /\ UNCHANGED <<currentThread, status, left, calls>>

Next ==
  \/ \E v \in Clobber : Work(v)
  \/ \E t \in Thread : Fork(t) \/ Run(t)
  \/ Resume \/ ThreadRoot \/ Return

Spec == Init /\ [][Next]_vars

----------------------------------------------------------------------------
(* A thread that gave up the processor in Run finds every register as it
   left it when SWITCH returns, on its own stack, whatever the threads that
   ran meanwhile did with the registers and whichever of them were new.    *)
ResumesAsLeft == pc[1] = "Run" => m.regs = left[currentThread]

(* The first frame of a thread enables the interrupts, calls the function
   with its argument and then Thread::Finish, each once and in this order,
   although it is switched away in any of them and the functions clobber
   the registers that held the addresses and the argument at first.        *)
RootCallsInOrder ==
  \A t \in Thread :
    /\ Len(calls[t]) <= 3
    /\ \A k \in 1..Len(calls[t]) :
         calls[t][k] = <<<<Fn("InterruptEnable"), Func(t), Fn("ThreadFinish")>>[k],
                         <<"arg", t>>>>

(* No push and no move of SWITCH writes outside the stack that it works on,
   although SWITCH stores the return address a word above the top of the
   stack of a thread that has never run.                                   *)
StaysInStack == ~m.outside
=============================================================================
