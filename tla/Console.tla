------------------------------- MODULE Console -------------------------------
(***************************************************************************)
(* The console device (machine/console.cc) and ConsoleTest, the thread that *)
(* echoes what is typed (userprog/progtest.cc).                            *)
(***************************************************************************)
EXTENDS Naturals, Sequences

CONSTANTS
  Chars,       \* characters of the keyboard; "q" ends the test
  MaxTyped     \* bound on what is typed

VARIABLES
  keyboard,    \* typed and not yet read (readFileNo)
  display,     \* the characters written (writeFileNo)
  incoming, putBusy,
  readAvail, writeDone,  \* values of the semaphores
  place, ch,   \* where ConsoleTest is, and its character
  typed        \* history of the keyboard

consoleVars == <<keyboard, display, incoming, putBusy, readAvail, writeDone, place, ch, typed>>

EOF == "EOF"

(* The character 255 is the same as EOF to a signed char, and would be lost. *)
ASSUME ConsoleAssumption == EOF \notin Chars

(* Console::Console and the start of ConsoleTest *)
ConsoleInit ==
  /\ keyboard = <<>> /\ display = <<>> /\ typed = <<>>
  /\ incoming = EOF /\ putBusy = FALSE
  /\ readAvail = 0 /\ writeDone = 0
  /\ place = "read" /\ ch = EOF

(* The user types. *)
Type(c) ==
  /\ Len(typed) < MaxTyped
  /\ keyboard' = Append(keyboard, c) /\ typed' = Append(typed, c)
  /\ UNCHANGED <<display, incoming, putBusy, readAvail, writeDone, place, ch>>

-----------------------------------------------------------------------------
(* Mutant of Buffered: a character that was not taken is overwritten. *)
BufferedNever == FALSE
Buffered == incoming # EOF

(* Console::CheckCharAvail, when it finds something to do *)
CheckCharAvail ==
  /\ place # "halted" /\ ~Buffered /\ keyboard # <<>>
  /\ incoming' = Head(keyboard) /\ keyboard' = Tail(keyboard)
  /\ readAvail' = readAvail + 1
  /\ UNCHANGED <<display, putBusy, writeDone, place, ch, typed>>

(* Mutant of WriteDone: the thread is not told. *)
WriteDoneSilent ==
  /\ place # "halted" /\ putBusy /\ putBusy' = FALSE
  /\ UNCHANGED <<keyboard, display, incoming, readAvail, writeDone, place, ch, typed>>

(* Console::WriteDone and its handler *)
WriteDone ==
  /\ place # "halted" /\ putBusy /\ putBusy' = FALSE
  /\ writeDone' = writeDone + 1
  /\ UNCHANGED <<keyboard, display, incoming, readAvail, place, ch, typed>>

(* ConsoleTest: wait for a character to arrive *)
ReadAvailP ==
  /\ place = "read" /\ readAvail > 0
  /\ readAvail' = readAvail - 1
  /\ place' = "echo"
  /\ UNCHANGED <<keyboard, display, incoming, putBusy, writeDone, ch, typed>>

(* Console::GetChar and Console::PutChar *)
GetChar == ch' = incoming /\ incoming' = EOF
PutChar(c) == display' = Append(display, c) /\ putBusy' = TRUE

(* ConsoleTest: echo it *)
Echo ==
  /\ place = "echo" /\ place' = "wait"
  /\ GetChar /\ PutChar(incoming)
  /\ UNCHANGED <<keyboard, readAvail, writeDone, typed>>

(* Mutant of WriteDoneP: the thread does not wait. *)
WriteDonePNot ==
  /\ place = "wait" /\ place' = IF ch = "q" THEN "halted" ELSE "read"
  /\ UNCHANGED <<keyboard, display, incoming, putBusy, readAvail, writeDone, ch, typed>>

(* ConsoleTest: wait for the write to finish; on a "q" return, and main halts *)
WriteDoneP ==
  /\ place = "wait" /\ writeDone > 0
  /\ writeDone' = writeDone - 1
  /\ place' = IF ch = "q" THEN "halted" ELSE "read"
  /\ UNCHANGED <<keyboard, display, incoming, putBusy, readAvail, ch, typed>>

ConsoleTest == ReadAvailP \/ Echo \/ WriteDoneP

ConsoleNext == (\E c \in Chars : Type(c)) \/ CheckCharAvail \/ WriteDone \/ ConsoleTest

ConsoleSpec == ConsoleInit /\ [][ConsoleNext]_consoleVars

-----------------------------------------------------------------------------
(* What is displayed is what was typed, without gaps: a character is read in
   "only ... if the previous character has been grabbed out of the buffer"
   (console.cc 80).                                                        *)
DisplaysTyped ==
  /\ Len(display) <= Len(typed)
  /\ \A i \in 1..Len(display) : display[i] = typed[i]

(* PutChar is never called while a character is being written, which it asserts. *)
PutOnlyWhenIdle == place = "echo" => ~putBusy

(* All that is typed before a "q" is displayed, and the "q" ends the test. *)
EchoesAll ==
  /\ \A n \in 1..MaxTyped : (Len(typed) >= n) ~> (Len(display) >= n \/ place = "halted")
  /\ ("q" \in {typed[i] : i \in 1..Len(typed)}) ~> (place = "halted")

(* What the console displays is what was typed, without gaps (console.cc 80),
   and PutChar is never called while a character is being written.         *)
EchoIsFaithful == DisplaysTyped /\ PutOnlyWhenIdle
=============================================================================
