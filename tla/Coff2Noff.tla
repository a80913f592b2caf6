----------------------------- MODULE Coff2Noff ------------------------------
(***************************************************************************)
(* bin/coff2noff.c, which turns an executable of the linker into the NOFF  *)
(* file that AddrSpace::AddrSpace loads.  A step handles the headers, one  *)
(* section, or the header of the result.  The file may be of the wrong     *)
(* kind or too short, and the output may not be writable.  Addresses and   *)
(* sizes are in words.  The linker itself is not part of the repository;   *)
(* test/script gives the order of the sections.                            *)
(***************************************************************************)
EXTENDS Integers, Sequences, SequencesExt

CONSTANTS
  Sizes,   \* the sizes of sections to be tried
  Gaps,    \* the alignment gaps in front of a section
  Orphans  \* names of sections that the linker script does not place

HeaderWords == 3  \* stands for the headers at the front of the file

(* The sections of test/script in their order, and perhaps an orphan *)
SectionNames == {<<".text", ".rdata", ".data", ".sbss", ".bss">> \o o :
                   o \in {<<>>} \cup {<<n>> : n \in Orphans}}

IsBss(name) == name \in {".sbss", ".bss"}
IsData(name) == name \in {".data", ".rdata"}

(* struct scnhdr: name, load address, size, place of the contents in the file *)
Sections(names, size, gap) ==
  LET n == Len(names)
      end[k \in 0..n] == IF k = 0 THEN 0 ELSE end[k - 1] + gap[k] + size[k]
      stored[k \in 0..n] == IF k = 0 THEN HeaderWords
                            ELSE stored[k - 1] + IF IsBss(names[k]) THEN 0 ELSE size[k]
  IN  [k \in 1..n |->
         [s_name |-> names[k], s_paddr |-> end[k] - size[k], s_size |-> size[k],
          s_scnptr |-> IF IsBss(names[k]) THEN 0 ELSE stored[k - 1]]]

Contents(section) == [k \in 1..section.s_size |-> <<section.s_name, k>>]

(* The whole file *)
CoffFile(sections) ==
  [k \in 1..HeaderWords |-> <<"header", k>>]
    \o FlattenSeq([k \in 1..Len(sections) |->
                     IF IsBss(sections[k].s_name) THEN <<>> ELSE Contents(sections[k])])

Linked ==
  UNION {{Sections(names, size, gap) :
            size \in [1..Len(names) -> Sizes],
            gap \in {g \in [1..Len(names) -> Gaps] : g[1] = 0 /\ g[2] = 0}} :
         names \in SectionNames}

(* What the linked program has in memory at an address before it starts *)
Zero == <<"zero", 0>>
MemoryImage(sections, a) ==
  LET here == {k \in 1..Len(sections) :
                 /\ ~IsBss(sections[k].s_name)
                 /\ a \in sections[k].s_paddr..(sections[k].s_paddr + sections[k].s_size - 1)}
  IN  IF here = {} THEN Zero
      ELSE LET k == CHOOSE k \in here : TRUE
           IN  <<sections[k].s_name, a - sections[k].s_paddr + 1>>

End(sections) == sections[Len(sections)].s_paddr + sections[Len(sections)].s_size

-----------------------------------------------------------------------------

VARIABLES
  sections,    \* the section headers
  coff,        \* the words of the input file
  magicOk,     \* do both magic numbers match?
  writable,    \* has the output file been opened?
  i,           \* next section
  noffH,       \* header of the result
  inNoffFile,  \* next free position in the result
  noff,        \* words written behind the header of the result
  status       \* "start", "copy", "done" or "failed"

input == <<sections, coff, magicOk, writable>>
vars == <<sections, coff, magicOk, writable, i, noffH, inNoffFile, noff, status>>

Segment == [virtualAddr |-> 0, inFileAddr |-> 0, size |-> 0]
NoffWords == 10  \* sizeof(NoffHeader)

Init ==
  /\ sections \in Linked
  /\ \E short \in {0, 1} :
       coff = SubSeq(CoffFile(sections), 1, Len(CoffFile(sections)) - short)
  /\ magicOk \in BOOLEAN
  /\ writable \in BOOLEAN
  /\ i = 1
  /\ noffH = [code |-> Segment, initData |-> Segment, uninitData |-> Segment]
  /\ inNoffFile = NoffWords
  /\ noff = <<>>
  /\ status = "start"

(* exit(1); the output file has been removed, as noff = <<>> says. *)
FailKeepsFile ==
  /\ status' = "failed"
  /\ UNCHANGED <<input, i, noffH, inNoffFile, noff>>

Fail ==
  /\ status' = "failed"
  /\ noff' = <<>>
  /\ UNCHANGED <<input, i, noffH, inNoffFile>>

(* Read the headers and check the magic numbers. *)
CheckHeaders ==
  /\ status = "start"
  /\ IF magicOk /\ Len(coff) >= HeaderWords
     THEN status' = "copy" /\ UNCHANGED <<input, i, noffH, inNoffFile, noff>>
     ELSE Fail

s == sections[i]

Skip == s.s_size = 0 /\ UNCHANGED <<noffH, inNoffFile, noff>>

CanCopy == s.s_scnptr + s.s_size <= Len(coff) /\ writable

PlacedAtSource(segment) ==
  [noffH EXCEPT ![segment] = [virtualAddr |-> s.s_paddr, inFileAddr |-> s.s_scnptr,
                              size |-> s.s_size]]

Placed(segment) ==
  [noffH EXCEPT ![segment] = [virtualAddr |-> s.s_paddr, inFileAddr |-> inNoffFile,
                              size |-> s.s_size]]

(* Copy a section that has contents into the file. *)
Copied(segment) ==
  /\ CanCopy
  /\ noffH' = Placed(segment)
  /\ noff' = noff \o SubSeq(coff, s.s_scnptr + 1, s.s_scnptr + s.s_size)
  /\ inNoffFile' = inNoffFile + s.s_size

Text == s.s_size # 0 /\ s.s_name = ".text" /\ Copied("code")

Data ==
  /\ s.s_size # 0 /\ IsData(s.s_name)
  /\ noffH.initData.size = 0
  /\ Copied("initData")

(* The two sections of uninitialized data may not touch. *)
BssRejected ==
  /\ noffH.uninitData.size # 0
  /\ s.s_paddr = noffH.uninitData.virtualAddr + noffH.uninitData.size

Bss ==
  /\ s.s_size # 0 /\ IsBss(s.s_name)
  /\ ~BssRejected
  /\ noffH' = IF noffH.uninitData.size # 0
              THEN [noffH EXCEPT !.uninitData.size = @ + s.s_size]
              ELSE [noffH EXCEPT !.uninitData.virtualAddr = s.s_paddr,
                                 !.uninitData.size = s.s_size]
  /\ UNCHANGED <<inNoffFile, noff>>

Refused ==
  /\ s.s_size # 0
  /\ \/ s.s_name = ".text" /\ ~CanCopy
     \/ IsData(s.s_name) /\ (noffH.initData.size # 0 \/ ~CanCopy)
     \/ IsBss(s.s_name) /\ BssRejected
     \/ s.s_name # ".text" /\ ~IsData(s.s_name) /\ ~IsBss(s.s_name)

CopySection ==
  /\ status = "copy" /\ i <= Len(sections)
  /\ \/ /\ Skip \/ Text \/ Data \/ Bss
        /\ i' = i + 1
        /\ UNCHANGED <<input, status>>
     \/ Refused /\ Fail

WriteHeader ==
  /\ status = "copy" /\ i > Len(sections)
  /\ IF writable THEN status' = "done" /\ UNCHANGED <<input, i, noffH, inNoffFile, noff>>
     ELSE Fail

Next == CheckHeaders \/ CopySection \/ WriteHeader

Spec == Init /\ [][Next]_vars

----------------------------------------------------------------------------
(* Memory at address a once AddrSpace::AddrSpace has zeroed it and read the
   segments that the header describes, the data over the code.             *)
SegmentWord(segment, a) ==
  LET k == segment.inFileAddr - NoffWords + 1 + a - segment.virtualAddr
  IN  IF k \in DOMAIN noff THEN noff[k] ELSE <<"unread", a>>

InSegment(segment, a) ==
  a \in segment.virtualAddr..(segment.virtualAddr + segment.size - 1)

Loaded(a) ==
  IF InSegment(noffH.initData, a) THEN SegmentWord(noffH.initData, a)
  ELSE IF InSegment(noffH.code, a) THEN SegmentWord(noffH.code, a)
  ELSE Zero

(* A file that coff2noff accepts is loaded by AddrSpace as the program that
   the linker laid out: every word of code and data at its address, and
   zeros everywhere else.                                                  *)
LoadsWhatWasLinked ==
  status = "done" => \A a \in 0..End(sections) : Loaded(a) = MemoryImage(sections, a)

(* A conversion that fails, at whatever section, leaves no file that could
   be taken for a program: every exit(1) of coff2noff follows an unlink.   *)
NoPartialResult == status = "failed" => noff = <<>>
=============================================================================
