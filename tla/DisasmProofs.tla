---------------------------- MODULE DisasmProofs ----------------------------
(***************************************************************************)
(* Theorems about the two disassemblers of Disasm, for every size of the   *)
(* range and whatever the bytes of the operands are taken for.             *)
(*                                                                         *)
(* The lemmas compare the two switches with the lengths of the             *)
(* instructions.  That the cursor stays on instructions is not inductive   *)
(* by itself: the step needs to know where the next instruction starts,    *)
(* and that in a section it starts inside, which are the other parts of    *)
(* IInv.                                                                   *)
(***************************************************************************)
EXTENDS Disasm, TLAPS

-----------------------------------------------------------------------------
(* The switches.                                                            *)

\* What MisreadBy is for one tool
MisreadBy(t) == {"FSQRT", "PUSH64"} \cup IF t = "rexdump" THEN {"LOADR64"} ELSE {}

\* The classes of operands have no opcode in common
LEMMA OneClassEach ==
  ASSUME NEW b
  PROVE  /\ b \in TakesWord => b \notin TakesByte \cup TakesBoth \cup {"PUSH64", "LOADR64"}
         /\ b \in TakesByte => b \notin TakesBoth \cup {"PUSH64", "LOADR64"}
         /\ b \in TakesBoth => b \notin {"PUSH64", "LOADR64"}
<1>1. b \in TakesWord => b \notin TakesByte \cup TakesBoth \cup {"PUSH64", "LOADR64"}
  BY DEF TakesWord, TakesByte, TakesBoth
<1>2. b \in TakesByte => b \notin TakesBoth \cup {"PUSH64", "LOADR64"}
  BY DEF TakesByte, TakesBoth
<1>3. b \in TakesBoth => b \notin {"PUSH64", "LOADR64"} BY DEF TakesBoth
<1> QED BY <1>1, <1>2, <1>3

LEMMA LengthIsLength == \A b : Length(b) \in Lengths
BY DEF Length, Lengths

\* An opcode the CPU takes to be longer than a byte has a case of that length
LEMMA LongOpcodesListed ==
  ASSUME NEW t \in {"disassemble", "rexdump"}, NEW b, Length(b) # 1,
         b \notin MisreadBy(t)
  PROVE  b \in Moves(t, Length(b))
<1>1. CASE b \in TakesWord
  <2>1. Length(b) = 5 BY <1>1, OneClassEach DEF Length
  <2>2. b \in DisassembleMoves(5) \cup DisassembleRegisters(5)
                \cup DisassembleItems(5) \cup DisassembleLast(5)
    BY <1>1 DEF TakesWord, DisassembleMoves, DisassembleRegisters,
                DisassembleItems, DisassembleLast
  <2>3. b \in RexdumpMoves(5) \cup RexdumpRegisters(5)
                \cup RexdumpItems(5) \cup RexdumpLast(5)
    BY <1>1 DEF TakesWord, RexdumpMoves, RexdumpRegisters, RexdumpItems,
                RexdumpLast
  <2> QED BY <2>1, <2>2, <2>3 DEF Moves
<1>2. CASE b \in TakesByte /\ b \notin TakesWord
  <2>1. Length(b) = 2 BY <1>2, OneClassEach DEF Length
  <2>2. b \in DisassembleMoves(2) \cup DisassembleRegisters(2)
                \cup DisassembleItems(2) \cup DisassembleLast(2)
    BY <1>2 DEF TakesByte, DisassembleMoves, DisassembleRegisters,
                DisassembleItems, DisassembleLast
  <2>3. b \in RexdumpMoves(2) \cup RexdumpRegisters(2)
                \cup RexdumpItems(2) \cup RexdumpLast(2)
    BY <1>2 DEF TakesByte, RexdumpMoves, RexdumpRegisters, RexdumpItems,
                RexdumpLast
  <2> QED BY <2>1, <2>2, <2>3 DEF Moves
<1>3. CASE b \in TakesBoth
  <2>1. Length(b) = 6 BY <1>3 DEF Length, TakesByte, TakesWord, TakesBoth
  <2>2. b \in DisassembleRegisters(6)
    BY <1>3 DEF TakesBoth, DisassembleRegisters
  <2>3. b \in RexdumpRegisters(6)
    BY <1>3 DEF TakesBoth, RexdumpRegisters
  <2> QED BY <2>1, <2>2, <2>3 DEF Moves
<1>4. CASE b = "LOADR64"
  <2>1. Length(b) = 11 BY <1>4 DEF Length, TakesByte, TakesWord, TakesBoth
  <2>2. t = "disassemble" BY <1>4 DEF MisreadBy
  <2>3. b \in DisassembleLast(11) BY <1>4 DEF DisassembleLast
  <2> QED BY <2>1, <2>2, <2>3 DEF Moves
<1>5. CASE b \notin TakesWord \cup TakesByte \cup TakesBoth /\ b # "LOADR64"
  <2>1. b # "PUSH64" BY DEF MisreadBy
  <2>2. Length(b) = 1 BY <1>5, <2>1 DEF Length
  <2> QED BY <2>2
<1> QED BY <1>1, <1>2, <1>3, <1>4, <1>5

\* A case that moves the cursor by n is for an opcode of n bytes
LEMMA ListedLengths ==
  ASSUME NEW t \in {"disassemble", "rexdump"}, NEW n \in Steps,
         NEW b \in Moves(t, n), b \notin MisreadBy(t) \cup {"RFC"}
  PROVE  Length(b) = n
<1>1. b \notin {"FSQRT", "PUSH64", "RFC"} /\ (t = "rexdump" => b # "LOADR64")
  BY DEF MisreadBy
<1>2. CASE n = 0
  BY <1>1, <1>2 DEF Moves, DisassembleMoves, DisassembleRegisters,
     DisassembleItems, DisassembleLast, RexdumpMoves, RexdumpRegisters,
     RexdumpItems, RexdumpLast
<1>3. CASE n = 1
  <2>1. \/ b \in DisassembleMoves(1) \/ b \in DisassembleRegisters(1)
        \/ b \in DisassembleItems(1) \/ b \in DisassembleLast(1)
    BY <1>3 DEF Moves, DisassembleMoves, DisassembleRegisters,
       DisassembleItems, DisassembleLast, RexdumpMoves, RexdumpRegisters,
       RexdumpItems, RexdumpLast
  <2>2. CASE b \in DisassembleMoves(1)
    BY <1>3, <2>2 DEF DisassembleMoves, Length, TakesByte, TakesWord, TakesBoth
  <2>3. CASE b \in DisassembleRegisters(1)
    BY <1>3, <2>3 DEF DisassembleRegisters, Length, TakesByte, TakesWord, TakesBoth
  <2>4. CASE b \in DisassembleItems(1)
    BY <1>3, <2>4 DEF DisassembleItems, Length, TakesByte, TakesWord, TakesBoth
  <2>5. CASE b \in DisassembleLast(1)
    BY <1>3, <2>5 DEF DisassembleLast, Length, TakesByte, TakesWord, TakesBoth
  <2> QED BY <2>1, <2>2, <2>3, <2>4, <2>5
<1>4. CASE n = 2
  <2>1. b \in DisassembleRegisters(2) \cup DisassembleItems(2)
    BY <1>1, <1>4 DEF Moves, DisassembleMoves, DisassembleRegisters,
       DisassembleItems, DisassembleLast, RexdumpMoves, RexdumpRegisters,
       RexdumpItems, RexdumpLast
  <2> QED BY <1>4, <2>1 DEF DisassembleRegisters, DisassembleItems, Length,
             TakesByte, TakesWord, TakesBoth
<1>5. CASE n = 5
  <2>1. b \in DisassembleMoves(5) \cup DisassembleRegisters(5)
                \cup DisassembleItems(5) \cup DisassembleLast(5)
    BY <1>5 DEF Moves, DisassembleMoves, DisassembleRegisters,
       DisassembleItems, DisassembleLast, RexdumpMoves, RexdumpRegisters,
       RexdumpItems, RexdumpLast
  <2>2. b \in TakesWord
    BY <2>1 DEF DisassembleMoves, DisassembleRegisters, DisassembleItems,
       DisassembleLast, TakesWord
  <2> QED BY <1>5, <2>2, OneClassEach DEF Length
<1>6. CASE n = 6
  <2>1. b \in TakesBoth
    BY <1>6 DEF Moves, DisassembleMoves, DisassembleRegisters,
       DisassembleItems, DisassembleLast, RexdumpMoves, RexdumpRegisters,
       RexdumpItems, RexdumpLast, TakesBoth
  <2> QED BY <1>6, <2>1 DEF Length, TakesByte, TakesWord, TakesBoth
<1>7. CASE n = 10
  BY <1>1, <1>7 DEF Moves, DisassembleMoves, DisassembleRegisters,
     DisassembleItems, DisassembleLast, RexdumpMoves, RexdumpRegisters,
     RexdumpItems, RexdumpLast
<1>8. CASE n = 11
  <2>1. b = "LOADR64"
    BY <1>1, <1>8 DEF Moves, DisassembleMoves, DisassembleRegisters,
       DisassembleItems, DisassembleLast, RexdumpMoves, RexdumpRegisters,
       RexdumpItems, RexdumpLast
  <2> QED BY <1>8, <2>1 DEF Length, TakesByte, TakesWord, TakesBoth
<1> QED BY <1>2, <1>3, <1>4, <1>5, <1>6, <1>7, <1>8 DEF Steps

\* Only FSQRT has a case that leaves the cursor where it is
LEMMA OnlyFsqrtStays ==
  ASSUME NEW t \in {"disassemble", "rexdump"}, NEW b, b # "FSQRT"
  PROVE  b \notin Moves(t, 0)
BY DEF Moves, DisassembleMoves, DisassembleRegisters, DisassembleItems,
   DisassembleLast, RexdumpMoves, RexdumpRegisters, RexdumpItems, RexdumpLast

LEMMA AdvanceIsStep ==
  ASSUME NEW t \in {"disassemble", "rexdump"}, NEW b
  PROVE  /\ Advance(t, b) \in Steps
         /\ b # "FSQRT" => Advance(t, b) # 0
<1>1. CASE \E n \in Steps : b \in Moves(t, n)
  <2>1. Advance(t, b) \in Steps /\ b \in Moves(t, Advance(t, b))
    <3> HIDE DEF Moves, Steps
    <3> QED BY <1>1 DEF Advance
  <2> QED BY <2>1, OnlyFsqrtStays
<1>2. CASE ~ \E n \in Steps : b \in Moves(t, n)
  <2>1. Advance(t, b) = 1
    <3> HIDE DEF Moves, Steps
    <3> QED BY <1>2 DEF Advance
  <2> QED BY <2>1 DEF Steps
<1> QED BY <1>1, <1>2

\* The two switches move the cursor by the length that cpu.c gives the
\* instruction, for every opcode but the ones known to be misread
LEMMA SwitchesAgree ==
  ASSUME NEW t \in {"disassemble", "rexdump"}, NEW b,
         b \notin MisreadBy(t) \cup {"RFC"}
  PROVE  Advance(t, b) = Length(b)
<1>1. CASE \E n \in Steps : b \in Moves(t, n)
  <2>1. Advance(t, b) \in Steps /\ b \in Moves(t, Advance(t, b))
    <3> HIDE DEF Moves, Steps
    <3> QED BY <1>1 DEF Advance
  <2> QED BY <2>1, ListedLengths
<1>2. CASE ~ \E n \in Steps : b \in Moves(t, n)
  <2>1. Advance(t, b) = 1
    <3> HIDE DEF Moves, Steps
    <3> QED BY <1>2 DEF Advance
  <2>2. Length(b) \in Steps BY LengthIsLength DEF Lengths, Steps
  <2>3. Length(b) = 1 BY <1>2, <2>2, LongOpcodesListed
  <2> QED BY <2>1, <2>3
<1> QED BY <1>1, <1>2

-----------------------------------------------------------------------------
(* The listing.                                                             *)

\* rexdump alone lists data, and a listing of data is never one of instructions
DataIsLost ==
    section = "data" => tool = "rexdump" /\ lost

\* At an instruction, the next one starts after it
NextAfter == aligned => byte \in Opcodes /\ next = i + Length(byte)

\* What begins inside a section ends inside it
SectionIsWhole == tool = "rexdump" /\ section = "text" /\ i < size => next <= size

IInv ==
    /\ TypeOK
    /\ DataIsLost
    /\ NextAfter
    /\ SectionIsWhole
    /\ ListsInstructions
    /\ EndsWithSection

LEMMA ToolsAndSections ==
  ASSUME TypeOK
  PROVE  /\ tool \in {"disassemble", "rexdump"}
         /\ section \in {"text", "data"}
         /\ size \in Nat \ {0}
         /\ i \in Nat /\ next \in Nat
         /\ Misread = MisreadBy(tool)
BY ToolsAssumption, SectionsAssumption, SizesAssumption
DEF TypeOK, Misread, MisreadBy

LEMMA BytesAreBytes ==
  /\ Opcodes \subseteq Bytes
  /\ OperandBytes \subseteq Bytes
  /\ "RFC" \notin Opcodes
<1>1. "RFC" \notin Opcodes BY DEF Opcodes
<1> QED BY <1>1, OperandAssumption DEF Bytes

LEMMA LengthBounds == \A b : Length(b) \in 1 .. 11 /\ Length(b) \in Nat
BY LengthIsLength DEF Lengths

LEMMA InitIInv == Init => IInv
<1> SUFFICES ASSUME Init PROVE IInv OBVIOUS
<1>0. tool \in {"disassemble", "rexdump"} /\ size \in Nat \ {0} /\ i = 0
  BY ToolsAssumption, SizesAssumption DEF Init
<1>1. CASE section = "text" /\ byte \in Opcodes /\ next = Length(byte)
           /\ (tool = "rexdump" => next <= size) /\ aligned = TRUE
  <2>1. TypeOK BY <1>0, <1>1, LengthBounds, BytesAreBytes DEF Init, TypeOK
  <2> QED
    BY <1>0, <1>1, <2>1, LengthBounds DEF Init, IInv, DataIsLost, NextAfter,
       SectionIsWhole, ListsInstructions, EndsWithSection
<1>2. CASE /\ tool = "disassemble" \/ section = "data"
           /\ byte \in OperandBytes
           /\ next \in IF section = "data" THEN {1} ELSE 1 .. 10
           /\ aligned = FALSE
  <2>1. byte \in Bytes BY <1>2, BytesAreBytes
  <2>2. next \in 1 .. 10 BY <1>2
  <2>3. aligned \in BOOLEAN /\ lost \in BOOLEAN BY <1>2 DEF Init
  <2>4. TypeOK BY <1>0, <2>1, <2>2, <2>3 DEF Init, TypeOK
  <2> QED
    BY <1>0, <1>2, <2>4 DEF Init, IInv, DataIsLost, NextAfter,
       SectionIsWhole, ListsInstructions, EndsWithSection
<1> QED BY <1>1, <1>2 DEF Init

\* One round moves the cursor by at most the longest instruction, never back
LEMMA LineMoves ==
  ASSUME TypeOK, Line
  PROVE  /\ i' = i + Advance(tool, byte)
         /\ Advance(tool, byte) \in Steps
         /\ i' \in i .. i + 11
         /\ byte # "FSQRT" => i' > i
<1>1. tool \in Tools /\ byte \in Bytes BY DEF TypeOK
<1>2. i' = i + Advance(tool, byte) BY <1>1 DEF Line, Advances
<1>3. Advance(tool, byte) \in Steps /\ (byte # "FSQRT" => Advance(tool, byte) # 0)
  BY ToolsAndSections, AdvanceIsStep
<1> QED BY <1>2, <1>3, ToolsAndSections DEF Steps

\* Where Read leaves the next instruction, whatever it finds
LEMMA ReadTypes ==
  ASSUME NEW n \in Nat, TypeOK, n >= i, Read(n)
  PROVE  /\ next' \in n + 1 .. n + 11
         /\ byte' \in Bytes
         /\ aligned' \in BOOLEAN
         /\ aligned' => byte' \in Opcodes /\ next' = n + Length(byte')
<1>1. CASE InData(n)
  <2>1. byte' \in Bytes BY <1>1, BytesAreBytes DEF InData
  <2>2. next' \in n + 1 .. n + 11 BY <1>1 DEF InData
  <2> QED BY <1>1, <2>1, <2>2 DEF InData
<1>2. CASE InOperand(n)
  <2>1. byte' \in Bytes BY <1>2, BytesAreBytes DEF InOperand
  <2>2. next' \in n + 1 .. n + 11
    BY <1>2, ToolsAndSections DEF InOperand, TypeOK
  <2> QED BY <1>2, <2>1, <2>2 DEF InOperand
<1>3. CASE AtInstruction(n)
  <2>1. Length(byte') \in 1 .. 11 BY LengthBounds
  <2> QED BY <1>3, <2>1, BytesAreBytes DEF AtInstruction
<1>4. CASE PastInstruction(n)
  <2>1. PICK p \in next .. n - 1, l \in Lengths : n < p + l /\ next' = p + l
    BY <1>4 DEF PastInstruction
  <2>2. l \in 1 .. 11 BY DEF Lengths
  <2>3. p \in Int /\ p <= n - 1 BY <2>1, ToolsAndSections
  <2>4. next' \in n + 1 .. n + 11 BY <2>1, <2>2, <2>3
  <2> QED BY <1>4, <2>4, BytesAreBytes DEF PastInstruction
<1> QED BY <1>1, <1>2, <1>3, <1>4 DEF Read

\* What Read finds inside a section ends inside it
LEMMA ReadWhole ==
  ASSUME NEW n \in Nat, TypeOK, n < size, Read(n),
         tool = "rexdump", section = "text", next <= size
  PROVE  next' <= size
<1>1. CASE InOperand(n) BY <1>1 DEF InOperand
<1>2. CASE AtInstruction(n) BY <1>2 DEF AtInstruction, Whole
<1>3. CASE PastInstruction(n)
  <2>1. PICK p \in next .. n - 1, l \in Lengths : Whole(p, l) /\ next' = p + l
    BY <1>3 DEF PastInstruction
  <2>2. p < size BY <2>1, ToolsAndSections
  <2> QED BY <2>1, <2>2 DEF Whole
<1> QED BY <1>1, <1>2, <1>3 DEF Read

\* A listing that was at an instruction of its program and moves by its length
\* is at the next one
LEMMA ReadAligned ==
  ASSUME NEW n \in Nat, next = n, section = "text", Read(n)
  PROVE  aligned'
<1>1. ~InOperand(n) BY DEF InOperand
<1>2. ~PastInstruction(n) BY DEF PastInstruction
<1> QED BY <1>1, <1>2 DEF Read, AtInstruction

LEMMA LineIInv == IInv /\ Line => IInv'
<1> SUFFICES ASSUME IInv, Line PROVE IInv' OBVIOUS
<1> USE DEF IInv
<1>0. /\ UNCHANGED <<tool, section, size>>
      /\ lost' = (lost \/ byte \in Misread)
      /\ i < size
      /\ IF i' = i THEN UNCHANGED <<byte, next, aligned>> ELSE Read(i')
  BY DEF Line, Inside
<1>1. i' \in Nat /\ i' \in i .. i + 11 BY LineMoves, ToolsAndSections
<1>2. /\ next' \in i' + 1 .. i' + 11
      /\ byte' \in Bytes
      /\ aligned' \in BOOLEAN
      /\ aligned' => byte' \in Opcodes /\ next' = i' + Length(byte')
  <2>1. CASE i' = i BY <1>0, <2>1 DEF TypeOK, NextAfter
  <2>2. CASE i' # i BY <1>0, <1>1, <2>2, ReadTypes, ToolsAndSections
  <2> QED BY <2>1, <2>2
<1>3. TypeOK'
  <2>1. lost' \in BOOLEAN BY <1>0 DEF TypeOK
  <2>2. i' \in 0 .. size + 10 BY <1>0, <1>1, ToolsAndSections
  <2> QED BY <1>0, <1>2, <2>1, <2>2 DEF TypeOK
<1>4. DataIsLost' BY <1>0 DEF DataIsLost
<1>5. NextAfter' BY <1>2 DEF NextAfter
<1>6. SectionIsWhole'
  <2> SUFFICES ASSUME tool = "rexdump", section = "text", i' < size
               PROVE  next' <= size
    BY <1>0 DEF SectionIsWhole
  <2>1. next <= size BY <1>0 DEF SectionIsWhole
  <2>2. CASE i' = i BY <1>0, <2>1, <2>2
  <2>3. CASE i' # i BY <1>0, <1>1, <2>1, <2>3, ReadWhole
  <2> QED BY <2>2, <2>3
\* A listing that is not lost moves by the length of the instruction it is at
<1>7. ASSUME ~lost' PROVE i' = next /\ i' # i /\ section = "text" /\ aligned'
  <2>1. aligned /\ ~lost /\ byte \notin Misread
    BY <1>0, <1>7 DEF ListsInstructions
  <2>2. byte \in Opcodes /\ next = i + Length(byte) BY <2>1 DEF NextAfter
  <2>3. Advance(tool, byte) = Length(byte)
    BY <2>1, <2>2, SwitchesAgree, ToolsAndSections, BytesAreBytes
  <2>4. i' = next BY <2>2, <2>3, LineMoves
  <2>5. section = "text" BY <2>1, ToolsAndSections DEF DataIsLost
  <2>6. i' # i BY <2>4, ToolsAndSections DEF TypeOK
  <2> QED BY <1>0, <1>1, <2>4, <2>5, <2>6, ReadAligned
<1>8. ListsInstructions' BY <1>7 DEF ListsInstructions
<1>9. EndsWithSection'
  <2> SUFFICES ASSUME ~lost', tool = "rexdump"
               PROVE  IF i' < size THEN next' <= size ELSE i' = size
    BY <1>0 DEF EndsWithSection
  <2>1. i' = next /\ section = "text" BY <1>7
  <2>2. next <= size BY <1>0, <2>1 DEF SectionIsWhole
  <2>3. CASE i' < size BY <1>0, <1>6, <2>1, <2>3 DEF SectionIsWhole
  <2>4. CASE ~(i' < size) BY <1>1, <2>1, <2>2, <2>4, ToolsAndSections
  <2> QED BY <2>3, <2>4
<1> QED BY <1>3, <1>4, <1>5, <1>6, <1>8, <1>9

LEMMA StutterIInv == IInv /\ UNCHANGED vars => IInv'
BY DEF IInv, vars, TypeOK, DataIsLost, NextAfter, SectionIsWhole,
   ListsInstructions, EndsWithSection

LEMMA Invariance == Spec => []IInv
<1>1. IInv /\ [Next]_vars => IInv' BY LineIInv, StutterIInv DEF Next
<1> QED BY <1>1, InitIInv, PTL DEF Spec

\* The cursor passes the end of the range by ten bytes at most, for every size,
\* and the next instruction starts at most eleven bytes after it
\* (disassemble.c, rexdump.c: the longest step of a switch is 11)
THEOREM TypeCorrect == Spec => []TypeOK
<1>1. IInv => TypeOK BY DEF IInv
<1> QED BY <1>1, Invariance, PTL

\* Both disassemblers print the instructions of the program and no others, for
\* every program and every range, until they meet FSQRT or a 64-bit operand
THEOREM ListingFollowsProgram == Spec => []ListsInstructions
<1>1. IInv => ListsInstructions BY DEF IInv
<1> QED BY <1>1, Invariance, PTL

\* rexdump reads no byte after the section, for sections of every size
THEOREM StaysInSection == Spec => []EndsWithSection
<1>1. IInv => EndsWithSection BY DEF IInv
<1> QED BY <1>1, Invariance, PTL

\* A round that does not stand at FSQRT moves the cursor on: with the bound of
\* TypeOK, only FSQRT keeps either loop from its end
THEOREM OnlyFsqrtHolds == Spec => [][i' > i \/ byte = "FSQRT"]_vars
<1>1. IInv /\ [Next]_vars => [i' > i \/ byte = "FSQRT"]_vars
  BY LineMoves DEF IInv, Next
<1> QED BY <1>1, Invariance, PTL DEF Spec
=============================================================================
