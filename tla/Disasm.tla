------------------------------- MODULE Disasm -------------------------------
(***************************************************************************)
(* The two disassemblers: disassemble() of src/src/disassemble.c, which    *)
(* the debugger's command disasm runs on the machine's memory, and         *)
(* dissassemble() of src/disasm/rexdump.c, which dumps the .text and .data *)
(* sections of an executable.  Both walk the bytes with a cursor and a     *)
(* switch of their own, so both repeat, opcode by opcode, how long the CPU *)
(* takes an instruction to be.                                             *)
(*                                                                         *)
(* The model has every program at once.  What the cursor has not reached   *)
(* is not fixed yet: when the cursor moves, the program between the old    *)
(* and the new place is any sequence of instructions (there are            *)
(* instructions of one byte, so one may start anywhere), and the bytes of  *)
(* an operand are arbitrary.  What is printed is left out; where it is     *)
(* printed is the cursor.                                                  *)
(***************************************************************************)
EXTENDS Integers

CONSTANTS
    Sizes,      \* bound: the sizes of the sections or ranges that are listed
    OperandBytes,  \* bound: what the bytes of an operand may be taken for
    Tools,      \* "disassemble", "rexdump"
    Sections    \* "text", "data"

ASSUME SizesAssumption == Sizes \subseteq Nat \ {0}

ASSUME ToolsAssumption == Tools \subseteq {"disassemble", "rexdump"}

ASSUME SectionsAssumption == Sections \subseteq {"text", "data"}

VARIABLES
    tool,     \* which of the two runs
    section,  \* what it lists: instructions, or (rexdump only) data
    size,     \* the argument size
    i,        \* the cursor
    byte,     \* input[i]: an opcode (with the one after RFC_PREFIX), or neither
    next,     \* where the first instruction after the cursor starts
    aligned,  \* an instruction starts at the cursor
    lost      \* history: it began inside an instruction, or has misread one

vars == <<tool, section, size, i, byte, next, aligned, lost>>

-----------------------------------------------------------------------------
(* The CPU's instructions and their lengths.                               *)

\* r3x_opcodes.h, without REX64_INST01, which nothing implements; PUSH64 and
\* LOADR64 stand for RFC_PREFIX and the opcode after it
Opcodes ==
    {"SLEEP", "PUSH", "POP", "ADD", "SUB", "MUL", "DIV", "FADD", "FSUB", "FMUL",
     "FDIV", "CMP", "JE", "JL", "JG", "JZ", "JMP", "AND", "OR", "XOR", "DUP",
     "LOADS", "LOAD", "STORE", "EXIT", "SYSCALL", "LOADLIB", "LIBEXEC", "CALL",
     "RET", "PUSHA", "POPA", "MEMCPY", "LODSB", "LODSW", "LODSD", "STOSB",
     "STOSD", "STOSW", "CMPSB", "CMPSW", "CMPSD", "LOADR", "PUSHR", "POPR",
     "INCR", "DECR", "INT", "LOADI", "NOT", "NEG", "PUSHAR", "POPAR", "SHR",
     "SHL", "ROR", "ROL", "CALLDYNAMIC", "FSIN", "FCOS", "FTAN", "ASIN", "ACOS",
     "ATAN", "FPOW", "MOD", "FMOD", "RCONV", "ACONV", "CMPS", "POPN", "PUSHF",
     "POPF", "TERN", "CATCH", "THROW", "HANDLE", "STORES", "LOADSR", "STORESR",
     "SETE", "SETNE", "SETG", "SETL", "FSINH", "FCOSH", "FTANH", "FABS",
     "FLOOR", "CEIL", "ASINH", "ACOSH", "ATANH", "FCONV", "ICONV", "FSQRT",
     "JMPL", "JEL", "JGL", "JLL", "JZL", "PUSHIP", "ARS", "BREAK", "CALLL",
     "LOR", "LAND", "LOADR64", "PUSH64"}

\* CPU_INCREMENT_WITH_32_OP: a 32-bit operand
TakesWord == {"PUSH", "JE", "JL", "JG", "JZ", "JMP", "LOADS", "STORES", "POPN",
              "CALL", "CALLL", "PUSHA", "JMPL", "JEL", "JGL", "JLL", "JZL"}

\* CPU_INCREMENT_DOUBLE: a register or a number of one byte
TakesByte == {"SYSCALL", "INT", "PUSHR", "POPR", "INCR", "DECR", "PUSHAR",
              "POPAR", "LOADSR", "STORESR", "SETE", "SETNE", "SETG", "SETL"}

\* A number of one byte and a 32-bit operand
TakesBoth == {"LOADR", "LOADI"}

Length(op) == CASE op \in TakesWord -> 5
                [] op \in TakesByte -> 2
                [] op \in TakesBoth -> 6
                [] op = "PUSH64"    -> 10
                [] op = "LOADR64"   -> 11
                [] OTHER            -> 1

Lengths == {1, 2, 5, 6, 10, 11}

\* An operand's byte may be any opcode, "RFC" (the prefix before something
\* that is no RFC opcode) or "db" (not an opcode)
Bytes == Opcodes \cup {"RFC", "db"}

ASSUME OperandAssumption == OperandBytes \subseteq Bytes

-----------------------------------------------------------------------------
(* The switch of disassemble(): the opcodes that move the cursor by n.     *)

DisassembleMoves(n) ==
    CASE n = 5 -> {"CALL", "JMP", "JE", "JL", "JG", "JZ", "PUSH"}
      [] n = 1 -> {"STOSD", "LODSD", "STOSW", "STOSB", "LODSB", "LODSW", "CMPSB",
                   "CMPSD", "CMPSW", "SLEEP", "POP", "POPA", "ADD", "SUB", "DIV",
                   "MUL", "FADD", "FSUB", "FDIV", "FMUL", "CMP", "CMPS", "DUP",
                   "LOADLIB", "LIBEXEC", "MEMCPY", "RET"}
      [] OTHER -> {}

DisassembleRegisters(n) ==
    CASE n = 1 -> {"AND", "XOR", "OR", "NOT", "NEG", "SHR", "SHL", "FSIN", "FCOS",
                   "FTAN", "ASIN", "ACOS", "ATAN", "MOD", "FMOD", "ACONV",
                   "RCONV", "EXIT"}
      [] n = 5 -> {"PUSHA"}
      [] n = 6 -> {"LOADI", "LOADR"}
      [] n = 2 -> {"PUSHR", "POPR", "PUSHAR", "POPAR", "INT", "SYSCALL", "INCR",
                   "DECR"}
      [] OTHER -> {}

DisassembleItems(n) ==
    CASE n = 1 -> {"CATCH", "HANDLE", "THROW", "ROL", "ROR", "TERN", "PUSHF",
                   "POPF", "CALLDYNAMIC", "FPOW", "FSINH", "FCOSH", "FTANH",
                   "ASINH", "ACOSH", "ATANH", "FLOOR", "CEIL"}
      [] n = 2 -> {"LOADSR", "STORESR", "SETE", "SETNE", "SETG", "SETL"}
      [] n = 5 -> {"LOADS", "STORES", "POPN"}
      [] OTHER -> {}

\* FSQRT has no i++; RFC_PUSH64 has no break and goes on into the default
DisassembleLast(n) ==
    CASE n = 0 -> {"FSQRT"}
      [] n = 1 -> {"ICONV", "FCONV", "FABS", "PUSHIP", "ARS", "BREAK"}
      [] n = 2 -> {"RFC"}
      [] n = 5 -> {"JMPL", "JLL", "JGL", "JZL", "JEL", "CALLL"}
      [] n = 11 -> {"LOADR64", "PUSH64"}
      [] OTHER -> {}

-----------------------------------------------------------------------------
(* The switch of rexdump's dissassemble(), in the same parts.              *)

RexdumpMoves(n) ==
    CASE n = 5 -> {"CALL", "JMP", "JE", "JL", "JG", "JZ", "PUSH"}
      [] n = 1 -> {"STOSD", "LODSD", "STOSW", "STOSB", "LODSB", "LODSW", "CMPSB",
                   "CMPSD", "CMPSW", "SLEEP", "POP", "POPA", "ADD", "SUB", "DIV",
                   "MUL", "FADD", "FSUB", "FDIV", "FMUL", "CMP", "CMPS", "DUP",
                   "LOADLIB", "LIBEXEC", "MEMCPY", "RET"}
      [] OTHER -> {}

RexdumpRegisters(n) ==
    CASE n = 1 -> {"AND", "XOR", "OR", "NOT", "NEG", "SHR", "SHL", "FSIN", "FCOS",
                   "FTAN", "ASIN", "ACOS", "ATAN", "MOD", "FMOD", "ACONV",
                   "RCONV", "EXIT"}
      [] n = 5 -> {"PUSHA"}
      [] n = 6 -> {"LOADI", "LOADR"}
      [] n = 2 -> {"PUSHR", "POPR", "PUSHAR", "POPAR", "INT", "SYSCALL", "INCR",
                   "DECR"}
      [] OTHER -> {}

RexdumpItems(n) ==
    CASE n = 1 -> {"CATCH", "HANDLE", "THROW", "ROL", "ROR", "TERN", "PUSHF",
                   "POPF", "CALLDYNAMIC", "FPOW", "FSINH", "FCOSH", "FTANH",
                   "ASINH", "ACOSH", "ATANH", "FLOOR", "CEIL"}
      [] n = 2 -> {"LOADSR", "STORESR", "SETE", "SETNE", "SETG", "SETL"}
      [] n = 5 -> {"LOADS", "STORES", "POPN"}
      [] OTHER -> {}

\* Mutant: a jump whose operand is forgotten
RexdumpLastShortJump(n) ==
    CASE n = 0 -> {"FSQRT"}
      [] n = 1 -> {"ICONV", "FCONV", "FABS", "PUSHIP", "ARS", "BREAK", "CALLL"}
      [] n = 2 -> {"RFC"}
      [] n = 5 -> {"JMPL", "JLL", "JGL", "JZL", "JEL"}
      [] n = 10 -> {"LOADR64"}
      [] n = 11 -> {"PUSH64"}
      [] OTHER -> {}

\* RFC_LOADR64 adds 9 to the prefix, where the other switch adds 10
RexdumpLast(n) ==
    CASE n = 0 -> {"FSQRT"}
      [] n = 1 -> {"ICONV", "FCONV", "FABS", "PUSHIP", "ARS", "BREAK"}
      [] n = 2 -> {"RFC"}
      [] n = 5 -> {"JMPL", "JLL", "JGL", "JZL", "JEL", "CALLL"}
      [] n = 10 -> {"LOADR64"}
      [] n = 11 -> {"PUSH64"}
      [] OTHER -> {}

-----------------------------------------------------------------------------

Moves(t, n) ==
    IF t = "disassemble"
    THEN DisassembleMoves(n) \cup DisassembleRegisters(n)
           \cup DisassembleItems(n) \cup DisassembleLast(n)
    ELSE RexdumpMoves(n) \cup RexdumpRegisters(n)
           \cup RexdumpItems(n) \cup RexdumpLast(n)

Steps == {0, 1, 2, 5, 6, 10, 11}

\* Mutant: the default of the switch does not move the cursor
AdvanceOnlyKnown(t, b) ==
    IF \E n \in Steps : b \in Moves(t, n)
    THEN CHOOSE n \in Steps : b \in Moves(t, n)
    ELSE 0

\* What the switch adds to the cursor; the default, "Opcode Not recognized", 1
Advance(t, b) ==
    IF \E n \in Steps : b \in Moves(t, n)
    THEN CHOOSE n \in Steps : b \in Moves(t, n)
    ELSE 1

Advances == [t \in Tools |-> [b \in Bytes |-> Advance(t, b)]]

\* The instructions the tools are known to get wrong
Misread == {"FSQRT", "PUSH64"} \cup IF tool = "rexdump" THEN {"LOADR64"} ELSE {}

\* rexdump lists a section, which holds whole instructions; the debugger any
\* range of memory
Whole(p, n) == tool = "rexdump" /\ p < size => p + n <= size

\* input[n] is read next: in the operand of an instruction that has begun, at
\* an instruction, or in an operand of one that begins at some p, after others
InOperand(n) ==
    /\ n < next
    /\ byte' \in OperandBytes
    /\ next' = next
    /\ aligned' = FALSE

AtInstruction(n) ==
    /\ next <= n
    /\ byte' \in Opcodes
    /\ Whole(n, Length(byte'))
    /\ next' = n + Length(byte')
    /\ aligned' = TRUE

PastInstruction(n) ==
    /\ \E p \in next .. n - 1, l \in Lengths :
          /\ n < p + l
          /\ Whole(p, l)
          /\ next' = p + l
    /\ byte' \in OperandBytes
    /\ aligned' = FALSE

InData(n) == byte' \in OperandBytes /\ next' = n + 1 /\ aligned' = FALSE

Read(n) ==
    IF section = "data"
    THEN InData(n)
    ELSE InOperand(n) \/ AtInstruction(n) \/ PastInstruction(n)

\* The debugger's range may begin anywhere in an instruction
Init ==
    /\ tool \in Tools
    /\ section \in IF tool = "rexdump" THEN Sections ELSE Sections \ {"data"}
    /\ size \in Sizes
    /\ i = 0
    /\ \/ /\ section = "text"
          /\ byte \in Opcodes
          /\ next = Length(byte)
          /\ tool = "rexdump" => next <= size
          /\ aligned = TRUE
       \/ /\ tool = "disassemble" \/ section = "data"
          /\ byte \in OperandBytes
          /\ next \in IF section = "data" THEN {1} ELSE 1 .. 10
          /\ aligned = FALSE
    /\ lost = ~aligned

\* Mutant: the byte after the range is listed
InsideOrAfter == i <= size

Inside == i < size

\* One round of the loop.  When the cursor does not move, neither does anything
\* else: the same line is printed again
Line ==
    /\ Inside
    /\ i' = i + Advances[tool][byte]
    /\ IF i' = i THEN UNCHANGED <<byte, next, aligned>> ELSE Read(i')
    /\ lost' = (lost \/ byte \in Misread)
    /\ UNCHANGED <<tool, section, size>>

Next == Line

\* The loop waits for nothing
Spec == Init /\ [][Next]_vars /\ WF_vars(Line)
-----------------------------------------------------------------------------
(* Properties.                                                             *)

\* The cursor passes the end of the range by ten bytes at most
TypeOK ==
    /\ tool \in Tools
    /\ section \in Sections
    /\ size \in Sizes
    /\ i \in 0 .. size + 10
    /\ byte \in Bytes
    /\ next \in i + 1 .. i + 11
    /\ aligned \in BOOLEAN
    /\ lost \in BOOLEAN

\* Every line of the listing is an instruction of the program, for any mix of
\* instructions, unless the listing began inside one or has met FSQRT, PUSH64 or,
\* in rexdump, LOADR64: the switches agree with the increments of cpu.c for every
\* other opcode of r3x_opcodes.h, and no operand byte is taken for an opcode.
ListsInstructions == ~lost => aligned

\* The same cursor reads no byte after a section of whole instructions.  (A
\* listing that is lost does: r3x files end with the section.)
EndsWithSection ==
    ~lost /\ tool = "rexdump" => IF i < size THEN next <= size ELSE i = size

\* The loop ends, or stands at FSQRT: no other opcode, nor a byte of an operand
\* or of data, leaves the cursor where it is.
Finishes == <>(i >= size \/ byte = "FSQRT")
=============================================================================
