---------------------------- MODULE Instructions ----------------------------
(***************************************************************************)
(* What one instruction of the R3X machine does to the context of the      *)
(* domain (job) that executes it: src/src/cpu.c, r3x_emulate_instruction.  *)
(*                                                                         *)
(* A context is what a domain owns: the instruction pointer, the exception *)
(* flag, the exception handlers, the registers and the call stack.  The    *)
(* register file and the four compare flags are ONE datum, reg; the data   *)
(* stack is not here (see VStack), so whatever an instruction reads from   *)
(* it is an arbitrary value of the right set.  Bytes of code are not here  *)
(* either: at any address any instruction may be found, so the model has   *)
(* every program at once.                                                  *)
(***************************************************************************)
EXTENDS Integers, Sequences

CONSTANTS
    AddrSpace,        \* number of addresses: 2^32 in the code
    MemorySize,       \* CPU->MemorySize
    RegisterSpace,    \* number of values of a CPU register: 2^64
    Entry,            \* what Regs[0] is set to before the BIOS runs: r3x_init
    Targets,          \* the addresses programs jump to, push and register
    TotalExceptions,  \* TOTAL_EXCEPTIONS, the largest id with a handler slot
    Optimize,         \* built with REX_OPTIMIZE
    Kinds,            \* the kinds of instruction the modelled programs contain
    MaxDepth          \* bound: depth of a call stack

Addr == 0 .. AddrSpace - 1

Registers == 0 .. RegisterSpace - 1

ASSUME AddressAssumption ==
    /\ AddrSpace \in Nat \ {0}
    /\ MemorySize \in Nat
    /\ Targets \subseteq Addr

ASSUME RegisterAssumption == RegisterSpace \in Nat \ {0} /\ Entry \in Registers

ASSUME ExceptionAssumption == TotalExceptions \in Nat

ASSUME BuildAssumption == Optimize \in BOOLEAN

ASSUME DepthAssumption == MaxDepth \in Nat

\* Mutant: the instruction pointer is wider than an address
PlusUnbounded(a, n) == a + n

\* InstructionPointer is an unsigned int: additions wrap
Plus(a, n) == (a + n) % AddrSpace

\* STACK_UFLOW_ERR, -1, as an address
Underflow == AddrSpace - 1

Handlers == [0 .. TotalExceptions -> Addr]

CpuBreakPoint == TotalExceptions + 1

Context == [ip : Addr, eflag : BOOLEAN, handlers : Handlers,
            reg : Registers, calls : Seq(Addr)]

NoHandlers == [id \in 0 .. TotalExceptions |-> 0]

\* The context r3x_dispatch_job builds: everything zero, one 0 on the call stack
NewContext(a) == [ip |-> a, eflag |-> FALSE, handlers |-> NoHandlers,
                  reg |-> 0, calls |-> <<0>>]

-----------------------------------------------------------------------------
(* Instructions that raise no exception: the set of contexts they may leave. *)

Skip(c, n) == [c EXCEPT !.ip = Plus(@, n)]

\* How many bytes the instructions move past that compute, compare, move data
\* or touch memory, part by part of r3x_emulate_instruction
StackSizes == {1, 5}            \* SLEEP, PUSH .. DIV
CompareSizes == {1, 2}          \* FADD .. SETG, CMP, CMPS, SYSCALL
ItemSizes == {2, 5}             \* LOADS .. STORESR
MemorySizes == {1}              \* LOAD, STORE, LODS*, STOS*
BlockSizes == {1}               \* CMPS*, MEMCPY, LOADLIB, LIBEXEC
LogicSizes == {1}               \* AND .. ARS
RegisterSizes == {2, 6}         \* LOADR, PUSHR, POPR, INCR, DECR
FloatSizes == {1}               \* FSIN .. ATANH
MathSizes == {1}                \* CEIL .. FMOD
BooleanSizes == {1}             \* LOR, LAND
WideSizes == {10, 11}           \* PUSH64 and LOADR64, with their RFC prefix

OrdinarySizes ==
    UNION {StackSizes, CompareSizes, ItemSizes, MemorySizes, BlockSizes,
           LogicSizes, RegisterSizes, FloatSizes, MathSizes, BooleanSizes,
           WideSizes}

\* The registers and flags change, the instruction pointer moves past it
Ordinary(c) ==
    {[Skip(c, n) EXCEPT !.reg = r] : n \in OrdinarySizes, r \in Registers}

\* JMP, JE, JG, JL, JZ and the relative jumps
Landings(c) == {[c EXCEPT !.ip = t] : t \in Targets} \cup {Skip(c, 5)}

\* JZL: REX_OPTIMIZE leaves out its return, and it runs on into PUSHIP
IntoPushIp(c) == IF Optimize THEN {Skip(d, 1) : d \in Landings(c)} ELSE {}

Jump(c) == Landings(c) \cup IntoPushIp(c)

PushCall(c, a) == [c EXCEPT !.calls = Append(@, a)]

\* What is left of the call stack, and what Stack.Pop returns
PopCall(c) == IF c.calls = <<>>
              THEN c
              ELSE [c EXCEPT !.calls = SubSeq(@, 1, Len(@) - 1)]
TopCall(c) == IF c.calls = <<>> THEN Underflow ELSE c.calls[Len(c.calls)]

\* CALL and CALLL
Call(c) == {[PushCall(c, Plus(c.ip, 5)) EXCEPT !.ip = t] : t \in Targets}

\* RET
Return(c) == {[PopCall(c) EXCEPT !.ip = TopCall(c)]}

\* PUSHA (5 bytes) and PUSHAR (2 bytes)
PushAddress(c) == {Skip(PushCall(c, t), n) : t \in Targets, n \in {2, 5}}

\* POPA (1 byte) and POPAR (2 bytes, into a register)
PopAddress(c) ==
    {Skip(PopCall(c), 1)}
      \cup {[Skip(PopCall(c), 2) EXCEPT !.reg = r] : r \in Registers}

\* INT: the interrupt vector belongs to the machine, not to the domain
Interrupt(c, isr) ==
    IF isr = 0
    THEN {Skip(c, 2)}
    ELSE {[PushCall(c, Plus(c.ip, 2)) EXCEPT !.ip = isr]}

\* CATCH: set_exception_handlers ignores an id that has no slot
Catch(c) ==
    {[Skip(c, 1) EXCEPT !.handlers[id] = t] :
        id \in 0 .. TotalExceptions, t \in Targets \cup {0}}
      \cup {Skip(c, 1)}

\* HANDLE
Handle(c) == {[Skip(c, 1) EXCEPT !.eflag = FALSE]}

\* POPF: the exception flag is one of the flags it takes from the data stack
PopFlags(c) ==
    {[Skip(c, 1) EXCEPT !.reg = r, !.eflag = b] : r \in Registers, b \in BOOLEAN}

Roomy(c) == Len(c.calls) < MaxDepth

\* The contexts one non-faulting instruction can lead to
Outcomes(c, isr) ==
    UNION {
        IF "ordinary" \in Kinds THEN Ordinary(c) ELSE {},
        IF "jump" \in Kinds THEN Jump(c) ELSE {},
        IF "call" \in Kinds /\ Roomy(c) THEN Call(c) ELSE {},
        IF "return" \in Kinds THEN Return(c) ELSE {},
        IF "pusha" \in Kinds /\ Roomy(c) THEN PushAddress(c) ELSE {},
        IF "popa" \in Kinds THEN PopAddress(c) ELSE {},
        IF "int" \in Kinds /\ Roomy(c) THEN Interrupt(c, isr) ELSE {},
        IF "catch" \in Kinds THEN Catch(c) ELSE {},
        IF "handle" \in Kinds THEN Handle(c) ELSE {},
        IF "popf" \in Kinds THEN PopFlags(c) ELSE {} }

-----------------------------------------------------------------------------
(* Instructions that call handle_cpu_exception.                             *)

\* One way of faulting: the exception id, how far the instruction has moved
\* the instruction pointer before it raises, and how far it moves it after
\* handle_cpu_exception has returned.
\*   most instructions, and every syscall (-2 +2): 0 and 0
\*   STORESR 0 and 2, STORES 0 and 5, BREAK 0 and 1
\*   RFC prefix with an unknown opcode 1 and 0, with a bad register 2 and 0
\*   THROW: any id the program has pushed, 0 and 0
Faults ==
    LET Fault(ids, shapes) == {[id |-> i, before |-> s[1], after |-> s[2]] :
                                  i \in ids, s \in shapes}
    IN  UNION {
          IF "fault" \in Kinds
          THEN Fault(0 .. TotalExceptions, {<<0, 0>>, <<1, 0>>, <<2, 0>>})
          ELSE {},
          IF "stores" \in Kinds THEN Fault({0}, {<<0, 2>>, <<0, 5>>}) ELSE {},
          IF "throw" \in Kinds
          THEN Fault(0 .. TotalExceptions + 2, {<<0, 0>>}) ELSE {},
          IF "break" \in Kinds
          THEN Fault({CpuBreakPoint}, {<<0, 1>>}) ELSE {} }

\* What ExceptionHandlers[id] reads.  The id is not checked: past the end of
\* the array the word found is that of another field of the CPU structure
HandlersOf(c, id) == IF id \in 0 .. TotalExceptions THEN {c.handlers[id]} ELSE Addr

\* handle_cpu_exception enters handler h; otherwise it raises SIGSEGV
EntersHandler(c, id, h) == id # CpuBreakPoint /\ ~c.eflag /\ h # 0

InHandler(c, h) == [c EXCEPT !.ip = h, !.eflag = TRUE]
=============================================================================
