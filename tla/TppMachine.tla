----------------------------- MODULE TppMachine -----------------------------
(***************************************************************************)
(* What the lines of assembler that the T++ compiler emits do on the       *)
(* machine: the macros of src/src/programs/libR3X and the instructions of  *)
(* src/src/cpu.c they stand for, on one domain's registers, data stack,    *)
(* call stack and memory.  Here the data is real, where Instructions has   *)
(* any value at all.  An item of memory is a whole value: the widths of    *)
(* loads and stores are left out, and so are the 64 bits of a register.    *)
(***************************************************************************)
EXTENDS Integers, Sequences, SequencesExt, Bitwise

Registers ==
    {"R0", "R1", "R2", "R3", "R4", "R5", "R6", "R7", "R8", "R9", "R10", "R12"}

\* Where the program's variables and what SYSCALL_ALLOC gives lie, out of the
\* way of the code, whose addresses are the numbers of its lines
VariablesAt == 1000
HeapAt == 2000

\* A fresh domain, about to jump to main
Machine0(main) ==
    [pc |-> main, regs |-> [r \in Registers |-> 0], data |-> <<>>, calls |-> <<0>>,
     mem |-> <<>>, flag |-> 0, heap |-> HeapAt, out |-> <<>>, stopped |-> FALSE]

Logical(b) == IF b THEN 1 ELSE 0

\* SETcc after CMP of a and b
Holds(op, a, b) == CASE op = ":=" -> a = b [] op = "!=" -> a # b
                     [] op = ">=" -> a >= b [] op = "<=" -> a <= b
                     [] op = ">" -> a > b [] op = "<" -> a < b

\* The instruction of an operator, on the item below the top and the top one.
\* A float is stood for by an integer: the operators matter by their operands
Alu(op, a, b) ==
    CASE op \in {"+", "add_f"} -> a + b
      [] op \in {"-", "sub_f"} -> a - b
      [] op \in {"*", "mul_f"} -> a * b
      [] op \in {"/", "div_f"} -> a \div b
      [] op = "%" -> a % b
      [] op = "&" -> a & b
      [] op = "|" -> a | b
      [] op = "^" -> a ^^ b
      [] op = "&&" -> Logical(a = 1 /\ b = 1)
      [] op = "||" -> Logical(a = 1 \/ b = 1)
      [] op = "left_shift" -> a * 2 ^ b
      [] op = "right_shift" -> a \div 2 ^ b

\* FCONV, ICONV; NOT is ~ and NEG is !, as in cpu.c
Alu1(op, a) == CASE op = "not" -> -a - 1 [] op = "neg" -> Logical(a = 0) [] OTHER -> a

Item(m, n) == m.data[Len(m.data) + 1 - n]

Dropped(s, n) == SubSeq(s, 1, Len(s) - n)

Load(m, a) == IF a \in DOMAIN m.mem THEN m.mem[a] ELSE 0

Store(m, a, v) ==
    [m EXCEPT !.mem = [x \in DOMAIN @ \cup {a} |-> IF x = a THEN v ELSE @[x]]]

\* The system calls.  They take their operand from the top and leave it there;
\* SYSCALL_FREE does nothing, and what a native function returns is 7
SystemCall(m, s) ==
    CASE s \in {"puti", "puts", "putf"} -> [m EXCEPT !.out = Append(@, Item(m, 1))]
      [] s = "alloc" -> [m EXCEPT !.data = Append(@, m.heap), !.heap = @ + 10]
      [] s = "libexec" -> [m EXCEPT !.data = Append(@, 7)]
      [] s = "getline" -> [Store(m, m.regs["R0"], 5) EXCEPT !.regs["R0"] = @ + 1]
      [] s = "putch" -> [m EXCEPT !.out = Append(@, Item(m, 1))]
      [] s \in {"free", "dispatch", "loadlib"} -> m

\* link gives labels their lines and variables their places
Operand(x, link) == IF x[1] = "k" THEN x[2] ELSE link[x]

\* Whether the stacks hold what the line takes from them
Takes(ins) ==
    CASE ins[1] \in {"popr", "pop", "alu1"} -> 1
      [] ins[1] = "popn" -> ins[2]
      [] ins[1] = "alu" -> 2
      [] OTHER -> 0

GoTo(m, a) == [m EXCEPT !.pc = a]

\* One line
Exec(m, ins, link) ==
    LET op == ins[1]
        n == GoTo(m, m.pc + 1)
        Set(r, v) == [n EXCEPT !.regs[r] = v]
        Pushed(v) == [n EXCEPT !.data = Append(@, v)]
        R(i) == m.regs[ins[i]]
    IN CASE Takes(ins) > Len(m.data) -> [m EXCEPT !.stopped = TRUE]
         [] op = "label"  -> n
         [] op = "loadr"  -> Set(ins[2], Operand(ins[3], link))
         [] op = "loadrr" -> Set(ins[2], R(3))
         [] op = "loadrm" -> Set(ins[2], Load(m, Operand(ins[3], link)))
         [] op = "addr"   -> Set(ins[2], R(2) + Operand(ins[3], link))
         [] op = "pushr"  -> Pushed(R(2))
         [] op = "push"   -> Pushed(Operand(ins[2], link))
         [] op = "popr"   -> [Set(ins[2], Last(m.data)) EXCEPT !.data = Dropped(@, 1)]
         [] op = "pop"    -> [n EXCEPT !.data = Dropped(@, 1)]
         [] op = "popn"   -> [n EXCEPT !.data = Dropped(@, ins[2])]
         [] op = "pushar" -> [n EXCEPT !.calls = Append(@, R(2))]
         [] op = "pusha"  -> [n EXCEPT !.calls = Append(@, Operand(ins[2], link))]
         [] op = "popar"  -> [Set(ins[2], Last(m.calls)) EXCEPT !.calls = Dropped(@, 1)]
         [] op = "alu"    -> Pushed(Alu(ins[2], Item(m, 2), Item(m, 1)))
         [] op = "alu1"   -> Pushed(Alu1(ins[2], Item(m, 1)))
         [] op \in {"cmpr", "cmpri"} ->
                [n EXCEPT !.flag = R(2) - IF op = "cmpr" THEN R(3)
                                          ELSE Operand(ins[3], link)]
         [] op = "set"    -> IF Holds(ins[2], m.flag, 0) THEN Set(ins[3], 1) ELSE n
         [] op = "loadsr" -> IF R(2) \in 1 .. Len(m.data) THEN Pushed(Item(m, R(2)))
                             ELSE [m EXCEPT !.stopped = TRUE]
         [] op = "lods"   -> Set("R1", Load(m, m.regs["R0"]))
         [] op = "stos"   -> Store(n, m.regs["R0"], m.regs["R1"])
         [] op = "jmp"    -> GoTo(m, link[<<"l", ins[2]>>])
         [] op = "je"     -> IF m.flag = 0 THEN GoTo(m, link[<<"l", ins[2]>>]) ELSE n
         [] op = "call"   -> [GoTo(m, link[<<"l", ins[2]>>]) EXCEPT
                                !.calls = Append(@, m.pc + 1)]
         [] op = "ret"    -> [GoTo(m, Last(m.calls)) EXCEPT !.calls = Dropped(@, 1)]
         [] op = "sys"    -> SystemCall(n, ins[2])
         [] op = "exit"   -> [m EXCEPT !.stopped = TRUE]
         [] op = "externcall" -> [m EXCEPT !.stopped = TRUE]
=============================================================================
