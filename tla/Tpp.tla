-------------------------------- MODULE Tpp --------------------------------
(***************************************************************************)
(* The T++ compiler at work, src/compiler/tbc.c: TppCompiler reads the     *)
(* source and adds the routines, the assembler resolves the labels, and    *)
(* the machine runs what came out.                                         *)
(***************************************************************************)
EXTENDS TppCompiler, TppSource

VARIABLES
    link,       \* the assembler's symbols
    m           \* the machine

vars == <<source, at, c, phase, link, m>>

Init == CompilerInit /\ link = <<>> /\ m = Machine0(0)

Compile == CompileLine /\ UNCHANGED <<link, m>>

\* Mutant: the lines are counted from 0
LabelLineFromZero(code, l) == (CHOOSE n \in DOMAIN code : code[n] = <<"label", l>>) - 1

LabelLine(code, l) == CHOOSE n \in DOMAIN code : code[n] = <<"label", l>>

VariablePlace(d, v) == VariablesAt + CHOOSE n \in DOMAIN d.vars : d.vars[n] = v

\* Labels become lines of code, variables places in the bss
Assembled(d) ==
    [x \in {<<"l", l>> : l \in Labels(d.code)} \cup {<<"v", v>> : v \in ToSet(d.vars)} |->
        IF x[1] = "l" THEN LabelLine(d.code, x[2]) ELSE VariablePlace(d, x[2])]

\* finish(), the assembler, and the machine at the entry
Finish ==
    /\ WriteRoutines
    /\ link' = Assembled(c')
    /\ m' = Machine0(link'[<<"l", <<"main">>>>])

\* The program is over where the entry waits for a key
AtExit == phase = "run" /\ m.pc = link[<<"l", <<"_exit">>>>]

Run ==
    /\ phase = "run" /\ ~m.stopped /\ ~AtExit
    /\ \A l \in References(c.code[m.pc]) : <<"l", l>> \in DOMAIN link
    /\ m' = Exec(m, c.code[m.pc], link)
    /\ UNCHANGED <<compilerVars, link>>

Next == Compile \/ Finish \/ Run

\* The compiler and the machine go on by themselves
Spec == Init /\ [][Next]_vars /\ WF_vars(Next)

-----------------------------------------------------------------------------
(* What the source means, at the places the assembler has given out.        *)

\* The places a struct's declaration gives its members, one after the other, and
\* the size it has
Structs == {source[i] : i \in {n \in DOMAIN source : source[n][1] = "struct"}}

Declared(name) == (CHOOSE s \in Structs : s[2] = name)[4]

DeclaredOffset(members, n) ==
    FoldSet(LAMBDA i, sum : sum + Width(members[i][2]), 0, 1 .. n - 1)

MemberPosition(members, x) == CHOOSE n \in DOMAIN members : members[n][1] = x

World ==
    [source |-> source, link |-> link,
     sizes |-> [s \in {t[2] : t \in Structs} |->
                    DeclaredOffset(Declared(s), Len(Declared(s)) + 1)],
     offsets |-> [x \in UNION {{<<s[2], s[4][n][1]>> : n \in DOMAIN s[4]} : s \in Structs} |->
                    DeclaredOffset(Declared(x[1]), MemberPosition(Declared(x[1]), x[2]))],
     strings |-> [t \in ToSet(c.strings) |-> link[<<"l", <<"s", StringIndex(c, t)>>>>]]]

-----------------------------------------------------------------------------
(* Properties.                                                             *)

\* The compiler's counters and the machine's stacks have the shapes the code
\* gives them, and the code grows by lines only while it is being written
TypeOK ==
    /\ source \in Programs /\ at \in 1 .. Len(source) + 1
    /\ phase \in {"compile", "run", "error"}
    /\ c.err = (phase = "error") /\ {c.past, c.outside} \subseteq BOOLEAN
    /\ {c.stuff, c.whilelines, c.label_num, c.CurrentIndex} \subseteq Nat
    /\ phase = "run" => m.pc \in DOMAIN c.code
    /\ \A n \in DOMAIN m.data : m.data[n] \in Int

\* The program does what its source says: when it is over its variables and all
\* it has printed are those of the language, whatever registers and stack items
\* the generated code has used for operands, arguments and addresses
ComputesSource ==
    AtExit => LET meaning == Meaning(World)
              IN /\ m.out = meaning.out
                 /\ \A v \in ToSet(c.vars) :
                        LET p == link[<<"v", v>>] IN Load(m, p) = Load(meaning, p)
                 /\ \A a \in DOMAIN meaning.mem : Load(m, a) = Load(meaning, a)

\* No line of the program takes an item that is not there, and a program that
\* comes back from main leaves both stacks as the entry made them: every push on
\* the way, of an operand, an argument or a saved register, is taken back.  What
\* is left is one item for each native library
StacksBalanced ==
    /\ ~m.stopped
    /\ AtExit /\ ~Meaning(World).ended =>
            /\ m.calls = <<0>>
            /\ m.data = [n \in 1 .. 5 + Len(c.libs) |-> 0]

\* A program the compiler takes comes to its end: the loops it has written end, each
\* jump goes on from where the source goes on, and each call comes back
ReachesExit == <>(phase = "error" \/ AtExit)
=============================================================================
