---------------------------- MODULE TppCompiler -----------------------------
(***************************************************************************)
(* The T++ compiler, src/compiler/tbc.c, from main() to the assembler text *)
(* it leaves: do_line reads the source line by line, finish() adds the     *)
(* routines.  What becomes of the text is in Tpp.                          *)
(*                                                                         *)
(* A program is a sequence of statements, as TppCode reads them.           *)
(***************************************************************************)
EXTENDS TppCode

CONSTANTS
    Programs,   \* the sources that are compiled
    Nesting     \* of every statement and expression in them, how deep it nests

-----------------------------------------------------------------------------
(* What the parser makes of a source: finite trees of these kinds.          *)

ExpressionKinds ==
    {"num", "str", "var", "addressof", "function", "bin", "$", "two", "one", "ptr",
     "alloc", "sizeof", "global", "member", "@", "raw_call"}

\* What PRINT prints may be two things more
ItemKinds == ExpressionKinds \cup {"$var", "%"}

StatementKinds ==
    {"print", "if", "goto", "input", "let", "let_ptr", "let_member", "let_global",
     "gosub", "return", "rem", "end", "label", "while", "endw", "function", "endf",
     "struct", "global", "extern", "native", "thread", "free", "@", "raw_call"}

\* Parts that come as a sequence: arguments, and items
Listed(t) == CASE t[1] = "print" -> t[2]
               [] t[1] \in {"@", "raw_call"} -> t[3]
               [] OTHER -> <<>>

Operands(t) ==
    CASE t[1] \in {"$", "ptr", "alloc", "sizeof", "%", "raw_call", "if", "return",
                   "while", "free"} -> {t[2]}
      [] t[1] \in {"one", "member", "let", "let_global"} -> {t[3]}
      [] t[1] \in {"input", "let_ptr"} -> {t[2], t[3]}
      [] t[1] = "let_member" -> {t[3], t[5]}
      [] t[1] \in {"bin", "two"} -> {t[3], t[4]}
      [] OTHER -> {}

Bodies(t) == IF t[1] = "if" THEN {t[3]} ELSE {}

Parts(t) == Operands(t) \cup ToSet(Listed(t)) \cup Bodies(t)

\* Trees are finite: rank gives every part a lower number than the whole
Ranks(rank) ==
    /\ rank \in [DOMAIN rank -> Nat]
    /\ \A t \in DOMAIN rank :
          /\ Listed(t) \in Seq(DOMAIN rank)
          /\ \A x \in Parts(t) : x \in DOMAIN rank /\ rank[x] < rank[t]
          /\ \A x \in Operands(t) : x[1] \in ExpressionKinds
          /\ \A x \in ToSet(Listed(t)) :
                x[1] \in IF t[1] = "print" THEN ItemKinds ELSE ExpressionKinds
          /\ \A x \in Bodies(t) : x[1] \in StatementKinds

ASSUME NestingAssumption == Ranks(Nesting)

\* A struct says how many members it has
ASSUME MembersAssumption == \A t \in DOMAIN Nesting : t[1] = "struct" => t[3] \in Nat

ASSUME ProgramsAssumption ==
    Programs \subseteq Seq({t \in DOMAIN Nesting : t[1] \in StatementKinds})

-----------------------------------------------------------------------------
(* The loops of a source.                                                   *)

\* The kind of a statement, or of the one an IF holds
Innermost[t \in DOMAIN Nesting] == IF t[1] = "if" THEN Innermost[t[3]] ELSE t[1]

\* The loops that are open after n lines
Count(p, n, kind) == Cardinality({i \in 1 .. n : Innermost[p[i]] = kind})

Open(p, n) == Count(p, n, "while") - Count(p, n, "endw")

\* Every ENDW has a WHILE before it, and while_stack has an entry for each
LoopsNest(p) == \A n \in 0 .. Len(p) : Open(p, n) \in 0 .. MAX_WHILE_NESTING + 1

-----------------------------------------------------------------------------
(* The names of a source.                                                   *)

\* The statement a line carries out: an IF has one
Body(t) == IF t[1] = "if" THEN t[3] ELSE t

\* Line n is in function f
Within(p, n, f) ==
    \E i \in 1 .. n - 1 :
        /\ Body(p[i])[1] = "function" /\ Body(p[i])[2] = f
        /\ \A j \in i + 1 .. n - 1 : Body(p[j])[1] \notin {"function", "endf"}

\* The functions of the first n lines
DeclaredFunctions(p, n) ==
    {Body(p[i])[2] : i \in {j \in 1 .. n : Body(p[j])[1] = "function"}}

\* The lines that are the label l of function f
Labelled(p, f, l) ==
    {n \in 1 .. Len(p) : /\ Within(p, n, f)
                         /\ Body(p[n])[1] = "label" /\ Body(p[n])[2] = l}

\* What the compiler leaves to the one who writes the program, T being the trees it
\* is made of: every name that is used is given to something, and a label of a
\* function only once.  (It looks itself for a function given twice.)
NamesResolve(p, T) ==
    /\ ToSet(p) \subseteq T /\ \A t \in T : Parts(t) \subseteq T
    /\ \A t \in T : t[1] \in {"function", "thread"} => t[2] \in DeclaredFunctions(p, Len(p))
    /\ "main" \in DeclaredFunctions(p, Len(p))
    /\ \A f \in DeclaredFunctions(p, Len(p)), n \in 1 .. Len(p) :
          Within(p, n, f) =>
              LET b == Body(p[n])
              IN /\ b[1] \in {"goto", "gosub"} => Labelled(p, f, b[2]) # {}
                 /\ b[1] = "label" => Labelled(p, f, b[2]) = {n}

\* The label of an IF is its line: there is one in a line, and it holds no STRUCT,
\* which has lines of its own
OneIfInLine(p) ==
    \A n \in 1 .. Len(p) : p[n][1] = "if" => p[n][3][1] \notin {"if", "struct"}

-----------------------------------------------------------------------------

VARIABLES
    source,     \* the program
    at,         \* the line do_line reads next
    c,          \* the compiler's static variables
    phase       \* compile; run: the text is written; error: it has given up

compilerVars == <<source, at, c, phase>>

CompilerInit ==
    /\ source \in Programs
    /\ at = 1 /\ c = Compiler0 /\ phase = "compile"

\* main(): while (do_line ());
CompileLine ==
    /\ phase = "compile" /\ at <= Len(source)
    /\ c' = do_line(c, source[at])
    /\ at' = at + 1
    /\ phase' = IF c'.err THEN "error" ELSE "compile"
    /\ UNCHANGED source

\* finish()
WriteRoutines ==
    /\ phase = "compile" /\ at > Len(source)
    /\ c' = finish(c)
    /\ phase' = "run"
    /\ UNCHANGED <<source, at>>

CompilerNext == CompileLine \/ WriteRoutines

\* The compiler alone.  Every step of Tpp is one of its steps, or is the machine's
\* and leaves compilerVars as they are
CompilerSpec == CompilerInit /\ [][CompilerNext]_compilerVars

-----------------------------------------------------------------------------
(* Properties.                                                             *)

\* The tables of variables, functions and native libraries grow before they are
\* written.  AddStruct grows its table late: it writes the entry after the table
\* and the one after that, and no further
TablesFit ==
    /\ ~c.past
    /\ c.CurrentIndex <= c.NumberOfStructs + 1

\* The lines that name a loop: its labels, and the jumps to them
LoopLines(code) ==
    {n \in DOMAIN code : /\ code[n][1] \in {"label", "jmp", "je"}
                         /\ code[n][2][1] \in {"while", "endwhile"}}

\* No two loops have the same label, one in the other, one after the other or in
\* two functions
LoopLabelsOnce ==
    \A n, p \in LoopLines(c.code) :
        c.code[n][1] = "label" /\ c.code[p] = c.code[n] => p = n

\* The jumps of a loop have their labels, but for the end of a loop still open
LoopJumpsResolved ==
    \A n \in LoopLines(c.code) :
        \/ \E p \in LoopLines(c.code) : c.code[p] = <<"label", c.code[n][2]>>
        \/ \E i \in c.currentwhile + 1 .. MAX_WHILE_NESTING :
              c.code[n][2] = <<"endwhile", c.while_stack[i]>>

\* In programs whose loops nest (LoopsNest) no WHILE writes before while_stack, no
\* ENDW reads behind it, and each ENDW ends its own WHILE: the counter whilelines
\* and the stack that grows down give out labels that are unique and resolved
LoopsMatch == ~c.outside /\ LoopLabelsOnce /\ LoopJumpsResolved

\* The labels that code gives
Labels(code) == {code[n][2] : n \in {i \in DOMAIN code : code[i][1] = "label"}}

\* The labels a line of code goes to or takes the address of
References(ins) ==
    CASE ins[1] \in {"jmp", "je", "call"} -> {ins[2]}
      [] ins[1] \in {"loadr", "push", "pusha"} /\ Last(ins)[1] = "l" -> {Last(ins)[2]}
      [] OTHER -> {}

\* All the labels that code goes to
LabelsOf(code) == UNION {References(code[n]) : n \in DOMAIN code}

\* The assembler can resolve what comes out: every label the code names is there
\* once.  The names come from counters (whilelines, label_num), from the line (IF),
\* from a table (strings) and from the source, and none meets another
LabelsResolved ==
    phase = "run" =>
        /\ LabelsOf(c.code) \subseteq Labels(c.code)
        /\ Cardinality({n \in DOMAIN c.code : c.code[n][1] = "label"})
              = Cardinality(Labels(c.code))
=============================================================================
