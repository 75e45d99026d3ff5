------------------------------ MODULE TppCode ------------------------------
(***************************************************************************)
(* The code generator of the T++ compiler, src/compiler/tbc.c: what each   *)
(* of its functions adds to the assembler text and does to the compiler's  *)
(* static variables, for the default build (CompileDynamic = 0).           *)
(*                                                                         *)
(* The source is read from the parsed form: a statement or an expression   *)
(* is a tuple whose first member is its kind.  Only the characters and the *)
(* precedence of operators are left out.  A line of assembler is a tuple   *)
(* as well; an operand is <<"k", number>>, <<"l", label>> or               *)
(* <<"v", variable>>.                                                      *)
(*                                                                         *)
(* The functions of tbc.c call each other as the tuples nest.  The         *)
(* recursion is in two parameters: where a function meets an operand, or   *)
(* IF a statement, it calls Expression or Statement, which stand for       *)
(* do_expression and do_statement themselves, and are given them as values *)
(* where TLC runs the compiler.                                            *)
(*                                                                         *)
(* c is the record of the compiler's static variables; c.err is error(),   *)
(* which ends the compiler.                                                *)
(***************************************************************************)
EXTENDS Integers, Sequences, FiniteSets, SequencesExt

CONSTANTS
    Expression(_, _),   \* do_expression, for the operands of one
    Statement(_, _),    \* do_statement, for the one in an IF
    TableStep,          \* 16: the first size of every table, and its growth
    MAX_WHILE_NESTING,  \* 256
    Stale,              \* the tables' names that uncleared memory holds: see Leftover
    StaleFlags          \* the flags of a function that uncleared memory has set

ASSUME TableAssumption == TableStep \in Nat \ {0} /\ MAX_WHILE_NESTING \in Nat

ASSUME StaleAssumption == StaleFlags \subseteq {"external", "native"}

\* The variables after main() has made its tables: x of y entries in use
Compiler0 ==
    [code |-> <<>>, line |-> 1, fn |-> "none", stuff |-> 0, label_num |-> 0,
     whilelines |-> 0, currentwhile |-> MAX_WHILE_NESTING,
     while_stack |-> [n \in 0 .. MAX_WHILE_NESTING |-> 0],
     vars |-> <<>>, total_variables |-> TableStep,
     functions |-> <<>>, total_functions |-> TableStep,
     structs |-> <<>>, CurrentIndex |-> 0, NumberOfStructs |-> TableStep,
     libs |-> <<>>, number_of_native_libs |-> 0,
     strings |-> <<>>, uses |-> {}, past |-> FALSE, outside |-> FALSE, err |-> FALSE]

Emit(c, s) == [c EXCEPT !.code = @ \o s]

Error(c) == [c EXCEPT !.err = TRUE]

k(n) == <<"k", n>>

-----------------------------------------------------------------------------
(* Tables.  An entry written past a table sets past; an access outside     *)
(* while_stack sets outside.                                               *)

\* A local variable is named after its function
Scoped(c, x) == <<c.fn, x>>

\* The first table is cleared (xmalloc); what xrealloc adds to it is not, and every
\* search goes through the whole table: the entries behind the used ones hold what
\* their memory held before
Leftover(table, x, used, total) ==
    used < total /\ total > TableStep /\ <<table, x>> \in Stale

check_if_variable_exists(c, v) ==
    v \in ToSet(c.vars) \/ Leftover("variables", v, Len(c.vars), c.total_variables)

\* Mutant: the table grows one variable too late
add_variable_late(c, v) ==
    IF check_if_variable_exists(c, v)
    THEN c
    ELSE LET total == IF Len(c.vars) > c.total_variables
                      THEN c.total_variables + TableStep ELSE c.total_variables
         IN [c EXCEPT !.vars = Append(@, v), !.total_variables = total,
                      !.past = @ \/ Len(c.vars) >= total]

add_variable(c, v) ==
    IF check_if_variable_exists(c, v)
    THEN c
    ELSE LET total == IF Len(c.vars) >= c.total_variables - 1
                      THEN c.total_variables + TableStep ELSE c.total_variables
         IN [c EXCEPT !.vars = Append(@, v), !.total_variables = total,
                      !.past = @ \/ Len(c.vars) >= total]

FunctionNamed(c, f) == {n \in DOMAIN c.functions : c.functions[n].name = f}

\* is_external and is_native: do_external and do_native set theirs, and nobody
\* clears the other
FlagsOf(n, kind) ==
    ({kind} \ {"internal"}) \cup IF n < TableStep THEN {} ELSE StaleFlags

add_to_function_table(c, f, args, kind, lib) ==
    LET total == IF Len(c.functions) >= c.total_functions
                 THEN c.total_functions + TableStep ELSE c.total_functions
    IN IF \/ FunctionNamed(c, f) # {}
          \/ Leftover("functions", f, Len(c.functions), c.total_functions)
       THEN Error(c)
       ELSE [c EXCEPT !.functions =
                            Append(@, [name |-> f, args |-> args, kind |-> kind, lib |-> lib,
                                       flags |-> FlagsOf(Len(c.functions), kind)]),
                      !.total_functions = total,
                      !.past = @ \/ Len(c.functions) >= total]

\* return_struct_type_if_struct_exists looks at NumberOfStructs entries only
StructNamed(c, s) ==
    {n \in DOMAIN c.structs : n < c.NumberOfStructs /\ c.structs[n].name = s}

\* CurrentIndex is advanced first: entry 0 is never used
AddStruct(c, s, members) ==
    LET n == c.CurrentIndex + 1
        total == IF c.NumberOfStructs < n - 1
                 THEN c.NumberOfStructs + TableStep ELSE c.NumberOfStructs
    IN IF \/ StructNamed(c, s) # {}
          \/ Leftover("structs", s, n, c.NumberOfStructs)
       THEN Error(c)
       ELSE [c EXCEPT !.CurrentIndex = n, !.NumberOfStructs = total,
                      !.structs = [i \in DOMAIN @ \cup {n} |->
                            IF i = n THEN [name |-> s, members |-> members]
                                     ELSE @[i]]]

Width(type) == CASE type = "int8" -> 1 [] type = "int16" -> 2 [] OTHER -> 4

\* The members before m, or all of them, added up
Offset(members, m) ==
    LET before == {n \in DOMAIN members : \A p \in 1 .. n : members[p][1] # m}
    IN FoldSet(LAMBDA n, sum : sum + Width(members[n][2]), 0, before)

Members(c, s) == c.structs[CHOOSE n \in StructNamed(c, s) : TRUE].members

HasMember(c, s, m) ==
    StructNamed(c, s) # {} /\ \E n \in DOMAIN Members(c, s) : Members(c, s)[n][1] = m

sizeof(c, s) == Offset(Members(c, s), "")
-----------------------------------------------------------------------------
(* Expressions: they leave their value in R1.                              *)

Push(r) == <<"pushr", r>>
Pop(r) == <<"popr", r>>

\* Two registers pushed, one instruction, its result taken, both dropped
Binary(a, op, b) == <<Push(a), Push(b), <<"alu", op>>, Pop("R1"), <<"popn", 2>>>>

Unary(op) == <<Push("R1"), <<"alu1", op>>, Pop("R1"), <<"pop">>>>

\* get_comparision_operator: COMP_L is 0, which do_term takes for no operator
Operator(op) == IF op = "<" THEN "none" ELSE op

Comparisons == {":=", "!=", ">=", "<=", ">", "<"}

\* What do_term and do_expression emit for an operator, with its operands in R2
\* and R1
Operation(op) ==
    CASE op \in Comparisons ->
            <<<<"cmpr", "R2", "R1">>, <<"loadr", "R12", k(0)>>,
              <<"set", op, "R12">>, <<"loadrr", "R1", "R12">>>>
      [] op \in {"*", "+", "&&", "||"} -> Binary("R1", op, "R2")
      [] op \in {"/", "-", "%", "&", "|", "^"} -> Binary("R2", op, "R1")
      [] OTHER -> <<>>

\* $n: the stack holds the arguments, then what this call's arguments have pushed
\* so far, then four registers; eight more items are pushed and dropped here
ArgumentCode(c, n) ==
    LET calculated(a, op, b, r) == <<a, b, <<"alu", op>>, Pop(r)>>
    IN calculated(Push("R1"), "-", <<"push", k(1)>>, "R1")
         \o calculated(<<"push", k(n)>>, "+", <<"push", k(c.stuff)>>, "R6")
         \o calculated(Push("R6"), "+", <<"push", k(4)>>, "R6")
         \o calculated(Push("R6"), "-", Push("R1"), "R1")
         \o <<<<"popn", 8>>, <<"loadrr", "R8", "R1">>, <<"loadsr", "R8">>, Pop("R1")>>

StringIndex(c, t) == CHOOSE n \in DOMAIN c.strings : c.strings[n] = t

do_string(c, t) ==
    LET d == IF t \in ToSet(c.strings) THEN c ELSE [c EXCEPT !.strings = Append(@, t)]
    IN Emit(d, <<<<"loadr", "R1", <<"l", <<"s", StringIndex(d, t)>>>>>>>>)

SaveRegisters == <<Push("R4"), Push("R5"), Push("R9"), Push("R10")>>

\* Mutant: the registers come back in the order they were saved
RestoreRegistersInOrder == <<Pop("R4"), Pop("R5"), Pop("R9"), Pop("R10")>>

RestoreRegisters == <<Pop("R10"), Pop("R9"), Pop("R5"), Pop("R4")>>


\* The arguments of a call: each is pushed and counted
PushArgument(c, e) ==
    [Emit(Expression(c, e), <<Push("R1")>>) EXCEPT !.stuff = @ + 1]

Pushed(c, args) ==
    LET d[n \in 0 .. Len(args)] ==
            IF n = 0 THEN c ELSE PushArgument(d[n - 1], args[n])
    IN d

Arguments(c, args) == Pushed(c, args)[Len(args)]

\* Mutant: the handle of the native library stays on the stack
CallCodeKeepsHandle(f) ==
    IF "native" \in f.flags
    THEN <<<<"push", k(0)>>, <<"push", k(0)>>, <<"sys", "libexec">>, Pop("R7"), <<"pop">>>>
    ELSE <<<<"call", <<"fn", f.name>>>>>>

\* Internal and external functions are called, a native one through libexec; what a
\* function is, its flags say
CallCode(f) ==
    IF f.flags = {} THEN <<<<"call", <<"fn", f.name>>>>>>
    ELSE IF "external" \in f.flags THEN <<<<"externcall", f.name>>>>
    ELSE <<<<"push", k(0)>>, <<"push", k(0)>>,
           <<"sys", "libexec">>, Pop("R7"), <<"pop">>, <<"pop">>>>

\* A name that only an uncleared entry holds is not called: what the entry says of
\* its arguments is no number of arguments
do_function_call(c, f, args) ==
    LET found == FunctionNamed(c, f)
        d == Arguments([c EXCEPT !.stuff = 0], args)
        type == c.functions[CHOOSE n \in found : TRUE]
    IN IF found = {} THEN Error(c) ELSE IF Len(args) # type.args THEN Error(c)
       ELSE [Emit(d, SaveRegisters \o CallCode(type) \o RestoreRegisters
                       \o <<<<"popn", type.args>>, <<"loadrr", "R1", "R7">>>>)
             EXCEPT !.stuff = 0]

\* raw_call: the call stack gets the return address and the target, and ret jumps.
\* Without arguments it saves no registers and leaves R1 alone
raw_call(c, target, args) ==
    LET label == <<"ret", c.label_num>>
        d == Emit(Expression([c EXCEPT !.stuff = 0, !.label_num = @ + 1], target),
                  <<<<"pusha", <<"l", label>>>>, <<"pushar", "R1">>>>)
    IN IF args = <<>>
       THEN Emit(d, <<<<"ret">>, <<"label", label>>>>)
       ELSE [Emit(Arguments(d, args),
                  SaveRegisters \o <<<<"ret">>, <<"label", label>>>> \o RestoreRegisters
                    \o <<<<"popn", Len(args)>>, <<"loadrr", "R1", "R7">>>>)
             EXCEPT !.stuff = 0]

\* [struct s > e . m]: the address of the member in R0
member_address(c, s, e, m) ==
    LET d == Expression(c, e)
    IN IF HasMember(c, s, m)
       THEN Emit(d, <<<<"loadrr", "R0", "R1">>,
                      <<"addr", "R0", k(Offset(Members(c, s), m))>>>>)
       ELSE Error(c)

\* [global] x; it is declared where it is met first
global_address(c, x) ==
    LET v == <<"none", x>> IN Emit(add_variable(c, v), <<<<"loadr", "R0", <<"v", v>>>>>>)

\* Two expressions, the first kept in R9.  The shifts do not take back the R9
\* they save on the call stack
TwoOperands(c, op, a, b) ==
    LET saved == <<"pushar", "R9">>
        shift == op \in {"left_shift", "right_shift"}
        d == IF shift
             THEN Emit(Expression(c, a), <<saved, <<"loadrr", "R9", "R1">>>>)
             ELSE Emit(Expression(Emit(c, <<saved>>), a), <<<<"loadrr", "R9", "R1">>>>)
    IN Emit(Expression(d, b),
            Binary("R9", op, "R1") \o IF shift THEN <<>> ELSE <<<<"popar", "R9">>>>)
Lods == <<Push("R0"), <<"loadrr", "R0", "R1">>, <<"lods">>, Pop("R0")>>

Local(c, x, s) ==
    IF check_if_variable_exists(c, Scoped(c, x)) THEN Emit(c, s) ELSE Error(c)

\* do_expression, do_term, do_factor, generate_identifier and do_typecast: they
\* differ in the operators they read, which the tuple has already grouped
do_expression(c, e) ==
    CASE e[1] = "num" -> Emit(c, <<<<"loadr", "R1", k(e[2])>>>>)
      [] e[1] = "str" -> do_string(c, e[2])
      [] e[1] = "var" -> Local(c, e[2], <<<<"loadrm", "R1", <<"v", Scoped(c, e[2])>>>>>>)
      [] e[1] = "addressof" ->
            Local(c, e[2], <<<<"loadr", "R1", <<"v", Scoped(c, e[2])>>>>>>)
      [] e[1] = "function" -> Emit(c, <<<<"loadr", "R1", <<"l", <<"fn", e[2]>>>>>>>>)
      [] e[1] = "bin" ->
            LET left == Emit(Expression(c, e[3]), <<<<"pushar", "R1">>>>)
                right == Emit(Expression(left, e[4]), <<<<"popar", "R2">>>>)
            IN Emit(right, Operation(Operator(e[2])))
      [] e[1] = "$" ->
            LET f == FunctionNamed(c, c.fn)
                d == Expression(c, e[2])
            IN IF f = {} THEN Error(c)
               ELSE Emit(d, ArgumentCode(d, c.functions[CHOOSE n \in f : TRUE].args))
      [] e[1] = "two" -> TwoOperands(c, e[2], e[3], e[4])
      [] e[1] = "one" -> Emit(Expression(c, e[3]), Unary(e[2]))
      [] e[1] = "ptr" -> Emit(Expression(c, e[2]), Lods)
      [] e[1] = "alloc" -> Emit(Expression(c, e[2]), <<<<"call", <<"alloc_n">>>>>>)
      [] e[1] = "sizeof" ->
            LET d == Expression(c, e[2])
            IN IF StructNamed(d, e[3]) = {} THEN Error(d)
               ELSE Emit(d, <<<<"loadr", "R1", k(sizeof(d, e[3]))>>>>)
      [] e[1] = "global" -> Emit(global_address(c, e[2]), <<<<"lods">>>>)
      [] e[1] = "member" ->
            Emit(member_address(c, e[2], e[3], e[4]), <<<<"lods">>>>)
      [] e[1] = "@" -> do_function_call(c, e[2], e[3])
      [] e[1] = "raw_call" -> raw_call(c, e[2], e[3])

-----------------------------------------------------------------------------
(* Statements.                                                             *)

Calls(label) == <<<<"call", label>>>>

Uses(c, s) == [c EXCEPT !.uses = @ \cup s]

\* One item: a string, $variable, %float or an expression
do_print_item(c, e) ==
    CASE e[1] = "str" -> Emit(do_string(Uses(c, {"print_s"}), e[2]), Calls(<<"print_s">>))
      [] e[1] = "$var" ->
            Local(Uses(c, {"print_s"}), e[2],
                  <<Push("R1"), <<"loadrm", "R1", <<"v", Scoped(c, e[2])>>>>>>
                    \o Calls(<<"print_s">>) \o <<Pop("R1")>>)
      [] e[1] = "%" -> Emit(Expression(c, e[2]), Calls(<<"print_f">>))
      [] OTHER -> Emit(Expression(Uses(c, {"print_i"}), e), Calls(<<"print_i">>))

\* Items with a tab in front of those that stand after a comma, and none in front of
\* the first and of those after a semicolon; then a newline
PrintNext(c, items, semicolons, n) ==
    IF n = 1 \/ n \in semicolons THEN do_print_item(c, items[n])
    ELSE do_print_item(Emit(Uses(c, {"print_t"}), Calls(<<"print_t">>)), items[n])

ItemsPrinted(c, items, semicolons) ==
    LET d[n \in 0 .. Len(items)] ==
            IF n = 0 THEN c ELSE PrintNext(d[n - 1], items, semicolons, n)
    IN d

do_print(c, items, semicolons) ==
    Emit(ItemsPrinted(Uses(c, {"print_n"}), items, semicolons)[Len(items)],
         Calls(<<"print_n">>))

\* The buffer's address waits in R0 while the size is computed
do_input(c, buffer, size) ==
    LET d == Emit(Expression(Emit(c, <<Push("R0")>>), buffer),
                  <<<<"loadrr", "R0", "R1">>>>)
    IN Emit(Expression(d, size),
            <<Push("R0"), <<"call", <<"input_i">>>>, Pop("R0"),
              <<"loadrr", "R1", "R0">>, Pop("R0")>>)

\* The address stays on the stack
do_free(c, e) == Emit(Expression(c, e), <<Push("R1"), <<"sys", "free">>>>)

do_thread(c, f) ==
    Emit(c, <<<<"push", <<"l", <<"fn", f>>>>>>, <<"sys", "dispatch">>, <<"pop">>>>)

\* Mutant: the labels of a loop are numbered by its depth
do_while_by_depth(c, e) ==
    LET d == [c EXCEPT !.while_stack[c.currentwhile] = MAX_WHILE_NESTING - c.currentwhile]
        n == MAX_WHILE_NESTING - c.currentwhile
    IN [Emit(Expression(Emit(d, <<<<"label", <<"while", n>>>>>>), e),
             <<<<"cmpri", "R1", k(0)>>, <<"je", <<"endwhile", n>>>>>>)
        EXCEPT !.whilelines = @ + 1, !.currentwhile = @ - 1]

\* Mutant: when the condition fails the loop is entered again
do_while_again(c, e) ==
    LET n == c.whilelines
        d == [c EXCEPT !.while_stack[c.currentwhile] = n]
    IN [Emit(Expression(Emit(d, <<<<"label", <<"while", n>>>>>>), e),
             <<<<"cmpri", "R1", k(0)>>, <<"je", <<"while", n>>>>>>)
        EXCEPT !.whilelines = @ + 1, !.currentwhile = @ - 1]

\* currentwhile is unsigned: below 0 the store is outside while_stack
do_while(c, e) ==
    LET n == c.whilelines
        d == IF c.currentwhile < 0
             THEN [c EXCEPT !.outside = TRUE]
             ELSE [c EXCEPT !.while_stack[c.currentwhile] = n]
    IN [Emit(Expression(Emit(d, <<<<"label", <<"while", n>>>>>>), e),
             <<<<"cmpri", "R1", k(0)>>, <<"je", <<"endwhile", n>>>>>>)
        EXCEPT !.whilelines = @ + 1, !.currentwhile = @ - 1]

\* Mutant: the loop that has ended stays on the stack
do_endw_kept(c) ==
    IF c.currentwhile + 1 \notin DOMAIN c.while_stack
    THEN [c EXCEPT !.outside = TRUE]
    ELSE LET n == c.while_stack[c.currentwhile + 1]
         IN Emit(c, <<<<"jmp", <<"while", n>>>>, <<"label", <<"endwhile", n>>>>>>)

\* Without a WHILE the entry after the last one is read
do_endw(c) ==
    IF c.currentwhile + 1 \notin DOMAIN c.while_stack
    THEN [c EXCEPT !.outside = TRUE]
    ELSE LET n == c.while_stack[c.currentwhile + 1]
         IN [Emit(c, <<<<"jmp", <<"while", n>>>>, <<"label", <<"endwhile", n>>>>>>)
             EXCEPT !.currentwhile = @ + 1]

\* Labels, and the statements that go to them, need a function
InFunction(c, s) == IF c.fn = "none" THEN Error(c) ELSE Emit(c, s)

do_label(c, l) == InFunction(c, <<<<"label", <<"l", c.fn, l>>>>>>)
do_goto(c, l) == InFunction(c, <<<<"jmp", <<"l", c.fn, l>>>>>>)
do_gosub(c, l) == InFunction(c, <<<<"call", <<"l", c.fn, l>>>>>>)

do_return(c, e) == Emit(Expression(c, e), <<<<"loadrr", "R7", "R1">>, <<"ret">>>>)

do_end(c) == Emit(c, <<<<"jmp", <<"_exit">>>>>>)

Stos == <<Push("R0"), <<"loadrr", "R0", "R5">>, <<"stos">>, Pop("R0")>>

\* LET x: the variable is declared by its first LET
do_let(c, x, e) ==
    LET v == Scoped(c, x)
    IN Emit(Expression(add_variable(c, v), e),
            <<<<"loadr", "R0", <<"v", v>>>>, <<"stos">>>>)

\* LET int32_ptr(a): the address waits in R5
do_let_ptr(c, a, e) ==
    Emit(Expression(Emit(Expression(c, a), <<<<"loadrr", "R5", "R1">>>>), e), Stos)

\* LET [...]: the address, in R0, waits on the call stack
do_let_typecast(d, e) ==
    Emit(Expression(Emit(d, <<<<"pushar", "R0">>>>), e),
         <<<<"popar", "R0">>, <<"stos">>>>)

do_func(c, f, args) ==
    LET d == add_to_function_table(c, f, args, "internal", "none")
    IN [Emit(d, <<<<"label", <<"fn", f>>>>>>
                  \o IF f = "main" THEN Calls(<<"__internal_init">>) ELSE <<>>)
        EXCEPT !.fn = f]

do_endf(c) == IF c.fn = "none" THEN Error(c) ELSE [c EXCEPT !.fn = "none"]

do_external(c, f, args, lib) == add_to_function_table(c, f, args, "external", lib)

\* The table of native libraries is made when it is first needed
do_native(c, f, args, lib) ==
    LET total == IF \/ c.number_of_native_libs = 0
                    \/ Len(c.libs) > c.number_of_native_libs - 1
                 THEN c.number_of_native_libs + TableStep ELSE c.number_of_native_libs
        d == IF lib \in ToSet(c.libs) THEN c
             ELSE [c EXCEPT !.libs = Append(@, lib), !.past = @ \/ Len(c.libs) >= total]
    IN add_to_function_table([d EXCEPT !.number_of_native_libs = total],
                             f, args, "native", lib)

do_global(c, x) == add_variable(c, <<"none", x>>)

\* declared is the number in parentheses; a line for the name and one per member
do_struct(c, s, declared, members) ==
    IF declared = 0 \/ Len(members) # declared
    THEN Error(c)
    ELSE [AddStruct(c, s, members) EXCEPT !.line = @ + 1 + declared]


\* The label carries the line, read again after the statement
do_if(c, e, s) ==
    LET d == Statement(Emit(Expression(c, e),
                               <<<<"cmpri", "R1", k(0)>>, <<"je", <<"i", c.line>>>>>>), s)
    IN Emit(d, <<<<"label", <<"i", d.line>>>>>>)

do_statement(c, s) ==
    CASE s[1] = "print"  -> do_print(c, s[2], s[3])
      [] s[1] = "if"     -> do_if(c, s[2], s[3])
      [] s[1] = "goto"   -> do_goto(c, s[2])
      [] s[1] = "input"  -> do_input(c, s[2], s[3])
      [] s[1] = "let"    -> do_let(c, s[2], s[3])
      [] s[1] = "let_ptr" -> do_let_ptr(c, s[2], s[3])
      [] s[1] = "let_member" ->
            do_let_typecast(member_address(c, s[2], s[3], s[4]), s[5])
      [] s[1] = "let_global" -> do_let_typecast(global_address(c, s[2]), s[3])
      [] s[1] = "gosub"  -> do_gosub(c, s[2])
      [] s[1] = "return" -> do_return(c, s[2])
      [] s[1] = "rem"    -> c
      [] s[1] = "end"    -> do_end(c)
      [] s[1] = "label"  -> do_label(c, s[2])
      [] s[1] = "while"  -> do_while(c, s[2])
      [] s[1] = "endw"   -> do_endw(c)
      [] s[1] = "function" -> do_func(c, s[2], s[3])
      [] s[1] = "endf"   -> do_endf(c)
      [] s[1] = "struct" -> do_struct(c, s[2], s[3], s[4])
      [] s[1] = "global" -> do_global(c, s[2])
      [] s[1] = "extern" -> do_external(c, s[2], s[3], s[4])
      [] s[1] = "native" -> do_native(c, s[2], s[3], s[4])
      [] s[1] = "thread" -> do_thread(c, s[2])
      [] s[1] = "free"   -> do_free(c, s[2])
      [] s[1] = "@"      -> do_function_call(c, s[2], s[3])
      [] s[1] = "raw_call" -> raw_call(c, s[2], s[3])

\* A label of its own line is a statement here; in the source it stands before one
do_line(c, s) ==
    LET d == do_statement(c, s) IN [d EXCEPT !.line = IF s[1] = "label" THEN @ ELSE @ + 1]

-----------------------------------------------------------------------------
(* What finish() adds: the entry, and the routines the program uses.        *)

Entry ==
    <<<<"label", <<"main">>>>>> \o [n \in 1 .. 5 |-> <<"push", k(0)>>]
      \o <<<<"call", <<"fn", "main">>>>, <<"jmp", <<"_exit">>>>,
            <<"label", <<"_exit">>>>, <<"call", <<"input_i">>>>,
            <<"push", k(0)>>, <<"exit">>>>

Tab == 9
Newline == 10

\* A routine that prints R1, or a constant
Prints(name, how) ==
    <<<<"label", <<name>>>>, Push("R1"), <<"sys", how>>, Pop("R1"), <<"ret">>>>

PrintsChar(name, ch) ==
    <<<<"label", <<name>>>>, <<"push", k(ch)>>, <<"sys", "putch">>, <<"pop">>, <<"ret">>>>

\* Reads a line into the buffer R0 points to, R1 bytes at most
InputRoutine ==
    <<<<"label", <<"input_i">>>>, Push("R3"), Push("R4"), <<"sys", "getline">>,
      Pop("R4"), Pop("R3"), <<"loadr", "R1", k(0)>>, <<"stos">>, <<"ret">>>>

AllocRoutine ==
    <<<<"label", <<"alloc_n">>>>, Push("R1"), <<"sys", "alloc">>, Pop("R1"),
      <<"pop">>, <<"ret">>>>

FreeRoutine ==
    <<<<"label", <<"free">>>>, Push("R1"), <<"sys", "free">>, <<"pop">>, <<"ret">>>>

\* The strings of the libraries' names stay on the stack
InitRoutine(c) ==
    <<<<"label", <<"__internal_init">>>>>>
      \o [n \in 1 .. 2 * Len(c.libs) |->
            IF n % 2 = 1 THEN <<"push", k(0)>> ELSE <<"sys", "loadlib">>]
      \o <<<<"ret">>>>

finish(c) ==
    LET If(name, s) == IF name \in c.uses THEN s ELSE <<>>
        strings == [n \in DOMAIN c.strings |-> <<"label", <<"s", n>>>>]
    IN Emit(c, Entry \o If("print_i", Prints("print_i", "puti"))
                 \o If("print_s", Prints("print_s", "puts"))
                 \o If("print_t", PrintsChar("print_t", Tab))
                 \o If("print_n", PrintsChar("print_n", Newline))
                 \o InputRoutine \o AllocRoutine \o Prints("print_f", "putf")
                 \o FreeRoutine \o InitRoutine(c) \o strings)
=============================================================================
