------------------------------- MODULE MCTpp -------------------------------
(***************************************************************************)
(* Programs for the T++ compiler, a family per part of the language.  They *)
(* keep away from what the compiler is known to get wrong, which the       *)
(* README lists; LessPrograms are such.                                    *)
(***************************************************************************)
EXTENDS Tpp

num(n) == <<"num", n>>
var(x) == <<"var", x>>
bin(a, op, b) == <<"bin", op, a, b>>
arg(n) == <<"$", num(n)>>
at_(f, args) == <<"@", f, args>>
let(x, e) == <<"let", x, e>>
print(e) == <<"print", <<e>>, {}>>

\* main, and whatever is declared before it
Program(before, body) ==
    before \o <<<<"function", "main", 0>>>> \o body \o <<<<"return", num(0)>>, <<"endf">>>>

Ended(body) == <<<<"function", "main", 0>>>> \o body \o <<<<"end">>, <<"endf">>>>

\* Every operator, alone and under another on either side
Ops == {"*", "+", "-", "/", "%", "&", "|", "^", ":=", "!=", ">=", "<=", ">"}
Inner == {"+", "-", "*", ":=", ">="}

Expressions ==
    {bin(var("x"), op, num(2)) : op \in Ops}
      \cup {bin(bin(var("x"), p, num(2)), q, var("y")) : p \in Inner, q \in Inner}
      \cup {bin(var("x"), p, bin(num(2), q, var("y"))) : p \in Inner, q \in Inner}
      \cup {bin(bin(var("x"), p, num(2)), op, bin(var("y"), q, num(1))) :
                p \in {":=", "!=", ">"}, q \in {">=", "<="}, op \in {"&&", "||"}}
      \cup {<<"two", op, bin(var("x"), "-", num(1)), <<"two", "sub_f", var("y"), num(2)>>>> :
                op \in {"mul_f", "add_f", "sub_f"}}
      \cup {<<"one", op, <<"two", "add_f", var("x"), var("y")>>>> : op \in {"conv_f", "conv_i"}}

Arithmetic ==
    {Program(<<>>, <<let("x", num(3)), let("y", num(1)), let("z", e),
                     <<"print", <<var("z"), <<"str", "a">>, <<"$var", "z">>>>, {2}>>>>) :
        e \in Expressions}

\* Loops: x counts down from n
Loop(x, n, body) ==
    <<let(x, num(n)), <<"while", bin(var(x), ">", num(0))>>,
      let(x, bin(var(x), "-", num(1))), let("s", bin(var("s"), "+", num(1)))>>
      \o body \o <<<<"endw">>>>

LoopBodies ==
    {Loop("a", 2, <<>>) \o Loop("b", 1, <<>>),
     Loop("a", 2, Loop("b", 2, <<>>)),
     Loop("a", 2, Loop("b", 1, <<>>) \o Loop("c", 2, <<>>)) \o Loop("d", 1, <<>>),
     Loop("a", 1, Loop("b", 1, Loop("c", 2, Loop("e", 1, <<>>))) \o Loop("d", 0, <<>>))}

Jumps ==
    {<<<<"gosub", "sub">>, <<"gosub", "sub">>, <<"goto", "out">>, <<"label", "sub">>,
       let("s", bin(var("s"), "+", num(1))), <<"return", num(0)>>, <<"label", "out">>>>,
     <<<<"label", "again">>, let("s", bin(var("s"), "+", num(1))),
       <<"if", bin(var("s"), "<=", num(2)), <<"goto", "again">>>>,
       <<"if", bin(var("s"), ":=", num(4)), print(var("s"))>>,
       <<"if", bin(var("s"), ":=", num(3)), let("s", num(8))>>>>,
     Loop("a", 3, <<<<"if", bin(var("a"), ":=", num(1)), <<"goto", "out">>>>>>)
       \o <<<<"label", "out">>, <<"rem">>>>}

Control ==
    {Program(<<>>, <<let("s", num(0))>> \o body \o <<print(var("s"))>>) :
        body \in LoopBodies \cup Jumps}
      \cup {Ended(<<let("s", num(0))>> \o body) : body \in LoopBodies}

\* Functions: arguments, calls among arguments, recursion, and labels and variables
\* of the same name in two functions
Diff == <<<<"function", "diff", 2>>, let("x", bin(arg(1), "-", arg(2))),
          <<"return", var("x")>>, <<"endf">>>>
Twice == <<<<"function", "twice", 1>>,
           <<"return", at_("diff", <<bin(arg(1), "*", num(3)), arg(1)>>)>>, <<"endf">>>>
Fact == <<<<"function", "fact", 1>>, <<"if", bin(arg(1), ":=", num(0)), <<"goto", "out">>>>,
          <<"return", bin(arg(1), "*", at_("fact", <<bin(arg(1), "-", num(1))>>))>>,
          <<"label", "out">>, <<"return", num(1)>>, <<"endf">>>>
Show == <<<<"function", "show", 3>>,
          <<"print", <<arg(1), bin(arg(2), "+", bin(arg(3), "*", arg(1)))>>, {}>>,
          <<"return", num(9)>>, <<"endf">>>>

Called_ ==
    {at_("diff", <<num(5), num(2)>>), at_("twice", <<num(2)>>), at_("fact", <<num(3)>>),
     at_("diff", <<at_("diff", <<num(9), num(2)>>), at_("twice", <<num(1)>>)>>),
     bin(at_("twice", <<num(2)>>), "-", at_("diff", <<num(2), var("x")>>)),
     <<"two", "sub_f", at_("twice", <<num(2)>>), at_("fact", <<num(2)>>)>>,
     <<"raw_call", <<"function", "diff">>, <<num(5), at_("fact", <<num(2)>>)>>>>,
     <<"raw_call", var("f"), <<num(6), num(2)>>>>,
     bin(<<"raw_call", var("f"), <<num(6), num(2)>>>>, "+", num(1))}

Functions_ == Diff \o Twice \o Fact \o Show

Calling ==
    {Program(Functions_, <<let("x", num(1)), let("f", <<"function", "diff">>),
                           let("z", e), print(var("z")),
                           at_("show", <<num(1), var("x"), num(3)>>), <<"label", "out">>>>) :
        e \in Called_}
      \cup {Program(<<<<"native", "put", 1, "lib">>, <<"native", "get", 1, "lib">>>> \o Diff,
                    <<let("z", at_("diff", <<at_("get", <<num(2)>>), num(3)>>)),
                      print(var("z"))>>)}

\* Memory: pointers, members of structs, globals, and values that are computed by
\* calls while an address waits
Point == <<<<"struct", "point", 3, <<<<"k", "int8">>, <<"x", "int32">>, <<"y", "int16">>>>>>>>
Member(x) == <<"member", "point", var("p"), x>>

Values_ == {num(4), at_("diff", <<num(5), num(2)>>), <<"ptr", var("p")>>,
            <<"sizeof", num(0), "point">>, Member("y"), <<"addressof", "p">>}

Memory ==
    {Program(<<<<"global", "g">>>> \o Point \o Diff,
             <<let("p", <<"alloc", num(8)>>),
               <<"let_member", "point", var("p"), "y", num(6)>>,
               <<"let_ptr", var("p"), e>>,
               <<"let_member", "point", var("p"), "x", e>>,
               <<"let_global", "g", bin(Member("x"), "+", e)>>,
               print(bin(<<"global", "g">>, "-", Member("k")))>>) : e \in Values_}
      \cup {Program(Diff, <<let("p", <<"alloc", num(8)>>), let("q", <<"alloc", num(8)>>),
                            <<"let_ptr", bin(var("q"), "+", num(1)),
                              at_("diff", <<num(3), <<"ptr", var("p")>>>>)>>,
                            print(<<"ptr", bin(var("q"), "+", num(1))>>),
                            <<"print", <<<<"%", <<"two", "add_f", var("p"), num(1)>>>>>>, {}>>,
                            <<"thread", "diff">>>>),
            Ended(<<let("p", <<"alloc", num(8)>>), <<"input", var("p"), num(4)>>,
                    print(<<"ptr", var("p")>>), <<"free", var("p")>>>>)}

\* Tables past their first size, and what the compiler refuses
Lets(xs) == [n \in DOMAIN xs |-> let(xs[n], num(n))]
Struct(name) == <<"struct", name, 1, <<<<"x", "int32">>>>>>
Fn(name) == <<<<"function", name, 0>>, <<"return", num(1)>>, <<"endf">>>>

Tables ==
    {Program(<<>>, Lets(<<"a", "b", "c", "d", "e", "a">>)),
     Program(Fn("f1") \o Fn("f2") \o Fn("f3") \o Fn("f4"), <<at_("f4", <<>>)>>),
     Program([n \in 1 .. 6 |-> Struct(<<"s1", "s2", "s3", "s4", "s5", "s6">>[n])],
             <<let("z", <<"sizeof", num(0), "s1">>)>>),
     Program([n \in 1 .. 5 |-> <<"native", <<"n1", "n2", "n3", "n4", "n5">>[n], 0,
                                 <<"l1", "l2", "l3", "l4", "l1">>[n]>>],
             <<at_("n4", <<>>)>>),
     Program(Fn("f1") \o Fn("f1"), <<>>), Program(<<Struct("s"), Struct("s")>>, <<>>),
     Program(<<<<"goto", "x">>>>, <<>>), Program(<<<<"endf">>>>, <<>>),
     Program(<<<<"struct", "s", 2, <<<<"x", "int32">>>>>>>>, <<>>),
     Program(Diff, <<at_("diff", <<num(1)>>)>>), Program(<<>>, <<print(var("x"))>>),
     Program(<<>>, <<at_("none", <<>>)>>), Program(<<<<"extern", "e", 1, "lib">>>>, <<>>)}

TppPrograms == Arithmetic \cup Control \cup Calling \cup Memory \cup Tables

LessPrograms ==
    {Ended(<<let("a", num(n)), let("z", bin(var("a"), "<", num(5))), print(var("z"))>>) :
        n \in {3, 5}}

-----------------------------------------------------------------------------
(* The recursion of the code generator.  (In a LET, or TLC's -coverage would *)
(* unfold it for ever.)                                                     *)

TppExpression(d, t) == LET r == do_expression(d, t) IN r
TppStatement(d, t) == LET r == do_statement(d, t) IN r

-----------------------------------------------------------------------------
(* The tuples in a tuple: as many as it is deep, or more.                   *)

RECURSIVE Tuples(_)
Tuples(t) == {t} \cup UNION {Tuples(x) : x \in Parts(t)}

TppNesting ==
    [t \in UNION {UNION {Tuples(p[n]) : n \in DOMAIN p} : p \in Programs} |->
        Cardinality(Tuples(t))]

ASSUME ProgramsNest == \A p \in Programs : LoopsNest(p) /\ Open(p, Len(p)) = 0

ASSUME ProgramsResolve ==
    \A p \in Programs :
        /\ NamesResolve(p, UNION {Tuples(p[n]) : n \in DOMAIN p})
        /\ OneIfInLine(p)
=============================================================================
