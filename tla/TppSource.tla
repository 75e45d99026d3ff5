----------------------------- MODULE TppSource ------------------------------
(***************************************************************************)
(* What a T++ program means, from the language's description in            *)
(* docs/T++.html and the calling convention in docs/REXCall.html, without  *)
(* registers, stacks or labels.  It is what the compiled program is        *)
(* compared with.                                                          *)
(*                                                                         *)
(* w is the program and the places of its variables, strings and           *)
(* functions; s is the state: memory, output, heap, the function with its  *)
(* arguments, the last value, and whether END has been met.                *)
(***************************************************************************)
EXTENDS TppMachine, FiniteSets

State0 ==
    [mem |-> <<>>, out |-> <<>>, heap |-> HeapAt, fn |-> "main", args |-> <<>>,
     v |-> 0, ended |-> FALSE]

Apply(op, a, b) ==
    CASE op \in {":=", "!=", ">=", "<=", ">", "<"} -> Logical(Holds(op, a, b))
      [] op = "&&" -> Logical(a # 0 /\ b # 0)
      [] op = "||" -> Logical(a # 0 \/ b # 0)
      [] OTHER -> Alu(op, a, b)

Is(w, i, kind) == w.source[i][1] = kind

FunctionAt(w, f) ==
    CHOOSE i \in DOMAIN w.source : Is(w, i, "function") /\ w.source[i][2] = f

Defines(w, f) ==
    \E i \in DOMAIN w.source : Is(w, i, "function") /\ w.source[i][2] = f

\* The function a line belongs to, and a label of it
Owner(w, i) ==
    LET above == {n \in 1 .. i : Is(w, n, "function")}
    IN IF above = {} THEN "none"
       ELSE w.source[CHOOSE n \in above : \A o \in above : o <= n][2]

LabelAt(w, f, l) ==
    CHOOSE i \in DOMAIN w.source :
        Is(w, i, "label") /\ w.source[i][2] = l /\ Owner(w, i) = f

\* The ENDW of the WHILE at i, and the other way round: as many of each between
Closes(w, i, n) ==
    LET Count(kind) == Cardinality({x \in i .. n : Is(w, x, kind)})
    IN /\ i < n /\ Is(w, i, "while") /\ Is(w, n, "endw")
       /\ Count("while") = Count("endw")
       /\ \A x \in i .. n - 1 : Cardinality({y \in i .. x : Is(w, y, "while")})
                                  > Cardinality({y \in i .. x : Is(w, y, "endw")})

EndOf(w, i) == CHOOSE n \in DOMAIN w.source : Closes(w, i, n)
WhileOf(w, n) == CHOOSE i \in DOMAIN w.source : Closes(w, i, n)

Place(w, s, x) == w.link[<<"v", <<s.fn, x>>>>]
GlobalPlace(w, x) == w.link[<<"v", <<"none", x>>>>]

MemberOffset(w, name, m) == w.offsets[<<name, m>>]

RECURSIVE Value(_, _, _), At(_, _, _, _)

Values(w, s, es) ==
    FoldLeft(LAMBDA t, e : LET u == Value(w, t[1], e) IN <<u, Append(t[2], u.v)>>,
             <<s, <<>>>>, es)

\* A call: its own arguments, then the caller's again
Called(w, s, f, args) ==
    LET t == At(w, [s EXCEPT !.fn = f, !.args = args], FunctionAt(w, f) + 1, <<"next">>)
    IN IF Defines(w, f) THEN [t EXCEPT !.fn = s.fn, !.args = s.args]
       ELSE [s EXCEPT !.v = 7]

Value(w, s, e) ==
    CASE e[1] = "num" -> [s EXCEPT !.v = e[2]]
      [] e[1] = "str" -> [s EXCEPT !.v = w.strings[e[2]]]
      [] e[1] = "var" -> [s EXCEPT !.v = Load(s, Place(w, s, e[2]))]
      [] e[1] = "addressof" -> [s EXCEPT !.v = Place(w, s, e[2])]
      [] e[1] = "function" -> [s EXCEPT !.v = w.link[<<"l", <<"fn", e[2]>>>>]]
      [] e[1] \in {"bin", "two"} ->
            LET t == Value(w, s, e[3])
                u == Value(w, t, e[4])
            IN [u EXCEPT !.v = Apply(e[2], t.v, u.v)]
      [] e[1] = "one" -> LET t == Value(w, s, e[3]) IN [t EXCEPT !.v = Alu1(e[2], @)]
      [] e[1] = "$" -> LET t == Value(w, s, e[2]) IN [t EXCEPT !.v = s.args[@]]
      [] e[1] = "ptr" -> LET t == Value(w, s, e[2]) IN [t EXCEPT !.v = Load(t, @)]
      [] e[1] = "alloc" -> LET t == Value(w, s, e[2])
                           IN [t EXCEPT !.v = t.heap, !.heap = @ + 10]
      [] e[1] = "sizeof" -> [s EXCEPT !.v = w.sizes[e[3]]]
      [] e[1] = "global" -> [s EXCEPT !.v = Load(s, GlobalPlace(w, e[2]))]
      [] e[1] = "member" -> LET t == Value(w, s, e[3])
                            IN [t EXCEPT !.v = Load(t, @ + MemberOffset(w, e[2], e[4]))]
      [] e[1] = "@" -> LET t == Values(w, s, e[3]) IN Called(w, t[1], e[2], t[2])
      [] e[1] = "raw_call" ->
            LET t == Value(w, s, e[2])
                u == Values(w, t, e[3])
                f == CHOOSE i \in DOMAIN w.source :
                        Is(w, i, "function") /\ w.link[<<"l", <<"fn", w.source[i][2]>>>>] = t.v
            IN Called(w, u[1], w.source[f][2], u[2])

\* The characters between the items and at the end are the compiler's: the
\* description has no word on them
Written(s, ch) == [s EXCEPT !.out = Append(@, ch)]

Printed(w, s, item) ==
    LET t == Value(w, s, CASE item[1] = "$var" -> <<"var", item[2]>>
                           [] item[1] = "%" -> item[2] [] OTHER -> item)
    IN [t EXCEPT !.out = Append(@, t.v)]

\* The statements that go on to the next line
Do(w, s, st) ==
    CASE st[1] = "let" -> LET t == Value(w, s, st[3]) IN Store(t, Place(w, s, st[2]), t.v)
      [] st[1] = "let_ptr" -> LET a == Value(w, s, st[2])
                                  t == Value(w, a, st[3]) IN Store(t, a.v, t.v)
      [] st[1] = "let_member" ->
            LET a == Value(w, s, st[3])
                t == Value(w, a, st[5])
            IN Store(t, a.v + MemberOffset(w, st[2], st[4]), t.v)
      [] st[1] = "let_global" ->
            LET t == Value(w, s, st[3]) IN Store(t, GlobalPlace(w, st[2]), t.v)
      [] st[1] = "print" -> 
            Written(FoldLeftDomain(LAMBDA t, n :
                        Printed(w, IF n = 1 \/ n \in st[3] THEN t ELSE Written(t, 9),
                                st[2][n]), s, st[2]), 10)
      [] st[1] = "input" -> LET a == Value(w, s, st[2])
                                t == Value(w, a, st[3])
                            IN Store(Store(t, a.v, 5), a.v + 1, 0)
      [] st[1] = "free" -> Value(w, s, st[2])
      [] st[1] \in {"@", "raw_call"} -> Value(w, s, st)
      [] OTHER -> s

\* From statement st of line i, or from line i itself, to the end of the function
At(w, s, i, st) ==
    LET Line(t, n) == At(w, t, n, <<"next">>)
    IN CASE s.ended -> s
         [] st[1] = "next" -> At(w, s, i, w.source[i])
         [] st[1] = "return" -> Value(w, s, st[2])
         [] st[1] = "end" -> [s EXCEPT !.ended = TRUE]
         [] st[1] = "endf" -> s
         [] st[1] = "goto" -> Line(s, LabelAt(w, s.fn, st[2]))
         [] st[1] = "gosub" -> Line(Line(s, LabelAt(w, s.fn, st[2])), i + 1)
         [] st[1] = "if" -> LET t == Value(w, s, st[2])
                            IN IF t.v # 0 THEN At(w, t, i, st[3]) ELSE Line(t, i + 1)
         [] st[1] = "while" -> LET t == Value(w, s, st[2])
                               IN Line(t, IF t.v # 0 THEN i + 1 ELSE EndOf(w, i) + 1)
         [] st[1] = "endw" -> Line(s, WhileOf(w, i))
         [] OTHER -> Line(Do(w, s, st), i + 1)

\* The whole program: main, which needs no arguments
Meaning(w) == At(w, State0, FunctionAt(w, "main") + 1, <<"next">>)
=============================================================================
