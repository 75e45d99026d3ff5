------------------------- MODULE TppCompilerProofs --------------------------
(***************************************************************************)
(* The tables, the loops and the labels of the T++ compiler, for every     *)
(* program, however deep it nests, and every size of the tables.           *)
(*                                                                         *)
(* Spares says of a piece of the code generator that it leaves the tables  *)
(* as they have to be and the stack of loops as it was, and that the lines *)
(* it adds name no loop.  Keeps says besides that the labels it adds are   *)
(* return addresses it has counted, and that its lines go to these or to   *)
(* what finish() will add.  Every function of tbc.c keeps, or spares, when *)
(* what it calls for its operands keeps; that all of them do follows by    *)
(* induction on how deep the source nests (Nesting).                       *)
(*                                                                         *)
(* LabelsHold relates the labels of the loops to their stack: only WHILE   *)
(* and ENDW change either, and both keep it.  LabelsGood says where every  *)
(* label of the code comes from, and what a line can go to that is not     *)
(* there yet: a label of the source, the end of a loop, a function, a      *)
(* routine.  Every line keeps it (Given and Asked are what its statement   *)
(* adds), and finish() finds that nothing is left.                         *)
(***************************************************************************)
EXTENDS TppCompiler, WellFoundedInduction, SequenceTheorems, FiniteSetTheorems, TLAPS

\* The functions of the code generator call themselves: on every tree of the source
\* the parameters are do_expression and do_statement.  Every operand and body nests
\* less deep than the whole, so the equations have a solution, whatever Nesting is
Recursive ==
    \A t \in DOMAIN Nesting :
        /\ t[1] \in ExpressionKinds => \A d : Expression(d, t) = do_expression(d, t)
        /\ t[1] \in StatementKinds => \A d : Statement(d, t) = do_statement(d, t)

-----------------------------------------------------------------------------
(* Induction on the natural numbers, from well-foundedness.                 *)

LEMMA LeastNat ==
  ASSUME NEW T \in SUBSET Nat, T # {}
  PROVE  \E x \in T : \A y \in T : x <= y
<1> DEFINE R == OpToRel(<, Nat)
<1>1. IsWellFoundedOn(R, Nat) BY NatLessThanWellFounded
<1>2. \A x, y \in Nat : <<y, x>> \in R <=> y < x BY DEF OpToRel
<1> HIDE DEF R
<1>3. PICK x \in T : \A y \in T : ~ (<<y, x>> \in R) BY <1>1, WFMin
<1>4. \A y \in T : ~(y < x) BY <1>2, <1>3
<1> QED BY <1>4

LEMMA InductionOnNat ==
  ASSUME NEW S \in SUBSET Nat, 0 \in S, \A n \in S : n + 1 \in S
  PROVE  S = Nat
<1> SUFFICES ASSUME Nat \ S # {} PROVE FALSE OBVIOUS
<1>1. PICK x \in Nat \ S : \A y \in Nat \ S : x <= y BY LeastNat
<1>2. x - 1 \in Nat BY <1>1
<1>3. x - 1 \in S BY <1>1, <1>2
<1>4. (x - 1) + 1 \in S BY <1>3
<1> QED BY <1>4, <1>1

-----------------------------------------------------------------------------
(* The compiler's variables.                                                *)

Fields ==
    {"code", "line", "fn", "stuff", "label_num", "whilelines", "currentwhile",
     "while_stack", "vars", "total_variables", "functions", "total_functions",
     "structs", "CurrentIndex", "NumberOfStructs", "libs", "number_of_native_libs",
     "strings", "uses", "past", "outside", "err"}

\* The ones that no table, no loop and no line of code depends on
FreeFields == {"line", "fn", "stuff", "label_num", "structs", "uses", "err"}

\* Of them, the ones that no label depends on either
Temporary == {"stuff", "structs", "err"}

HasFields(d) == d = [x \in Fields |-> d[x]]

IsTable(s) == \E S : s \in Seq(S)

\* Before an operation: the table of variables has room for one more, the tables of
\* functions and native libraries hold what is in them, and the index of the
\* structs is at most one past the size
TablesHold(d) ==
    /\ IsTable(d.vars) /\ d.total_variables \in Nat
    /\ Len(d.vars) < d.total_variables
    /\ IsTable(d.functions) /\ d.total_functions \in Nat
    /\ Len(d.functions) <= d.total_functions
    /\ \A n \in DOMAIN d.functions :
          d.functions[n].flags = {} => d.functions[n].kind = "internal"
    /\ IsTable(d.libs) /\ d.number_of_native_libs \in Nat
    /\ Len(d.libs) <= d.number_of_native_libs
    /\ d.CurrentIndex \in Nat /\ d.NumberOfStructs \in Nat
    /\ d.CurrentIndex <= d.NumberOfStructs + 1
    /\ d.past = FALSE

Sound(d) ==
    /\ HasFields(d) /\ TablesHold(d)
    /\ IsTable(d.code) /\ IsTable(d.strings) /\ d.label_num \in Nat

SameLoops(d, r) ==
    /\ r.currentwhile = d.currentwhile
    /\ r.while_stack = d.while_stack
    /\ r.whilelines = d.whilelines
    /\ r.outside = d.outside

\* A line that names no loop, and code of such lines
Loopless(x) ==
    x[1] \in {"label", "jmp", "je"} => x[2][1] \notin {"while", "endwhile"}

\* New code is the old code and lines that name no loop
Extends(old, new) ==
    /\ Len(old) <= Len(new)
    /\ \A n \in 1 .. Len(old) : new[n] = old[n]
    /\ \A n \in Len(old) + 1 .. Len(new) : Loopless(new[n])

\* The stack of loops is left as it was
Spares(d, r) ==
    Sound(d) => Sound(r) /\ SameLoops(d, r) /\ Extends(d.code, r.code)

-----------------------------------------------------------------------------
(* The labels that there will be when finish() is through.                  *)

\* The functions in the table that have code
Internal(d) ==
    {d.functions[n].name : n \in {i \in DOMAIN d.functions :
                                    d.functions[i].kind = "internal"}}

\* The trees a program is made of
Trees(p) ==
    {t \in DOMAIN Nesting :
        \A T \in SUBSET DOMAIN Nesting :
            ToSet(p) \subseteq T /\ (\A x \in T : Parts(x) \subseteq T) => t \in T}

\* The functions whose address the program takes
Taken == {t[2] : t \in {x \in Trees(source) : x[1] \in {"function", "thread"}}}

\* The routines that are there when they are used, and the labels that are there
\* always
Routines == {"print_i", "print_s", "print_t", "print_n"}

Always == {<<"input_i">>, <<"alloc_n">>, <<"print_f">>, <<"__internal_init">>, <<"_exit">>}

\* What a line may refer to before it is there
Known(d) ==
    Always \cup {<<u>> : u \in d.uses \cap Routines}
      \cup {<<"s", n>> : n \in 1 .. Len(d.strings)}
      \cup {<<"fn", f>> : f \in Internal(d) \cup Taken}

Rets(i, j) == {<<"ret", n>> : n \in i .. j - 1}

\* No label stands twice
Distinct(code) ==
    \A n, p \in DOMAIN code :
        code[n][1] = "label" /\ code[p][1] = "label" /\ code[p][2] = code[n][2] => p = n

\* New labels are those of the return addresses counted, and X; new references are to
\* labels that are there, to what is known, and to Y
Adds(d, r, X, Y) ==
    /\ d.label_num <= r.label_num
    /\ Known(d) \subseteq Known(r)
    /\ Labels(r.code) = Labels(d.code) \cup Rets(d.label_num, r.label_num) \cup X
    /\ LabelsOf(r.code) \subseteq LabelsOf(d.code) \cup Labels(r.code) \cup Known(r) \cup Y
    /\ Distinct(d.code) /\ Labels(d.code) \cap (Rets(d.label_num, r.label_num) \cup X) = {}
          => Distinct(r.code)

\* The line, the function and what has code are the same
Stays(d, r) ==
    /\ r.line = d.line /\ r.fn = d.fn /\ Internal(r) = Internal(d)

\* What the code generator does to the compiler for an operand, and for a statement
\* that gives no name to anything
Keeps(d, r) ==
    /\ Spares(d, r)
    /\ Sound(d) => Adds(d, r, {}, {}) /\ Stays(d, r)

LEMMA TableIsSequence ==
  ASSUME NEW s, IsTable(s)
  PROVE  Len(s) \in Nat /\ DOMAIN s = 1 .. Len(s)
BY DEF IsTable

LEMMA JoinTables ==
  ASSUME NEW s, NEW t, IsTable(s), IsTable(t)
  PROVE  /\ IsTable(s \o t) /\ Len(s \o t) = Len(s) + Len(t)
         /\ \A n \in 1 .. Len(s) : (s \o t)[n] = s[n]
         /\ \A n \in Len(s) + 1 .. Len(s) + Len(t) : (s \o t)[n] = t[n - Len(s)]
<1>1. PICK S : s \in Seq(S) BY DEF IsTable
<1>2. PICK T : t \in Seq(T) BY DEF IsTable
<1>3. s \in Seq(S \cup T) /\ t \in Seq(S \cup T) BY <1>1, <1>2
<1>4. s \o t \in Seq(S \cup T) /\ Len(s \o t) = Len(s) + Len(t) BY <1>3
<1> QED BY <1>3, <1>4 DEF IsTable

LEMMA ExtendsSelf ==
  ASSUME NEW s, IsTable(s)
  PROVE  Extends(s, s)
BY TableIsSequence DEF Extends

LEMMA ExtendsOn ==
  ASSUME NEW s, NEW t, NEW u, IsTable(s), IsTable(t), IsTable(u),
         Extends(s, t), Extends(t, u)
  PROVE  Extends(s, u)
<1>1. Len(s) \in Nat /\ Len(t) \in Nat /\ Len(u) \in Nat BY TableIsSequence
<1>2. ASSUME NEW n \in Len(s) + 1 .. Len(u) PROVE Loopless(u[n])
  <2>1. CASE n <= Len(t)
    <3>1. u[n] = t[n] /\ n \in Len(s) + 1 .. Len(t) BY <1>1, <2>1 DEF Extends
    <3> QED BY <3>1 DEF Extends
  <2>2. CASE ~(n <= Len(t))
    <3>1. n \in Len(t) + 1 .. Len(u) BY <1>1, <2>2
    <3> QED BY <3>1 DEF Extends
  <2> QED BY <2>1, <2>2
<1> QED BY <1>1, <1>2 DEF Extends

LEMMA SparesSelf == \A d : Spares(d, d)
BY ExtendsSelf DEF Spares, SameLoops, Sound

LEMMA SparesOn ==
  ASSUME NEW a, NEW b, NEW d, Spares(a, b), Spares(b, d)
  PROVE  Spares(a, d)
<1> SUFFICES ASSUME Sound(a) PROVE Spares(a, d) BY DEF Spares
<1>1. Sound(b) /\ SameLoops(a, b) /\ Extends(a.code, b.code) BY DEF Spares
<1>2. Sound(d) /\ SameLoops(b, d) /\ Extends(b.code, d.code) BY <1>1 DEF Spares
<1>3. IsTable(a.code) /\ IsTable(b.code) /\ IsTable(d.code) BY <1>1, <1>2 DEF Sound
<1>4. Extends(a.code, d.code) BY <1>1, <1>2, <1>3, ExtendsOn
<1>5. SameLoops(a, d) BY <1>1, <1>2 DEF SameLoops
<1> QED BY <1>2, <1>4, <1>5 DEF Spares

LEMMA RetsJoin ==
  ASSUME NEW i \in Nat, NEW j \in Nat, NEW n \in Nat, i <= j, j <= n
  PROVE  /\ Rets(i, n) = Rets(i, j) \cup Rets(j, n)
         /\ Rets(i, j) \cap Rets(j, n) = {}
<1>1. i .. n - 1 = (i .. j - 1) \cup (j .. n - 1) OBVIOUS
<1>2. ASSUME NEW x \in Rets(i, j), x \in Rets(j, n) PROVE FALSE
  <2>1. PICK p \in i .. j - 1 : x = <<"ret", p>> BY DEF Rets
  <2>2. PICK q \in j .. n - 1 : x = <<"ret", q>> BY <1>2 DEF Rets
  <2>3. p = q BY <2>1, <2>2
  <2> QED BY <2>3
<1>3. Rets(i, n) = Rets(i, j) \cup Rets(j, n) BY <1>1 DEF Rets
<1> QED BY <1>2, <1>3

LEMMA RetsNone == \A i \in Nat : Rets(i, i) = {}
BY DEF Rets

\* What is added in two steps
LEMMA AddsOn ==
  ASSUME NEW a, NEW b, NEW d, Sound(a), Sound(b), Sound(d),
         NEW X, NEW Y, NEW Z, NEW W, Adds(a, b, X, Y), Adds(b, d, Z, W),
         X \cap Z = {}, X \cap Rets(b.label_num, d.label_num) = {},
         Z \cap Rets(a.label_num, b.label_num) = {}
  PROVE  Adds(a, d, X \cup Z, Y \cup W)
<1> DEFINE i == a.label_num
           j == b.label_num
           n == d.label_num
<1>1. i \in Nat /\ j \in Nat /\ n \in Nat /\ i <= j /\ j <= n BY DEF Sound, Adds
<1> HIDE DEF i, j, n
<1>2. i <= n BY <1>1
<1>3. Rets(i, n) = Rets(i, j) \cup Rets(j, n) /\ Rets(i, j) \cap Rets(j, n) = {}
  BY <1>1, RetsJoin
<1>4. /\ Known(a) \subseteq Known(b) /\ Known(b) \subseteq Known(d)
      /\ Labels(b.code) = Labels(a.code) \cup Rets(i, j) \cup X
      /\ Labels(d.code) = Labels(b.code) \cup Rets(j, n) \cup Z
      /\ LabelsOf(b.code) \subseteq LabelsOf(a.code) \cup Labels(b.code) \cup Known(b) \cup Y
      /\ LabelsOf(d.code) \subseteq LabelsOf(b.code) \cup Labels(d.code) \cup Known(d) \cup W
  BY DEF Adds, i, j, n
<1>5. Labels(d.code) = Labels(a.code) \cup Rets(i, n) \cup (X \cup Z) BY <1>3, <1>4
<1>6. LabelsOf(d.code)
        \subseteq LabelsOf(a.code) \cup Labels(d.code) \cup Known(d) \cup (Y \cup W)
  BY <1>4
<1>7. ASSUME Distinct(a.code), Labels(a.code) \cap (Rets(i, n) \cup (X \cup Z)) = {}
      PROVE  Distinct(d.code)
  <2>1. Labels(a.code) \cap (Rets(i, j) \cup X) = {} BY <1>3, <1>7
  <2>2. Distinct(b.code) BY <1>7, <2>1 DEF Adds, i, j
  <2>3. X \cap Rets(j, n) = {} /\ Z \cap Rets(i, j) = {} BY DEF i, j, n
  <2>4. Labels(b.code) \cap (Rets(j, n) \cup Z) = {} BY <1>3, <1>4, <1>7, <2>3
  <2> QED BY <2>2, <2>4 DEF Adds, j, n
<1>8. Known(a) \subseteq Known(d) BY <1>4
<1> QED BY <1>2, <1>5, <1>6, <1>7, <1>8 DEF Adds, i, n

LEMMA KeepsSelf == \A d : Keeps(d, d)
<1> SUFFICES ASSUME NEW d, Sound(d) PROVE Adds(d, d, {}, {})
  BY SparesSelf DEF Keeps, Stays
<1>1. d.label_num \in Nat BY DEF Sound
<1>2. Rets(d.label_num, d.label_num) = {} BY <1>1, RetsNone
<1> QED BY <1>1, <1>2 DEF Adds, Stays

LEMMA KeepsOn ==
  ASSUME NEW a, NEW b, NEW d, Keeps(a, b), Keeps(b, d)
  PROVE  Keeps(a, d)
<1>1. Spares(a, d) BY SparesOn DEF Keeps
<1> SUFFICES ASSUME Sound(a) PROVE Keeps(a, d) BY <1>1 DEF Keeps
<1>2. Sound(b) /\ Adds(a, b, {}, {}) BY DEF Keeps, Spares
<1>3. Sound(d) /\ Adds(b, d, {}, {}) BY <1>2 DEF Keeps, Spares
<1>4. Adds(a, d, {} \cup {}, {} \cup {}) BY <1>2, <1>3, AddsOn
<1>5. {} \cup {} = {} OBVIOUS
<1>6. Adds(a, d, {}, {}) BY <1>4, <1>5
<1>7. Stays(a, d) BY <1>2 DEF Keeps, Stays
<1> QED BY <1>1, <1>6, <1>7 DEF Keeps

LEMMA SetField ==
  ASSUME NEW d, HasFields(d), NEW f \in Fields, NEW v
  PROVE  /\ HasFields([d EXCEPT ![f] = v])
         /\ [d EXCEPT ![f] = v][f] = v
         /\ \A x \in Fields : x # f => [d EXCEPT ![f] = v][x] = d[x]
BY DEF HasFields

LEMMA SetFree ==
  ASSUME NEW d, Sound(d), NEW f \in FreeFields, NEW v, f = "label_num" => v \in Nat
  PROVE  LET r == [d EXCEPT ![f] = v]
         IN /\ Sound(r) /\ SameLoops(d, r) /\ Extends(d.code, r.code) /\ r[f] = v
            /\ \A x \in Fields : x # f => r[x] = d[x]
<1> DEFINE r == [d EXCEPT ![f] = v]
<1>1. f \in Fields BY DEF FreeFields, Fields
<1>2. HasFields(r) /\ r[f] = v /\ \A x \in Fields : x # f => r[x] = d[x]
  BY <1>1, SetField DEF Sound
<1> HIDE DEF r
<1>3. \A x \in Fields \ FreeFields : r[x] = d[x] BY <1>2
<1>4. /\ r.vars = d.vars /\ r.total_variables = d.total_variables
      /\ r.functions = d.functions /\ r.total_functions = d.total_functions
      /\ r.libs = d.libs /\ r.number_of_native_libs = d.number_of_native_libs
      /\ r.CurrentIndex = d.CurrentIndex /\ r.NumberOfStructs = d.NumberOfStructs
      /\ r.past = d.past /\ SameLoops(d, r)
  BY <1>3 DEF Fields, FreeFields, SameLoops
<1>5. r.code = d.code /\ r.strings = d.strings BY <1>3 DEF Fields, FreeFields
<1>6. TablesHold(r) BY <1>4 DEF Sound, TablesHold
<1>7. r.label_num \in Nat
  <2>1. CASE f = "label_num" BY <1>2, <2>1
  <2>2. CASE f # "label_num" BY <1>2, <2>2 DEF Fields, Sound
  <2> QED BY <2>1, <2>2
<1>8. Sound(r) BY <1>2, <1>5, <1>6, <1>7 DEF Sound
<1> QED BY <1>2, <1>4, <1>5, <1>8, ExtendsSelf DEF r, Sound

LEMMA SetSpares ==
  ASSUME NEW d, NEW f \in FreeFields, f # "label_num", NEW v
  PROVE  Spares(d, [d EXCEPT ![f] = v])
<1> SUFFICES ASSUME Sound(d) PROVE Spares(d, [d EXCEPT ![f] = v]) BY DEF Spares
<1> DEFINE r == [d EXCEPT ![f] = v]
<1>1. Sound(r) /\ SameLoops(d, r) /\ Extends(d.code, r.code) BY SetFree
<1> HIDE DEF r
<1> QED BY <1>1 DEF Spares, r

\* Where the code is the same and no less is known, nothing is added
LEMMA NothingAdded ==
  ASSUME NEW d, NEW r, Sound(d), r.code = d.code, r.label_num = d.label_num,
         Known(d) \subseteq Known(r)
  PROVE  Adds(d, r, {}, {})
<1>1. d.label_num \in Nat BY DEF Sound
<1>2. Rets(d.label_num, d.label_num) = {} BY <1>1, RetsNone
<1> QED BY <1>1, <1>2 DEF Adds

LEMMA SetTemporary ==
  ASSUME NEW d, NEW f \in Temporary, NEW v
  PROVE  Keeps(d, [d EXCEPT ![f] = v])
<1> DEFINE r == [d EXCEPT ![f] = v]
<1>1. f \in FreeFields /\ f # "label_num" BY DEF Temporary, FreeFields
<1>2. Spares(d, r) BY <1>1, SetSpares
<1> SUFFICES ASSUME Sound(d) PROVE Keeps(d, r) BY <1>2 DEF Keeps
<1>3. \A x \in Fields : x # f => r[x] = d[x] BY <1>1, SetFree
<1> HIDE DEF r
<1>4. /\ r.code = d.code /\ r.label_num = d.label_num /\ r.line = d.line /\ r.fn = d.fn
      /\ r.functions = d.functions /\ r.uses = d.uses /\ r.strings = d.strings
  BY <1>3 DEF Fields, Temporary
<1>5. Internal(r) = Internal(d) BY <1>4 DEF Internal
<1>6. Known(r) = Known(d) BY <1>4, <1>5 DEF Known
<1>7. Adds(d, r, {}, {}) BY <1>4, <1>6, NothingAdded
<1> QED BY <1>2, <1>4, <1>5, <1>7 DEF Keeps, Stays

\* The code, or the table of strings, may be replaced by a longer one
LEMMA SetCode ==
  ASSUME NEW d, Sound(d), NEW f \in {"code", "strings"}, NEW v, IsTable(v)
  PROVE  LET r == [d EXCEPT ![f] = v]
         IN /\ Sound(r) /\ SameLoops(d, r) /\ r[f] = v
            /\ \A x \in Fields : x # f => r[x] = d[x]
<1> DEFINE r == [d EXCEPT ![f] = v]
<1>1. f \in Fields BY DEF Fields
<1>2. HasFields(r) /\ r[f] = v /\ \A x \in Fields : x # f => r[x] = d[x]
  BY <1>1, SetField DEF Sound
<1> HIDE DEF r
<1>3. \A x \in Fields \ {"code", "strings"} : r[x] = d[x] BY <1>2
<1>4. /\ r.vars = d.vars /\ r.total_variables = d.total_variables
      /\ r.functions = d.functions /\ r.total_functions = d.total_functions
      /\ r.libs = d.libs /\ r.number_of_native_libs = d.number_of_native_libs
      /\ r.CurrentIndex = d.CurrentIndex /\ r.NumberOfStructs = d.NumberOfStructs
      /\ r.past = d.past /\ SameLoops(d, r) /\ r.label_num = d.label_num
  BY <1>3 DEF Fields, SameLoops
<1>5. IsTable(r.code) /\ IsTable(r.strings)
  BY <1>2 DEF Fields, Sound
<1>6. TablesHold(r) BY <1>4 DEF Sound, TablesHold
<1>7. Sound(r) BY <1>2, <1>4, <1>5, <1>6 DEF Sound
<1> QED BY <1>2, <1>4, <1>7 DEF r

LEMMA ErrorKeeps == \A d : Keeps(d, Error(d))
BY SetTemporary DEF Error, Temporary

LEMMA UsesKeeps == \A d, s : Keeps(d, Uses(d, s))
<1> SUFFICES ASSUME NEW d, NEW s PROVE Keeps(d, Uses(d, s)) OBVIOUS
<1> DEFINE v == d.uses \cup s
           r == [d EXCEPT !.uses = v]
<1>1. Uses(d, s) = r BY DEF Uses
<1>2. Spares(d, r)
  <2> HIDE DEF v
  <2> QED BY SetSpares DEF FreeFields
<1> SUFFICES ASSUME Sound(d) PROVE Keeps(d, r) BY <1>1, <1>2 DEF Keeps
<1>3. r.uses = v /\ \A x \in Fields : x # "uses" => r[x] = d[x]
  <2> DEFINE f == "uses"
             g == [d EXCEPT ![f] = v]
  <2>1. f \in FreeFields /\ f # "label_num" /\ r = g BY DEF FreeFields
  <2> HIDE DEF f, v, r
  <2>2. g[f] = v BY <2>1, SetFree
  <2>3. \A x \in Fields : x # f => g[x] = d[x] BY <2>1, SetFree
  <2> HIDE DEF g
  <2> QED BY <2>1, <2>2, <2>3 DEF f
<1> HIDE DEF r
<1>4. /\ r.code = d.code /\ r.label_num = d.label_num /\ r.line = d.line /\ r.fn = d.fn
      /\ r.functions = d.functions /\ r.strings = d.strings /\ d.uses \subseteq r.uses
  BY <1>3 DEF Fields
<1>5. Internal(r) = Internal(d) BY <1>4 DEF Internal
<1>6. Known(d) \subseteq Known(r) BY <1>4, <1>5 DEF Known
<1>7. Adds(d, r, {}, {}) BY <1>4, <1>6, NothingAdded
<1> QED BY <1>2, <1>4, <1>5, <1>7 DEF Keeps, Stays

-----------------------------------------------------------------------------
(* Lines of code.                                                           *)

\* Lines that name no loop
LoopFree(s) == IsTable(s) /\ \A n \in 1 .. Len(s) : Loopless(s[n])

\* A line that names no loop, is no label, and refers to no label but those that are
\* always there
Plain(x) == Loopless(x) /\ x[1] # "label" /\ References(x) \subseteq Always

Neutral(s) == IsTable(s) /\ \A n \in 1 .. Len(s) : Plain(s[n])

\* Lines with the labels X, each once, that refer to those of Y
Part(s, X, Y) == IsTable(s) /\ Labels(s) = X /\ LabelsOf(s) \subseteq Y /\ Distinct(s)

LEMMA LabelsAre ==
  ASSUME NEW s, IsTable(s)
  PROVE  /\ \A x : x \in Labels(s) <=>
                     \E n \in 1 .. Len(s) : s[n][1] = "label" /\ s[n][2] = x
         /\ \A x : x \in LabelsOf(s) <=> \E n \in 1 .. Len(s) : x \in References(s[n])
         /\ Distinct(s) <=>
              \A n, p \in 1 .. Len(s) :
                  s[n][1] = "label" /\ s[p][1] = "label" /\ s[p][2] = s[n][2] => p = n
BY TableIsSequence DEF Labels, LabelsOf, Distinct

LEMMA LabelsJoin ==
  ASSUME NEW s, NEW t, IsTable(s), IsTable(t)
  PROVE  /\ Labels(s \o t) = Labels(s) \cup Labels(t)
         /\ LabelsOf(s \o t) = LabelsOf(s) \cup LabelsOf(t)
         /\ Distinct(s) /\ Distinct(t) /\ Labels(s) \cap Labels(t) = {} => Distinct(s \o t)
<1> DEFINE u == s \o t
           m == Len(s)
           l == Len(t)
<1>1. m \in Nat /\ l \in Nat BY TableIsSequence
<1>2. /\ IsTable(u) /\ Len(u) = m + l
      /\ \A n \in 1 .. m : u[n] = s[n]
      /\ \A n \in m + 1 .. m + l : u[n] = t[n - m]
  BY JoinTables
<1> HIDE DEF u
<1>3. \A n \in 1 .. l : u[n + m] = t[n] /\ n + m \in 1 .. m + l
  <2> SUFFICES ASSUME NEW n \in 1 .. l PROVE u[n + m] = t[n] /\ n + m \in 1 .. m + l
    OBVIOUS
  <2> HIDE DEF m, l
  <2>1. n + m \in m + 1 .. m + l /\ (n + m) - m = n BY <1>1
  <2> QED BY <1>1, <1>2, <2>1
<1>4. /\ \A x : x \in Labels(s) <=> \E n \in 1 .. m : s[n][1] = "label" /\ s[n][2] = x
      /\ \A x : x \in LabelsOf(s) <=> \E n \in 1 .. m : x \in References(s[n])
      /\ Distinct(s) =>
           \A n, p \in 1 .. m :
               s[n][1] = "label" /\ s[p][1] = "label" /\ s[p][2] = s[n][2] => p = n
  BY LabelsAre
<1>5. /\ \A x : x \in Labels(t) <=> \E n \in 1 .. l : t[n][1] = "label" /\ t[n][2] = x
      /\ \A x : x \in LabelsOf(t) <=> \E n \in 1 .. l : x \in References(t[n])
      /\ Distinct(t) =>
           \A n, p \in 1 .. l :
               t[n][1] = "label" /\ t[p][1] = "label" /\ t[p][2] = t[n][2] => p = n
  BY LabelsAre
<1>6. /\ \A x : x \in Labels(u) <=> \E n \in 1 .. m + l : u[n][1] = "label" /\ u[n][2] = x
      /\ \A x : x \in LabelsOf(u) <=> \E n \in 1 .. m + l : x \in References(u[n])
      /\ (\A n, p \in 1 .. m + l :
              u[n][1] = "label" /\ u[p][1] = "label" /\ u[p][2] = u[n][2] => p = n)
           => Distinct(u)
  <2> DEFINE j == Len(u)
  <2>1. /\ \A x : x \in Labels(u) <=> \E n \in 1 .. j : u[n][1] = "label" /\ u[n][2] = x
        /\ \A x : x \in LabelsOf(u) <=> \E n \in 1 .. j : x \in References(u[n])
        /\ (\A n, p \in 1 .. j :
                u[n][1] = "label" /\ u[p][1] = "label" /\ u[p][2] = u[n][2] => p = n)
             => Distinct(u)
    BY <1>2, LabelsAre
  <2>2. j = m + l BY <1>2
  <2> HIDE DEF j
  <2> QED BY <2>1, <2>2
<1> HIDE DEF m, l
<1>7. \A n \in 1 .. m + l : n \in 1 .. m \/ (n - m \in 1 .. l /\ n \in m + 1 .. m + l)
  BY <1>1
<1>8. 1 .. m \subseteq 1 .. m + l BY <1>1
<1>9. Labels(u) = Labels(s) \cup Labels(t)
  <2>1. ASSUME NEW x \in Labels(u) PROVE x \in Labels(s) \cup Labels(t)
    <3>1. PICK n \in 1 .. m + l : u[n][1] = "label" /\ u[n][2] = x BY <1>6
    <3> QED BY <1>2, <1>4, <1>5, <1>7, <3>1
  <2>2. ASSUME NEW x \in Labels(s) PROVE x \in Labels(u) BY <1>2, <1>4, <1>6, <1>8
  <2>3. ASSUME NEW x \in Labels(t) PROVE x \in Labels(u) BY <1>3, <1>5, <1>6
  <2> QED BY <2>1, <2>2, <2>3
<1>10. LabelsOf(u) = LabelsOf(s) \cup LabelsOf(t)
  <2>1. ASSUME NEW x \in LabelsOf(u) PROVE x \in LabelsOf(s) \cup LabelsOf(t)
    <3>1. PICK n \in 1 .. m + l : x \in References(u[n]) BY <1>6
    <3> QED BY <1>2, <1>4, <1>5, <1>7, <3>1
  <2>2. ASSUME NEW x \in LabelsOf(s) PROVE x \in LabelsOf(u) BY <1>2, <1>4, <1>6, <1>8
  <2>3. ASSUME NEW x \in LabelsOf(t) PROVE x \in LabelsOf(u) BY <1>3, <1>5, <1>6
  <2> QED BY <2>1, <2>2, <2>3
<1>11. ASSUME Distinct(s), Distinct(t), Labels(s) \cap Labels(t) = {}
       PROVE  Distinct(u)
  <2> SUFFICES ASSUME NEW n \in 1 .. m + l, NEW p \in 1 .. m + l,
                      u[n][1] = "label", u[p][1] = "label", u[p][2] = u[n][2]
               PROVE  p = n
    BY <1>6
  <2>1. CASE n \in 1 .. m /\ p \in 1 .. m BY <1>2, <1>4, <1>11, <2>1
  <2>2. CASE n - m \in 1 .. l /\ p - m \in 1 .. l /\ n \in m + 1 .. m + l
               /\ p \in m + 1 .. m + l
    <3>1. p - m = n - m BY <1>2, <1>5, <1>11, <2>2
    <3> QED BY <1>1, <3>1
  <2>3. CASE n \in 1 .. m /\ p - m \in 1 .. l /\ p \in m + 1 .. m + l
    <3>1. u[n][2] \in Labels(s) /\ u[p][2] \in Labels(t) BY <1>2, <1>4, <1>5, <2>3
    <3> QED BY <1>11, <3>1
  <2>4. CASE p \in 1 .. m /\ n - m \in 1 .. l /\ n \in m + 1 .. m + l
    <3>1. u[p][2] \in Labels(s) /\ u[n][2] \in Labels(t) BY <1>2, <1>4, <1>5, <2>4
    <3> QED BY <1>11, <3>1
  <2> QED BY <1>7, <2>1, <2>2, <2>3, <2>4
<1> QED BY <1>9, <1>10, <1>11 DEF u

LEMMA PartJoin ==
  ASSUME NEW s, NEW t, NEW X, NEW Y, NEW Z, NEW W,
         Part(s, X, Y), Part(t, Z, W), X \cap Z = {}
  PROVE  Part(s \o t, X \cup Z, Y \cup W)
<1>1. IsTable(s) /\ IsTable(t) BY DEF Part
<1>2. IsTable(s \o t) BY <1>1, JoinTables
<1>3. /\ Labels(s \o t) = Labels(s) \cup Labels(t)
      /\ LabelsOf(s \o t) = LabelsOf(s) \cup LabelsOf(t)
      /\ Distinct(s) /\ Distinct(t) /\ Labels(s) \cap Labels(t) = {} => Distinct(s \o t)
  BY <1>1, LabelsJoin
<1> QED BY <1>2, <1>3 DEF Part

LEMMA LoopFreeJoin ==
  ASSUME NEW s, NEW t, LoopFree(s), LoopFree(t)
  PROVE  LoopFree(s \o t)
<1> DEFINE u == s \o t
<1>1. IsTable(s) /\ IsTable(t) BY DEF LoopFree
<1>2. Len(s) \in Nat /\ Len(t) \in Nat BY <1>1, TableIsSequence
<1>3. /\ IsTable(u) /\ Len(u) = Len(s) + Len(t)
      /\ \A n \in 1 .. Len(s) : u[n] = s[n]
      /\ \A n \in Len(s) + 1 .. Len(s) + Len(t) : u[n] = t[n - Len(s)]
  BY <1>1, JoinTables
<1> HIDE DEF u
<1>4. ASSUME NEW n \in 1 .. Len(u) PROVE Loopless(u[n])
  <2>1. CASE n <= Len(s)
    <3>1. u[n] = s[n] /\ n \in 1 .. Len(s) BY <1>2, <1>3, <2>1
    <3> QED BY <3>1 DEF LoopFree
  <2>2. CASE ~(n <= Len(s))
    <3>1. u[n] = t[n - Len(s)] /\ n - Len(s) \in 1 .. Len(t) BY <1>2, <1>3, <2>2
    <3> QED BY <3>1 DEF LoopFree
  <2> QED BY <2>1, <2>2
<1> QED BY <1>3, <1>4 DEF LoopFree, u

LEMMA NeutralPart ==
  ASSUME NEW s, Neutral(s)
  PROVE  Part(s, {}, Always) /\ LoopFree(s)
<1>1. IsTable(s) /\ \A n \in 1 .. Len(s) : Plain(s[n]) BY DEF Neutral
<1>2. \A n \in 1 .. Len(s) : s[n][1] # "label" /\ References(s[n]) \subseteq Always
  BY <1>1 DEF Plain
<1>3. Labels(s) = {} /\ Distinct(s) BY <1>1, <1>2, LabelsAre
<1>4. LabelsOf(s) \subseteq Always BY <1>1, <1>2, LabelsAre
<1> QED BY <1>1, <1>3, <1>4 DEF Part, LoopFree, Plain

\* One line that is not a label, and one that is
LEMMA LinePart ==
  ASSUME NEW x, NEW Y, x[1] # "label", References(x) \subseteq Y
  PROVE  Part(<<x>>, {}, Y)
<1> DEFINE s == <<x>>
<1>1. IsTable(s) /\ Len(s) = 1 /\ s[1] = x
  <2>1. s \in Seq({x}) OBVIOUS
  <2> QED BY <2>1 DEF IsTable
<1> HIDE DEF s
<1>2. Labels(s) = {} /\ LabelsOf(s) \subseteq Y /\ Distinct(s) BY <1>1, LabelsAre
<1>3. Part(s, {}, Y) BY <1>1, <1>2 DEF Part
<1> QED BY <1>3 DEF s

LEMMA LabelPart == \A l : Part(<<<<"label", l>>>>, {l}, {})
<1> SUFFICES ASSUME NEW l PROVE Part(<<<<"label", l>>>>, {l}, {}) OBVIOUS
<1> DEFINE x == <<"label", l>>
           s == <<x>>
<1>1. IsTable(s) /\ Len(s) = 1 /\ s[1] = x
  <2>1. s \in Seq({x}) OBVIOUS
  <2> QED BY <2>1 DEF IsTable
<1>2. x[1] = "label" /\ x[2] = l /\ References(x) = {} BY DEF References
<1> HIDE DEF s, x
<1>3. 1 .. Len(s) = {1} BY <1>1
<1>4. Labels(s) = {l} /\ LabelsOf(s) = {} /\ Distinct(s) BY <1>1, <1>2, <1>3, LabelsAre
<1>5. Part(s, {l}, {}) BY <1>1, <1>4 DEF Part
<1> QED BY <1>5 DEF s, x

\* Lines without labels, and of no loop, that refer to what is known
Fits(d, s) == LoopFree(s) /\ Part(s, {}, Known(d))

LEMMA NeutralFits ==
  ASSUME NEW d, NEW s, Neutral(s)
  PROVE  Fits(d, s)
<1>1. Part(s, {}, Always) /\ LoopFree(s) BY NeutralPart
<1>2. Always \subseteq Known(d) BY DEF Known
<1> QED BY <1>1, <1>2 DEF Part, Fits

LEMMA FitsJoin ==
  ASSUME NEW d, NEW s, NEW t, Fits(d, s), Fits(d, t)
  PROVE  Fits(d, s \o t)
<1>1. LoopFree(s \o t) BY LoopFreeJoin DEF Fits
<1>2. Part(s \o t, {} \cup {}, Known(d) \cup Known(d)) BY PartJoin DEF Fits
<1>3. {} \cup {} = {} /\ Known(d) \cup Known(d) = Known(d) OBVIOUS
<1>4. Part(s \o t, {}, Known(d)) BY <1>2, <1>3
<1> QED BY <1>1, <1>4 DEF Fits

LEMMA FitsLine ==
  ASSUME NEW d, NEW x, Loopless(x), x[1] # "label", References(x) \subseteq Known(d)
  PROVE  Fits(d, <<x>>)
<1> DEFINE s == <<x>>
<1>1. LoopFree(s)
  <2>1. s \in Seq({x}) /\ Len(s) = 1 /\ s[1] = x OBVIOUS
  <2> HIDE DEF s
  <2> QED BY <2>1 DEF LoopFree, IsTable
<1>2. Part(s, {}, Known(d)) BY LinePart
<1> HIDE DEF s
<1> QED BY <1>1, <1>2 DEF Fits, s

-----------------------------------------------------------------------------
(* What is emitted.                                                         *)

\* Code of whatever lines leaves the rest as it was
LEMMA EmitCode ==
  ASSUME NEW d, Sound(d), NEW s, IsTable(s)
  PROVE  /\ Sound(Emit(d, s)) /\ SameLoops(d, Emit(d, s))
         /\ Emit(d, s).code = d.code \o s
         /\ \A x \in Fields : x # "code" => Emit(d, s)[x] = d[x]
         /\ Len(d.code) \in Nat /\ Len(Emit(d, s).code) = Len(d.code) + Len(s)
         /\ \A n \in 1 .. Len(d.code) : Emit(d, s).code[n] = d.code[n]
         /\ \A n \in Len(d.code) + 1 .. Len(d.code) + Len(s) :
               Emit(d, s).code[n] = s[n - Len(d.code)]
<1> DEFINE f == "code"
           v == d.code \o s
           r == [d EXCEPT ![f] = v]
<1>1. Emit(d, s) = r BY DEF Emit
<1>2. IsTable(d.code) BY DEF Sound
<1>3. /\ IsTable(v) /\ Len(v) = Len(d.code) + Len(s)
      /\ \A n \in 1 .. Len(d.code) : v[n] = d.code[n]
      /\ \A n \in Len(d.code) + 1 .. Len(d.code) + Len(s) : v[n] = s[n - Len(d.code)]
  BY <1>2, JoinTables
<1>4. f \in {"code", "strings"} /\ f \in Fields /\ HasFields(d) BY DEF Fields, Sound
<1> HIDE DEF v, f
<1>5. Sound(r) /\ SameLoops(d, r) BY <1>3, <1>4, SetCode
<1>6. r[f] = v BY <1>4 DEF HasFields
<1>7. \A x \in Fields : x # f => r[x] = d[x] BY <1>3, <1>4, SetCode
<1> HIDE DEF r
<1>8. r.code = v /\ \A x \in Fields : x # "code" => r[x] = d[x] BY <1>6, <1>7 DEF f
<1> QED BY <1>1, <1>2, <1>3, <1>5, <1>8, TableIsSequence DEF v

LEMMA EmitSpares ==
  ASSUME NEW d, NEW s, LoopFree(s)
  PROVE  Spares(d, Emit(d, s))
<1> SUFFICES ASSUME Sound(d) PROVE Spares(d, Emit(d, s)) BY DEF Spares
<1> DEFINE r == Emit(d, s)
           m == Len(d.code)
<1>1. IsTable(s) BY DEF LoopFree
<1>2. /\ Sound(r) /\ SameLoops(d, r) /\ m \in Nat /\ Len(r.code) = m + Len(s)
      /\ \A n \in 1 .. m : r.code[n] = d.code[n]
      /\ \A n \in m + 1 .. m + Len(s) : r.code[n] = s[n - m]
  BY <1>1, EmitCode
<1>3. Len(s) \in Nat BY <1>1, TableIsSequence
<1> HIDE DEF r
<1>4. ASSUME NEW n \in m + 1 .. Len(r.code) PROVE Loopless(r.code[n])
  <2> HIDE DEF m
  <2>1. n - m \in 1 .. Len(s) /\ n \in m + 1 .. m + Len(s) BY <1>2, <1>3
  <2> QED BY <1>2, <2>1 DEF LoopFree
<1>5. Extends(d.code, r.code) BY <1>2, <1>3, <1>4 DEF Extends
<1> QED BY <1>2, <1>5 DEF Spares, r

LEMMA EmitAdds ==
  ASSUME NEW d, Sound(d), NEW s, NEW X, NEW Y, Part(s, X, Y)
  PROVE  LET r == Emit(d, s)
         IN /\ Sound(r) /\ Adds(d, r, X, Y) /\ Stays(d, r)
            /\ r.label_num = d.label_num /\ r.err = d.err
            /\ Known(r) = Known(d)
<1> DEFINE r == Emit(d, s)
<1>1. IsTable(s) /\ IsTable(d.code) BY DEF Part, Sound
<1>2. /\ Sound(r) /\ r.code = d.code \o s
      /\ \A x \in Fields : x # "code" => r[x] = d[x]
  BY <1>1, EmitCode
<1> HIDE DEF r
<1>3. /\ r.label_num = d.label_num /\ r.line = d.line /\ r.fn = d.fn /\ r.err = d.err
      /\ r.functions = d.functions /\ r.uses = d.uses /\ r.strings = d.strings
  BY <1>2 DEF Fields
<1>4. Internal(r) = Internal(d) BY <1>3 DEF Internal
<1>5. Known(r) = Known(d) BY <1>3, <1>4 DEF Known
<1>6. d.label_num \in Nat BY DEF Sound
<1>7. Rets(d.label_num, r.label_num) = {} BY <1>3, <1>6, RetsNone
<1>8. /\ Labels(r.code) = Labels(d.code) \cup Labels(s)
      /\ LabelsOf(r.code) = LabelsOf(d.code) \cup LabelsOf(s)
      /\ Distinct(d.code) /\ Distinct(s) /\ Labels(d.code) \cap Labels(s) = {}
           => Distinct(r.code)
  BY <1>1, <1>2, LabelsJoin
<1>9. d.label_num <= r.label_num BY <1>3, <1>6
<1>10. Adds(d, r, X, Y) BY <1>5, <1>7, <1>8, <1>9 DEF Adds, Part
<1>11. Stays(d, r) BY <1>3, <1>4 DEF Stays
<1> QED BY <1>2, <1>3, <1>5, <1>10, <1>11 DEF r

\* A reference to what is known, or there, is resolved
LEMMA AddsLess ==
  ASSUME NEW d, NEW r, NEW X, NEW Y, NEW Z, Adds(d, r, X, Y),
         Y \subseteq Known(r) \cup Labels(r.code) \cup Z
  PROVE  Adds(d, r, X, Z)
<1>1. LabelsOf(r.code) \subseteq LabelsOf(d.code) \cup Labels(r.code) \cup Known(r) \cup Z
  BY DEF Adds
<1> QED BY <1>1 DEF Adds

LEMMA EmitKnown ==
  ASSUME NEW d, NEW s, Sound(d) => Fits(d, s)
  PROVE  Keeps(d, Emit(d, s))
<1> DEFINE r == Emit(d, s)
<1> SUFFICES ASSUME Sound(d) PROVE Keeps(d, r) BY DEF Keeps, Spares
<1>1. Spares(d, r) BY EmitSpares DEF Fits
<1>2. Adds(d, r, {}, Known(d)) /\ Stays(d, r) /\ Known(r) = Known(d)
  BY EmitAdds DEF Fits
<1> HIDE DEF r
<1>3. Adds(d, r, {}, {}) BY <1>2, AddsLess
<1> QED BY <1>1, <1>2, <1>3 DEF Keeps

LEMMA EmitKeeps ==
  ASSUME NEW d, NEW s, Neutral(s)
  PROVE  Keeps(d, Emit(d, s))
BY NeutralFits, EmitKnown

LEMMA EmitAfter ==
  ASSUME NEW a, NEW d, NEW s, Keeps(a, d), Neutral(s)
  PROVE  Keeps(a, Emit(d, s))
BY EmitKeeps, KeepsOn

\* One line that refers to what is known
LEMMA EmitReference ==
  ASSUME NEW a, NEW d, NEW x, Keeps(a, d), Loopless(x), x[1] # "label",
         Sound(d) => References(x) \subseteq Known(d)
  PROVE  Keeps(a, Emit(d, <<x>>))
<1>1. Keeps(d, Emit(d, <<x>>)) BY FitsLine, EmitKnown
<1> QED BY <1>1, KeepsOn

-----------------------------------------------------------------------------
(* Code that gives no label.                                                *)

LEMMA NeutralLines ==
  ASSUME NEW S, NEW s \in Seq(S), \A n \in 1 .. Len(s) : Plain(s[n])
  PROVE  Neutral(s)
BY DEF Neutral, IsTable

LEMMA Neutral0 == Neutral(<<>>)
BY DEF Neutral, IsTable

LEMMA Neutral1 == \A a : Plain(a) => Neutral(<<a>>)
<1> SUFFICES ASSUME NEW a, Plain(a) PROVE Neutral(<<a>>) OBVIOUS
<1> DEFINE s == <<a>>
<1>1. s \in Seq({a}) /\ \A n \in 1 .. Len(s) : Plain(s[n]) OBVIOUS
<1> HIDE DEF s
<1>2. Neutral(s) BY <1>1, NeutralLines
<1> QED BY <1>2 DEF s

LEMMA Neutral2 == \A a, b : Plain(a) /\ Plain(b) => Neutral(<<a, b>>)
<1> SUFFICES ASSUME NEW a, NEW b, Plain(a), Plain(b) PROVE Neutral(<<a, b>>)
  OBVIOUS
<1> DEFINE s == <<a, b>>
<1>1. s \in Seq({a, b}) /\ \A n \in 1 .. Len(s) : Plain(s[n]) OBVIOUS
<1> HIDE DEF s
<1>2. Neutral(s) BY <1>1, NeutralLines
<1> QED BY <1>2 DEF s

LEMMA Neutral4 ==
  \A a, b, d, e : Plain(a) /\ Plain(b) /\ Plain(d) /\ Plain(e)
                     => Neutral(<<a, b, d, e>>)
<1> SUFFICES ASSUME NEW a, NEW b, NEW d, NEW e,
                    Plain(a), Plain(b), Plain(d), Plain(e)
             PROVE  Neutral(<<a, b, d, e>>)
  OBVIOUS
<1> DEFINE s == <<a, b, d, e>>
<1>1. s \in Seq({a, b, d, e}) /\ \A n \in 1 .. Len(s) : Plain(s[n]) OBVIOUS
<1> HIDE DEF s
<1>2. Neutral(s) BY <1>1, NeutralLines
<1> QED BY <1>2 DEF s

LEMMA Neutral5 ==
  ASSUME NEW a, NEW b, NEW d, NEW e, NEW f,
         Plain(a), Plain(b), Plain(d), Plain(e), Plain(f)
  PROVE  Neutral(<<a, b, d, e, f>>)
<1> DEFINE s == <<a, b, d, e, f>>
<1>1. s \in Seq({a, b, d, e, f}) /\ \A n \in 1 .. Len(s) : Plain(s[n]) OBVIOUS
<1> HIDE DEF s
<1>2. Neutral(s) BY <1>1, NeutralLines
<1> QED BY <1>2 DEF s

LEMMA NeutralJoin ==
  ASSUME NEW s, NEW t, Neutral(s), Neutral(t)
  PROVE  Neutral(s \o t)
<1> DEFINE u == s \o t
<1>1. IsTable(s) /\ IsTable(t) BY DEF Neutral
<1>2. Len(s) \in Nat /\ Len(t) \in Nat BY <1>1, TableIsSequence
<1>3. /\ IsTable(u) /\ Len(u) = Len(s) + Len(t)
      /\ \A n \in 1 .. Len(s) : u[n] = s[n]
      /\ \A n \in Len(s) + 1 .. Len(s) + Len(t) : u[n] = t[n - Len(s)]
  BY <1>1, JoinTables
<1> HIDE DEF u
<1>4. ASSUME NEW n \in 1 .. Len(u) PROVE Plain(u[n])
  <2>1. CASE n <= Len(s)
    <3>1. u[n] = s[n] /\ n \in 1 .. Len(s) BY <1>2, <1>3, <2>1
    <3> QED BY <3>1 DEF Neutral
  <2>2. CASE ~(n <= Len(s))
    <3>1. u[n] = t[n - Len(s)] /\ n - Len(s) \in 1 .. Len(t) BY <1>2, <1>3, <2>2
    <3> QED BY <3>1 DEF Neutral
  <2> QED BY <2>1, <2>2
<1> QED BY <1>3, <1>4 DEF Neutral, u

LEMMA PlainLines ==
  /\ \A r : Plain(Push(r)) /\ Plain(Pop(r))
  /\ \A x : x[1] \notin {"label", "jmp", "je", "call", "loadr", "push", "pusha"}
              => Plain(x)
  /\ \A n : Plain(<<"push", k(n)>>)
  /\ \A r, n : Plain(<<"loadr", r, k(n)>>)
  /\ \A l \in Always : Plain(<<"call", l>>) /\ Plain(<<"jmp", l>>)
<1>1. \A x : x[1] \notin {"label", "jmp", "je", "call", "loadr", "push", "pusha"}
                => Plain(x)
  BY DEF Plain, Loopless, References
<1>2. \A r : Plain(Push(r)) /\ Plain(Pop(r)) BY <1>1 DEF Push, Pop
<1>3. \A n : Plain(<<"push", k(n)>>) BY DEF Plain, Loopless, References, Last, k
<1>4. \A r, n : Plain(<<"loadr", r, k(n)>>)
  BY DEF Plain, Loopless, References, Last, k
<1>5. \A l \in Always : Plain(<<"call", l>>) /\ Plain(<<"jmp", l>>)
  BY DEF Plain, Loopless, References, Always
<1> QED BY <1>1, <1>2, <1>3, <1>4, <1>5

LEMMA NeutralBinary == \A a, op, b : Neutral(Binary(a, op, b))
<1> SUFFICES ASSUME NEW a, NEW op, NEW b PROVE Neutral(Binary(a, op, b)) OBVIOUS
<1> DEFINE s == Binary(a, op, b)
<1>1. s \in Seq({s[n] : n \in 1 .. 5}) BY DEF Binary, Push, Pop
<1>2. \A n \in 1 .. Len(s) : Plain(s[n]) BY DEF Binary, Plain, Loopless, References, Push, Pop
<1> HIDE DEF s
<1>3. Neutral(s) BY <1>1, <1>2, NeutralLines
<1> QED BY <1>3 DEF s

LEMMA NeutralUnary == \A op : Neutral(Unary(op))
<1> SUFFICES ASSUME NEW op PROVE Neutral(Unary(op)) OBVIOUS
<1> DEFINE s == Unary(op)
<1>1. s \in Seq({s[n] : n \in 1 .. 4}) BY DEF Unary, Push, Pop
<1>2. \A n \in 1 .. Len(s) : Plain(s[n]) BY DEF Unary, Plain, Loopless, References, Push, Pop
<1> HIDE DEF s
<1>3. Neutral(s) BY <1>1, <1>2, NeutralLines
<1> QED BY <1>3 DEF s

LEMMA NeutralOperation == \A op : Neutral(Operation(op))
<1> SUFFICES ASSUME NEW op PROVE Neutral(Operation(op)) OBVIOUS
<1>1. Neutral(<<<<"cmpr", "R2", "R1">>, <<"loadr", "R12", k(0)>>,
                <<"set", op, "R12">>, <<"loadrr", "R1", "R12">>>>)
  <2>1. /\ Plain(<<"cmpr", "R2", "R1">>) /\ Plain(<<"loadr", "R12", k(0)>>)
        /\ Plain(<<"set", op, "R12">>) /\ Plain(<<"loadrr", "R1", "R12">>)
    BY DEF Plain, Loopless, References, Last, k
  <2> QED BY <2>1, Neutral4
<1> QED BY <1>1, NeutralBinary, Neutral0 DEF Operation

LEMMA NeutralArgument == \A d, n : Neutral(ArgumentCode(d, n))
<1> SUFFICES ASSUME NEW d, NEW n PROVE Neutral(ArgumentCode(d, n)) OBVIOUS
<1> DEFINE calculated(a, op, b, r) == <<a, b, <<"alu", op>>, Pop(r)>>
           s1 == calculated(Push("R1"), "-", <<"push", k(1)>>, "R1")
           s2 == calculated(<<"push", k(n)>>, "+", <<"push", k(d.stuff)>>, "R6")
           s3 == calculated(Push("R6"), "+", <<"push", k(4)>>, "R6")
           s4 == calculated(Push("R6"), "-", Push("R1"), "R1")
           s5 == <<<<"popn", 8>>, <<"loadrr", "R8", "R1">>, <<"loadsr", "R8">>,
                   Pop("R1")>>
<1>1. ASSUME NEW a, NEW op, NEW b, NEW r, Plain(a), Plain(b)
      PROVE  Neutral(calculated(a, op, b, r))
  <2>1. Plain(<<"alu", op>>) /\ Plain(Pop(r)) BY DEF Plain, Loopless, References, Pop
  <2> QED BY <1>1, <2>1, Neutral4
<1>2. \A x : Plain(<<"push", k(x)>>) BY DEF Plain, Loopless, References, Last, k
<1> HIDE DEF calculated
<1>3. Neutral(s1) /\ Neutral(s2) /\ Neutral(s3) /\ Neutral(s4)
  BY <1>1, <1>2, PlainLines
<1>4. Neutral(s5)
  <2>1. /\ Plain(<<"popn", 8>>) /\ Plain(<<"loadrr", "R8", "R1">>)
        /\ Plain(<<"loadsr", "R8">>)
    BY DEF Plain, Loopless, References, Last, k
  <2> QED BY <2>1, PlainLines, Neutral4
<1>5. ArgumentCode(d, n) = s1 \o s2 \o s3 \o s4 \o s5 BY DEF ArgumentCode, calculated
<1> HIDE DEF s1, s2, s3, s4, s5
<1> QED BY <1>3, <1>4, <1>5, NeutralJoin

LEMMA NeutralRegisters == Neutral(SaveRegisters) /\ Neutral(RestoreRegisters)
BY PlainLines, Neutral4 DEF SaveRegisters, RestoreRegisters

\* A call refers to its function when that has code
LEMMA FitsCall ==
  ASSUME NEW d, NEW f, f.flags = {} => f.name \in Internal(d)
  PROVE  Fits(d, CallCode(f))
<1>1. CASE f.flags = {}
  <2> DEFINE x == <<"call", <<"fn", f.name>>>>
  <2>1. CallCode(f) = <<x>> BY <1>1 DEF CallCode
  <2>2. Loopless(x) /\ x[1] # "label" /\ References(x) = {<<"fn", f.name>>}
    BY DEF Loopless, References
  <2>3. <<"fn", f.name>> \in Known(d) BY <1>1 DEF Known
  <2> HIDE DEF x
  <2>4. Fits(d, <<x>>) BY <2>2, <2>3, FitsLine
  <2> QED BY <2>1, <2>4
<1>2. CASE f.flags # {} /\ "external" \in f.flags
  <2>1. CallCode(f) = <<<<"externcall", f.name>>>> BY <1>2 DEF CallCode
  <2>2. Plain(<<"externcall", f.name>>) BY PlainLines
  <2> QED BY <2>1, <2>2, Neutral1, NeutralFits
<1>3. CASE f.flags # {} /\ "external" \notin f.flags
  <2> DEFINE s == <<<<"push", k(0)>>, <<"push", k(0)>>, <<"sys", "libexec">>, Pop("R7")>>
             t == <<<<"pop">>, <<"pop">>>>
  <2>1. CallCode(f) = s \o t BY <1>3 DEF CallCode
  <2>2. Plain(<<"sys", "libexec">>) /\ Plain(<<"pop">>) BY PlainLines
  <2>3. Neutral(s) /\ Neutral(t) BY <2>2, PlainLines, Neutral2, Neutral4
  <2> HIDE DEF s, t
  <2> QED BY <2>1, <2>3, NeutralJoin, NeutralFits
<1> QED BY <1>1, <1>2, <1>3

LEMMA NeutralMoves ==
  /\ Neutral(Lods) /\ Neutral(Stos)
  /\ \A label \in Always : Neutral(Calls(label))
<1>1. \A a, b : Neutral(<<Push("R0"), <<"loadrr", a, b>>, <<"lods">>, Pop("R0")>>)
      /\ Neutral(<<Push("R0"), <<"loadrr", a, b>>, <<"stos">>, Pop("R0")>>)
  <2>1. \A a, b : Plain(<<"loadrr", a, b>>) BY PlainLines
  <2>2. Plain(<<"lods">>) /\ Plain(<<"stos">>) BY PlainLines
  <2> QED BY <2>1, <2>2, PlainLines, Neutral4
<1>2. \A label \in Always : Neutral(<<<<"call", label>>>>) BY PlainLines, Neutral1
<1> QED BY <1>1, <1>2 DEF Lods, Stos, Calls

\* A call of a routine that there will be
LEMMA FitsRoutine ==
  ASSUME NEW d, NEW u, <<u>> \in Known(d)
  PROVE  Fits(d, Calls(<<u>>))
<1> DEFINE x == <<"call", <<u>>>>
<1>1. Loopless(x) /\ x[1] # "label" /\ References(x) = {<<u>>}
  BY DEF Loopless, References
<1> HIDE DEF x
<1>2. Fits(d, <<x>>) BY <1>1, FitsLine
<1> QED BY <1>2 DEF Calls, x

\* One line, or two, emitted after the code that is there
LEMMA EmitLine ==
  ASSUME NEW a, NEW d, NEW x, Keeps(a, d), Plain(x)
  PROVE  Keeps(a, Emit(d, <<x>>))
BY Neutral1, EmitAfter

LEMMA EmitLines ==
  ASSUME NEW a, NEW d, NEW x, NEW y, Keeps(a, d), Plain(x), Plain(y)
  PROVE  Keeps(a, Emit(d, <<x, y>>))
BY Neutral2, EmitAfter

-----------------------------------------------------------------------------
(* The tables.                                                              *)

LEMMA AppendTable ==
  ASSUME NEW s, IsTable(s), NEW v
  PROVE  IsTable(Append(s, v)) /\ Len(Append(s, v)) = Len(s) + 1 /\ Len(s) \in Nat
<1>1. PICK S : s \in Seq(S) BY DEF IsTable
<1>2. s \in Seq(S \cup {v}) BY <1>1
<1> QED BY <1>1, <1>2 DEF IsTable

LEMMA AppendElements ==
  ASSUME NEW s, IsTable(s), NEW v
  PROVE  /\ DOMAIN Append(s, v) = DOMAIN s \cup {Len(s) + 1}
         /\ Append(s, v)[Len(s) + 1] = v
         /\ \A n \in DOMAIN s : n # Len(s) + 1 /\ Append(s, v)[n] = s[n]
<1>1. PICK S : s \in Seq(S) BY DEF IsTable
<1>2. s \in Seq(S \cup {v}) /\ Len(s) \in Nat BY <1>1
<1>3. Len(Append(s, v)) = Len(s) + 1 BY <1>2
<1> QED BY <1>2, <1>3

\* What the labels depend on
LabelFields == {"code", "label_num", "line", "fn", "functions", "uses", "strings"}

\* Where none of it changes, the labels do not
LEMMA TableKeeps ==
  ASSUME NEW d, NEW r, Sound(r), SameLoops(d, r), \A x \in LabelFields : r[x] = d[x]
  PROVE  Keeps(d, r)
<1> SUFFICES ASSUME Sound(d) PROVE Keeps(d, r) BY DEF Keeps, Spares
<1>1. /\ r.code = d.code /\ r.label_num = d.label_num /\ r.line = d.line /\ r.fn = d.fn
      /\ r.functions = d.functions /\ r.uses = d.uses /\ r.strings = d.strings
  BY DEF LabelFields
<1>2. Internal(r) = Internal(d) BY <1>1 DEF Internal
<1>3. Known(r) = Known(d) BY <1>1, <1>2 DEF Known
<1>4. Adds(d, r, {}, {}) BY <1>1, <1>3, NothingAdded
<1>5. Extends(d.code, r.code) BY <1>1, ExtendsSelf DEF Sound
<1> QED BY <1>1, <1>2, <1>4, <1>5 DEF Keeps, Spares, Stays

LEMMA AddVariableKeeps == \A d, v : Keeps(d, add_variable(d, v))
<1> SUFFICES ASSUME NEW d, NEW v, Sound(d) PROVE Keeps(d, add_variable(d, v))
  BY DEF Keeps, Spares
<1>1. CASE check_if_variable_exists(d, v) BY <1>1, KeepsSelf DEF add_variable
<1>2. CASE ~check_if_variable_exists(d, v)
  <2> DEFINE total == IF Len(d.vars) >= d.total_variables - 1
                      THEN d.total_variables + TableStep ELSE d.total_variables
             b == [d EXCEPT !.vars = Append(@, v), !.total_variables = total,
                            !.past = @ \/ Len(d.vars) >= total]
  <2>1. add_variable(d, v) = b BY <1>2 DEF add_variable
  <2>2. IsTable(Append(d.vars, v)) /\ Len(Append(d.vars, v)) = Len(d.vars) + 1
        /\ Len(d.vars) \in Nat
    BY AppendTable DEF Sound, TablesHold
  <2>3. total \in Nat /\ Len(d.vars) + 1 < total /\ ~(Len(d.vars) >= total)
    <3>1. d.total_variables \in Nat /\ Len(d.vars) < d.total_variables
      BY DEF Sound, TablesHold
    <3> QED BY <3>1, <2>2, TableAssumption
  <2>4. /\ HasFields(b) /\ b.vars = Append(d.vars, v) /\ b.total_variables = total
        /\ b.past = (d.past \/ Len(d.vars) >= total)
        /\ \A x \in Fields \ {"vars", "total_variables", "past"} : b[x] = d[x]
    <3> HIDE DEF total
    <3> QED BY DEF Sound, HasFields, Fields
  <2> HIDE DEF b, total
  <2>5. b.past = FALSE BY <2>3, <2>4 DEF Sound, TablesHold
  <2>6. /\ b.functions = d.functions /\ b.total_functions = d.total_functions
        /\ b.libs = d.libs /\ b.number_of_native_libs = d.number_of_native_libs
        /\ b.CurrentIndex = d.CurrentIndex /\ b.NumberOfStructs = d.NumberOfStructs
        /\ b.code = d.code /\ b.strings = d.strings /\ b.label_num = d.label_num
        /\ SameLoops(d, b)
    BY <2>4 DEF Fields, SameLoops
  <2>7. TablesHold(b) BY <2>2, <2>3, <2>4, <2>5, <2>6 DEF Sound, TablesHold
  <2>8. Sound(b) BY <2>4, <2>6, <2>7 DEF Sound
  <2>9. \A x \in LabelFields : b[x] = d[x] BY <2>4 DEF Fields, LabelFields
  <2> QED BY <2>1, <2>6, <2>8, <2>9, TableKeeps
<1> QED BY <1>1, <1>2

\* A name that the search through the table finds
Refused(d, f) ==
    \/ FunctionNamed(d, f) # {}
    \/ Leftover("functions", f, Len(d.functions), d.total_functions)

LEMMA FunctionAdded ==
  ASSUME NEW d, Sound(d), NEW f, NEW args, NEW lib,
         NEW kind \in {"internal", "external", "native"}, ~Refused(d, f)
  PROVE  LET r == add_to_function_table(d, f, args, kind, lib)
         IN /\ Sound(r) /\ SameLoops(d, r)
            /\ \A x \in Fields \ {"functions", "total_functions", "past"} : r[x] = d[x]
            /\ Internal(r) = Internal(d) \cup IF kind = "internal" THEN {f} ELSE {}
<1> DEFINE total == IF Len(d.functions) >= d.total_functions
                    THEN d.total_functions + TableStep ELSE d.total_functions
           v == [name |-> f, args |-> args, kind |-> kind, lib |-> lib,
                 flags |-> FlagsOf(Len(d.functions), kind)]
           b == [d EXCEPT !.functions = Append(@, v), !.total_functions = total,
                          !.past = @ \/ Len(d.functions) >= total]
<1>1. add_to_function_table(d, f, args, kind, lib) = b
  BY DEF add_to_function_table, Refused
<1>2. v.kind = kind /\ v.name = f /\ (v.flags = {} => v.kind = "internal")
  BY DEF FlagsOf
<1> HIDE DEF v
<1>3. IsTable(Append(d.functions, v))
      /\ Len(Append(d.functions, v)) = Len(d.functions) + 1
      /\ Len(d.functions) \in Nat
  BY AppendTable DEF Sound, TablesHold
<1> DEFINE s == d.functions
           t == Append(s, v)
           m == Len(s) + 1
<1>4. DOMAIN t = DOMAIN s \cup {m} /\ t[m] = v
      /\ \A n \in DOMAIN s : n # m /\ t[n] = s[n]
  BY AppendElements DEF Sound, TablesHold
<1>5. \A n \in DOMAIN s : s[n].flags = {} => s[n].kind = "internal"
  BY DEF Sound, TablesHold
<1>6. total \in Nat /\ Len(s) + 1 <= total /\ ~(Len(s) >= total)
  <2>1. d.total_functions \in Nat /\ Len(d.functions) <= d.total_functions
    BY DEF Sound, TablesHold
  <2> QED BY <2>1, <1>3, TableAssumption
<1>7. /\ HasFields(b) /\ b.functions = t /\ b.total_functions = total
      /\ b.past = (d.past \/ Len(s) >= total)
      /\ \A x \in Fields \ {"functions", "total_functions", "past"} : b[x] = d[x]
  <2> HIDE DEF total
  <2> QED BY DEF Sound, HasFields, Fields
<1> HIDE DEF b, total
<1>8. b.past = FALSE BY <1>6, <1>7 DEF Sound, TablesHold
<1>9. /\ b.vars = d.vars /\ b.total_variables = d.total_variables
      /\ b.libs = d.libs /\ b.number_of_native_libs = d.number_of_native_libs
      /\ b.CurrentIndex = d.CurrentIndex /\ b.NumberOfStructs = d.NumberOfStructs
      /\ b.code = d.code /\ b.strings = d.strings /\ b.label_num = d.label_num
      /\ SameLoops(d, b)
  BY <1>7 DEF Fields, SameLoops
<1>10. \A n \in DOMAIN t : t[n].flags = {} => t[n].kind = "internal"
  <2> HIDE DEF s, t, m
  <2> QED BY <1>2, <1>4, <1>5
<1>11. IsTable(t) /\ Len(t) <= total BY <1>3, <1>6
<1> HIDE DEF s, t, m
<1>12. TablesHold(b) BY <1>6, <1>7, <1>8, <1>9, <1>10, <1>11 DEF Sound, TablesHold
<1>13. Sound(b) BY <1>7, <1>9, <1>12 DEF Sound
<1>14. Internal(b) = Internal(d) \cup IF kind = "internal" THEN {f} ELSE {}
  <2>1. \A x : x \in Internal(d) <=>
                 \E n \in DOMAIN s : s[n].kind = "internal" /\ x = s[n].name
    BY DEF Internal, s
  <2>2. \A x : x \in Internal(b) <=>
                 \E n \in DOMAIN t : t[n].kind = "internal" /\ x = t[n].name
    BY <1>7 DEF Internal
  <2>3. \A x : x \in Internal(b) <=> x \in Internal(d) \/ (kind = "internal" /\ x = f)
    BY <1>2, <1>4, <2>1, <2>2
  <2> QED BY <2>3
<1> QED BY <1>1, <1>7, <1>9, <1>13, <1>14

LEMMA AddFunctionKeeps ==
  \A d, f, args, lib : \A kind \in {"external", "native"} :
      Keeps(d, add_to_function_table(d, f, args, kind, lib))
<1> SUFFICES ASSUME NEW d, NEW f, NEW args, NEW lib, Sound(d),
                    NEW kind \in {"external", "native"}
             PROVE  Keeps(d, add_to_function_table(d, f, args, kind, lib))
  BY DEF Keeps, Spares
<1> DEFINE r == add_to_function_table(d, f, args, kind, lib)
<1>1. CASE Refused(d, f) BY <1>1, ErrorKeeps DEF add_to_function_table, Refused
<1>2. CASE ~Refused(d, f)
  <2>1. /\ Sound(r) /\ SameLoops(d, r)
        /\ \A x \in Fields \ {"functions", "total_functions", "past"} : r[x] = d[x]
        /\ Internal(r) = Internal(d)
    BY <1>2, FunctionAdded
  <2> HIDE DEF r
  <2>2. /\ r.code = d.code /\ r.label_num = d.label_num /\ r.line = d.line
        /\ r.fn = d.fn /\ r.uses = d.uses /\ r.strings = d.strings
    BY <2>1 DEF Fields
  <2>3. Known(r) = Known(d) BY <2>1, <2>2 DEF Known
  <2>4. Adds(d, r, {}, {}) BY <2>2, <2>3, NothingAdded
  <2>5. Extends(d.code, r.code) BY <2>2, ExtendsSelf DEF Sound
  <2>6. Keeps(d, r) BY <2>1, <2>2, <2>4, <2>5 DEF Keeps, Spares, Stays
  <2> QED BY <2>6 DEF r
<1> QED BY <1>1, <1>2

LEMMA AddStructKeeps == \A d, s, members : Keeps(d, AddStruct(d, s, members))
<1> SUFFICES ASSUME NEW d, NEW s, NEW members, Sound(d)
             PROVE  Keeps(d, AddStruct(d, s, members))
  BY DEF Keeps, Spares
<1> DEFINE found == \/ StructNamed(d, s) # {}
                    \/ Leftover("structs", s, d.CurrentIndex + 1, d.NumberOfStructs)
<1>1. CASE found BY <1>1, ErrorKeeps DEF AddStruct
<1>2. CASE ~found
  <2> DEFINE n == d.CurrentIndex + 1
             total == IF d.NumberOfStructs < n - 1
                      THEN d.NumberOfStructs + TableStep ELSE d.NumberOfStructs
             table == [i \in DOMAIN d.structs \cup {n} |->
                            IF i = n THEN [name |-> s, members |-> members]
                                     ELSE d.structs[i]]
             b == [d EXCEPT !.CurrentIndex = n, !.NumberOfStructs = total,
                            !.structs = table]
  <2>1. AddStruct(d, s, members) = b BY <1>2 DEF AddStruct
  <2>2. n \in Nat /\ total \in Nat /\ n <= total + 1
    <3>1. /\ d.CurrentIndex \in Nat /\ d.NumberOfStructs \in Nat
          /\ d.CurrentIndex <= d.NumberOfStructs + 1
      BY DEF Sound, TablesHold
    <3> QED BY <3>1, TableAssumption
  <2>3. /\ HasFields(b) /\ b.CurrentIndex = n /\ b.NumberOfStructs = total
        /\ \A x \in Fields \ {"CurrentIndex", "NumberOfStructs", "structs"} : b[x] = d[x]
    <3> HIDE DEF total, n, table
    <3> QED BY DEF Sound, HasFields, Fields
  <2> HIDE DEF b, total, n, table
  <2>4. /\ b.vars = d.vars /\ b.total_variables = d.total_variables
        /\ b.functions = d.functions /\ b.total_functions = d.total_functions
        /\ b.libs = d.libs /\ b.number_of_native_libs = d.number_of_native_libs
        /\ b.past = d.past /\ SameLoops(d, b)
        /\ b.code = d.code /\ b.strings = d.strings /\ b.label_num = d.label_num
    BY <2>3 DEF Fields, SameLoops
  <2>5. TablesHold(b) BY <2>2, <2>3, <2>4 DEF Sound, TablesHold
  <2>6. Sound(b) BY <2>3, <2>4, <2>5 DEF Sound
  <2>7. \A x \in LabelFields : b[x] = d[x] BY <2>3 DEF Fields, LabelFields
  <2> QED BY <2>1, <2>4, <2>6, <2>7, TableKeeps
<1> QED BY <1>1, <1>2

LEMMA NativeKeeps == \A d, f, args, lib : Keeps(d, do_native(d, f, args, lib))
<1> SUFFICES ASSUME NEW d, NEW f, NEW args, NEW lib, Sound(d)
             PROVE  Keeps(d, do_native(d, f, args, lib))
  BY DEF Keeps, Spares
<1> DEFINE total == IF \/ d.number_of_native_libs = 0
                       \/ Len(d.libs) > d.number_of_native_libs - 1
                    THEN d.number_of_native_libs + TableStep
                    ELSE d.number_of_native_libs
           listed == IF lib \in ToSet(d.libs) THEN d
                     ELSE [d EXCEPT !.libs = Append(@, lib),
                                    !.past = @ \/ Len(d.libs) >= total]
           b == [listed EXCEPT !.number_of_native_libs = total]
<1>1. do_native(d, f, args, lib) = add_to_function_table(b, f, args, "native", lib)
  BY DEF do_native
<1>2. IsTable(Append(d.libs, lib)) /\ Len(Append(d.libs, lib)) = Len(d.libs) + 1
      /\ Len(d.libs) \in Nat
  BY AppendTable DEF Sound, TablesHold
<1>3. total \in Nat /\ Len(d.libs) + 1 <= total /\ ~(Len(d.libs) >= total)
  <2>1. d.number_of_native_libs \in Nat /\ Len(d.libs) <= d.number_of_native_libs
    BY DEF Sound, TablesHold
  <2> QED BY <2>1, <1>2, TableAssumption
<1> HIDE DEF total
<1>4. /\ HasFields(listed) /\ listed.past = FALSE
      /\ IsTable(listed.libs) /\ Len(listed.libs) <= total
      /\ \A x \in Fields \ {"libs", "past"} : listed[x] = d[x]
  <2>1. CASE lib \in ToSet(d.libs) BY <1>2, <1>3, <2>1 DEF Sound, TablesHold
  <2>2. CASE lib \notin ToSet(d.libs)
    <3> DEFINE e == [d EXCEPT !.libs = Append(@, lib),
                              !.past = @ \/ Len(d.libs) >= total]
    <3>1. /\ HasFields(e) /\ e.libs = Append(d.libs, lib)
          /\ e.past = (d.past \/ Len(d.libs) >= total)
          /\ \A x \in Fields \ {"libs", "past"} : e[x] = d[x]
      BY DEF Sound, HasFields, Fields
    <3> HIDE DEF e
    <3>2. listed = e BY <2>2 DEF e
    <3>3. e.past = FALSE BY <1>3, <3>1 DEF Sound, TablesHold
    <3>4. Len(e.libs) <= total BY <1>2, <1>3, <3>1
    <3> QED BY <1>2, <3>1, <3>2, <3>3, <3>4
  <2> QED BY <2>1, <2>2
<1> HIDE DEF listed
<1>5. /\ HasFields(b) /\ b.number_of_native_libs = total
      /\ \A x \in Fields \ {"number_of_native_libs"} : b[x] = listed[x]
  BY <1>4 DEF HasFields, Fields
<1> HIDE DEF b
<1>6. /\ b.vars = d.vars /\ b.total_variables = d.total_variables
      /\ b.functions = d.functions /\ b.total_functions = d.total_functions
      /\ b.CurrentIndex = d.CurrentIndex /\ b.NumberOfStructs = d.NumberOfStructs
      /\ b.past = FALSE /\ b.libs = listed.libs
      /\ b.code = d.code /\ b.strings = d.strings /\ b.label_num = d.label_num
      /\ SameLoops(d, b)
  BY <1>4, <1>5 DEF Fields, SameLoops
<1>7. TablesHold(b) BY <1>3, <1>4, <1>5, <1>6 DEF Sound, TablesHold
<1>8. Sound(b) BY <1>5, <1>6, <1>7 DEF Sound
<1>9. \A x \in LabelFields : b[x] = d[x] BY <1>4, <1>5 DEF Fields, LabelFields
<1>10. Keeps(d, b) BY <1>6, <1>8, <1>9, TableKeeps
<1> QED BY <1>1, <1>10, AddFunctionKeeps, KeepsOn

-----------------------------------------------------------------------------
(* Sequences of arguments and items.                                        *)

\* Whatever is generated so far, the code for e keeps
KeepsExpression(e) == \A d : Keeps(d, Expression(d, e))

\* The recursive function in Pushed is one: n arguments have an n-th state
LEMMA PushedDefined ==
  ASSUME NEW d, NEW args, Len(args) \in Nat
  PROVE  Pushed(d, args) = [n \in 0 .. Len(args) |->
            IF n = 0 THEN d ELSE PushArgument(Pushed(d, args)[n - 1], args[n])]
<1> DEFINE Until(g, m) == g = [n \in 0 .. m |->
              IF n = 0 THEN d ELSE PushArgument(g[n - 1], args[n])]
           S == {m \in Nat : \E g : Until(g, m)}
<1>1. 0 \in S
  <2>1. Until([n \in 0 .. 0 |-> d], 0) OBVIOUS
  <2> QED BY <2>1
<1>2. ASSUME NEW m \in S PROVE m + 1 \in S
  <2>1. PICK g : Until(g, m) OBVIOUS
  <2> DEFINE h == [n \in 0 .. m + 1 |->
                     IF n = m + 1 THEN PushArgument(g[m], args[m + 1]) ELSE g[n]]
  <2>2. \A n \in 0 .. m + 1 :
            h[n] = IF n = 0 THEN d ELSE PushArgument(h[n - 1], args[n])
    <3> SUFFICES ASSUME NEW n \in 0 .. m + 1
                 PROVE  h[n] = IF n = 0 THEN d ELSE PushArgument(h[n - 1], args[n])
      OBVIOUS
    <3>1. CASE n = m + 1
      <4>1. h[n] = PushArgument(g[m], args[m + 1]) BY <3>1
      <4>2. h[n - 1] = g[m] BY <3>1
      <4> QED BY <3>1, <4>1, <4>2
    <3>2. CASE n # m + 1 /\ n # 0
      <4>1. n \in 0 .. m /\ n - 1 \in 0 .. m + 1 /\ n - 1 # m + 1 BY <3>2
      <4>2. h[n] = g[n] /\ h[n - 1] = g[n - 1] BY <4>1
      <4>3. g[n] = PushArgument(g[n - 1], args[n]) BY <2>1, <3>2, <4>1
      <4> QED BY <3>2, <4>2, <4>3
    <3>3. CASE n = 0
      <4>1. h[0] = g[0] /\ g[0] = d BY <2>1
      <4> QED BY <3>3, <4>1
    <3> QED BY <3>1, <3>2, <3>3
  <2>3. Until(h, m + 1) BY <2>2
  <2> HIDE DEF h, Until
  <2>4. \E b : Until(b, m + 1) BY <2>3
  <2> QED BY <2>4
<1>3. Len(args) \in S
  <2> HIDE DEF S
  <2> QED BY <1>1, <1>2, InductionOnNat DEF S
<1>4. \E g : Until(g, Len(args)) BY <1>3
<1> HIDE DEF S
<1> QED BY <1>4 DEF Pushed

\* The recursive function in ItemsPrinted is one, in the same way
LEMMA PrintedDefined ==
  ASSUME NEW d, NEW items, NEW semi, Len(items) \in Nat
  PROVE  ItemsPrinted(d, items, semi) = [n \in 0 .. Len(items) |->
            IF n = 0 THEN d ELSE PrintNext(ItemsPrinted(d, items, semi)[n - 1], items, semi, n)]
<1> DEFINE Until(g, m) == g = [n \in 0 .. m |->
              IF n = 0 THEN d ELSE PrintNext(g[n - 1], items, semi, n)]
           S == {m \in Nat : \E g : Until(g, m)}
<1>1. 0 \in S
  <2>1. Until([n \in 0 .. 0 |-> d], 0) OBVIOUS
  <2> QED BY <2>1
<1>2. ASSUME NEW m \in S PROVE m + 1 \in S
  <2>1. PICK g : Until(g, m) OBVIOUS
  <2> DEFINE h == [n \in 0 .. m + 1 |->
                     IF n = m + 1 THEN PrintNext(g[m], items, semi, m + 1) ELSE g[n]]
  <2>2. \A n \in 0 .. m + 1 :
            h[n] = IF n = 0 THEN d ELSE PrintNext(h[n - 1], items, semi, n)
    <3> SUFFICES ASSUME NEW n \in 0 .. m + 1
                 PROVE  h[n] = IF n = 0 THEN d ELSE PrintNext(h[n - 1], items, semi, n)
      OBVIOUS
    <3>1. CASE n = m + 1
      <4>1. h[n] = PrintNext(g[m], items, semi, m + 1) BY <3>1
      <4>2. h[n - 1] = g[m] BY <3>1
      <4> QED BY <3>1, <4>1, <4>2
    <3>2. CASE n # m + 1 /\ n # 0
      <4>1. n \in 0 .. m /\ n - 1 \in 0 .. m + 1 /\ n - 1 # m + 1 BY <3>2
      <4>2. h[n] = g[n] /\ h[n - 1] = g[n - 1] BY <4>1
      <4>3. g[n] = PrintNext(g[n - 1], items, semi, n) BY <2>1, <3>2, <4>1
      <4> QED BY <3>2, <4>2, <4>3
    <3>3. CASE n = 0
      <4>1. h[0] = g[0] /\ g[0] = d BY <2>1
      <4> QED BY <3>3, <4>1
    <3> QED BY <3>1, <3>2, <3>3
  <2>3. Until(h, m + 1) BY <2>2
  <2> HIDE DEF h, Until
  <2>4. \E b : Until(b, m + 1) BY <2>3
  <2> QED BY <2>4
<1>3. Len(items) \in S
  <2> HIDE DEF S
  <2> QED BY <1>1, <1>2, InductionOnNat DEF S
<1>4. \E g : Until(g, Len(items)) BY <1>3
<1> HIDE DEF S
<1> QED BY <1>4 DEF ItemsPrinted

LEMMA ArgumentsKeep ==
  ASSUME NEW args, Len(args) \in Nat,
         \A n \in 1 .. Len(args) : KeepsExpression(args[n])
  PROVE  \A d : Keeps(d, Arguments(d, args))
<1> SUFFICES ASSUME NEW d PROVE Keeps(d, Arguments(d, args)) OBVIOUS
<1> DEFINE p == Pushed(d, args)
           S == {n \in Nat : n <= Len(args) => Keeps(d, p[n])}
<1>1. \A n \in 0 .. Len(args) :
         p[n] = IF n = 0 THEN d ELSE PushArgument(p[n - 1], args[n])
  BY PushedDefined
<1> HIDE DEF p
<1>2. 0 \in S
  <2>1. p[0] = d BY <1>1
  <2> QED BY <2>1, KeepsSelf
<1>3. ASSUME NEW n \in S PROVE n + 1 \in S
  <2> SUFFICES ASSUME n + 1 <= Len(args) PROVE Keeps(d, p[n + 1]) OBVIOUS
  <2>1. Keeps(d, p[n]) OBVIOUS
  <2>2. p[n + 1] = PushArgument(p[n], args[n + 1]) BY <1>1
  <2>3. Keeps(p[n], Expression(p[n], args[n + 1])) BY DEF KeepsExpression
  <2>4. Keeps(p[n], PushArgument(p[n], args[n + 1]))
    <3> DEFINE b == Emit(Expression(p[n], args[n + 1]), <<Push("R1")>>)
    <3>1. Keeps(p[n], b) BY <2>3, PlainLines, EmitLine
    <3> HIDE DEF b
    <3>2. Keeps(b, [b EXCEPT !.stuff = @ + 1]) BY SetTemporary DEF Temporary
    <3> QED BY <3>1, <3>2, KeepsOn DEF PushArgument, b
  <2> QED BY <2>1, <2>2, <2>4, KeepsOn
<1> HIDE DEF S
<1>4. Len(args) \in S BY <1>2, <1>3, InductionOnNat DEF S
<1> QED BY <1>4 DEF S, Arguments, p

-----------------------------------------------------------------------------
(* Expressions.                                                             *)

LEMMA StringKeeps == \A d, t : Keeps(d, do_string(d, t))
<1> SUFFICES ASSUME NEW d, NEW t, Sound(d) PROVE Keeps(d, do_string(d, t))
  BY DEF Keeps, Spares
<1> DEFINE b == IF t \in ToSet(d.strings) THEN d
                ELSE [d EXCEPT !.strings = Append(@, t)]
           x == <<"loadr", "R1", <<"l", <<"s", StringIndex(b, t)>>>>>>
<1>1. Keeps(d, b) /\ t \in ToSet(b.strings)
  <2>1. CASE t \in ToSet(d.strings) BY <2>1, KeepsSelf
  <2>2. CASE t \notin ToSet(d.strings)
    <3> DEFINE v == Append(d.strings, t)
               f == "strings"
               e == [d EXCEPT ![f] = v]
    <3>1. b = e BY <2>2
    <3>2. IsTable(v) /\ Len(v) = Len(d.strings) + 1 /\ Len(d.strings) \in Nat
      BY AppendTable DEF Sound
    <3>3. v[Len(d.strings) + 1] = t /\ Len(d.strings) + 1 \in DOMAIN v
      BY AppendElements DEF Sound
    <3>4. f \in {"code", "strings"} /\ f \in Fields /\ HasFields(d)
      BY DEF Fields, Sound
    <3> HIDE DEF v, f
    <3>5. Sound(e) /\ SameLoops(d, e) BY <3>2, <3>4, SetCode
    <3>6. e[f] = v BY <3>4 DEF HasFields
    <3>7. \A y \in Fields : y # f => e[y] = d[y] BY <3>2, <3>4, SetCode
    <3> HIDE DEF e, b
    <3>8. /\ e.code = d.code /\ e.label_num = d.label_num /\ e.line = d.line
          /\ e.fn = d.fn /\ e.functions = d.functions /\ e.uses = d.uses
          /\ e.strings = v
      BY <3>6, <3>7 DEF f, Fields
    <3>9. Internal(e) = Internal(d) BY <3>8 DEF Internal
    <3>10. 1 .. Len(d.strings) \subseteq 1 .. Len(e.strings) BY <3>2, <3>8
    <3>11. Known(d) \subseteq Known(e) BY <3>8, <3>9, <3>10 DEF Known
    <3>12. Adds(d, e, {}, {}) BY <3>8, <3>11, NothingAdded
    <3>13. Extends(d.code, e.code) BY <3>8, ExtendsSelf DEF Sound
    <3>14. Keeps(d, e) BY <3>5, <3>8, <3>9, <3>12, <3>13 DEF Keeps, Spares, Stays
    <3>15. t \in ToSet(e.strings) BY <3>3, <3>8 DEF ToSet
    <3> QED BY <3>1, <3>14, <3>15
  <2> QED BY <2>1, <2>2
<1>2. do_string(d, t) = Emit(b, <<x>>) BY DEF do_string
<1>3. Loopless(x) /\ x[1] # "label" /\ References(x) = {<<"s", StringIndex(b, t)>>}
  BY DEF Loopless, References, Last
<1> HIDE DEF b
<1>4. Sound(b) => References(x) \subseteq Known(b)
  <2> SUFFICES ASSUME Sound(b) PROVE <<"s", StringIndex(b, t)>> \in Known(b) BY <1>3
  <2>1. \E n \in DOMAIN b.strings : b.strings[n] = t BY <1>1 DEF ToSet
  <2>2. StringIndex(b, t) \in DOMAIN b.strings BY <2>1 DEF StringIndex
  <2>3. DOMAIN b.strings = 1 .. Len(b.strings) BY TableIsSequence DEF Sound
  <2> QED BY <2>2, <2>3 DEF Known
<1> HIDE DEF x
<1> QED BY <1>1, <1>2, <1>3, <1>4, EmitReference

\* A call's arguments are counted from 0
LEMMA CountFromZero == \A d : Keeps(d, [d EXCEPT !.stuff = 0])
BY SetTemporary DEF Temporary

LEMMA FunctionCallKeeps ==
  ASSUME NEW args, Len(args) \in Nat, NEW f,
         \A n \in 1 .. Len(args) : KeepsExpression(args[n])
  PROVE  \A d : Keeps(d, do_function_call(d, f, args))
<1> SUFFICES ASSUME NEW d, Sound(d) PROVE Keeps(d, do_function_call(d, f, args))
  BY DEF Keeps, Spares
<1> DEFINE found == FunctionNamed(d, f)
           type == d.functions[CHOOSE n \in found : TRUE]
           s == SaveRegisters \o CallCode(type) \o RestoreRegisters
                   \o <<<<"popn", type.args>>, <<"loadrr", "R1", "R7">>>>
           b == Arguments([d EXCEPT !.stuff = 0], args)
           r == Emit(b, s)
<1>1. \/ do_function_call(d, f, args) = Error(d)
      \/ found # {} /\ do_function_call(d, f, args) = [r EXCEPT !.stuff = 0]
  <2> HIDE DEF found
  <2> QED BY DEF do_function_call, found
<1>2. Keeps(d, b) BY CountFromZero, ArgumentsKeep, KeepsOn
<1> HIDE DEF b
<1>3. ASSUME found # {} PROVE Keeps(d, r)
  <2>1. type.flags = {} => type.name \in Internal(d)
    <3>1. (CHOOSE n \in found : TRUE) \in DOMAIN d.functions BY <1>3 DEF FunctionNamed
    <3> QED BY <3>1 DEF Sound, TablesHold, Internal
  <2>2. Internal(b) = Internal(d) BY <1>2 DEF Keeps, Stays
  <2> HIDE DEF found, type
  <2> DEFINE t == <<<<"popn", type.args>>, <<"loadrr", "R1", "R7">>>>
  <2>3. Neutral(t)
    <3>1. Plain(<<"popn", type.args>>) /\ Plain(<<"loadrr", "R1", "R7">>)
      BY PlainLines
    <3> QED BY <3>1, Neutral2
  <2> HIDE DEF t
  <2>4. Fits(b, CallCode(type)) BY <2>1, <2>2, FitsCall
  <2>5. s = SaveRegisters \o CallCode(type) \o RestoreRegisters \o t BY DEF t
  <2>6. Fits(b, s) BY <2>3, <2>4, <2>5, NeutralRegisters, NeutralFits, FitsJoin
  <2> HIDE DEF s
  <2> QED BY <1>2, <2>6, EmitKnown, KeepsOn
<1> HIDE DEF r
<1>4. ASSUME found # {} PROVE Keeps(d, [r EXCEPT !.stuff = 0])
  BY <1>3, <1>4, CountFromZero, KeepsOn
<1> QED BY <1>1, <1>4, ErrorKeeps

\* The label after a call through an address carries the number that label_num had:
\* between the two nobody else takes it
LEMMA AddsReturn ==
  ASSUME NEW d, NEW a, NEW r, Sound(d), Sound(r), a.code = d.code,
         a.label_num = d.label_num + 1, Known(a) = Known(d),
         Adds(a, r, {<<"ret", d.label_num>>}, {<<"ret", d.label_num>>})
  PROVE  Adds(d, r, {}, {})
<1> DEFINE n == d.label_num
           m == r.label_num
           x == <<"ret", n>>
<1>1. n \in Nat /\ n + 1 <= m /\ m \in Nat BY DEF Sound, Adds
<1>2. /\ Labels(r.code) = Labels(d.code) \cup Rets(n + 1, m) \cup {x}
      /\ LabelsOf(r.code) \subseteq LabelsOf(d.code) \cup Labels(r.code) \cup Known(r) \cup {x}
      /\ Known(d) \subseteq Known(r)
      /\ Distinct(d.code) /\ Labels(d.code) \cap (Rets(n + 1, m) \cup {x}) = {}
           => Distinct(r.code)
  BY DEF Adds
<1>3. Rets(n, m) = Rets(n + 1, m) \cup {x}
  <2> HIDE DEF n, m
  <2>1. n .. m - 1 = n + 1 .. m - 1 \cup {n} BY <1>1
  <2> QED BY <2>1 DEF Rets
<1> HIDE DEF x
<1>4. n <= m BY <1>1
<1> QED BY <1>2, <1>3, <1>4 DEF Adds, n, m

LEMMA LinesPart ==
  ASSUME NEW S, NEW s \in Seq(S), NEW Y,
         \A n \in 1 .. Len(s) :
             Loopless(s[n]) /\ s[n][1] # "label" /\ References(s[n]) \subseteq Y
  PROVE  LoopFree(s) /\ Part(s, {}, Y)
<1>1. IsTable(s) BY DEF IsTable
<1>2. Labels(s) = {} /\ Distinct(s) BY <1>1, LabelsAre
<1>3. LabelsOf(s) \subseteq Y BY <1>1, LabelsAre
<1> QED BY <1>1, <1>2, <1>3 DEF LoopFree, Part

\* A line, and a label behind it
LEMMA LabelAfter ==
  ASSUME NEW x, NEW l, NEW Y, x[1] # "label", References(x) \subseteq Y
  PROVE  Part(<<x, <<"label", l>>>>, {l}, Y)
<1> DEFINE y == <<"label", l>>
           s == <<x, y>>
<1>1. IsTable(s) /\ Len(s) = 2 /\ s[1] = x /\ s[2] = y
  <2>1. s \in Seq({x, y}) OBVIOUS
  <2> QED BY <2>1 DEF IsTable
<1>2. y[1] = "label" /\ y[2] = l /\ References(y) = {} BY DEF References
<1> HIDE DEF s, y
<1>3. 1 .. Len(s) = {1, 2} BY <1>1
<1>4. Labels(s) = {l} /\ Distinct(s) BY <1>1, <1>2, <1>3, LabelsAre
<1>5. LabelsOf(s) \subseteq Y BY <1>1, <1>2, <1>3, LabelsAre
<1>6. Part(s, {l}, Y) BY <1>1, <1>4, <1>5 DEF Part
<1> QED BY <1>6 DEF s, y

LEMMA RawCallKeeps ==
  ASSUME NEW args, Len(args) \in Nat, NEW target, KeepsExpression(target),
         \A n \in 1 .. Len(args) : KeepsExpression(args[n])
  PROVE  \A d : Keeps(d, raw_call(d, target, args))
<1> SUFFICES ASSUME NEW d, Sound(d) PROVE Keeps(d, raw_call(d, target, args))
  BY DEF Keeps, Spares
<1> DEFINE label == <<"ret", d.label_num>>
           a == [d EXCEPT !.stuff = 0, !.label_num = @ + 1]
           s == <<<<"pusha", <<"l", label>>>>, <<"pushar", "R1">>>>
           b == Emit(Expression(a, target), s)
           u == <<<<"ret">>, <<"label", label>>>>
           w == <<<<"popn", Len(args)>>, <<"loadrr", "R1", "R7">>>>
           t == SaveRegisters \o u \o RestoreRegisters \o w
           r == Emit(Arguments(b, args), t)
<1>1. raw_call(d, target, args) =
        IF args = <<>> THEN Emit(b, u) ELSE [r EXCEPT !.stuff = 0]
  BY DEF raw_call
<1>2. d.label_num \in Nat BY DEF Sound
<1>3. LoopFree(s) /\ Part(s, {}, {label})
  <2>1. /\ s \in Seq({s[1], s[2]}) /\ Len(s) = 2
        /\ s[1] = <<"pusha", <<"l", label>>>> /\ s[2] = <<"pushar", "R1">>
    OBVIOUS
  <2>2. /\ Loopless(s[1]) /\ s[1][1] # "label" /\ References(s[1]) = {label}
        /\ Loopless(s[2]) /\ s[2][1] # "label" /\ References(s[2]) = {}
    <3> HIDE DEF label, s
    <3> QED BY <2>1 DEF Loopless, References, Last
  <2>3. \A n \in 1 .. Len(s) : n = 1 \/ n = 2 BY <2>1
  <2> HIDE DEF s, label
  <2> QED BY <2>1, <2>2, <2>3, LinesPart
<1>4. LoopFree(u) /\ Part(u, {label}, Always)
  <2>1. /\ u \in Seq({u[1], u[2]}) /\ Len(u) = 2
        /\ u[1] = <<"ret">> /\ u[2] = <<"label", label>>
    OBVIOUS
  <2>2. Loopless(<<"label", label>>) BY DEF Loopless
  <2>3. Loopless(<<"ret">>) /\ References(<<"ret">>) = {} /\ <<"ret">>[1] # "label"
    BY DEF Loopless, References
  <2>4. \A n \in 1 .. Len(u) : n = 1 \/ n = 2 BY <2>1
  <2>5. LoopFree(u)
    <3> HIDE DEF u, label
    <3> QED BY <2>1, <2>2, <2>3, <2>4 DEF LoopFree, IsTable
  <2> QED BY <2>3, <2>5, LabelAfter
<1>5. LoopFree(t) /\ Part(t, {label}, Always)
  <2>1. Neutral(w)
    <3>1. Plain(<<"popn", Len(args)>>) /\ Plain(<<"loadrr", "R1", "R7">>)
      BY PlainLines
    <3> QED BY <3>1, Neutral2
  <2>2. /\ Part(SaveRegisters, {}, Always) /\ LoopFree(SaveRegisters)
        /\ Part(RestoreRegisters, {}, Always) /\ LoopFree(RestoreRegisters)
        /\ Part(w, {}, Always) /\ LoopFree(w)
    BY <2>1, NeutralRegisters, NeutralPart
  <2> HIDE DEF u, w, label
  <2>3. LoopFree(t) BY <1>4, <2>2, LoopFreeJoin
  <2>4. Always \cup Always = Always /\ {} \cup {label} = {label} /\ {label} \cup {} = {label}
    OBVIOUS
  <2>5. Part(SaveRegisters \o u, {} \cup {label}, Always \cup Always)
    BY <1>4, <2>2, PartJoin
  <2>6. Part(SaveRegisters \o u, {label}, Always) BY <2>4, <2>5
  <2>7. Part(SaveRegisters \o u \o RestoreRegisters, {label} \cup {}, Always \cup Always)
    BY <2>2, <2>6, PartJoin
  <2>8. Part(SaveRegisters \o u \o RestoreRegisters, {label}, Always) BY <2>4, <2>7
  <2>9. Part(t, {label} \cup {}, Always \cup Always) BY <2>2, <2>8, PartJoin
  <2> HIDE DEF t
  <2> QED BY <2>3, <2>4, <2>9
<1>6. /\ Sound(a) /\ Spares(d, a) /\ Stays(d, a) /\ Known(a) = Known(d)
      /\ a.code = d.code /\ a.label_num = d.label_num + 1
  <2> DEFINE f == "label_num"
             n == d.label_num + 1
             e == [d EXCEPT !.stuff = 0]
             g == [e EXCEPT ![f] = n]
  <2>1. a = g BY DEF Sound, HasFields, Fields
  <2>2. /\ e.label_num = d.label_num /\ e.code = d.code /\ e.line = d.line /\ e.fn = d.fn
        /\ e.functions = d.functions /\ e.uses = d.uses /\ e.strings = d.strings
    OBVIOUS
  <2>3. Keeps(d, e) BY CountFromZero
  <2>4. Sound(e) /\ Spares(d, e) BY <2>3 DEF Keeps, Spares
  <2>5. f \in FreeFields /\ n \in Nat /\ f \in Fields BY <1>2 DEF FreeFields, Fields
  <2> HIDE DEF a, e, f, n
  <2>6. Sound(g) /\ SameLoops(e, g) /\ Extends(e.code, g.code) BY <2>4, <2>5, SetFree
  <2>7. \A x \in Fields : x # f => g[x] = e[x] BY <2>4, <2>5, SetFree
  <2>8. g[f] = n BY <2>4, <2>5 DEF Sound, HasFields
  <2> HIDE DEF g
  <2>9. /\ g.code = d.code /\ g.line = d.line /\ g.fn = d.fn
        /\ g.functions = d.functions /\ g.uses = d.uses /\ g.strings = d.strings
    BY <2>2, <2>7 DEF f, Fields
  <2>10. Internal(g) = Internal(d) BY <2>9 DEF Internal
  <2>11. Known(g) = Known(d) BY <2>9, <2>10 DEF Known
  <2>12. Spares(e, g) BY <2>6 DEF Spares
  <2>13. Spares(d, g) BY <2>4, <2>12, SparesOn
  <2>14. g.label_num = d.label_num + 1 BY <2>8 DEF f, n
  <2> QED BY <2>1, <2>6, <2>9, <2>10, <2>11, <2>13, <2>14 DEF Stays
<1> HIDE DEF a, s, t, u
<1> DEFINE h == Expression(a, target)
<1>7. Keeps(a, h) BY DEF KeepsExpression
<1> HIDE DEF h
<1>8. Spares(d, h) /\ Sound(h) /\ Adds(a, h, {}, {}) /\ Stays(d, h)
  BY <1>6, <1>7, SparesOn DEF Keeps, Spares, Stays
<1>9. Spares(d, b) /\ Sound(b) /\ Adds(a, b, {}, {label}) /\ Stays(d, b)
  <2>1. Sound(b) /\ Adds(h, b, {}, {label}) /\ Stays(h, b) BY <1>3, <1>8, EmitAdds DEF h
  <2>2. Spares(h, b) BY <1>3, EmitSpares DEF h
  <2> HIDE DEF b, label
  <2>3. Adds(a, b, {} \cup {}, {} \cup {label}) BY <1>6, <1>8, <2>1, AddsOn
  <2>4. {} \cup {} = {} /\ {} \cup {label} = {label} OBVIOUS
  <2>5. Adds(a, b, {}, {label}) BY <2>3, <2>4
  <2> QED BY <1>8, <2>1, <2>2, <2>5, SparesOn DEF Stays
<1> HIDE DEF b
<1>10. ASSUME NEW f, Keeps(b, f), NEW v, LoopFree(v), Part(v, {label}, Always)
       PROVE  Keeps(d, Emit(f, v))
  <2> DEFINE q == Emit(f, v)
  <2>1. Spares(b, f) /\ Sound(f) /\ Adds(b, f, {}, {}) /\ Stays(b, f)
    BY <1>9, <1>10 DEF Keeps, Spares
  <2>2. /\ Sound(q) /\ Adds(f, q, {label}, Always) /\ Stays(f, q)
        /\ q.label_num = f.label_num /\ Known(q) = Known(f)
    BY <1>10, <2>1, EmitAdds
  <2>3. Spares(f, q) BY <1>10, EmitSpares
  <2> HIDE DEF q
  <2>4. Spares(d, q) BY <1>9, <2>1, <2>3, SparesOn
  <2>5. Stays(d, q) BY <1>9, <2>1, <2>2 DEF Stays
  <2>6. label \notin Rets(a.label_num, f.label_num)
    <3>1. f.label_num \in Nat BY <2>1 DEF Sound
    <3> SUFFICES ASSUME NEW n \in d.label_num + 1 .. f.label_num - 1,
                        label = <<"ret", n>>
                 PROVE  FALSE
      BY <1>6 DEF Rets
    <3>2. n = d.label_num OBVIOUS
    <3> QED BY <1>2, <3>1, <3>2
  <2> HIDE DEF label
  <2>7. Adds(a, f, {} \cup {}, {label} \cup {}) BY <1>6, <1>9, <2>1, AddsOn
  <2>8. {} \cup {} = {} /\ {label} \cup {} = {label} /\ {} \cup {label} = {label} OBVIOUS
  <2>9. Adds(a, f, {}, {label}) BY <2>7, <2>8
  <2>10. Adds(a, q, {} \cup {label}, {label} \cup Always)
    BY <1>6, <2>1, <2>2, <2>6, <2>9, AddsOn
  <2>11. Adds(a, q, {label}, {label} \cup Always) BY <2>8, <2>10
  <2>12. Always \subseteq Known(q) BY DEF Known
  <2>13. Adds(a, q, {label}, {label}) BY <2>11, <2>12, AddsLess
  <2>14. Adds(d, q, {}, {}) BY <1>6, <2>2, <2>13, AddsReturn DEF label
  <2>15. Keeps(d, q) BY <2>4, <2>5, <2>14 DEF Keeps
  <2> QED BY <2>15 DEF q
<1>11. Keeps(d, Emit(b, u)) BY <1>4, <1>10, KeepsSelf
<1>12. Keeps(d, r) BY <1>5, <1>10, ArgumentsKeep
<1> HIDE DEF r
<1>13. Keeps(d, [r EXCEPT !.stuff = 0]) BY <1>12, CountFromZero, KeepsOn
<1> QED BY <1>1, <1>11, <1>13

LEMMA MemberAddressKeeps ==
  ASSUME NEW e, KeepsExpression(e), NEW s, NEW x
  PROVE  \A d : Keeps(d, member_address(d, s, e, x))
<1> SUFFICES ASSUME NEW d PROVE Keeps(d, member_address(d, s, e, x)) OBVIOUS
<1> DEFINE b == Expression(d, e)
<1>1. Keeps(d, b) BY DEF KeepsExpression
<1>2. \/ member_address(d, s, e, x) = Error(d)
      \/ \E n : member_address(d, s, e, x) =
                   Emit(b, <<<<"loadrr", "R0", "R1">>, <<"addr", "R0", n>>>>)
  BY DEF member_address
<1> HIDE DEF b
<1>3. Plain(<<"loadrr", "R0", "R1">>) /\ \A n : Plain(<<"addr", "R0", n>>)
  BY PlainLines
<1> QED BY <1>1, <1>2, <1>3, EmitLines, ErrorKeeps

LEMMA GlobalAddressKeeps == \A d, x : Keeps(d, global_address(d, x))
<1>1. \A v : Plain(<<"loadr", "R0", <<"v", v>>>>)
  BY DEF Plain, Loopless, References, Last
<1> QED BY <1>1, AddVariableKeeps, EmitLine DEF global_address

LEMMA LocalKeeps == \A d, x, s : Fits(d, s) => Keeps(d, Local(d, x, s))
BY EmitKnown, ErrorKeeps DEF Local

LEMMA TwoOperandsKeep ==
  ASSUME NEW a, KeepsExpression(a), NEW b, KeepsExpression(b), NEW op
  PROVE  \A d : Keeps(d, TwoOperands(d, op, a, b))
<1> SUFFICES ASSUME NEW d PROVE Keeps(d, TwoOperands(d, op, a, b)) OBVIOUS
<1> DEFINE saved == <<"pushar", "R9">>
           shift == op \in {"left_shift", "right_shift"}
           e == IF shift
                THEN Emit(Expression(d, a), <<saved, <<"loadrr", "R9", "R1">>>>)
                ELSE Emit(Expression(Emit(d, <<saved>>), a), <<<<"loadrr", "R9", "R1">>>>)
           s == Binary("R9", op, "R1") \o IF shift THEN <<>> ELSE <<<<"popar", "R9">>>>
<1>1. TwoOperands(d, op, a, b) = Emit(Expression(e, b), s) BY DEF TwoOperands
<1>2. Plain(saved) /\ Plain(<<"loadrr", "R9", "R1">>)
      /\ Plain(<<"popar", "R9">>)
  BY PlainLines
<1>3. Keeps(d, Emit(Expression(d, a), <<saved, <<"loadrr", "R9", "R1">>>>))
  <2> HIDE DEF saved
  <2> QED BY <1>2, EmitLines DEF KeepsExpression
<1>4. Keeps(d, Emit(Expression(Emit(d, <<saved>>), a), <<<<"loadrr", "R9", "R1">>>>))
  <2> HIDE DEF saved
  <2>1. Keeps(d, Emit(d, <<saved>>)) BY <1>2, KeepsSelf, EmitLine
  <2> DEFINE b1 == Emit(d, <<saved>>)
  <2> HIDE DEF b1
  <2>2. Keeps(b1, Expression(b1, a)) BY DEF KeepsExpression
  <2> QED BY <1>2, <2>1, <2>2, KeepsOn, EmitLine DEF b1
<1>5. Keeps(d, e) BY <1>3, <1>4
<1> HIDE DEF e
<1>6. Keeps(e, Expression(e, b)) BY DEF KeepsExpression
<1>7. Neutral(s) BY <1>2, Neutral0, Neutral1, NeutralBinary, NeutralJoin
<1> HIDE DEF s
<1> QED BY <1>1, <1>5, <1>6, <1>7, KeepsOn, EmitAfter

\* The parts that are expressions keep
PartsKeep(t) ==
    /\ \A x \in Operands(t) : KeepsExpression(x)
    /\ Len(Listed(t)) \in Nat
    /\ \A n \in 1 .. Len(Listed(t)) : KeepsExpression(Listed(t)[n])

\* do_expression keeps when its operands do
LEMMA ExpressionKeeps ==
  ASSUME NEW e, e[1] \in ExpressionKinds, PartsKeep(e),
         e[1] = "function" => e[2] \in Taken
  PROVE  \A d : Keeps(d, do_expression(d, e))
<1> SUFFICES ASSUME NEW d PROVE Keeps(d, do_expression(d, e)) OBVIOUS
<1> DEFINE r == do_expression(d, e)
<1> USE DEF PartsKeep
<1>1. CASE e[1] = "num"
  <2>1. r = Emit(d, <<<<"loadr", "R1", k(e[2])>>>>) BY <1>1 DEF do_expression
  <2>2. Plain(<<"loadr", "R1", k(e[2])>>) BY PlainLines
  <2> QED BY <2>1, <2>2, KeepsSelf, EmitLine
<1>2. CASE e[1] = "str"
  <2>1. r = do_string(d, e[2]) BY <1>2 DEF do_expression
  <2> QED BY <2>1, StringKeeps
<1>3. CASE e[1] \in {"var", "addressof"}
  <2> DEFINE x == <<"v", Scoped(d, e[2])>>
  <2>1. \/ r = Local(d, e[2], <<<<"loadrm", "R1", x>>>>)
        \/ r = Local(d, e[2], <<<<"loadr", "R1", x>>>>)
    BY <1>3 DEF do_expression
  <2>2. Plain(<<"loadrm", "R1", x>>) /\ Plain(<<"loadr", "R1", x>>)
    BY DEF Plain, Loopless, References, Last
  <2> QED BY <2>1, <2>2, Neutral1, NeutralFits, LocalKeeps
<1>4. CASE e[1] = "function"
  <2> DEFINE x == <<"loadr", "R1", <<"l", <<"fn", e[2]>>>>>>
  <2>1. r = Emit(d, <<x>>) BY <1>4 DEF do_expression
  <2>2. Loopless(x) /\ x[1] # "label" /\ References(x) = {<<"fn", e[2]>>}
    BY DEF Loopless, References, Last
  <2>3. <<"fn", e[2]>> \in Known(d) BY <1>4 DEF Known
  <2> HIDE DEF x
  <2> QED BY <2>1, <2>2, <2>3, KeepsSelf, EmitReference
<1>5. CASE e[1] = "bin"
  <2>1. KeepsExpression(e[3]) /\ KeepsExpression(e[4]) BY <1>5 DEF Operands
  <2> DEFINE left == Emit(Expression(d, e[3]), <<<<"pushar", "R1">>>>)
             right == Emit(Expression(left, e[4]), <<<<"popar", "R2">>>>)
  <2>2. r = Emit(right, Operation(Operator(e[2]))) BY <1>5 DEF do_expression
  <2>3. Plain(<<"pushar", "R1">>) /\ Plain(<<"popar", "R2">>) BY PlainLines
  <2>4. Keeps(d, left) BY <2>1, <2>3, EmitLine DEF KeepsExpression
  <2> HIDE DEF left
  <2>5. Keeps(left, right) BY <2>1, <2>3, EmitLine DEF KeepsExpression
  <2> HIDE DEF right
  <2> QED BY <2>2, <2>4, <2>5, NeutralOperation, KeepsOn, EmitAfter
<1>6. CASE e[1] \in {"$", "ptr", "alloc"}
  <2>1. KeepsExpression(e[2]) BY <1>6 DEF Operands
  <2> DEFINE b == Expression(d, e[2])
  <2>2. \/ r = Error(d) \/ \E n : r = Emit(b, ArgumentCode(b, n))
        \/ r = Emit(b, Lods) \/ r = Emit(b, <<<<"call", <<"alloc_n">>>>>>)
    BY <1>6 DEF do_expression
  <2>3. Keeps(d, b) BY <2>1 DEF KeepsExpression
  <2> HIDE DEF b
  <2>4. Plain(<<"call", <<"alloc_n">>>>) BY PlainLines DEF Always
  <2> QED BY <2>2, <2>3, <2>4, NeutralArgument, NeutralMoves, EmitLine, EmitAfter,
             ErrorKeeps
<1>7. CASE e[1] = "two"
  <2>1. KeepsExpression(e[3]) /\ KeepsExpression(e[4]) BY <1>7 DEF Operands
  <2>2. r = TwoOperands(d, e[2], e[3], e[4]) BY <1>7 DEF do_expression
  <2> QED BY <2>1, <2>2, TwoOperandsKeep
<1>8. CASE e[1] = "one"
  <2>1. KeepsExpression(e[3]) BY <1>8 DEF Operands
  <2>2. r = Emit(Expression(d, e[3]), Unary(e[2])) BY <1>8 DEF do_expression
  <2> QED BY <2>1, <2>2, NeutralUnary, EmitAfter DEF KeepsExpression
<1>9. CASE e[1] = "sizeof"
  <2>1. KeepsExpression(e[2]) BY <1>9 DEF Operands
  <2> DEFINE b == Expression(d, e[2])
  <2>2. Keeps(d, b) BY <2>1 DEF KeepsExpression
  <2>3. r = Error(b) \/ \E n : r = Emit(b, <<<<"loadr", "R1", k(n)>>>>)
    BY <1>9 DEF do_expression
  <2> HIDE DEF b
  <2>4. \A n : Plain(<<"loadr", "R1", k(n)>>) BY PlainLines
  <2>5. Keeps(d, Error(b)) BY <2>2, ErrorKeeps, KeepsOn
  <2>6. \A n : Keeps(d, Emit(b, <<<<"loadr", "R1", k(n)>>>>)) BY <2>2, <2>4, EmitLine
  <2> QED BY <2>3, <2>5, <2>6
<1>10. CASE e[1] = "global"
  <2>1. r = Emit(global_address(d, e[2]), <<<<"lods">>>>) BY <1>10 DEF do_expression
  <2>2. Plain(<<"lods">>) BY PlainLines
  <2> QED BY <2>1, <2>2, GlobalAddressKeeps, EmitLine
<1>11. CASE e[1] = "member"
  <2>1. KeepsExpression(e[3]) BY <1>11 DEF Operands
  <2>2. r = Emit(member_address(d, e[2], e[3], e[4]), <<<<"lods">>>>)
    BY <1>11 DEF do_expression
  <2>3. Plain(<<"lods">>) BY PlainLines
  <2> QED BY <2>1, <2>2, <2>3, MemberAddressKeeps, EmitLine
<1>12. CASE e[1] = "@"
  <2>1. Listed(e) = e[3] BY <1>12 DEF Listed
  <2>2. r = do_function_call(d, e[2], e[3]) BY <1>12 DEF do_expression
  <2> QED BY <2>1, <2>2, FunctionCallKeeps
<1>13. CASE e[1] = "raw_call"
  <2>1. Listed(e) = e[3] /\ KeepsExpression(e[2]) BY <1>13 DEF Listed, Operands
  <2>2. r = raw_call(d, e[2], e[3]) BY <1>13 DEF do_expression
  <2> QED BY <2>1, <2>2, RawCallKeeps
<1> QED
  BY <1>1, <1>2, <1>3, <1>4, <1>5, <1>6, <1>7, <1>8, <1>9, <1>10, <1>11, <1>12,
     <1>13 DEF ExpressionKinds

-----------------------------------------------------------------------------
(* The trees of a program.                                                  *)

LEMMA TreesClosed ==
  ASSUME NEW p, NEW t \in Trees(p)
  PROVE  t \in DOMAIN Nesting /\ Parts(t) \subseteq Trees(p)
<1>1. t \in DOMAIN Nesting BY DEF Trees
<1>2. ASSUME NEW x \in Parts(t) PROVE x \in Trees(p)
  <2>1. x \in DOMAIN Nesting BY <1>1, NestingAssumption DEF Ranks
  <2>2. ASSUME NEW T \in SUBSET DOMAIN Nesting, ToSet(p) \subseteq T,
               \A y \in T : Parts(y) \subseteq T
        PROVE  x \in T
    <3>1. t \in T BY <2>2 DEF Trees
    <3> QED BY <2>2, <3>1
  <2> QED BY <2>1, <2>2 DEF Trees
<1> QED BY <1>1, <1>2

\* So every expression of the source keeps, by induction on how deep it nests
LEMMA EveryExpressionKeeps ==
  ASSUME Recursive
  PROVE  \A e \in Trees(source) : e[1] \in ExpressionKinds => KeepsExpression(e)
<1> DEFINE Bad == {e \in Trees(source) :
                      e[1] \in ExpressionKinds /\ ~KeepsExpression(e)}
           T == {Nesting[e] : e \in Bad}
<1> SUFFICES ASSUME Bad # {} PROVE FALSE OBVIOUS
<1>1. T \in SUBSET Nat /\ T # {} BY TreesClosed, NestingAssumption DEF Ranks
<1>2. PICK e \in Bad : \A b \in Bad : Nesting[e] <= Nesting[b]
  <2>1. PICK x \in T : \A y \in T : x <= y BY <1>1, LeastNat
  <2> QED BY <2>1
<1>3. \A x \in Parts(e) : x[1] \in ExpressionKinds => KeepsExpression(x)
  <2> SUFFICES ASSUME NEW x \in Parts(e), x[1] \in ExpressionKinds, ~KeepsExpression(x)
               PROVE  FALSE
    OBVIOUS
  <2>1. e \in DOMAIN Nesting /\ x \in Trees(source) BY TreesClosed
  <2>2. /\ x \in DOMAIN Nesting /\ Nesting[x] < Nesting[e]
        /\ Nesting[e] \in Nat /\ Nesting[x] \in Nat
    BY <2>1, NestingAssumption DEF Ranks
  <2>3. x \in Bad BY <2>1
  <2>4. Nesting[e] <= Nesting[x] BY <1>2, <2>3
  <2> QED BY <2>2, <2>4
<1>4. PartsKeep(e)
  <2>1. e \in DOMAIN Nesting /\ e[1] \in ExpressionKinds BY TreesClosed
  <2>2. e[1] # "print" BY <2>1 DEF ExpressionKinds
  <2>3. \A x \in Operands(e) : KeepsExpression(x)
    BY <1>3, <2>1, NestingAssumption DEF Ranks, Parts
  <2>4. Listed(e) \in Seq(DOMAIN Nesting) BY <2>1, NestingAssumption DEF Ranks
  <2>5. ASSUME NEW n \in 1 .. Len(Listed(e)) PROVE KeepsExpression(Listed(e)[n])
    <3>1. Listed(e)[n] \in ToSet(Listed(e)) BY <2>4 DEF ToSet
    <3> QED BY <1>3, <2>1, <2>2, <3>1, NestingAssumption DEF Ranks, Parts
  <2> QED BY <2>3, <2>4, <2>5 DEF PartsKeep
<1>5. \A d : Expression(d, e) = do_expression(d, e) BY TreesClosed DEF Recursive
<1>6. e[1] = "function" => e[2] \in Taken BY DEF Taken
<1>7. KeepsExpression(e) BY <1>4, <1>5, <1>6, ExpressionKeeps DEF KeepsExpression
<1> QED BY <1>7

-----------------------------------------------------------------------------
(* Statements.                                                              *)

\* An expression, with something emitted before and after
LEMMA EmitExpression ==
  ASSUME NEW e, KeepsExpression(e), NEW a, NEW d, Keeps(a, d)
  PROVE  Keeps(a, Expression(d, e))
BY KeepsOn DEF KeepsExpression

\* A call of a routine that PRINT needs, after whatever else
LEMMA UsesKnown ==
  ASSUME NEW d, NEW u \in Routines, Sound(d)
  PROVE  <<u>> \in Known(Uses(d, {u}))
<1> DEFINE r == Uses(d, {u})
<1>1. "uses" \in DOMAIN d BY DEF Sound, HasFields, Fields
<1>2. u \in r.uses BY <1>1 DEF Uses
<1> HIDE DEF r
<1>3. <<u>> \in Known(r) BY <1>2 DEF Known
<1> QED BY <1>3 DEF r

LEMMA EmitRoutine ==
  ASSUME NEW d, NEW u \in Routines, NEW r, Keeps(Uses(d, {u}), r)
  PROVE  Keeps(d, Emit(r, Calls(<<u>>)))
<1> DEFINE a == Uses(d, {u})
<1>1. Keeps(d, a) BY UsesKeeps
<1>2. Keeps(d, r) BY <1>1, KeepsOn
<1> SUFFICES ASSUME Sound(d) PROVE Keeps(d, Emit(r, Calls(<<u>>)))
  BY DEF Keeps, Spares
<1>3. <<u>> \in Known(a) BY UsesKnown
<1> HIDE DEF a
<1>4. Sound(a) BY <1>1 DEF Keeps, Spares
<1>5. Known(a) \subseteq Known(r) BY <1>4 DEF Keeps, Adds, a
<1>6. Fits(r, Calls(<<u>>)) BY <1>3, <1>5, FitsRoutine
<1> QED BY <1>2, <1>6, EmitKnown, KeepsOn

\* An item keeps when it is an expression that does, or has one as its part
KeepsItem(e) == \A d : Keeps(d, do_print_item(d, e))

LEMMA ItemKeeps ==
  ASSUME NEW e, e[1] \in ItemKinds, e[1] \in ExpressionKinds => KeepsExpression(e),
         e[1] = "%" => KeepsExpression(e[2])
  PROVE  KeepsItem(e)
<1> SUFFICES ASSUME NEW d PROVE Keeps(d, do_print_item(d, e)) BY DEF KeepsItem
<1>1. CASE e[1] = "str"
  <2> DEFINE b == Uses(d, {"print_s"})
  <2>1. do_print_item(d, e) = Emit(do_string(b, e[2]), Calls(<<"print_s">>))
    BY <1>1 DEF do_print_item
  <2> QED BY <2>1, StringKeeps, EmitRoutine DEF Routines
<1>2. CASE e[1] = "$var"
  <2> DEFINE b == Uses(d, {"print_s"})
  <2> DEFINE s == <<Push("R1"), <<"loadrm", "R1", <<"v", Scoped(d, e[2])>>>>>>
             t == <<Pop("R1")>>
             u == s \o Calls(<<"print_s">>) \o t
  <2>1. do_print_item(d, e) = Local(b, e[2], u)
    <3> HIDE DEF u
    <3> QED BY <1>2 DEF do_print_item, u
  <2>2. Keeps(d, b) BY UsesKeeps
  <2>3. Plain(<<"loadrm", "R1", <<"v", Scoped(d, e[2])>>>>) BY PlainLines
  <2>4. Neutral(s) /\ Neutral(t) BY <2>3, PlainLines, Neutral1, Neutral2
  <2> HIDE DEF s, t
  <2>5. Sound(d) => Fits(b, Calls(<<"print_s">>))
    BY UsesKnown, FitsRoutine DEF Routines
  <2>6. Sound(d) => Fits(b, u) BY <2>4, <2>5, NeutralFits, FitsJoin
  <2> HIDE DEF u, b
  <2> SUFFICES ASSUME Sound(d) PROVE Keeps(d, do_print_item(d, e)) BY DEF Keeps, Spares
  <2> QED BY <2>1, <2>2, <2>6, LocalKeeps, KeepsOn
<1>3. CASE e[1] = "%"
  <2>1. do_print_item(d, e) = Emit(Expression(d, e[2]), Calls(<<"print_f">>))
    BY <1>3 DEF do_print_item
  <2>2. Neutral(Calls(<<"print_f">>)) BY NeutralMoves DEF Always
  <2> QED BY <1>3, <2>1, <2>2, EmitAfter DEF KeepsExpression
<1>4. CASE e[1] \notin {"str", "$var", "%"}
  <2> DEFINE b == Uses(d, {"print_i"})
  <2>1. do_print_item(d, e) = Emit(Expression(b, e), Calls(<<"print_i">>))
    BY <1>4 DEF do_print_item
  <2>2. KeepsExpression(e) BY <1>4 DEF ItemKinds
  <2>3. Keeps(b, Expression(b, e)) BY <2>2 DEF KeepsExpression
  <2> QED BY <2>1, <2>3, EmitRoutine DEF Routines
<1> QED BY <1>1, <1>2, <1>3, <1>4

LEMMA PrintKeeps ==
  ASSUME NEW items, NEW semi, Len(items) \in Nat, \A n \in 1 .. Len(items) : KeepsItem(items[n])
  PROVE  \A d : Keeps(d, do_print(d, items, semi))
<1> SUFFICES ASSUME NEW d PROVE Keeps(d, do_print(d, items, semi)) OBVIOUS
<1> DEFINE a == Uses(d, {"print_n"})
           p == ItemsPrinted(a, items, semi)
           S == {n \in Nat : n <= Len(items) => Keeps(a, p[n])}
<1>1. Keeps(a, a) BY KeepsSelf
<1>2. \A n \in 0 .. Len(items) :
         p[n] = IF n = 0 THEN a ELSE PrintNext(p[n - 1], items, semi, n)
  BY PrintedDefined
<1> HIDE DEF p, a
<1>3. 0 \in S
  <2>1. p[0] = a BY <1>2
  <2> QED BY <1>1, <2>1
<1>4. ASSUME NEW n \in S PROVE n + 1 \in S
  <2> SUFFICES ASSUME n + 1 <= Len(items) PROVE Keeps(a, p[n + 1]) OBVIOUS
  <2>1. Keeps(a, p[n]) /\ KeepsItem(items[n + 1]) OBVIOUS
  <2>2. p[n + 1] = PrintNext(p[n], items, semi, n + 1) BY <1>2
  <2>3. CASE n = 0 \/ n + 1 \in semi
    <3>1. p[n + 1] = do_print_item(p[n], items[n + 1]) BY <2>2, <2>3 DEF PrintNext
    <3> QED BY <2>1, <3>1, KeepsOn DEF KeepsItem
  <2>4. CASE n # 0 /\ n + 1 \notin semi
    <3> DEFINE b == Emit(Uses(p[n], {"print_t"}), Calls(<<"print_t">>))
    <3>1. p[n + 1] = do_print_item(b, items[n + 1]) BY <2>2, <2>4 DEF PrintNext
    <3>2. Keeps(p[n], b) BY KeepsSelf, EmitRoutine DEF Routines
    <3>3. Keeps(a, b) BY <2>1, <3>2, KeepsOn
    <3> HIDE DEF b
    <3> QED BY <2>1, <3>1, <3>3, KeepsOn DEF KeepsItem
  <2> QED BY <2>3, <2>4
<1> HIDE DEF S
<1>5. Len(items) \in S BY <1>3, <1>4, InductionOnNat DEF S
<1>6. Keeps(a, p[Len(items)]) BY <1>5 DEF S
<1> QED BY <1>6, EmitRoutine DEF do_print, p, a, Routines

LEMMA InputKeeps ==
  ASSUME NEW buffer, KeepsExpression(buffer), NEW count, KeepsExpression(count)
  PROVE  \A d : Keeps(d, do_input(d, buffer, count))
<1> SUFFICES ASSUME NEW d PROVE Keeps(d, do_input(d, buffer, count)) OBVIOUS
<1> DEFINE a == Emit(d, <<Push("R0")>>)
           b == Emit(Expression(a, buffer), <<<<"loadrr", "R0", "R1">>>>)
           e == Expression(b, count)
           s == <<Push("R0"), <<"call", <<"input_i">>>>, Pop("R0"),
                  <<"loadrr", "R1", "R0">>, Pop("R0")>>
<1>1. do_input(d, buffer, count) = Emit(e, s) BY DEF do_input
<1>2. Plain(<<"call", <<"input_i">>>>) /\ Plain(<<"loadrr", "R1", "R0">>)
      /\ Plain(<<"loadrr", "R0", "R1">>)
  BY PlainLines DEF Always
<1>3. Neutral(s) BY <1>2, PlainLines, Neutral5
<1> HIDE DEF s
<1>4. Keeps(d, a) BY KeepsSelf, PlainLines, EmitLine
<1> HIDE DEF a
<1>5. Keeps(d, b) BY <1>4, <1>2, EmitExpression, EmitLine
<1> HIDE DEF b
<1>6. Keeps(d, e) BY <1>5, EmitExpression
<1> HIDE DEF e
<1> QED BY <1>1, <1>6, <1>3, EmitAfter

LEMMA LetKeeps ==
  ASSUME NEW e, KeepsExpression(e), NEW x
  PROVE  \A d : Keeps(d, do_let(d, x, e))
<1> SUFFICES ASSUME NEW d PROVE Keeps(d, do_let(d, x, e)) OBVIOUS
<1> DEFINE a == add_variable(d, Scoped(d, x))
           y == <<"loadr", "R0", <<"v", Scoped(d, x)>>>>
<1>1. do_let(d, x, e) = Emit(Expression(a, e), <<y, <<"stos">>>>) BY DEF do_let
<1>2. Keeps(d, a) BY AddVariableKeeps
<1> HIDE DEF a
<1>3. Plain(y) /\ Plain(<<"stos">>) BY PlainLines DEF Plain, Loopless, References, Last
<1> HIDE DEF y
<1> QED BY <1>1, <1>2, <1>3, EmitExpression, EmitLines

LEMMA LetPtrKeeps ==
  ASSUME NEW a, KeepsExpression(a), NEW e, KeepsExpression(e)
  PROVE  \A d : Keeps(d, do_let_ptr(d, a, e))
<1> SUFFICES ASSUME NEW d PROVE Keeps(d, do_let_ptr(d, a, e)) OBVIOUS
<1> DEFINE b == Emit(Expression(d, a), <<<<"loadrr", "R5", "R1">>>>)
<1>1. do_let_ptr(d, a, e) = Emit(Expression(b, e), Stos) BY DEF do_let_ptr
<1>2. Keeps(d, b)
  <2>1. Plain(<<"loadrr", "R5", "R1">>) BY PlainLines
  <2> QED BY <2>1, EmitLine DEF KeepsExpression
<1> HIDE DEF b
<1> QED BY <1>1, <1>2, EmitExpression, NeutralMoves, EmitAfter

LEMMA LetTypecastKeeps ==
  ASSUME NEW e, KeepsExpression(e)
  PROVE  \A d : Keeps(d, do_let_typecast(d, e))
<1> SUFFICES ASSUME NEW d PROVE Keeps(d, do_let_typecast(d, e)) OBVIOUS
<1> DEFINE b == Emit(d, <<<<"pushar", "R0">>>>)
<1>1. do_let_typecast(d, e) = Emit(Expression(b, e), <<<<"popar", "R0">>, <<"stos">>>>)
  BY DEF do_let_typecast
<1>2. Plain(<<"pushar", "R0">>) /\ Plain(<<"popar", "R0">>) /\ Plain(<<"stos">>)
  BY PlainLines
<1>3. Keeps(d, b) BY <1>2, KeepsSelf, EmitLine
<1> HIDE DEF b
<1> QED BY <1>1, <1>3, <1>2, EmitExpression, EmitLines

LEMMA LoopFreeLine ==
  ASSUME NEW x, Loopless(x)
  PROVE  LoopFree(<<x>>)
<1> DEFINE s == <<x>>
<1>1. s \in Seq({x}) /\ Len(s) = 1 /\ s[1] = x OBVIOUS
<1> HIDE DEF s
<1>2. LoopFree(s) BY <1>1 DEF LoopFree, IsTable
<1> QED BY <1>2 DEF s

LEMMA InFunctionSpares ==
  ASSUME NEW d, NEW x, Loopless(x)
  PROVE  Spares(d, InFunction(d, <<x>>))
BY LoopFreeLine, EmitSpares, ErrorKeeps DEF InFunction, Keeps

\* The code of a function begins with its label
FunctionHead(f) ==
    <<<<"label", <<"fn", f>>>>>>
      \o IF f = "main" THEN Calls(<<"__internal_init">>) ELSE <<>>

LEMMA HeadPart ==
  ASSUME NEW f
  PROVE  Part(FunctionHead(f), {<<"fn", f>>}, Always) /\ LoopFree(FunctionHead(f))
<1> DEFINE l == <<"fn", f>>
           s == <<<<"label", l>>>>
           t == IF f = "main" THEN Calls(<<"__internal_init">>) ELSE <<>>
<1>1. FunctionHead(f) = s \o t BY DEF FunctionHead
<1>2. Neutral(t) BY NeutralMoves, Neutral0 DEF Always
<1>3. LoopFree(s)
  <2>1. Loopless(<<"label", l>>) BY DEF Loopless
  <2> QED BY <2>1, LoopFreeLine
<1>4. Part(s, {l}, {}) BY LabelPart
<1> HIDE DEF s, t, l
<1>5. Part(t, {}, Always) /\ LoopFree(t) BY <1>2, NeutralPart
<1>6. Part(s \o t, {l} \cup {}, {} \cup Always) BY <1>4, <1>5, PartJoin
<1>7. {l} \cup {} = {l} /\ {} \cup Always = Always OBVIOUS
<1>8. Part(s \o t, {l}, Always) BY <1>6, <1>7
<1>9. LoopFree(s \o t) BY <1>3, <1>5, LoopFreeJoin
<1> QED BY <1>1, <1>8, <1>9 DEF l

LEMMA FuncSpares == \A d, f, args : Spares(d, do_func(d, f, args))
<1> SUFFICES ASSUME NEW d, NEW f, NEW args, Sound(d) PROVE Spares(d, do_func(d, f, args))
  BY DEF Spares
<1> DEFINE b == add_to_function_table(d, f, args, "internal", "none")
           r == Emit(b, FunctionHead(f))
<1>1. do_func(d, f, args) = [r EXCEPT !.fn = f] BY DEF do_func, FunctionHead
<1>2. Spares(d, b)
  <2>1. CASE Refused(d, f)
    BY <2>1, ErrorKeeps DEF add_to_function_table, Refused, Keeps
  <2>2. CASE ~Refused(d, f)
    <3>1. Sound(b) /\ SameLoops(d, b)
          /\ \A x \in Fields \ {"functions", "total_functions", "past"} : b[x] = d[x]
      BY <2>2, FunctionAdded
    <3> HIDE DEF b
    <3>2. b.code = d.code BY <3>1 DEF Fields
    <3> QED BY <3>1, <3>2, ExtendsSelf DEF Spares, Sound
  <2> QED BY <2>1, <2>2
<1> HIDE DEF b
<1>3. Spares(d, r) BY <1>2, HeadPart, EmitSpares, SparesOn
<1> HIDE DEF r
<1>4. Spares(r, [r EXCEPT !.fn = f]) BY SetSpares DEF FreeFields
<1> QED BY <1>1, <1>3, <1>4, SparesOn

LEMMA EndFuncSpares == \A d : Spares(d, do_endf(d))
BY SetSpares, ErrorKeeps DEF do_endf, FreeFields, Keeps

LEMMA StructSpares ==
  \A d, s, declared, members : Spares(d, do_struct(d, s, declared, members))
<1> SUFFICES ASSUME NEW d, NEW s, NEW declared, NEW members
             PROVE  Spares(d, do_struct(d, s, declared, members))
  OBVIOUS
<1> DEFINE b == AddStruct(d, s, members)
           n == b.line + 1 + declared
<1>1. \/ do_struct(d, s, declared, members) = Error(d)
      \/ do_struct(d, s, declared, members) = [b EXCEPT !.line = n]
  BY DEF do_struct
<1>2. Spares(d, b) BY AddStructKeeps DEF Keeps
<1>3. Spares(d, Error(d)) BY ErrorKeeps DEF Keeps
<1> HIDE DEF b, n
<1>4. Spares(b, [b EXCEPT !.line = n]) BY SetSpares DEF FreeFields
<1> QED BY <1>1, <1>2, <1>3, <1>4, SparesOn

-----------------------------------------------------------------------------
(* The innermost statement of IFs.                                          *)

\* g is right about the statements that nest less than n deep
Solves(g, n) ==
    \A t \in DOMAIN Nesting :
        Nesting[t] < n => g[t] = IF t[1] = "if" THEN g[t[3]] ELSE t[1]

LEMMA BodyNestsLess ==
  ASSUME NEW t \in DOMAIN Nesting, t[1] = "if"
  PROVE  /\ t[3] \in DOMAIN Nesting /\ Nesting[t[3]] < Nesting[t]
         /\ Nesting[t] \in Nat /\ Nesting[t[3]] \in Nat
         /\ t[3][1] \in StatementKinds
<1>1. t[3] \in Bodies(t) BY DEF Bodies
<1> QED BY <1>1, NestingAssumption DEF Ranks, Parts

LEMMA SolutionsExist == \A n \in Nat : \E g : Solves(g, n)
<1> DEFINE S == {n \in Nat : \E g : Solves(g, n)}
<1>1. 0 \in S
  <2>1. Solves(<<>>, 0) BY NestingAssumption DEF Solves, Ranks
  <2> QED BY <2>1
<1>2. ASSUME NEW n \in S PROVE n + 1 \in S
  <2>1. PICK g : Solves(g, n) OBVIOUS
  <2> DEFINE h == [t \in DOMAIN Nesting |->
                     IF Nesting[t] = n THEN IF t[1] = "if" THEN g[t[3]] ELSE t[1]
                                       ELSE g[t]]
  <2>2. ASSUME NEW t \in DOMAIN Nesting, Nesting[t] < n + 1
        PROVE  h[t] = IF t[1] = "if" THEN h[t[3]] ELSE t[1]
    <3>1. Nesting[t] \in Nat BY NestingAssumption DEF Ranks
    <3>2. t[1] = "if" => h[t[3]] = g[t[3]] BY <2>2, <3>1, BodyNestsLess
    <3>3. CASE Nesting[t] = n
      <4>1. h[t] = IF t[1] = "if" THEN g[t[3]] ELSE t[1] BY <3>3
      <4> QED BY <3>2, <4>1
    <3>4. CASE Nesting[t] # n
      <4>1. h[t] = g[t] BY <3>4
      <4>2. Nesting[t] < n BY <2>2, <3>1, <3>4
      <4>3. g[t] = IF t[1] = "if" THEN g[t[3]] ELSE t[1] BY <2>1, <4>2 DEF Solves
      <4> QED BY <3>2, <4>1, <4>3
    <3> QED BY <3>3, <3>4
  <2> HIDE DEF h
  <2>3. Solves(h, n + 1) BY <2>2 DEF Solves
  <2>4. \E b : Solves(b, n + 1) BY <2>3
  <2> QED BY <2>4
<1> HIDE DEF S
<1>3. S = Nat BY <1>1, <1>2, InductionOnNat DEF S
<1> QED BY <1>3 DEF S

LEMMA SolutionsAgree ==
  ASSUME NEW g, NEW h, NEW n \in Nat, Solves(g, n), Solves(h, n)
  PROVE  \A t \in DOMAIN Nesting : Nesting[t] < n => g[t] = h[t]
<1> DEFINE Bad == {t \in DOMAIN Nesting : Nesting[t] < n /\ g[t] # h[t]}
           T == {Nesting[t] : t \in Bad}
<1> SUFFICES ASSUME Bad # {} PROVE FALSE OBVIOUS
<1>1. T \in SUBSET Nat /\ T # {} BY NestingAssumption DEF Ranks
<1>2. PICK t \in Bad : \A b \in Bad : Nesting[t] <= Nesting[b]
  <2>1. PICK x \in T : \A y \in T : x <= y BY <1>1, LeastNat
  <2> QED BY <2>1
<1>3. t[1] = "if"
  <2>1. t[1] # "if" => g[t] = t[1] /\ h[t] = t[1] BY DEF Solves
  <2> QED BY <2>1
<1>4. t[3] \in DOMAIN Nesting /\ Nesting[t[3]] < Nesting[t]
      /\ Nesting[t] \in Nat /\ Nesting[t[3]] \in Nat
  BY <1>3, BodyNestsLess
<1>5. g[t] = g[t[3]] /\ h[t] = h[t[3]] BY <1>3 DEF Solves
<1>6. t[3] \notin Bad BY <1>2, <1>4
<1> QED BY <1>4, <1>5, <1>6

LEMMA InnermostDefined ==
  \A t \in DOMAIN Nesting :
      Innermost[t] = IF t[1] = "if" THEN Innermost[t[3]] ELSE t[1]
<1> DEFINE G(n) == CHOOSE g : Solves(g, n)
           f == [t \in DOMAIN Nesting |-> G(Nesting[t] + 1)[t]]
<1>1. \A n \in Nat : Solves(G(n), n) BY SolutionsExist
<1> HIDE DEF G
<1>2. ASSUME NEW t \in DOMAIN Nesting
      PROVE  f[t] = IF t[1] = "if" THEN f[t[3]] ELSE t[1]
  <2>1. Nesting[t] \in Nat BY NestingAssumption DEF Ranks
  <2> DEFINE n == Nesting[t] + 1
  <2>2. n \in Nat /\ Nesting[t] < n BY <2>1
  <2>3. f[t] = G(n)[t] OBVIOUS
  <2>4. G(n)[t] = IF t[1] = "if" THEN G(n)[t[3]] ELSE t[1]
    <3> HIDE DEF n
    <3> QED BY <1>1, <2>2 DEF Solves
  <2>5. CASE t[1] = "if"
    <3> DEFINE b == t[3]
               m == Nesting[b] + 1
    <3>1. b \in DOMAIN Nesting /\ Nesting[b] < Nesting[t] /\ Nesting[b] \in Nat
      BY <2>5, BodyNestsLess
    <3>2. m \in Nat /\ Nesting[b] < m /\ m <= n BY <2>1, <3>1
    <3>3. f[b] = G(m)[b] BY <3>1
    <3> HIDE DEF b, n, m
    <3>4. Solves(G(m), m) /\ Solves(G(n), n) BY <1>1, <2>2, <3>2
    <3>5. Solves(G(n), m)
      <4>1. \A s \in DOMAIN Nesting : Nesting[s] \in Nat
        BY NestingAssumption DEF Ranks
      <4> QED BY <2>2, <3>2, <3>4, <4>1 DEF Solves
    <3>6. G(n)[b] = G(m)[b] BY <3>1, <3>2, <3>4, <3>5, SolutionsAgree
    <3> QED BY <2>3, <2>4, <2>5, <3>3, <3>6 DEF b
  <2>6. CASE t[1] # "if" BY <2>3, <2>4, <2>6
  <2> QED BY <2>5, <2>6
<1> HIDE DEF f
<1>3. f = [t \in DOMAIN Nesting |-> IF t[1] = "if" THEN f[t[3]] ELSE t[1]]
  <2>1. f = [t \in DOMAIN Nesting |-> f[t]] BY DEF f
  <2> QED BY <1>2, <2>1
<1> DEFINE Is(g) == g = [t \in DOMAIN Nesting |-> IF t[1] = "if" THEN g[t[3]] ELSE t[1]]
<1>4. \E g : Is(g) BY <1>3
<1>5. Innermost = CHOOSE g : Is(g) BY DEF Innermost
<1>6. Is(Innermost) BY <1>4, <1>5
<1> QED BY <1>6

-----------------------------------------------------------------------------
(* What a statement does to the loops.                                      *)

LoopFields == {"currentwhile", "while_stack", "whilelines", "outside"}

\* New code is the old code and lines of which two name a loop, x and y
Names(old, new, x, y) ==
    /\ Len(old) <= Len(new)
    /\ \A n \in 1 .. Len(old) : new[n] = old[n]
    /\ \E p, q \in Len(old) + 1 .. Len(new) :
          /\ p # q /\ new[p] = x /\ new[q] = y
          /\ \A n \in Len(old) + 1 .. Len(new) : n # p /\ n # q => Loopless(new[n])

LoopOpened(d, r) ==
    LET n == d.whilelines
    IN /\ r.currentwhile = d.currentwhile - 1
       /\ r.whilelines = n + 1
       /\ DOMAIN r.while_stack = DOMAIN d.while_stack
       /\ ~(d.currentwhile < 0) =>
             /\ r.outside = d.outside
             /\ r.while_stack = [d.while_stack EXCEPT ![d.currentwhile] = n]
       /\ Names(d.code, r.code, <<"label", <<"while", n>>>>, <<"je", <<"endwhile", n>>>>)

LoopClosed(d, r) ==
    LET n == d.while_stack[d.currentwhile + 1]
    IN d.currentwhile + 1 \in DOMAIN d.while_stack =>
        /\ r.currentwhile = d.currentwhile + 1
        /\ r.whilelines = d.whilelines
        /\ r.while_stack = d.while_stack
        /\ r.outside = d.outside
        /\ Names(d.code, r.code, <<"jmp", <<"while", n>>>>, <<"label", <<"endwhile", n>>>>)

Effect(kind, d, r) ==
    Sound(d) => /\ Sound(r)
                /\ kind \notin {"while", "endw"} =>
                      SameLoops(d, r) /\ Extends(d.code, r.code)
                /\ kind = "while" => LoopOpened(d, r)
                /\ kind = "endw" => LoopClosed(d, r)

LEMMA NamesBetween ==
  ASSUME NEW s, NEW t, NEW u, NEW v, NEW x, NEW y,
         IsTable(s), IsTable(t), IsTable(u), IsTable(v),
         Extends(s, t), Names(t, u, x, y), Extends(u, v)
  PROVE  Names(s, v, x, y)
<1>1. /\ Len(s) \in Nat /\ Len(t) \in Nat /\ Len(u) \in Nat /\ Len(v) \in Nat
      /\ Len(s) <= Len(t) /\ Len(t) <= Len(u) /\ Len(u) <= Len(v)
  BY TableIsSequence DEF Extends, Names
<1>2. /\ \A n \in 1 .. Len(s) : t[n] = s[n]
      /\ \A n \in Len(s) + 1 .. Len(t) : Loopless(t[n])
      /\ \A n \in 1 .. Len(t) : u[n] = t[n]
      /\ \A n \in 1 .. Len(u) : v[n] = u[n]
      /\ \A n \in Len(u) + 1 .. Len(v) : Loopless(v[n])
  BY DEF Extends, Names
<1>3. PICK p, q \in Len(t) + 1 .. Len(u) :
         /\ p # q /\ u[p] = x /\ u[q] = y
         /\ \A n \in Len(t) + 1 .. Len(u) : n # p /\ n # q => Loopless(u[n])
  BY DEF Names
<1>4. /\ p \in Len(s) + 1 .. Len(v) /\ q \in Len(s) + 1 .. Len(v)
      /\ v[p] = x /\ v[q] = y
  BY <1>1, <1>2, <1>3
<1>5. ASSUME NEW n \in Len(s) + 1 .. Len(v), n # p, n # q PROVE Loopless(v[n])
  <2>1. CASE n <= Len(t)
    <3>1. v[n] = t[n] /\ n \in Len(s) + 1 .. Len(t) BY <1>1, <1>2, <2>1
    <3> QED BY <1>2, <3>1
  <2>2. CASE ~(n <= Len(t)) /\ n <= Len(u)
    <3>1. v[n] = u[n] /\ n \in Len(t) + 1 .. Len(u) BY <1>1, <1>2, <2>2
    <3> QED BY <1>3, <1>5, <3>1
  <2>3. CASE ~(n <= Len(u))
    <3>1. n \in Len(u) + 1 .. Len(v) BY <1>1, <2>3
    <3> QED BY <1>2, <3>1
  <2> QED BY <2>1, <2>2, <2>3
<1>6. \A n \in 1 .. Len(s) : v[n] = s[n] BY <1>1, <1>2
<1>7. Len(s) <= Len(v) BY <1>1
<1> QED BY <1>3, <1>4, <1>5, <1>6, <1>7 DEF Names

LEMMA SetLoop ==
  ASSUME NEW d, Sound(d), NEW f \in LoopFields, NEW v
  PROVE  /\ Sound([d EXCEPT ![f] = v])
         /\ [d EXCEPT ![f] = v][f] = v
         /\ [d EXCEPT ![f] = v].code = d.code
         /\ \A x \in LoopFields : x # f => [d EXCEPT ![f] = v][x] = d[x]
         /\ Adds(d, [d EXCEPT ![f] = v], {}, {}) /\ Stays(d, [d EXCEPT ![f] = v])
         /\ [d EXCEPT ![f] = v].err = d.err
<1> DEFINE r == [d EXCEPT ![f] = v]
<1>1. f \in Fields BY DEF LoopFields, Fields
<1>2. HasFields(r) /\ r[f] = v /\ \A x \in Fields : x # f => r[x] = d[x]
  BY <1>1, SetField DEF Sound
<1> HIDE DEF r
<1>3. \A x \in Fields \ LoopFields : r[x] = d[x] BY <1>2
<1>4. /\ r.vars = d.vars /\ r.total_variables = d.total_variables
      /\ r.functions = d.functions /\ r.total_functions = d.total_functions
      /\ r.libs = d.libs /\ r.number_of_native_libs = d.number_of_native_libs
      /\ r.CurrentIndex = d.CurrentIndex /\ r.NumberOfStructs = d.NumberOfStructs
      /\ r.past = d.past /\ r.code = d.code /\ r.strings = d.strings
      /\ r.label_num = d.label_num /\ r.line = d.line /\ r.fn = d.fn
      /\ r.uses = d.uses /\ r.err = d.err
  BY <1>3 DEF Fields, LoopFields
<1>5. Sound(r) BY <1>2, <1>4 DEF Sound, TablesHold
<1>6. \A x \in LoopFields : x # f => r[x] = d[x] BY <1>2 DEF LoopFields, Fields
<1>7. Internal(r) = Internal(d) BY <1>4 DEF Internal
<1>8. Known(r) = Known(d) BY <1>4, <1>7 DEF Known
<1>9. Adds(d, r, {}, {}) BY <1>4, <1>8, NothingAdded
<1> QED BY <1>2, <1>4, <1>5, <1>6, <1>7, <1>9 DEF r, Stays

LEMMA EmitOne ==
  ASSUME NEW d, Sound(d), NEW x
  PROVE  /\ Sound(Emit(d, <<x>>)) /\ SameLoops(d, Emit(d, <<x>>))
         /\ Len(d.code) \in Nat /\ Len(Emit(d, <<x>>).code) = Len(d.code) + 1
         /\ \A n \in 1 .. Len(d.code) : Emit(d, <<x>>).code[n] = d.code[n]
         /\ Emit(d, <<x>>).code[Len(d.code) + 1] = x
<1> DEFINE s == <<x>>
           m == Len(d.code)
           r == Emit(d, s)
<1>1. IsTable(s) /\ Len(s) = 1 /\ s[1] = x
  <2>1. s \in Seq({x}) OBVIOUS
  <2> QED BY <2>1 DEF IsTable
<1> HIDE DEF s
<1>2. /\ Sound(r) /\ SameLoops(d, r) /\ m \in Nat /\ Len(r.code) = m + Len(s)
      /\ \A n \in 1 .. m : r.code[n] = d.code[n]
      /\ \A n \in m + 1 .. m + Len(s) : r.code[n] = s[n - m]
  <2>1. IsTable(s) BY <1>1
  <2> QED BY <2>1, EmitCode
<1> HIDE DEF m, r
<1>3. m + 1 \in m + 1 .. m + Len(s) /\ (m + 1) - m = 1 BY <1>1, <1>2
<1> QED BY <1>1, <1>2, <1>3 DEF s, m, r

LEMMA EmitTwo ==
  ASSUME NEW d, Sound(d), NEW x, NEW y
  PROVE  /\ Sound(Emit(d, <<x, y>>)) /\ SameLoops(d, Emit(d, <<x, y>>))
         /\ Len(d.code) \in Nat /\ Len(Emit(d, <<x, y>>).code) = Len(d.code) + 2
         /\ \A n \in 1 .. Len(d.code) : Emit(d, <<x, y>>).code[n] = d.code[n]
         /\ Emit(d, <<x, y>>).code[Len(d.code) + 1] = x
         /\ Emit(d, <<x, y>>).code[Len(d.code) + 2] = y
<1> DEFINE s == <<x, y>>
           m == Len(d.code)
           r == Emit(d, s)
<1>1. IsTable(s) /\ Len(s) = 2 /\ s[1] = x /\ s[2] = y
  <2>1. s \in Seq({x, y}) OBVIOUS
  <2> QED BY <2>1 DEF IsTable
<1> HIDE DEF s
<1>2. /\ Sound(r) /\ SameLoops(d, r) /\ m \in Nat /\ Len(r.code) = m + Len(s)
      /\ \A n \in 1 .. m : r.code[n] = d.code[n]
      /\ \A n \in m + 1 .. m + Len(s) : r.code[n] = s[n - m]
  <2>1. IsTable(s) BY <1>1
  <2> QED BY <2>1, EmitCode
<1> HIDE DEF m, r
<1>3. /\ m + 1 \in m + 1 .. m + Len(s) /\ (m + 1) - m = 1
      /\ m + 2 \in m + 1 .. m + Len(s) /\ (m + 2) - m = 2
  BY <1>1, <1>2
<1>4. r.code[m + 1] = x /\ r.code[m + 2] = y BY <1>1, <1>2, <1>3
<1> QED BY <1>1, <1>2, <1>4 DEF s, m, r

\* What WHILE does to its two counters
LEMMA CountLoop ==
  ASSUME NEW b, Sound(b)
  PROVE  LET r == [b EXCEPT !.whilelines = @ + 1, !.currentwhile = @ - 1]
         IN /\ Sound(r) /\ r.currentwhile = b.currentwhile - 1
            /\ r.whilelines = b.whilelines + 1 /\ r.code = b.code
            /\ r.while_stack = b.while_stack /\ r.outside = b.outside
            /\ Adds(b, r, {}, {}) /\ Stays(b, r) /\ r.err = b.err
<1> DEFINE w == b.whilelines + 1
           u == b.currentwhile - 1
           f == "whilelines"
           g == "currentwhile"
           e == [b EXCEPT ![f] = w]
           r == [e EXCEPT ![g] = u]
<1>1. [b EXCEPT !.whilelines = @ + 1, !.currentwhile = @ - 1] = r
  BY DEF Sound, HasFields, Fields
<1>2. f \in LoopFields /\ g \in LoopFields /\ f \in Fields /\ g \in Fields
  BY DEF LoopFields, Fields
<1> HIDE DEF w, u, f, g
<1>3. Sound(e) BY <1>2, SetLoop
<1>4. e[f] = w BY <1>2 DEF Sound, HasFields
<1>5. \A x \in Fields : x # f => e[x] = b[x] BY <1>2, SetField DEF Sound
<1>6. Adds(b, e, {}, {}) /\ Stays(b, e) BY <1>2, SetLoop
<1> HIDE DEF e
<1>7. Sound(r) BY <1>2, <1>3, SetLoop
<1>8. r[g] = u BY <1>2, <1>3 DEF Sound, HasFields
<1>9. \A x \in Fields : x # g => r[x] = e[x] BY <1>2, <1>3, SetField DEF Sound
<1>10. Adds(e, r, {}, {}) /\ Stays(e, r) BY <1>2, <1>3, SetLoop
<1> HIDE DEF r
<1>11. Adds(b, r, {} \cup {}, {} \cup {}) BY <1>3, <1>6, <1>7, <1>10, AddsOn
<1>12. {} \cup {} = {} OBVIOUS
<1>13. Adds(b, r, {}, {}) BY <1>11, <1>12
<1>14. Stays(b, r) BY <1>6, <1>10 DEF Stays
<1>15. /\ r.currentwhile = u /\ r.whilelines = w
       /\ r.while_stack = b.while_stack /\ r.outside = b.outside
       /\ r.code = b.code /\ r.err = b.err
  BY <1>4, <1>5, <1>8, <1>9 DEF Fields, f, g
<1> QED BY <1>1, <1>7, <1>13, <1>14, <1>15 DEF w, u

LEMMA WhileOpens ==
  ASSUME NEW e, KeepsExpression(e)
  PROVE  \A d : Effect("while", d, do_while(d, e))
<1> SUFFICES ASSUME NEW d, Sound(d)
             PROVE  Sound(do_while(d, e)) /\ LoopOpened(d, do_while(d, e))
  BY DEF Effect
<1> DEFINE n == d.whilelines
           a == IF d.currentwhile < 0 THEN [d EXCEPT !.outside = TRUE]
                ELSE [d EXCEPT !.while_stack[d.currentwhile] = n]
           x == <<"label", <<"while", n>>>>
           y == <<"je", <<"endwhile", n>>>>
           g == Emit(a, <<x>>)
           h == Expression(g, e)
           z == <<"cmpri", "R1", k(0)>>
           b == Emit(h, <<z, y>>)
           r == [b EXCEPT !.whilelines = @ + 1, !.currentwhile = @ - 1]
<1>1. do_while(d, e) = r BY DEF do_while
<1>2. /\ Sound(a) /\ a.currentwhile = d.currentwhile /\ a.whilelines = n
      /\ DOMAIN a.while_stack = DOMAIN d.while_stack /\ a.code = d.code
      /\ ~(d.currentwhile < 0) =>
            /\ a.outside = d.outside
            /\ a.while_stack = [d.while_stack EXCEPT ![d.currentwhile] = n]
  <2>1. CASE d.currentwhile < 0
    <3> DEFINE f == [d EXCEPT !.outside = TRUE]
    <3>1. a = f BY <2>1
    <3>2. /\ Sound(f) /\ f.code = d.code
          /\ \A m \in LoopFields : m # "outside" => f[m] = d[m]
      BY SetLoop DEF LoopFields
    <3> HIDE DEF f, a
    <3> QED BY <2>1, <3>1, <3>2 DEF LoopFields
  <2>2. CASE ~(d.currentwhile < 0)
    <3> DEFINE w == [d.while_stack EXCEPT ![d.currentwhile] = n]
               f == [d EXCEPT !.while_stack = w]
    <3>1. a = f BY <2>2
    <3>2. DOMAIN w = DOMAIN d.while_stack OBVIOUS
    <3>3. w = [d.while_stack EXCEPT ![d.currentwhile] = n] OBVIOUS
    <3> HIDE DEF w
    <3>4. Sound(f) /\ f.while_stack = w /\ f.code = d.code
          /\ \A m \in LoopFields : m # "while_stack" => f[m] = d[m]
      BY SetLoop DEF LoopFields
    <3> HIDE DEF f, a
    <3> QED BY <3>1, <3>2, <3>4, <3>3 DEF LoopFields
  <2> QED BY <2>1, <2>2
<1> HIDE DEF a
<1>3. Loopless(z) BY DEF Loopless
<1> HIDE DEF x, y, z
<1>4. /\ Sound(g) /\ SameLoops(a, g) /\ Len(a.code) \in Nat
      /\ Len(g.code) = Len(a.code) + 1 /\ g.code[Len(a.code) + 1] = x
      /\ \A m \in 1 .. Len(a.code) : g.code[m] = a.code[m]
  BY <1>2, EmitOne
<1> HIDE DEF g
<1>5. Sound(h) /\ SameLoops(g, h) /\ Extends(g.code, h.code)
  BY <1>4 DEF KeepsExpression, Keeps, Spares
<1> HIDE DEF h
<1>6. /\ Sound(b) /\ SameLoops(h, b) /\ Len(h.code) \in Nat
      /\ Len(b.code) = Len(h.code) + 2
      /\ b.code[Len(h.code) + 1] = z /\ b.code[Len(h.code) + 2] = y
      /\ \A m \in 1 .. Len(h.code) : b.code[m] = h.code[m]
  BY <1>5, EmitTwo
<1> HIDE DEF b
<1>7. Names(d.code, b.code, x, y)
  <2>1. a.code = d.code BY <1>2
  <2> DEFINE first == Len(a.code) + 1
             last == Len(h.code) + 2
  <2>2. /\ Len(g.code) <= Len(h.code)
        /\ \A m \in 1 .. Len(g.code) : h.code[m] = g.code[m]
        /\ \A m \in Len(g.code) + 1 .. Len(h.code) : Loopless(h.code[m])
    BY <1>5 DEF Extends
  <2>3. /\ first \in Len(a.code) + 1 .. Len(b.code)
        /\ last \in Len(a.code) + 1 .. Len(b.code)
        /\ first # last /\ b.code[first] = x /\ b.code[last] = y
    BY <1>4, <1>6, <2>2
  <2>4. ASSUME NEW m \in Len(a.code) + 1 .. Len(b.code), m # first, m # last
        PROVE  Loopless(b.code[m])
    <3>1. CASE m <= Len(h.code)
      <4>1. m \in Len(g.code) + 1 .. Len(h.code) /\ b.code[m] = h.code[m]
        BY <1>4, <1>6, <2>2, <2>4, <3>1
      <4> QED BY <2>2, <4>1
    <3>2. CASE ~(m <= Len(h.code))
      <4>1. m = Len(h.code) + 1 BY <1>4, <1>6, <2>4, <3>2
      <4> QED BY <1>3, <1>6, <4>1
    <3> QED BY <3>1, <3>2
  <2>5. Len(a.code) <= Len(b.code) /\ \A m \in 1 .. Len(a.code) : b.code[m] = a.code[m]
    BY <1>4, <1>6, <2>2
  <2> HIDE DEF first, last
  <2>6. Names(a.code, b.code, x, y) BY <2>3, <2>4, <2>5 DEF Names
  <2> QED BY <2>1, <2>6
<1>8. SameLoops(a, b) BY <1>4, <1>5, <1>6 DEF SameLoops
<1>9. /\ Sound(r) /\ r.currentwhile = b.currentwhile - 1
       /\ r.whilelines = b.whilelines + 1 /\ r.code = b.code
       /\ r.while_stack = b.while_stack /\ r.outside = b.outside
  BY <1>6, CountLoop
<1> HIDE DEF r
<1> QED BY <1>1, <1>2, <1>7, <1>8, <1>9 DEF SameLoops, LoopOpened, x, y

LEMMA EndwCloses == \A d : Effect("endw", d, do_endw(d))
<1> SUFFICES ASSUME NEW d, Sound(d)
             PROVE  Sound(do_endw(d)) /\ LoopClosed(d, do_endw(d))
  BY DEF Effect
<1>1. CASE d.currentwhile + 1 \notin DOMAIN d.while_stack
  <2> DEFINE g == [d EXCEPT !.outside = TRUE]
  <2>1. do_endw(d) = g BY <1>1 DEF do_endw
  <2>2. Sound(g) BY SetLoop DEF LoopFields
  <2> HIDE DEF g
  <2> QED BY <1>1, <2>1, <2>2 DEF LoopClosed
<1>2. CASE d.currentwhile + 1 \in DOMAIN d.while_stack
  <2> DEFINE n == d.while_stack[d.currentwhile + 1]
             x == <<"jmp", <<"while", n>>>>
             y == <<"label", <<"endwhile", n>>>>
             b == Emit(d, <<x, y>>)
             u == b.currentwhile + 1
             r == [b EXCEPT !.currentwhile = u]
  <2>1. do_endw(d) = r BY <1>2 DEF do_endw
  <2> HIDE DEF x, y
  <2>2. /\ Sound(b) /\ SameLoops(d, b) /\ Len(d.code) \in Nat
        /\ Len(b.code) = Len(d.code) + 2
        /\ \A m \in 1 .. Len(d.code) : b.code[m] = d.code[m]
        /\ b.code[Len(d.code) + 1] = x /\ b.code[Len(d.code) + 2] = y
    BY EmitTwo
  <2>3. u = d.currentwhile + 1 BY <2>2 DEF SameLoops
  <2> HIDE DEF b, u
  <2>4. Names(d.code, b.code, x, y)
    <3> DEFINE p == Len(d.code) + 1
               q == Len(d.code) + 2
    <3>1. /\ p \in Len(d.code) + 1 .. Len(b.code) /\ q \in Len(d.code) + 1 .. Len(b.code)
          /\ p # q /\ b.code[p] = x /\ b.code[q] = y
      BY <2>2
    <3>2. \A m \in Len(d.code) + 1 .. Len(b.code) : m = p \/ m = q BY <2>2
    <3>3. Len(d.code) <= Len(b.code) BY <2>2
    <3> HIDE DEF p, q
    <3> QED BY <2>2, <3>1, <3>2, <3>3 DEF Names
  <2>5. /\ Sound(r) /\ r.currentwhile = u /\ r.while_stack = b.while_stack
        /\ r.outside = b.outside /\ r.whilelines = b.whilelines /\ r.code = b.code
    <3>1. Sound(b) BY <2>2
    <3> DEFINE f == "currentwhile"
               g == [b EXCEPT ![f] = u]
    <3>2. f \in LoopFields /\ r = g BY DEF LoopFields
    <3> HIDE DEF r, f
    <3>3. Sound(g) BY <3>1, <3>2, SetLoop
    <3>4. g[f] = u BY <3>1, <3>2, SetLoop
    <3>5. g.code = b.code BY <3>1, <3>2, SetLoop
    <3>6. \A z \in LoopFields : z # f => g[z] = b[z] BY <3>1, <3>2, SetLoop
    <3> HIDE DEF g
    <3>7. /\ Sound(r) /\ r[f] = u /\ r.code = b.code
          /\ \A z \in LoopFields : z # f => r[z] = b[z]
      BY <3>2, <3>3, <3>4, <3>5, <3>6
    <3> QED BY <3>7 DEF LoopFields, f
  <2> HIDE DEF r
  <2> QED BY <2>1, <2>2, <2>3, <2>4, <2>5 DEF LoopClosed, SameLoops, x, y, n
<1> QED BY <1>1, <1>2

LEMMA EffectAround ==
  ASSUME NEW a, NEW b, NEW d, NEW r, NEW kind,
         Spares(a, b), Effect(kind, b, d), Spares(d, r)
  PROVE  Effect(kind, a, r)
<1> SUFFICES ASSUME Sound(a) PROVE Effect(kind, a, r) BY DEF Effect
<1>1. Sound(b) /\ SameLoops(a, b) /\ Extends(a.code, b.code) BY DEF Spares
<1>2. Sound(d) BY <1>1 DEF Effect
<1>3. Sound(r) /\ SameLoops(d, r) /\ Extends(d.code, r.code) BY <1>2 DEF Spares
<1>4. IsTable(a.code) /\ IsTable(b.code) /\ IsTable(d.code) /\ IsTable(r.code)
  BY <1>1, <1>2, <1>3 DEF Sound
<1>5. \A x, y : Names(b.code, d.code, x, y) => Names(a.code, r.code, x, y)
  BY <1>1, <1>3, <1>4, NamesBetween
<1>6. ASSUME kind \notin {"while", "endw"} PROVE SameLoops(a, r) /\ Extends(a.code, r.code)
  <2>1. SameLoops(b, d) /\ Extends(b.code, d.code) BY <1>1, <1>6 DEF Effect
  <2>2. Extends(a.code, d.code) BY <1>1, <1>4, <2>1, ExtendsOn
  <2>3. Extends(a.code, r.code) BY <1>3, <1>4, <2>2, ExtendsOn
  <2> QED BY <1>1, <1>3, <2>1, <2>3 DEF SameLoops
<1>7. ASSUME kind = "while" PROVE LoopOpened(a, r)
  <2>1. LoopOpened(b, d) BY <1>1, <1>7 DEF Effect
  <2> QED BY <1>1, <1>3, <1>5, <2>1 DEF SameLoops, LoopOpened
<1>8. ASSUME kind = "endw" PROVE LoopClosed(a, r)
  <2>1. LoopClosed(b, d) BY <1>1, <1>8 DEF Effect
  <2> QED BY <1>1, <1>3, <1>5, <2>1 DEF SameLoops, LoopClosed
<1> QED BY <1>3, <1>6, <1>7, <1>8 DEF Effect

LEMMA SparesEffect ==
  ASSUME NEW d, NEW r, NEW kind, Spares(d, r), kind \notin {"while", "endw"}
  PROVE  Effect(kind, d, r)
BY DEF Spares, Effect

\* A line that is no label, of no loop, and refers to Y
Refers(x, Y) == Loopless(x) /\ x[1] # "label" /\ References(x) \subseteq Y

LEMMA TwoLinesPart ==
  ASSUME NEW x, NEW y, NEW Y, Refers(x, Y), Refers(y, Y)
  PROVE  LoopFree(<<x, y>>) /\ Part(<<x, y>>, {}, Y)
<1> DEFINE s == <<x, y>>
<1>1. s \in Seq({x, y}) /\ \A n \in 1 .. Len(s) : Refers(s[n], Y) OBVIOUS
<1> HIDE DEF s
<1>2. LoopFree(s) /\ Part(s, {}, Y) BY <1>1, LinesPart DEF Refers
<1> QED BY <1>2 DEF s

LEMMA ThreeLinesPart ==
  ASSUME NEW x, NEW y, NEW z, NEW Y, Refers(x, Y), Refers(y, Y), Refers(z, Y)
  PROVE  LoopFree(<<x, y, z>>) /\ Part(<<x, y, z>>, {}, Y)
<1> DEFINE s == <<x, y, z>>
<1>1. s \in Seq({x, y, z}) /\ \A n \in 1 .. Len(s) : Refers(s[n], Y) OBVIOUS
<1> HIDE DEF s
<1>2. LoopFree(s) /\ Part(s, {}, Y) BY <1>1, LinesPart DEF Refers
<1> QED BY <1>2 DEF s

\* The statements that give no name to anything, and go to none
Ordinary ==
    StatementKinds \ {"if", "while", "endw", "label", "goto", "gosub", "function", "endf",
                      "struct"}

LEMMA OrdinaryStatementKeeps ==
  ASSUME NEW s, s[1] \in Ordinary, s[1] = "thread" => s[2] \in Taken,
         \A x \in Operands(s) : KeepsExpression(x),
         Len(Listed(s)) \in Nat,
         \A n \in 1 .. Len(Listed(s)) :
             IF s[1] = "print" THEN KeepsItem(Listed(s)[n])
                               ELSE KeepsExpression(Listed(s)[n])
  PROVE  \A d : Keeps(d, do_statement(d, s))
<1> SUFFICES ASSUME NEW d PROVE Keeps(d, do_statement(d, s)) OBVIOUS
<1> DEFINE r == do_statement(d, s)
<1>1. CASE s[1] = "print"
  <2>1. Listed(s) = s[2] BY <1>1 DEF Listed
  <2>2. r = do_print(d, s[2], s[3]) BY <1>1 DEF do_statement
  <2> QED BY <1>1, <2>1, <2>2, PrintKeeps
<1>2. CASE s[1] = "input"
  <2>1. KeepsExpression(s[2]) /\ KeepsExpression(s[3]) BY <1>2 DEF Operands
  <2>2. r = do_input(d, s[2], s[3]) BY <1>2 DEF do_statement
  <2> QED BY <2>1, <2>2, InputKeeps
<1>3. CASE s[1] = "let"
  <2>1. KeepsExpression(s[3]) BY <1>3 DEF Operands
  <2>2. r = do_let(d, s[2], s[3]) BY <1>3 DEF do_statement
  <2> QED BY <2>1, <2>2, LetKeeps
<1>4. CASE s[1] = "let_ptr"
  <2>1. KeepsExpression(s[2]) /\ KeepsExpression(s[3]) BY <1>4 DEF Operands
  <2>2. r = do_let_ptr(d, s[2], s[3]) BY <1>4 DEF do_statement
  <2> QED BY <2>1, <2>2, LetPtrKeeps
<1>5. CASE s[1] = "let_member"
  <2>1. KeepsExpression(s[3]) /\ KeepsExpression(s[5]) BY <1>5 DEF Operands
  <2> DEFINE a == member_address(d, s[2], s[3], s[4])
  <2>2. r = do_let_typecast(a, s[5]) BY <1>5 DEF do_statement
  <2>3. Keeps(d, a) BY <2>1, MemberAddressKeeps
  <2> HIDE DEF a
  <2> QED BY <2>1, <2>2, <2>3, LetTypecastKeeps, KeepsOn
<1>6. CASE s[1] = "let_global"
  <2>1. KeepsExpression(s[3]) BY <1>6 DEF Operands
  <2> DEFINE a == global_address(d, s[2])
  <2>2. r = do_let_typecast(a, s[3]) BY <1>6 DEF do_statement
  <2>3. Keeps(d, a) BY GlobalAddressKeeps
  <2> HIDE DEF a
  <2> QED BY <2>1, <2>2, <2>3, LetTypecastKeeps, KeepsOn
<1>7. CASE s[1] \in {"return", "free"}
  <2>1. KeepsExpression(s[2]) BY <1>7 DEF Operands
  <2> DEFINE b == Expression(d, s[2])
  <2>2. \/ r = Emit(b, <<<<"loadrr", "R7", "R1">>, <<"ret">>>>)
        \/ r = Emit(b, <<Push("R1"), <<"sys", "free">>>>)
    BY <1>7 DEF do_statement, do_return, do_free
  <2>3. Keeps(d, b) BY <2>1 DEF KeepsExpression
  <2> HIDE DEF b
  <2>4. /\ Plain(<<"loadrr", "R7", "R1">>) /\ Plain(<<"ret">>)
        /\ Plain(<<"sys", "free">>) /\ Plain(Push("R1"))
    BY PlainLines
  <2> QED BY <2>2, <2>3, <2>4, EmitLines
<1>8. CASE s[1] = "rem"
  <2>1. r = d BY <1>8 DEF do_statement
  <2> QED BY <2>1, KeepsSelf
<1>9. CASE s[1] = "end"
  <2>1. r = Emit(d, <<<<"jmp", <<"_exit">>>>>>) BY <1>9 DEF do_statement, do_end
  <2>2. Plain(<<"jmp", <<"_exit">>>>) BY PlainLines DEF Always
  <2> QED BY <2>1, <2>2, KeepsSelf, EmitLine
<1>10. CASE s[1] = "thread"
  <2> DEFINE x == <<"push", <<"l", <<"fn", s[2]>>>>>>
             y == <<"sys", "dispatch">>
             z == <<"pop">>
  <2>1. r = Emit(d, <<x, y, z>>) BY <1>10 DEF do_statement, do_thread
  <2>2. Loopless(x) /\ x[1] # "label" /\ References(x) = {<<"fn", s[2]>>}
    BY DEF Loopless, References, Last
  <2>3. <<"fn", s[2]>> \in Known(d) BY <1>10 DEF Known
  <2>4. Refers(y, Known(d)) /\ Refers(z, Known(d))
    BY DEF Refers, Loopless, References
  <2> HIDE DEF x, y, z
  <2>5. Refers(x, Known(d)) BY <2>2, <2>3 DEF Refers
  <2>6. Fits(d, <<x, y, z>>) BY <2>4, <2>5, ThreeLinesPart DEF Fits
  <2> QED BY <2>1, <2>6, EmitKnown
<1>11. CASE s[1] = "global"
  <2>1. r = do_global(d, s[2]) BY <1>11 DEF do_statement
  <2> QED BY <2>1, AddVariableKeeps DEF do_global
<1>12. CASE s[1] = "extern"
  <2>1. r = do_external(d, s[2], s[3], s[4]) BY <1>12 DEF do_statement
  <2> QED BY <2>1, AddFunctionKeeps DEF do_external
<1>13. CASE s[1] = "native"
  <2>1. r = do_native(d, s[2], s[3], s[4]) BY <1>13 DEF do_statement
  <2> QED BY <2>1, NativeKeeps
<1>14. CASE s[1] = "@"
  <2>1. Listed(s) = s[3] BY <1>14 DEF Listed
  <2>2. r = do_function_call(d, s[2], s[3]) BY <1>14 DEF do_statement
  <2> QED BY <1>14, <2>1, <2>2, FunctionCallKeeps
<1>15. CASE s[1] = "raw_call"
  <2>1. Listed(s) = s[3] /\ KeepsExpression(s[2]) BY <1>15 DEF Listed, Operands
  <2>2. r = raw_call(d, s[2], s[3]) BY <1>15 DEF do_statement
  <2> QED BY <1>15, <2>1, <2>2, RawCallKeeps
<1> QED
  BY <1>1, <1>2, <1>3, <1>4, <1>5, <1>6, <1>7, <1>8, <1>9, <1>10, <1>11, <1>12, <1>13,
     <1>14, <1>15 DEF StatementKinds, Ordinary

\* The others, but for IF and the loops, leave the loops alone all the same
LEMMA NamingStatementSpares ==
  ASSUME NEW s, s[1] \in {"label", "goto", "gosub", "function", "endf", "struct"}
  PROVE  \A d : Spares(d, do_statement(d, s))
<1> SUFFICES ASSUME NEW d PROVE Spares(d, do_statement(d, s)) OBVIOUS
<1> DEFINE r == do_statement(d, s)
<1>1. CASE s[1] \in {"goto", "gosub", "label"}
  <2> DEFINE x == <<"l", d.fn, s[2]>>
  <2>1. \/ r = InFunction(d, <<<<"jmp", x>>>>)
        \/ r = InFunction(d, <<<<"call", x>>>>)
        \/ r = InFunction(d, <<<<"label", x>>>>)
    BY <1>1 DEF do_statement, do_goto, do_gosub, do_label
  <2>2. Loopless(<<"jmp", x>>) /\ Loopless(<<"call", x>>) /\ Loopless(<<"label", x>>)
    BY DEF Loopless
  <2> HIDE DEF x
  <2> QED BY <2>1, <2>2, InFunctionSpares
<1>2. CASE s[1] = "function"
  <2>1. r = do_func(d, s[2], s[3]) BY <1>2 DEF do_statement
  <2> QED BY <2>1, FuncSpares
<1>3. CASE s[1] = "endf"
  <2>1. r = do_endf(d) BY <1>3 DEF do_statement
  <2> QED BY <2>1, EndFuncSpares
<1>4. CASE s[1] = "struct"
  <2>1. r = do_struct(d, s[2], s[3], s[4]) BY <1>4 DEF do_statement
  <2> QED BY <2>1, StructSpares
<1> QED BY <1>1, <1>2, <1>3, <1>4

\* The jump over the body of an IF
LEMMA IfHead ==
  \A n : LET s == <<<<"cmpri", "R1", k(0)>>, <<"je", <<"i", n>>>>>>
         IN LoopFree(s) /\ Part(s, {}, {<<"i", n>>})
<1> SUFFICES ASSUME NEW n
             PROVE  LET s == <<<<"cmpri", "R1", k(0)>>, <<"je", <<"i", n>>>>>>
                    IN LoopFree(s) /\ Part(s, {}, {<<"i", n>>})
  OBVIOUS
<1> DEFINE x == <<"cmpri", "R1", k(0)>>
           y == <<"je", <<"i", n>>>>
<1>1. Refers(x, {<<"i", n>>}) /\ Refers(y, {<<"i", n>>})
  BY DEF Refers, Loopless, References
<1> HIDE DEF x, y
<1>2. LoopFree(<<x, y>>) /\ Part(<<x, y>>, {}, {<<"i", n>>}) BY <1>1, TwoLinesPart
<1> QED BY <1>2 DEF x, y

\* What an IF does to the loops its body does
LEMMA IfTakesEffect ==
  ASSUME NEW e, KeepsExpression(e), NEW b, NEW kind,
         \A d : Effect(kind, d, Statement(d, b))
  PROVE  \A d : Effect(kind, d, do_if(d, e, b))
<1> SUFFICES ASSUME NEW d PROVE Effect(kind, d, do_if(d, e, b)) OBVIOUS
<1> DEFINE a == Emit(Expression(d, e),
                     <<<<"cmpri", "R1", k(0)>>, <<"je", <<"i", d.line>>>>>>)
           r == Statement(a, b)
<1>1. do_if(d, e, b) = Emit(r, <<<<"label", <<"i", r.line>>>>>>) BY DEF do_if
<1>2. Spares(d, a)
  <2>1. Spares(d, Expression(d, e)) BY DEF KeepsExpression, Keeps
  <2> QED BY <2>1, IfHead, EmitSpares, SparesOn
<1> HIDE DEF a
<1>3. Effect(kind, a, r) OBVIOUS
<1> HIDE DEF r
<1>4. Spares(r, Emit(r, <<<<"label", <<"i", r.line>>>>>>))
  <2>1. Loopless(<<"label", <<"i", r.line>>>>) BY DEF Loopless
  <2> QED BY <2>1, LoopFreeLine, EmitSpares
<1> QED BY <1>1, <1>2, <1>3, <1>4, EffectAround

HasEffect(s) == \A d : Effect(Innermost[s], d, Statement(d, s))

\* A statement of the source has expressions that keep as its operands, and items or
\* expressions as its list
LEMMA StatementParts ==
  ASSUME Recursive, NEW s \in Trees(source)
  PROVE  /\ \A x \in Operands(s) : KeepsExpression(x)
         /\ Len(Listed(s)) \in Nat
         /\ \A n \in 1 .. Len(Listed(s)) :
                IF s[1] = "print" THEN KeepsItem(Listed(s)[n])
                                  ELSE KeepsExpression(Listed(s)[n])
<1>1. s \in DOMAIN Nesting /\ \A x \in Parts(s) : x \in Trees(source) BY TreesClosed
<1>2. \A x \in Operands(s) : KeepsExpression(x)
  BY <1>1, EveryExpressionKeeps, NestingAssumption DEF Ranks, Parts
<1>3. Listed(s) \in Seq(DOMAIN Nesting) BY <1>1, NestingAssumption DEF Ranks
<1>4. ASSUME NEW n \in 1 .. Len(Listed(s))
      PROVE  IF s[1] = "print" THEN KeepsItem(Listed(s)[n])
                               ELSE KeepsExpression(Listed(s)[n])
  <2> DEFINE x == Listed(s)[n]
  <2>1. x \in ToSet(Listed(s)) /\ x \in DOMAIN Nesting /\ x \in Trees(source)
    BY <1>1, <1>3 DEF ToSet, Parts
  <2>2. x[1] \in IF s[1] = "print" THEN ItemKinds ELSE ExpressionKinds
    BY <1>1, <2>1, NestingAssumption DEF Ranks
  <2> HIDE DEF x
  <2>3. x[1] \in ExpressionKinds => KeepsExpression(x)
    BY <2>1, EveryExpressionKeeps
  <2>4. CASE s[1] = "print"
    <3>1. x[1] = "%" => KeepsExpression(x[2])
      <4> SUFFICES ASSUME x[1] = "%" PROVE KeepsExpression(x[2]) OBVIOUS
      <4>1. x[2] \in Operands(x) BY DEF Operands
      <4>2. x[2] \in Trees(source) /\ x[2][1] \in ExpressionKinds
        BY <2>1, <4>1, TreesClosed, NestingAssumption DEF Ranks, Parts
      <4> QED BY <4>2, EveryExpressionKeeps
    <3>2. KeepsItem(x) BY <2>2, <2>3, <2>4, <3>1, ItemKeeps
    <3> QED BY <2>4, <3>2 DEF x
  <2>5. CASE s[1] # "print" BY <2>2, <2>3, <2>5 DEF x
  <2> QED BY <2>4, <2>5
<1> QED BY <1>2, <1>3, <1>4

\* So every statement of the source does to the loops what its innermost one says
LEMMA EveryStatementHasEffect ==
  ASSUME Recursive
  PROVE  \A s \in Trees(source) : s[1] \in StatementKinds => HasEffect(s)
<1> DEFINE Bad == {s \in Trees(source) : s[1] \in StatementKinds /\ ~HasEffect(s)}
           T == {Nesting[s] : s \in Bad}
<1> SUFFICES ASSUME Bad # {} PROVE FALSE OBVIOUS
<1>1. T \in SUBSET Nat /\ T # {} BY TreesClosed, NestingAssumption DEF Ranks
<1>2. PICK s \in Bad : \A b \in Bad : Nesting[s] <= Nesting[b]
  <2>1. PICK x \in T : \A y \in T : x <= y BY <1>1, LeastNat
  <2> QED BY <2>1
<1>3. /\ s \in DOMAIN Nesting /\ s \in Trees(source) /\ s[1] \in StatementKinds
      /\ ~HasEffect(s)
  BY TreesClosed
<1>4. \A d : Statement(d, s) = do_statement(d, s) BY <1>3 DEF Recursive
<1>5. /\ \A x \in Operands(s) : KeepsExpression(x)
      /\ Len(Listed(s)) \in Nat
      /\ \A n \in 1 .. Len(Listed(s)) :
             IF s[1] = "print" THEN KeepsItem(Listed(s)[n])
                               ELSE KeepsExpression(Listed(s)[n])
  BY <1>3, StatementParts
<1>6. Innermost[s] = IF s[1] = "if" THEN Innermost[s[3]] ELSE s[1]
  BY <1>3, InnermostDefined
<1>7. CASE s[1] \notin {"if", "while", "endw"}
  <2>1. \A d : Spares(d, do_statement(d, s))
    <3>1. CASE s[1] \in Ordinary
      <4>1. s[1] = "thread" => s[2] \in Taken BY <1>3 DEF Taken
      <4>2. \A d : Keeps(d, do_statement(d, s))
        BY <1>5, <3>1, <4>1, OrdinaryStatementKeeps
      <4> QED BY <4>2 DEF Keeps
    <3>2. CASE s[1] \notin Ordinary
      BY <1>3, <1>7, <3>2, NamingStatementSpares DEF Ordinary
    <3> QED BY <3>1, <3>2
  <2>2. \A d : Effect(s[1], d, do_statement(d, s)) BY <1>7, <2>1, SparesEffect
  <2> QED BY <1>3, <1>4, <1>6, <1>7, <2>2 DEF HasEffect
<1>8. CASE s[1] = "while"
  <2>1. KeepsExpression(s[2]) BY <1>5, <1>8 DEF Operands
  <2>2. \A d : do_statement(d, s) = do_while(d, s[2]) BY <1>8 DEF do_statement
  <2> QED BY <1>3, <1>4, <1>6, <1>8, <2>1, <2>2, WhileOpens DEF HasEffect
<1>9. CASE s[1] = "endw"
  <2>1. \A d : do_statement(d, s) = do_endw(d) BY <1>9 DEF do_statement
  <2> QED BY <1>3, <1>4, <1>6, <1>9, <2>1, EndwCloses DEF HasEffect
<1>10. CASE s[1] = "if"
  <2> DEFINE b == s[3]
  <2>1. KeepsExpression(s[2]) BY <1>5, <1>10 DEF Operands
  <2>2. \A d : do_statement(d, s) = do_if(d, s[2], b) BY <1>10 DEF do_statement
  <2>3. /\ b \in Trees(source) /\ b[1] \in StatementKinds
        /\ Nesting[b] \in Nat /\ Nesting[s] \in Nat /\ Nesting[b] < Nesting[s]
    BY <1>3, <1>10, BodyNestsLess, TreesClosed DEF Parts, Bodies
  <2>4. Innermost[s] = Innermost[b] BY <1>6, <1>10
  <2> HIDE DEF b
  <2>5. HasEffect(b) BY <1>2, <2>3
  <2>6. \A d : Effect(Innermost[b], d, do_if(d, s[2], b))
    BY <2>1, <2>5, IfTakesEffect DEF HasEffect
  <2> QED BY <1>3, <1>4, <2>2, <2>4, <2>6 DEF HasEffect
<1> QED BY <1>7, <1>8, <1>9, <1>10

LEMMA LineTakesEffect ==
  ASSUME Recursive, NEW s \in Trees(source), s[1] \in StatementKinds
  PROVE  \A d : Effect(Innermost[s], d, do_line(d, s))
<1> SUFFICES ASSUME NEW d PROVE Effect(Innermost[s], d, do_line(d, s)) OBVIOUS
<1> DEFINE a == do_statement(d, s)
           n == IF s[1] = "label" THEN a.line ELSE a.line + 1
<1>1. do_line(d, s) = [a EXCEPT !.line = n] BY DEF do_line
<1>2. a = Statement(d, s) BY TreesClosed DEF Recursive
<1>3. Effect(Innermost[s], d, a) BY <1>2, EveryStatementHasEffect DEF HasEffect
<1> HIDE DEF a, n
<1>4. Spares(a, [a EXCEPT !.line = n]) BY SetSpares DEF FreeFields
<1> QED BY <1>1, <1>3, <1>4, SparesSelf, EffectAround

-----------------------------------------------------------------------------
(* What a statement does to the labels.                                     *)

\* The labels a statement gives: of a name, of a loop
Given(d, b) ==
    CASE b[1] = "label" -> {<<"l", d.fn, b[2]>>}
      [] b[1] = "function" -> {<<"fn", b[2]>>}
      [] b[1] = "while" -> {<<"while", d.whilelines>>}
      [] b[1] = "endw" -> {<<"endwhile", d.while_stack[d.currentwhile + 1]>>}
      [] OTHER -> {}

\* The labels it goes to that there need not be yet
Asked(d, b) ==
    CASE b[1] \in {"goto", "gosub"} -> {<<"l", d.fn, b[2]>>}
      [] b[1] = "while" -> {<<"endwhile", d.whilelines>>}
      [] b[1] = "endw" -> {<<"while", d.while_stack[d.currentwhile + 1]>>}
      [] OTHER -> {}

\* The label of an IF, and the jump to it
Skipped(d, s) == IF s[1] = "if" THEN {<<"i", d.line>>} ELSE {}

\* The functions and the place the compiler is at: b is what a line carries out
Moves(b, d, r) ==
    /\ b[1] = "function" => b[2] \notin Internal(d)
    /\ b[1] \in {"label", "goto", "gosub"} => d.fn # "none"
    /\ Internal(r) = Internal(d) \cup IF b[1] = "function" THEN {b[2]} ELSE {}
    /\ r.fn = CASE b[1] = "function" -> b[2] [] b[1] = "endf" -> "none" [] OTHER -> d.fn
    /\ r.line = IF b[1] = "struct" THEN d.line + 1 + b[3] ELSE d.line

Serves(b, d, r) == Adds(d, r, Given(d, b), Asked(d, b)) /\ Moves(b, d, r)

\* ENDW has a loop to end
InLoop(d, b) == b[1] = "endw" => d.currentwhile + 1 \in DOMAIN d.while_stack

\* No return address is among the labels X
NoReturn(X) == \A x \in X : x[1] # "ret"

LEMMA AddsThen ==
  ASSUME NEW a, NEW b, NEW d, Sound(a), Sound(b), Sound(d),
         NEW X, NEW Y, NEW Z, NEW W, Adds(a, b, X, Y), Adds(b, d, Z, W),
         NoReturn(X), NoReturn(Z), X \cap Z = {}
  PROVE  Adds(a, d, X \cup Z, Y \cup W)
<1>1. \A i, j : \A x \in Rets(i, j) : x[1] = "ret" BY DEF Rets
<1>2. X \cap Rets(b.label_num, d.label_num) = {} BY <1>1 DEF NoReturn
<1>3. Z \cap Rets(a.label_num, b.label_num) = {} BY <1>1 DEF NoReturn
<1> QED BY <1>2, <1>3, AddsOn

\* With nothing added before, or after
LEMMA AddsAfter ==
  ASSUME NEW a, NEW b, NEW d, Sound(a), Sound(b), Sound(d),
         NEW X, NEW Y, Adds(a, b, {}, {}), Adds(b, d, X, Y), NoReturn(X)
  PROVE  Adds(a, d, X, Y)
<1>1. NoReturn({}) BY DEF NoReturn
<1>2. Adds(a, d, {} \cup X, {} \cup Y) BY <1>1, AddsThen
<1>3. {} \cup X = X /\ {} \cup Y = Y OBVIOUS
<1> QED BY <1>2, <1>3

LEMMA AddsBefore ==
  ASSUME NEW a, NEW b, NEW d, Sound(a), Sound(b), Sound(d),
         NEW X, NEW Y, Adds(a, b, X, Y), Adds(b, d, {}, {}), NoReturn(X)
  PROVE  Adds(a, d, X, Y)
<1>1. NoReturn({}) BY DEF NoReturn
<1>2. Adds(a, d, X \cup {}, Y \cup {}) BY <1>1, AddsThen
<1>3. X \cup {} = X /\ Y \cup {} = Y OBVIOUS
<1> QED BY <1>2, <1>3

LEMMA NothingGiven ==
  ASSUME NEW d, NEW b, b[1] \in Ordinary \cup {"endf", "struct"}
  PROVE  Given(d, b) = {} /\ Asked(d, b) = {}
BY DEF Given, Asked, Ordinary

LEMMA OrdinaryServes ==
  ASSUME NEW b, b[1] \in Ordinary, NEW d, NEW r, Sound(d), Keeps(d, r)
  PROVE  Serves(b, d, r)
<1>1. b[1] \notin {"function", "label", "goto", "gosub", "endf", "struct"} BY DEF Ordinary
<1>2. Moves(b, d, r) BY <1>1 DEF Moves, Keeps, Stays
<1> QED BY <1>2, NothingGiven DEF Serves, Keeps

\* The line, or the function, is another; the code is the same
LEMMA SetPlace ==
  ASSUME NEW d, Sound(d), NEW f \in {"line", "fn"}, NEW v
  PROVE  LET r == [d EXCEPT ![f] = v]
         IN /\ Sound(r) /\ r[f] = v /\ \A x \in Fields : x # f => r[x] = d[x]
            /\ Adds(d, r, {}, {}) /\ Internal(r) = Internal(d)
<1> DEFINE r == [d EXCEPT ![f] = v]
<1>1. f \in FreeFields /\ f # "label_num" BY DEF FreeFields
<1>2. Sound(r) BY <1>1, SetFree
<1>3. r[f] = v BY DEF Sound, HasFields, Fields
<1>4. \A x \in Fields : x # f => r[x] = d[x] BY <1>1, SetFree
<1> HIDE DEF r
<1>5. /\ r.code = d.code /\ r.label_num = d.label_num
      /\ r.functions = d.functions /\ r.uses = d.uses /\ r.strings = d.strings
  BY <1>4 DEF Fields
<1>6. Internal(r) = Internal(d) BY <1>5 DEF Internal
<1>7. Known(r) = Known(d) BY <1>5, <1>6 DEF Known
<1>8. Adds(d, r, {}, {}) BY <1>5, <1>7, NothingAdded
<1> QED BY <1>2, <1>3, <1>4, <1>6, <1>8 DEF r

LEMMA SetLine ==
  ASSUME NEW d, Sound(d), NEW v
  PROVE  LET r == [d EXCEPT !.line = v]
         IN /\ Sound(r) /\ r.line = v /\ r.fn = d.fn /\ r.err = d.err
            /\ Adds(d, r, {}, {}) /\ Internal(r) = Internal(d)
<1> DEFINE f == "line"
           r == [d EXCEPT ![f] = v]
<1>1. f \in {"line", "fn"} OBVIOUS
<1> HIDE DEF f
<1>2. Sound(r) BY <1>1, SetPlace
<1>3. r[f] = v BY <1>1 DEF Sound, HasFields, Fields
<1>4. \A x \in Fields : x # f => r[x] = d[x] BY <1>1, SetPlace
<1>5. Adds(d, r, {}, {}) BY <1>1, SetPlace
<1>6. Internal(r) = Internal(d) BY <1>1, SetPlace
<1> HIDE DEF r
<1>7. r.line = v /\ r.fn = d.fn /\ r.err = d.err BY <1>3, <1>4 DEF f, Fields
<1> QED BY <1>2, <1>5, <1>6, <1>7 DEF r, f

LEMMA SetFunction ==
  ASSUME NEW d, Sound(d), NEW v
  PROVE  LET r == [d EXCEPT !.fn = v]
         IN /\ Sound(r) /\ r.fn = v /\ r.line = d.line /\ r.err = d.err
            /\ Adds(d, r, {}, {}) /\ Internal(r) = Internal(d)
<1> DEFINE f == "fn"
           r == [d EXCEPT ![f] = v]
<1>1. f \in {"line", "fn"} OBVIOUS
<1> HIDE DEF f
<1>2. Sound(r) BY <1>1, SetPlace
<1>3. r[f] = v BY <1>1 DEF Sound, HasFields, Fields
<1>4. \A x \in Fields : x # f => r[x] = d[x] BY <1>1, SetPlace
<1>5. Adds(d, r, {}, {}) BY <1>1, SetPlace
<1>6. Internal(r) = Internal(d) BY <1>1, SetPlace
<1> HIDE DEF r
<1>7. r.fn = v /\ r.line = d.line /\ r.err = d.err BY <1>3, <1>4 DEF f, Fields
<1> QED BY <1>2, <1>5, <1>6, <1>7 DEF r, f

LEMMA ErrorStops ==
  ASSUME NEW d, Sound(d)
  PROVE  Error(d).err = TRUE
BY DEF Error, Sound, HasFields, Fields

LEMMA JumpServes ==
  ASSUME NEW d, Sound(d), NEW b, b[1] \in {"label", "goto", "gosub"},
         ~do_statement(d, b).err
  PROVE  Serves(b, d, do_statement(d, b))
<1> DEFINE l == <<"l", d.fn, b[2]>>
           r == do_statement(d, b)
<1>1. \/ b[1] = "label" /\ r = InFunction(d, <<<<"label", l>>>>)
      \/ b[1] = "goto" /\ r = InFunction(d, <<<<"jmp", l>>>>)
      \/ b[1] = "gosub" /\ r = InFunction(d, <<<<"call", l>>>>)
  BY DEF do_statement, do_goto, do_gosub, do_label
<1> HIDE DEF l, r
<1>2. d.fn # "none" BY <1>1, ErrorStops DEF InFunction, r
<1>3. \/ b[1] = "label" /\ r = Emit(d, <<<<"label", l>>>>)
      \/ b[1] = "goto" /\ r = Emit(d, <<<<"jmp", l>>>>)
      \/ b[1] = "gosub" /\ r = Emit(d, <<<<"call", l>>>>)
  BY <1>1, <1>2 DEF InFunction
<1>4. Part(<<<<"label", l>>>>, {l}, {}) BY LabelPart
<1>5. Part(<<<<"jmp", l>>>>, {}, {l}) /\ Part(<<<<"call", l>>>>, {}, {l})
  <2> DEFINE x == <<"jmp", l>>
             y == <<"call", l>>
  <2>1. /\ x[1] # "label" /\ References(x) \subseteq {l}
        /\ y[1] # "label" /\ References(y) \subseteq {l}
    BY DEF References
  <2> HIDE DEF x, y
  <2>2. Part(<<x>>, {}, {l}) /\ Part(<<y>>, {}, {l}) BY <2>1, LinePart
  <2> QED BY <2>2 DEF x, y
<1>6. /\ b[1] = "label" => Given(d, b) = {l} /\ Asked(d, b) = {}
      /\ b[1] \in {"goto", "gosub"} => Given(d, b) = {} /\ Asked(d, b) = {l}
  BY DEF Given, Asked, l
<1>7. \E s : r = Emit(d, s) /\ Part(s, Given(d, b), Asked(d, b))
  BY <1>3, <1>4, <1>5, <1>6
<1>8. Adds(d, r, Given(d, b), Asked(d, b)) /\ Stays(d, r) BY <1>7, EmitAdds
<1>9. Moves(b, d, r) BY <1>2, <1>8 DEF Moves, Stays
<1> QED BY <1>8, <1>9 DEF Serves, r

LEMMA FuncServes ==
  ASSUME NEW d, Sound(d), NEW b, b[1] = "function", ~do_statement(d, b).err
  PROVE  Serves(b, d, do_statement(d, b))
<1> DEFINE f == b[2]
           l == <<"fn", f>>
           a == add_to_function_table(d, f, b[3], "internal", "none")
           e == Emit(a, FunctionHead(f))
           r == [e EXCEPT !.fn = f]
<1>1. do_statement(d, b) = r BY DEF do_statement, do_func, FunctionHead
<1>2. ~Refused(d, f)
  <2> SUFFICES ASSUME Refused(d, f) PROVE FALSE OBVIOUS
  <2>1. a = Error(d) BY DEF add_to_function_table, Refused
  <2>2. Sound(a) /\ a.err = TRUE BY <2>1, ErrorStops, ErrorKeeps DEF Keeps, Spares
  <2> HIDE DEF a
  <2>3. Sound(e) /\ e.err = a.err BY <2>2, HeadPart, EmitAdds
  <2> HIDE DEF e
  <2>4. r.err = e.err BY <2>3, SetFunction
  <2> HIDE DEF r
  <2> QED BY <1>1, <2>2, <2>3, <2>4
<1>3. /\ Sound(a) /\ Internal(a) = Internal(d) \cup {f}
      /\ \A x \in Fields \ {"functions", "total_functions", "past"} : a[x] = d[x]
  BY <1>2, FunctionAdded
<1> HIDE DEF a
<1>4. /\ a.code = d.code /\ a.label_num = d.label_num /\ a.line = d.line
      /\ a.uses = d.uses /\ a.strings = d.strings
  BY <1>3 DEF Fields
<1>5. Known(d) \subseteq Known(a) BY <1>3, <1>4 DEF Known
<1>6. Adds(d, a, {}, {}) BY <1>4, <1>5, NothingAdded
<1>7. Sound(e) /\ Adds(a, e, {l}, Always) /\ Stays(a, e) /\ Known(e) = Known(a)
  BY <1>3, HeadPart, EmitAdds
<1> HIDE DEF e
<1>8. Adds(a, e, {l}, {})
  <2>1. Always \subseteq Known(e) BY DEF Known
  <2> QED BY <1>7, <2>1, AddsLess
<1>9. Sound(r) /\ r.fn = f /\ r.line = e.line /\ Adds(e, r, {}, {})
      /\ Internal(r) = Internal(e)
  BY <1>7, SetFunction
<1> HIDE DEF r
<1>10. NoReturn({l}) BY DEF NoReturn
<1> HIDE DEF l
<1>11. Adds(d, e, {l}, {}) BY <1>3, <1>6, <1>7, <1>8, <1>10, AddsAfter
<1>12. Adds(d, r, {l}, {}) BY <1>7, <1>9, <1>10, <1>11, AddsBefore
<1>13. Given(d, b) = {l} /\ Asked(d, b) = {} BY DEF Given, Asked, l
<1>14. f \notin Internal(d) BY <1>2 DEF Internal, Refused, FunctionNamed
<1>15. Internal(r) = Internal(d) \cup {f} /\ r.line = d.line
  BY <1>3, <1>4, <1>7, <1>9 DEF Stays
<1>16. Moves(b, d, r) BY <1>9, <1>14, <1>15 DEF Moves
<1> QED BY <1>1, <1>12, <1>13, <1>16 DEF Serves

LEMMA EndFuncServes ==
  ASSUME NEW d, Sound(d), NEW b, b[1] = "endf", ~do_statement(d, b).err
  PROVE  Serves(b, d, do_statement(d, b))
<1> DEFINE r == [d EXCEPT !.fn = "none"]
<1>1. do_statement(d, b) = do_endf(d) BY DEF do_statement
<1>2. do_statement(d, b) = r BY <1>1, ErrorStops DEF do_endf
<1>3. r.fn = "none" /\ r.line = d.line /\ Adds(d, r, {}, {}) /\ Internal(r) = Internal(d)
  BY SetFunction
<1> HIDE DEF r
<1>4. Moves(b, d, r) BY <1>3 DEF Moves
<1> QED BY <1>2, <1>3, <1>4, NothingGiven DEF Serves

LEMMA StructServes ==
  ASSUME NEW d, Sound(d), NEW b, b[1] = "struct", ~do_statement(d, b).err
  PROVE  Serves(b, d, do_statement(d, b))
<1> DEFINE a == AddStruct(d, b[2], b[4])
           n == a.line + 1 + b[3]
           r == [a EXCEPT !.line = n]
<1>1. do_statement(d, b) = do_struct(d, b[2], b[3], b[4]) BY DEF do_statement
<1>2. do_statement(d, b) = r BY <1>1, ErrorStops DEF do_struct
<1>3. Sound(a) /\ Adds(d, a, {}, {}) /\ Stays(d, a) BY AddStructKeeps DEF Keeps, Spares
<1> HIDE DEF a
<1>4. n = d.line + 1 + b[3] BY <1>3 DEF Stays
<1> HIDE DEF n
<1>5. /\ Sound(r) /\ r.line = n /\ r.fn = a.fn /\ Adds(a, r, {}, {})
      /\ Internal(r) = Internal(a)
  BY <1>3, SetLine
<1> HIDE DEF r
<1>6. NoReturn({}) BY DEF NoReturn
<1>7. Adds(d, r, {}, {}) BY <1>3, <1>5, <1>6, AddsAfter
<1>8. Moves(b, d, r) BY <1>3, <1>4, <1>5 DEF Moves, Stays
<1> QED BY <1>2, <1>7, <1>8, NothingGiven DEF Serves

LEMMA WhileServes ==
  ASSUME NEW d, Sound(d), NEW b, b[1] = "while", KeepsExpression(b[2])
  PROVE  Serves(b, d, do_statement(d, b))
<1> DEFINE n == d.whilelines
           x == <<"while", n>>
           y == <<"endwhile", n>>
           a == IF d.currentwhile < 0 THEN [d EXCEPT !.outside = TRUE]
                ELSE [d EXCEPT !.while_stack[d.currentwhile] = n]
           g == Emit(a, <<<<"label", x>>>>)
           h == Expression(g, b[2])
           p == <<"cmpri", "R1", k(0)>>
           q == <<"je", y>>
           e == Emit(h, <<p, q>>)
           r == [e EXCEPT !.whilelines = @ + 1, !.currentwhile = @ - 1]
<1>1. do_statement(d, b) = r BY DEF do_statement, do_while
<1>2. Sound(a) /\ Adds(d, a, {}, {}) /\ Stays(d, a)
  <2>1. CASE d.currentwhile < 0
    <3> DEFINE f == "outside"
               o == [d EXCEPT ![f] = TRUE]
    <3>1. a = o /\ f \in LoopFields BY <2>1 DEF LoopFields
    <3> HIDE DEF f, a
    <3>2. Sound(o) /\ Adds(d, o, {}, {}) /\ Stays(d, o) BY <3>1, SetLoop
    <3> QED BY <3>1, <3>2
  <2>2. CASE ~(d.currentwhile < 0)
    <3> DEFINE f == "while_stack"
               w == [d.while_stack EXCEPT ![d.currentwhile] = n]
               o == [d EXCEPT ![f] = w]
    <3>1. a = o /\ f \in LoopFields BY <2>2 DEF LoopFields
    <3> HIDE DEF f, a, w
    <3>2. Sound(o) /\ Adds(d, o, {}, {}) /\ Stays(d, o) BY <3>1, SetLoop
    <3> QED BY <3>1, <3>2
  <2> QED BY <2>1, <2>2
<1> HIDE DEF a
<1>3. Part(<<<<"label", x>>>>, {x}, {}) BY LabelPart
<1>4. Sound(g) /\ Adds(a, g, {x}, {}) /\ Stays(a, g) BY <1>2, <1>3, EmitAdds
<1>5. Part(<<p, q>>, {}, {y})
  <2> DEFINE s == <<p, q>>
  <2>1. IsTable(s) /\ Len(s) = 2 /\ s[1] = p /\ s[2] = q
    <3>1. s \in Seq({p, q}) OBVIOUS
    <3> QED BY <3>1 DEF IsTable
  <2>2. p[1] # "label" /\ References(p) \subseteq {y} BY DEF References
  <2>3. q[1] # "label" /\ References(q) \subseteq {y} BY DEF References
  <2> HIDE DEF p, q, s
  <2>4. 1 .. Len(s) = {1, 2} BY <2>1
  <2>5. Labels(s) = {} /\ Distinct(s) BY <2>1, <2>2, <2>3, <2>4, LabelsAre
  <2>6. LabelsOf(s) \subseteq {y} BY <2>1, <2>2, <2>3, <2>4, LabelsAre
  <2>7. Part(s, {}, {y}) BY <2>1, <2>5, <2>6 DEF Part
  <2> QED BY <2>7 DEF s
<1> HIDE DEF g, p, q
<1>6. Sound(h) /\ Adds(g, h, {}, {}) /\ Stays(g, h)
  BY <1>4 DEF KeepsExpression, Keeps, Spares
<1> HIDE DEF h
<1>7. Sound(e) /\ Adds(h, e, {}, {y}) /\ Stays(h, e) BY <1>5, <1>6, EmitAdds
<1> HIDE DEF e
<1>8. Sound(r) /\ Adds(e, r, {}, {}) /\ Stays(e, r)
  <2>1. Sound(r) BY <1>7, CountLoop
  <2>2. Adds(e, r, {}, {}) BY <1>7, CountLoop
  <2>3. Stays(e, r) BY <1>7, CountLoop
  <2> QED BY <2>1, <2>2, <2>3
<1> HIDE DEF r
<1>9. NoReturn({x}) /\ NoReturn({}) BY DEF NoReturn
<1>10. Given(d, b) = {x} /\ Asked(d, b) = {y} BY DEF Given, Asked
<1> HIDE DEF x, y
<1>11. Adds(d, g, {x}, {}) BY <1>2, <1>4, <1>9, AddsAfter
<1>12. Adds(d, h, {x}, {}) BY <1>2, <1>4, <1>6, <1>9, <1>11, AddsBefore
<1>13. Adds(h, r, {}, {y}) BY <1>6, <1>7, <1>8, <1>9, AddsBefore
<1>14. Adds(d, r, {x} \cup {}, {} \cup {y}) BY <1>6, <1>8, <1>9, <1>12, <1>13, AddsThen
<1>15. {x} \cup {} = {x} /\ {} \cup {y} = {y} OBVIOUS
<1>16. Adds(d, r, {x}, {y}) BY <1>14, <1>15
<1>17. Stays(d, r) BY <1>2, <1>4, <1>6, <1>7, <1>8 DEF Stays
<1>18. Moves(b, d, r) BY <1>17 DEF Moves, Stays
<1> QED BY <1>1, <1>10, <1>16, <1>18 DEF Serves

LEMMA EndwServes ==
  ASSUME NEW d, Sound(d), NEW b, b[1] = "endw", InLoop(d, b)
  PROVE  Serves(b, d, do_statement(d, b))
<1> DEFINE n == d.while_stack[d.currentwhile + 1]
           x == <<"endwhile", n>>
           y == <<"while", n>>
           e == Emit(d, <<<<"jmp", y>>, <<"label", x>>>>)
           f == "currentwhile"
           u == e.currentwhile + 1
           r == [e EXCEPT ![f] = u]
<1>1. do_statement(d, b) = r
  <2>1. do_statement(d, b) = do_endw(d) BY DEF do_statement
  <2> QED BY <2>1 DEF do_endw, InLoop
<1>2. Given(d, b) = {x} /\ Asked(d, b) = {y} BY DEF Given, Asked
<1> HIDE DEF x, y
<1>3. Part(<<<<"jmp", y>>, <<"label", x>>>>, {x}, {y})
  <2> DEFINE p == <<"jmp", y>>
  <2>1. p[1] # "label" /\ References(p) \subseteq {y} BY DEF References
  <2> HIDE DEF p
  <2>2. Part(<<p, <<"label", x>>>>, {x}, {y}) BY <2>1, LabelAfter
  <2> QED BY <2>2 DEF p
<1>4. Sound(e) /\ Adds(d, e, {x}, {y}) /\ Stays(d, e) BY <1>3, EmitAdds
<1> HIDE DEF e
<1>5. f \in LoopFields BY DEF LoopFields
<1> HIDE DEF u, f
<1>6. Sound(r) /\ Adds(e, r, {}, {}) /\ Stays(e, r) BY <1>4, <1>5, SetLoop
<1> HIDE DEF r
<1>7. NoReturn({x}) BY DEF NoReturn, x
<1>8. Adds(d, r, {x}, {y}) BY <1>4, <1>6, <1>7, AddsBefore
<1>9. Stays(d, r) BY <1>4, <1>6 DEF Stays
<1>10. Moves(b, d, r) BY <1>9 DEF Moves, Stays
<1> QED BY <1>1, <1>2, <1>8, <1>10 DEF Serves

\* Every statement but IF gives and asks for what it says
LEMMA StatementServes ==
  ASSUME Recursive, NEW b \in Trees(source), b[1] \in StatementKinds, b[1] # "if",
         NEW d, Sound(d), InLoop(d, b), ~Statement(d, b).err
  PROVE  Serves(b, d, Statement(d, b))
<1>1. Statement(d, b) = do_statement(d, b) BY TreesClosed DEF Recursive
<1>2. /\ \A x \in Operands(b) : KeepsExpression(x)
      /\ Len(Listed(b)) \in Nat
      /\ \A n \in 1 .. Len(Listed(b)) :
             IF b[1] = "print" THEN KeepsItem(Listed(b)[n])
                               ELSE KeepsExpression(Listed(b)[n])
  BY StatementParts
<1>3. CASE b[1] \in Ordinary
  <2>1. b[1] = "thread" => b[2] \in Taken BY DEF Taken
  <2>2. Keeps(d, do_statement(d, b)) BY <1>2, <1>3, <2>1, OrdinaryStatementKeeps
  <2> QED BY <1>1, <1>3, <2>2, OrdinaryServes
<1>4. CASE b[1] = "while"
  <2>1. KeepsExpression(b[2]) BY <1>2, <1>4 DEF Operands
  <2> QED BY <1>1, <1>4, <2>1, WhileServes
<1>5. CASE b[1] = "endw" BY <1>1, <1>5, EndwServes
<1>6. CASE b[1] \in {"label", "goto", "gosub"} BY <1>1, <1>6, JumpServes
<1>7. CASE b[1] = "function" BY <1>1, <1>7, FuncServes
<1>8. CASE b[1] = "endf" BY <1>1, <1>8, EndFuncServes
<1>9. CASE b[1] = "struct" BY <1>1, <1>9, StructServes
<1> QED BY <1>3, <1>4, <1>5, <1>6, <1>7, <1>8, <1>9 DEF Ordinary

LEMMA GivenNames ==
  ASSUME NEW d, NEW b
  PROVE  NoReturn(Given(d, b)) /\ \A x \in Given(d, b) : x[1] # "i"
BY DEF Given, NoReturn

\* What a line adds to the compiler: what it carries out, and the label of an IF
Line(s, d, r) ==
    LET b == Body(s)
    IN /\ Adds(d, r, Given(d, b) \cup Skipped(d, s), Asked(d, b))
       /\ Moves(b, d, r)

LEMMA IfServes ==
  ASSUME Recursive, NEW s \in Trees(source), s[1] = "if", s[3][1] \notin {"if", "struct"},
         NEW d, Sound(d), InLoop(d, s[3]), ~do_if(d, s[2], s[3]).err
  PROVE  Line(s, d, do_if(d, s[2], s[3]))
<1> DEFINE b == s[3]
           l == <<"i", d.line>>
           h == Expression(d, s[2])
           a == Emit(h, <<<<"cmpri", "R1", k(0)>>, <<"je", l>>>>)
           e == Statement(a, b)
           r == Emit(e, <<<<"label", <<"i", e.line>>>>>>)
<1>1. do_if(d, s[2], b) = r BY DEF do_if
<1>2. b \in Trees(source) /\ b[1] \in StatementKinds /\ KeepsExpression(s[2])
  BY TreesClosed, BodyNestsLess, StatementParts DEF Parts, Bodies, Operands
<1>3. Body(s) = b /\ Skipped(d, s) = {l} BY DEF Body, Skipped
<1>4. Sound(h) /\ SameLoops(d, h) /\ Adds(d, h, {}, {}) /\ Stays(d, h)
  BY <1>2 DEF KeepsExpression, Keeps, Spares
<1> HIDE DEF h, b
<1>5. Sound(a) /\ Adds(h, a, {}, {l}) /\ Stays(h, a) BY <1>4, IfHead, EmitAdds
<1>6. SameLoops(h, a) BY <1>4, IfHead, EmitSpares DEF Spares
<1> HIDE DEF a
<1>7. HasEffect(b) BY <1>2, EveryStatementHasEffect
<1>8. Sound(e) BY <1>5, <1>7 DEF HasEffect, Effect
<1>9. InLoop(a, b) BY <1>4, <1>6 DEF InLoop, SameLoops, b
<1>10. Sound(r) /\ Adds(e, r, {<<"i", e.line>>}, {}) /\ Stays(e, r) /\ r.err = e.err
  BY <1>8, LabelPart, EmitAdds
<1>11. ~e.err BY <1>1, <1>10 DEF b
<1>12. Serves(b, a, e) BY <1>2, <1>5, <1>9, <1>11, StatementServes DEF b
<1> HIDE DEF e, r
<1>13. Given(a, b) = Given(d, b) /\ Asked(a, b) = Asked(d, b)
  BY <1>4, <1>5, <1>6 DEF Given, Asked, SameLoops, Stays
<1>14. e.line = d.line BY <1>4, <1>5, <1>12 DEF Serves, Moves, Stays, b
<1> DEFINE X == Given(d, b)
           Y == Asked(d, b)
<1>15. NoReturn({}) /\ NoReturn(X) /\ NoReturn({l}) /\ X \cap {l} = {}
  BY GivenNames DEF NoReturn
<1>16. Adds(a, e, X, Y) /\ Adds(e, r, {l}, {}) BY <1>10, <1>12, <1>13, <1>14 DEF Serves
<1> HIDE DEF X, Y, l
<1>17. Adds(d, a, {}, {l}) BY <1>4, <1>5, <1>15, AddsAfter
<1>18. Adds(a, r, X \cup {l}, Y \cup {}) BY <1>5, <1>8, <1>10, <1>15, <1>16, AddsThen
<1>19. NoReturn(X \cup {l}) BY <1>15 DEF NoReturn
<1>20. Adds(d, r, {} \cup (X \cup {l}), {l} \cup (Y \cup {}))
  BY <1>5, <1>10, <1>15, <1>17, <1>18, <1>19, AddsThen
<1>21. {} \cup (X \cup {l}) = X \cup {l} OBVIOUS
<1>22. Adds(d, r, X \cup {l}, {l} \cup (Y \cup {})) BY <1>20, <1>21
<1>23. Adds(d, r, X \cup {l}, Y)
  <2>1. l \in Labels(r.code) BY <1>16 DEF Adds
  <2>2. {l} \cup (Y \cup {}) \subseteq Known(r) \cup Labels(r.code) \cup Y BY <2>1
  <2> QED BY <1>22, <2>2, AddsLess
<1>24. Moves(b, d, r)
  <2>1. Stays(d, a) BY <1>4, <1>5 DEF Stays
  <2> QED BY <1>10, <1>12, <2>1 DEF Serves, Moves, Stays
<1> QED BY <1>1, <1>3, <1>23, <1>24 DEF Line, X, Y, b

\* The functions after a line, and where the compiler is
Goes(s, d, r) ==
    LET b == Body(s)
    IN /\ b[1] = "function" => b[2] \notin Internal(d)
       /\ b[1] \in {"label", "goto", "gosub"} => d.fn # "none"
       /\ Internal(r) = Internal(d) \cup IF b[1] = "function" THEN {b[2]} ELSE {}
       /\ r.fn = CASE b[1] = "function" -> b[2] [] b[1] = "endf" -> "none" [] OTHER -> d.fn
       /\ d.line \in Nat => /\ r.line \in Nat /\ d.line <= r.line
                            /\ s[1] = "if" => d.line < r.line

LEMMA LineServes ==
  ASSUME Recursive, NEW s \in Trees(source), s[1] \in StatementKinds,
         s[1] = "if" => s[3][1] \notin {"if", "struct"},
         NEW d, Sound(d), InLoop(d, Body(s)), ~do_line(d, s).err
  PROVE  LET b == Body(s)
         IN /\ Adds(d, do_line(d, s), Given(d, b) \cup Skipped(d, s), Asked(d, b))
            /\ Goes(s, d, do_line(d, s))
<1> DEFINE b == Body(s)
           a == do_statement(d, s)
           n == IF s[1] = "label" THEN a.line ELSE a.line + 1
           r == [a EXCEPT !.line = n]
<1>1. do_line(d, s) = r BY DEF do_line
<1>2. a = Statement(d, s) BY TreesClosed DEF Recursive
<1>3. Sound(a) BY <1>2, EveryStatementHasEffect DEF HasEffect, Effect
<1>4. r.err = a.err
  <2> HIDE DEF a, n
  <2> QED BY <1>3, SetLine
<1>5. ~a.err BY <1>1, <1>4
<1>6. Line(s, d, a)
  <2>1. CASE s[1] = "if"
    <3>1. a = do_if(d, s[2], s[3]) BY <2>1 DEF do_statement
    <3>2. b = s[3] BY <2>1 DEF Body
    <3> HIDE DEF a
    <3> QED BY <1>5, <2>1, <3>1, <3>2, IfServes
  <2>2. CASE s[1] # "if"
    <3>1. b = s /\ Skipped(d, s) = {} BY <2>2 DEF Body, Skipped
    <3>2. Serves(s, d, a) BY <1>2, <1>5, <2>2, <3>1, StatementServes
    <3> HIDE DEF a
    <3>3. Given(d, b) \cup Skipped(d, s) = Given(d, s) BY <3>1
    <3> QED BY <3>1, <3>2, <3>3 DEF Line, Serves
  <2> QED BY <2>1, <2>2
<1>7. b[1] = "struct" => b[3] \in Nat
  <2> SUFFICES ASSUME b[1] = "struct" PROVE b[3] \in Nat OBVIOUS
  <2>1. s[1] # "if" BY DEF Body
  <2>2. b = s BY <2>1 DEF Body
  <2> QED BY <2>2, TreesClosed, MembersAssumption
<1> HIDE DEF a, n
<1>8. Sound(r) /\ r.line = n /\ r.fn = a.fn /\ Adds(a, r, {}, {}) /\ Internal(r) = Internal(a)
  BY <1>3, SetLine
<1> HIDE DEF r
<1> DEFINE X == Given(d, b) \cup Skipped(d, s)
<1>9. NoReturn(X) BY GivenNames DEF NoReturn, Skipped
<1>10. Adds(d, a, X, Asked(d, b)) /\ Moves(b, d, a) BY <1>6 DEF Line
<1> HIDE DEF X
<1>11. Adds(d, r, X, Asked(d, b)) BY <1>3, <1>8, <1>9, <1>10, AddsBefore
<1>12. ASSUME d.line \in Nat
       PROVE  /\ r.line \in Nat /\ d.line <= r.line
              /\ s[1] = "if" => d.line < r.line
  <2>1. a.line = IF b[1] = "struct" THEN d.line + 1 + b[3] ELSE d.line
    BY <1>10 DEF Moves
  <2>2. a.line \in Nat /\ d.line <= a.line BY <1>7, <1>12, <2>1
  <2> QED BY <1>8, <1>12, <2>2 DEF n
<1>13. Goes(s, d, r) BY <1>8, <1>10, <1>12 DEF Goes, Moves
<1> QED BY <1>1, <1>11, <1>13 DEF X

-----------------------------------------------------------------------------
(* What finish() adds.                                                      *)

\* The labels that the routines and the entry refer to
Ends == Always \cup {<<"fn", "main">>}

\* Code that names no loop, with the labels X, the first members of which are of N
Block(s, X, N) == LoopFree(s) /\ Part(s, X, Ends) /\ \A x \in X : x[1] \in N

LEMMA BlockJoin ==
  ASSUME NEW s, NEW X, NEW N, NEW t, NEW Z, NEW M, Block(s, X, N), Block(t, Z, M),
         N \cap M = {}
  PROVE  Block(s \o t, X \cup Z, N \cup M)
<1>1. X \cap Z = {} BY DEF Block
<1>2. Part(s \o t, X \cup Z, Ends \cup Ends) BY <1>1, PartJoin DEF Block
<1>3. Ends \cup Ends = Ends OBVIOUS
<1>4. Part(s \o t, X \cup Z, Ends) BY <1>2, <1>3
<1> QED BY <1>4, LoopFreeJoin DEF Block

LEMMA NeutralBlock ==
  ASSUME NEW s, Neutral(s)
  PROVE  Block(s, {}, {})
<1>1. LoopFree(s) /\ Part(s, {}, Always) BY NeutralPart
<1> QED BY <1>1 DEF Block, Part, Ends

\* One label, and lines that go nowhere else
LEMMA LabelWithin ==
  ASSUME NEW s, IsTable(s), NEW p \in 1 .. Len(s), NEW name,
         s[p] = <<"label", <<name>>>>, name \notin {"while", "endwhile"},
         \A n \in 1 .. Len(s) :
            n # p => Loopless(s[n]) /\ s[n][1] # "label" /\ References(s[n]) \subseteq Ends
  PROVE  Block(s, {<<name>>}, {name})
<1> DEFINE l == <<name>>
<1>1. l[1] = name OBVIOUS
<1>2. s[p][1] = "label" /\ s[p][2] = l /\ Loopless(s[p]) /\ References(s[p]) = {}
  BY DEF Loopless, References
<1> HIDE DEF l
<1>3. \A n \in 1 .. Len(s) :
         /\ Loopless(s[n]) /\ References(s[n]) \subseteq Ends
         /\ s[n][1] = "label" => n = p
  BY <1>2
<1>4. Labels(s) = {l} /\ Distinct(s) BY <1>2, <1>3, LabelsAre
<1>5. LabelsOf(s) \subseteq Ends BY <1>3, LabelsAre
<1>6. Block(s, {l}, {name}) BY <1>1, <1>3, <1>4, <1>5 DEF Block, Part, LoopFree
<1> QED BY <1>6 DEF l

\* A label, and plain lines after it
LEMMA LabelledBlock ==
  ASSUME NEW s, IsTable(s), Len(s) >= 1, NEW name, s[1] = <<"label", <<name>>>>,
         name \notin {"while", "endwhile"}, \A n \in 2 .. Len(s) : Plain(s[n])
  PROVE  Block(s, {<<name>>}, {name})
<1>1. 1 \in 1 .. Len(s) BY TableIsSequence
<1>2. \A n \in 1 .. Len(s) : n # 1 => Plain(s[n]) BY TableIsSequence
<1>3. \A x : Plain(x) => Loopless(x) /\ x[1] # "label" /\ References(x) \subseteq Ends
  BY DEF Plain, Ends
<1> QED BY <1>1, <1>2, <1>3, LabelWithin

LEMMA PrintsBlock ==
  ASSUME NEW name, NEW how, NEW ch, name \notin {"while", "endwhile"}
  PROVE  /\ Block(Prints(name, how), {<<name>>}, {name})
         /\ Block(PrintsChar(name, ch), {<<name>>}, {name})
<1>1. Block(Prints(name, how), {<<name>>}, {name})
  <2> DEFINE s == Prints(name, how)
  <2>1. IsTable(s) /\ Len(s) = 5 /\ s[1] = <<"label", <<name>>>>
    <3>1. s \in Seq({s[n] : n \in 1 .. 5}) BY DEF Prints, Push, Pop
    <3>2. IsTable(s) BY <3>1 DEF IsTable
    <3> QED BY <3>2 DEF Prints, Push, Pop
  <2>2. \A n \in 2 .. 5 : Plain(s[n])
    <3>1. Plain(<<"sys", how>>) /\ Plain(<<"ret">>) BY PlainLines
    <3> QED BY <3>1, PlainLines DEF Prints
  <2> HIDE DEF s
  <2>3. Len(s) >= 1 /\ \A n \in 2 .. Len(s) : Plain(s[n]) BY <2>1, <2>2
  <2>4. Block(s, {<<name>>}, {name}) BY <2>1, <2>3, LabelledBlock
  <2> QED BY <2>4 DEF s
<1>2. Block(PrintsChar(name, ch), {<<name>>}, {name})
  <2> DEFINE s == PrintsChar(name, ch)
  <2>1. IsTable(s) /\ Len(s) = 5 /\ s[1] = <<"label", <<name>>>>
    <3>1. s \in Seq({s[n] : n \in 1 .. 5}) BY DEF PrintsChar, k
    <3>2. IsTable(s) BY <3>1 DEF IsTable
    <3> QED BY <3>2 DEF PrintsChar, k
  <2>2. \A n \in 2 .. 5 : Plain(s[n])
    <3>1. Plain(<<"sys", "putch">>) /\ Plain(<<"ret">>) /\ Plain(<<"pop">>)
          /\ Plain(<<"push", k(ch)>>)
      BY PlainLines
    <3> QED BY <3>1 DEF PrintsChar
  <2> HIDE DEF s
  <2>3. Len(s) >= 1 /\ \A n \in 2 .. Len(s) : Plain(s[n]) BY <2>1, <2>2
  <2>4. Block(s, {<<name>>}, {name}) BY <2>1, <2>3, LabelledBlock
  <2> QED BY <2>4 DEF s
<1> QED BY <1>1, <1>2

LEMMA RoutineBlocks ==
  /\ Block(InputRoutine, {<<"input_i">>}, {"input_i"})
  /\ Block(AllocRoutine, {<<"alloc_n">>}, {"alloc_n"})
  /\ Block(FreeRoutine, {<<"free">>}, {"free"})
<1>1. Block(InputRoutine, {<<"input_i">>}, {"input_i"})
  <2> DEFINE s == InputRoutine
  <2>1. IsTable(s) /\ Len(s) = 9 /\ s[1] = <<"label", <<"input_i">>>>
    <3>1. s \in Seq({s[n] : n \in 1 .. 9}) BY DEF InputRoutine, Push, Pop, k
    <3>2. IsTable(s) BY <3>1 DEF IsTable
    <3> QED BY <3>2 DEF InputRoutine, Push, Pop, k
  <2>2. \A n \in 2 .. 9 : Plain(s[n])
    <3>1. /\ Plain(<<"sys", "getline">>) /\ Plain(<<"loadr", "R1", k(0)>>)
          /\ Plain(<<"stos">>) /\ Plain(<<"ret">>)
      BY PlainLines
    <3> QED BY <3>1, PlainLines DEF InputRoutine
  <2> HIDE DEF s
  <2>3. Len(s) >= 1 /\ \A n \in 2 .. Len(s) : Plain(s[n]) BY <2>1, <2>2
  <2>4. Block(s, {<<"input_i">>}, {"input_i"}) BY <2>1, <2>3, LabelledBlock
  <2> QED BY <2>4 DEF s
<1>2. Block(AllocRoutine, {<<"alloc_n">>}, {"alloc_n"})
  <2> DEFINE s == AllocRoutine
  <2>1. IsTable(s) /\ Len(s) = 6 /\ s[1] = <<"label", <<"alloc_n">>>>
    <3>1. s \in Seq({s[n] : n \in 1 .. 6}) BY DEF AllocRoutine, Push, Pop
    <3>2. IsTable(s) BY <3>1 DEF IsTable
    <3> QED BY <3>2 DEF AllocRoutine, Push, Pop
  <2>2. \A n \in 2 .. 6 : Plain(s[n])
    <3>1. Plain(<<"sys", "alloc">>) /\ Plain(<<"pop">>) /\ Plain(<<"ret">>) BY PlainLines
    <3> QED BY <3>1, PlainLines DEF AllocRoutine
  <2> HIDE DEF s
  <2>3. Len(s) >= 1 /\ \A n \in 2 .. Len(s) : Plain(s[n]) BY <2>1, <2>2
  <2>4. Block(s, {<<"alloc_n">>}, {"alloc_n"}) BY <2>1, <2>3, LabelledBlock
  <2> QED BY <2>4 DEF s
<1>3. Block(FreeRoutine, {<<"free">>}, {"free"})
  <2> DEFINE s == FreeRoutine
  <2>1. IsTable(s) /\ Len(s) = 5 /\ s[1] = <<"label", <<"free">>>>
    <3>1. s \in Seq({s[n] : n \in 1 .. 5}) BY DEF FreeRoutine, Push
    <3>2. IsTable(s) BY <3>1 DEF IsTable
    <3> QED BY <3>2 DEF FreeRoutine, Push
  <2>2. \A n \in 2 .. 5 : Plain(s[n])
    <3>1. Plain(<<"sys", "free">>) /\ Plain(<<"pop">>) /\ Plain(<<"ret">>) BY PlainLines
    <3> QED BY <3>1, PlainLines DEF FreeRoutine
  <2> HIDE DEF s
  <2>3. Len(s) >= 1 /\ \A n \in 2 .. Len(s) : Plain(s[n]) BY <2>1, <2>2
  <2>4. Block(s, {<<"free">>}, {"free"}) BY <2>1, <2>3, LabelledBlock
  <2> QED BY <2>4 DEF s
<1> QED BY <1>1, <1>2, <1>3

LEMMA EntryBlock == Block(Entry, {<<"main">>, <<"_exit">>}, {"main", "_exit"})
<1> DEFINE s == <<<<"label", <<"main">>>>>>
           t == [n \in 1 .. 5 |-> <<"push", k(0)>>]
           w == <<<<"call", <<"fn", "main">>>>, <<"jmp", <<"_exit">>>>,
                  <<"label", <<"_exit">>>>, <<"call", <<"input_i">>>>,
                  <<"push", k(0)>>, <<"exit">>>>
<1>1. Entry = s \o t \o w
  <2> HIDE DEF k
  <2> QED BY DEF Entry
<1>2. /\ Plain(<<"push", k(0)>>) /\ Plain(<<"jmp", <<"_exit">>>>)
      /\ Plain(<<"call", <<"input_i">>>>) /\ Plain(<<"exit">>)
  BY PlainLines DEF Always
<1>3. Block(s, {<<"main">>}, {"main"})
  <2>1. s \in Seq({s[1]}) /\ Len(s) = 1 /\ s[1] = <<"label", <<"main">>>> OBVIOUS
  <2> HIDE DEF s
  <2>2. IsTable(s) BY <2>1 DEF IsTable
  <2>3. 2 .. Len(s) = {} BY <2>1
  <2> QED BY <2>1, <2>2, <2>3, LabelledBlock
<1>4. Block(t, {}, {})
  <2>1. t \in Seq({<<"push", k(0)>>}) BY DEF k
  <2>2. \A n \in 1 .. Len(t) : Plain(t[n]) BY <1>2
  <2> HIDE DEF t
  <2> QED BY <2>1, <2>2, NeutralLines, NeutralBlock
<1>5. Block(w, {<<"_exit">>}, {"_exit"})
  <2>1. w \in Seq({w[n] : n \in 1 .. 6}) /\ Len(w) = 6 /\ w[3] = <<"label", <<"_exit">>>>
    BY DEF k
  <2>2. /\ Loopless(w[1]) /\ w[1][1] # "label" /\ References(w[1]) \subseteq Ends
    BY DEF Loopless, References, Ends
  <2>3. Plain(w[2]) /\ Plain(w[4]) /\ Plain(w[5]) /\ Plain(w[6]) BY <1>2
  <2>4. \A x : Plain(x) => Loopless(x) /\ x[1] # "label" /\ References(x) \subseteq Ends
    BY DEF Plain, Ends
  <2> HIDE DEF w
  <2>5. \A n \in 1 .. 6 : n # 3 =>
           Loopless(w[n]) /\ w[n][1] # "label" /\ References(w[n]) \subseteq Ends
    <3>1. \A n \in 1 .. 6 : n = 1 \/ n = 2 \/ n = 3 \/ n = 4 \/ n = 5 \/ n = 6 OBVIOUS
    <3> QED BY <2>2, <2>3, <2>4, <3>1
  <2>6. IsTable(w) BY <2>1 DEF IsTable
  <2>7. 3 \in 1 .. Len(w) /\ \A n \in 1 .. Len(w) : n # 3 =>
           Loopless(w[n]) /\ w[n][1] # "label" /\ References(w[n]) \subseteq Ends
    BY <2>1, <2>5
  <2> QED BY <2>1, <2>6, <2>7, LabelWithin
<1> HIDE DEF s, t, w
<1>6. Block(s \o t, {<<"main">>} \cup {}, {"main"} \cup {}) BY <1>3, <1>4, BlockJoin
<1> DEFINE X == ({<<"main">>} \cup {}) \cup {<<"_exit">>}
           N == ({"main"} \cup {}) \cup {"_exit"}
<1>7. Block(Entry, X, N) BY <1>1, <1>5, <1>6, BlockJoin
<1>8. X = {<<"main">>, <<"_exit">>} /\ N = {"main", "_exit"} OBVIOUS
<1> QED BY <1>7, <1>8

LEMMA InitBlock ==
  ASSUME NEW d, IsTable(d.libs)
  PROVE  Block(InitRoutine(d), {<<"__internal_init">>}, {"__internal_init"})
<1> DEFINE s == <<<<"label", <<"__internal_init">>>>>>
           t == [n \in 1 .. 2 * Len(d.libs) |->
                   IF n % 2 = 1 THEN <<"push", k(0)>> ELSE <<"sys", "loadlib">>]
           u == <<<<"ret">>>>
<1>1. InitRoutine(d) = s \o t \o u BY DEF InitRoutine
<1>2. Plain(<<"push", k(0)>>) /\ Plain(<<"sys", "loadlib">>) /\ Plain(<<"ret">>)
  BY PlainLines
<1>3. Block(t, {}, {})
  <2>1. Len(d.libs) \in Nat BY TableIsSequence
  <2>2. t \in Seq({<<"push", k(0)>>, <<"sys", "loadlib">>})
        /\ Len(t) = 2 * Len(d.libs)
    BY <2>1
  <2>3. \A n \in 1 .. Len(t) : Plain(t[n]) BY <1>2, <2>2
  <2> HIDE DEF t
  <2> QED BY <2>2, <2>3, NeutralLines, NeutralBlock
<1>4. Block(u, {}, {}) BY <1>2, Neutral1, NeutralBlock
<1>5. Block(s, {<<"__internal_init">>}, {"__internal_init"})
  <2>1. s \in Seq({s[1]}) /\ Len(s) = 1 /\ s[1] = <<"label", <<"__internal_init">>>>
    OBVIOUS
  <2> HIDE DEF s
  <2>2. IsTable(s) BY <2>1 DEF IsTable
  <2>3. 2 .. Len(s) = {} BY <2>1
  <2> QED BY <2>1, <2>2, <2>3, LabelledBlock
<1> HIDE DEF s, t, u
<1> DEFINE X == {<<"__internal_init">>}
           N == {"__internal_init"}
<1>6. X \cup {} = X /\ N \cup {} = N OBVIOUS
<1> HIDE DEF X, N
<1>7. Block(s \o t, X, N) BY <1>3, <1>5, <1>6, BlockJoin DEF X, N
<1>8. Block(s \o t \o u, X, N) BY <1>4, <1>6, <1>7, BlockJoin
<1> QED BY <1>1, <1>8 DEF X, N

LEMMA StringsBlock ==
  ASSUME NEW t, IsTable(t)
  PROVE  Block([n \in DOMAIN t |-> <<"label", <<"s", n>>>>],
               {<<"s", n>> : n \in 1 .. Len(t)}, {"s"})
<1> DEFINE s == [n \in DOMAIN t |-> <<"label", <<"s", n>>>>]
           X == {<<"s", n>> : n \in 1 .. Len(t)}
<1>1. Len(t) \in Nat /\ DOMAIN t = 1 .. Len(t) BY TableIsSequence
<1>2. s \in Seq({<<"label", <<"s", n>>>> : n \in DOMAIN t}) /\ Len(s) = Len(t) BY <1>1
<1>3. \A n \in 1 .. Len(s) :
         s[n][1] = "label" /\ s[n][2] = <<"s", n>> /\ s[n][2][2] = n
  BY <1>1, <1>2
<1>4. \A n \in 1 .. Len(s) : Loopless(s[n]) /\ References(s[n]) = {}
  <2>1. \A n : LET x == <<"label", <<"s", n>>>> IN Loopless(x) /\ References(x) = {}
    BY DEF Loopless, References
  <2> QED BY <1>1, <1>2, <2>1
<1> HIDE DEF s
<1>5. IsTable(s) BY <1>2 DEF IsTable
<1>6. Labels(s) = X
  <2>1. \A x \in X : \E n \in 1 .. Len(s) : x = <<"s", n>> BY <1>2
  <2>2. \A x \in X : \E n \in 1 .. Len(s) : s[n][1] = "label" /\ s[n][2] = x
    BY <1>3, <2>1
  <2>3. \A x : (\E n \in 1 .. Len(s) : s[n][1] = "label" /\ s[n][2] = x) => x \in X
    BY <1>2, <1>3
  <2> HIDE DEF X
  <2> QED BY <1>5, <2>2, <2>3, LabelsAre
<1>7. Distinct(s) BY <1>3, <1>5, LabelsAre
<1>8. LabelsOf(s) \subseteq Ends BY <1>4, <1>5, LabelsAre
<1>9. \A x \in X : x[1] \in {"s"} OBVIOUS
<1>10. Block(s, X, {"s"}) BY <1>4, <1>5, <1>6, <1>7, <1>8, <1>9 DEF Block, Part, LoopFree
<1> QED BY <1>10 DEF s

Finishing == {"main", "_exit", "print_i", "print_s", "print_t", "print_n", "input_i",
              "alloc_n", "print_f", "free", "__internal_init", "s"}

\* What finish() is sure to add
Owed(d) ==
    Always \cup {<<u>> : u \in d.uses \cap Routines}
      \cup {<<"s", n>> : n \in 1 .. Len(d.strings)}

LEMMA FinishBlock ==
  ASSUME NEW d, Sound(d)
  PROVE  \E s, X : /\ finish(d) = Emit(d, s)
                   /\ Block(s, X, Finishing) /\ Owed(d) \subseteq X
<1> DEFINE If(name, s) == IF name \in d.uses THEN s ELSE <<>>
           U(name) == IF name \in d.uses THEN {<<name>>} ELSE {}
           s1 == If("print_i", Prints("print_i", "puti"))
           s2 == If("print_s", Prints("print_s", "puts"))
           s3 == If("print_t", PrintsChar("print_t", Tab))
           s4 == If("print_n", PrintsChar("print_n", Newline))
           s5 == Prints("print_f", "putf")
           s6 == [n \in DOMAIN d.strings |-> <<"label", <<"s", n>>>>]
           X6 == {<<"s", n>> : n \in 1 .. Len(d.strings)}
           s == Entry \o s1 \o s2 \o s3 \o s4 \o InputRoutine \o AllocRoutine \o s5
                  \o FreeRoutine \o InitRoutine(d) \o s6
           X == {<<"main">>, <<"_exit">>} \cup U("print_i") \cup U("print_s")
                  \cup U("print_t") \cup U("print_n") \cup {<<"input_i">>}
                  \cup {<<"alloc_n">>} \cup {<<"print_f">>} \cup {<<"free">>}
                  \cup {<<"__internal_init">>} \cup X6
           N == {"main", "_exit"} \cup {"print_i"} \cup {"print_s"}
                  \cup {"print_t"} \cup {"print_n"} \cup {"input_i"}
                  \cup {"alloc_n"} \cup {"print_f"} \cup {"free"}
                  \cup {"__internal_init"} \cup {"s"}
<1>1. finish(d) = Emit(d, s) BY DEF finish
<1>2. Block(<<>>, {}, {}) BY Neutral0, NeutralBlock
<1>3. \A name, how, ch : name \notin {"while", "endwhile"} =>
         /\ Block(If(name, Prints(name, how)), U(name), {name})
         /\ Block(If(name, PrintsChar(name, ch)), U(name), {name})
  <2> SUFFICES ASSUME NEW name, NEW how, NEW ch, name \notin {"while", "endwhile"}
               PROVE  /\ Block(If(name, Prints(name, how)), U(name), {name})
                      /\ Block(If(name, PrintsChar(name, ch)), U(name), {name})
    OBVIOUS
  <2>1. CASE name \in d.uses BY <2>1, PrintsBlock
  <2>2. CASE name \notin d.uses
    <3>1. Block(<<>>, {}, {name}) BY <1>2 DEF Block
    <3> QED BY <2>2, <3>1
  <2> QED BY <2>1, <2>2
<1>4. /\ Block(s1, U("print_i"), {"print_i"}) /\ Block(s2, U("print_s"), {"print_s"})
      /\ Block(s3, U("print_t"), {"print_t"}) /\ Block(s4, U("print_n"), {"print_n"})
  <2> HIDE DEF If, U
  <2> QED BY <1>3
<1>5. Block(s5, {<<"print_f">>}, {"print_f"}) BY PrintsBlock
<1>6. Block(s6, X6, {"s"}) BY StringsBlock DEF Sound
<1>7. Block(InitRoutine(d), {<<"__internal_init">>}, {"__internal_init"})
  BY InitBlock DEF Sound, TablesHold
<1>8. Owed(d) \subseteq X
  <2> HIDE DEF X6
  <2>1. {<<u>> : u \in d.uses \cap Routines}
           \subseteq U("print_i") \cup U("print_s") \cup U("print_t") \cup U("print_n")
    BY DEF Routines
  <2>2. Always \subseteq {<<"main">>, <<"_exit">>} \cup {<<"input_i">>}
           \cup {<<"alloc_n">>} \cup {<<"print_f">>} \cup {<<"__internal_init">>}
    BY DEF Always
  <2> HIDE DEF U
  <2> QED BY <2>1, <2>2 DEF Owed, X6
<1>9. N = Finishing BY DEF Finishing
<1> DEFINE t1 == Entry \o s1
           t2 == t1 \o s2
           t3 == t2 \o s3
           t4 == t3 \o s4
           t5 == t4 \o InputRoutine
           t6 == t5 \o AllocRoutine
           t7 == t6 \o s5
           t8 == t7 \o FreeRoutine
           t9 == t8 \o InitRoutine(d)
           A1 == {<<"main">>, <<"_exit">>} \cup U("print_i")
           A2 == A1 \cup U("print_s")
           A3 == A2 \cup U("print_t")
           A4 == A3 \cup U("print_n")
           A5 == A4 \cup {<<"input_i">>}
           A6 == A5 \cup {<<"alloc_n">>}
           A7 == A6 \cup {<<"print_f">>}
           A8 == A7 \cup {<<"free">>}
           A9 == A8 \cup {<<"__internal_init">>}
           N1 == {"main", "_exit"} \cup {"print_i"}
           N2 == N1 \cup {"print_s"}
           N3 == N2 \cup {"print_t"}
           N4 == N3 \cup {"print_n"}
           N5 == N4 \cup {"input_i"}
           N6 == N5 \cup {"alloc_n"}
           N7 == N6 \cup {"print_f"}
           N8 == N7 \cup {"free"}
           N9 == N8 \cup {"__internal_init"}
<1>10. /\ {"main", "_exit"} \cap {"print_i"} = {} /\ N1 \cap {"print_s"} = {}
       /\ N2 \cap {"print_t"} = {} /\ N3 \cap {"print_n"} = {} /\ N4 \cap {"input_i"} = {}
       /\ N5 \cap {"alloc_n"} = {} /\ N6 \cap {"print_f"} = {} /\ N7 \cap {"free"} = {}
       /\ N8 \cap {"__internal_init"} = {} /\ N9 \cap {"s"} = {}
  OBVIOUS
<1>11. s = t9 \o s6 /\ X = A9 \cup X6 /\ N = N9 \cup {"s"} OBVIOUS
<1> HIDE DEF s, X, N, s1, s2, s3, s4, s5, s6, U, X6
<1>12. Block(t1, A1, N1)
  <2> HIDE DEF t1
  <2> QED BY <1>4, <1>10, EntryBlock, BlockJoin DEF t1
<1>13. Block(t2, A2, N2)
  <2> HIDE DEF t1, A1, N1
  <2> QED BY <1>4, <1>10, <1>12, BlockJoin
<1>14. Block(t3, A3, N3)
  <2> HIDE DEF t2, A2, N2
  <2> QED BY <1>4, <1>10, <1>13, BlockJoin
<1>15. Block(t4, A4, N4)
  <2> HIDE DEF t3, A3, N3
  <2> QED BY <1>4, <1>10, <1>14, BlockJoin
<1>16. Block(t5, A5, N5)
  <2> HIDE DEF t4, A4, N4
  <2> QED BY <1>10, <1>15, RoutineBlocks, BlockJoin
<1>17. Block(t6, A6, N6)
  <2> HIDE DEF t5, A5, N5
  <2> QED BY <1>10, <1>16, RoutineBlocks, BlockJoin
<1>18. Block(t7, A7, N7)
  <2> HIDE DEF t6, A6, N6
  <2> QED BY <1>5, <1>10, <1>17, BlockJoin
<1>19. Block(t8, A8, N8)
  <2> HIDE DEF t7, A7, N7
  <2> QED BY <1>10, <1>18, RoutineBlocks, BlockJoin
<1>20. Block(t9, A9, N9)
  <2> HIDE DEF t8, A8, N8
  <2> QED BY <1>7, <1>10, <1>19, BlockJoin
<1>21. Block(s, X, N)
  <2> HIDE DEF t9, A9, N9
  <2> QED BY <1>6, <1>10, <1>11, <1>20, BlockJoin
<1> QED BY <1>1, <1>8, <1>9, <1>21

LEMMA FinishSpares == \A d : Spares(d, finish(d))
<1> SUFFICES ASSUME NEW d, Sound(d) PROVE Spares(d, finish(d)) BY DEF Spares
<1>1. PICK s, X : finish(d) = Emit(d, s) /\ Block(s, X, Finishing) BY FinishBlock
<1>2. LoopFree(s) /\ IsTable(s) BY <1>1 DEF Block, LoopFree
<1> QED BY <1>1, <1>2, EmitSpares

-----------------------------------------------------------------------------
(* The tables.                                                              *)

LEMMA CompilerStartsSound == Sound(Compiler0)
<1>1. HasFields(Compiler0) BY DEF Compiler0, HasFields, Fields
<1>2. IsTable(<<>>) BY DEF IsTable
<1>3. /\ Compiler0.vars = <<>> /\ Compiler0.total_variables = TableStep
      /\ Compiler0.functions = <<>> /\ Compiler0.total_functions = TableStep
      /\ Compiler0.libs = <<>> /\ Compiler0.number_of_native_libs = 0
      /\ Compiler0.CurrentIndex = 0 /\ Compiler0.NumberOfStructs = TableStep
      /\ Compiler0.past = FALSE
  BY DEF Compiler0
<1>4. Compiler0.code = <<>> /\ Compiler0.strings = <<>> /\ Compiler0.label_num = 0
  BY DEF Compiler0
<1> QED BY <1>1, <1>2, <1>3, <1>4, TableAssumption DEF Sound, TablesHold

TablesInv ==
    /\ source \in Programs
    /\ at \in Nat \ {0}
    /\ Sound(c)

\* Each line is a statement of the source
LEMMA LineIsStatement ==
  ASSUME TablesInv, at <= Len(source)
  PROVE  /\ at \in 1 .. Len(source)
         /\ source[at] \in Trees(source) /\ source[at][1] \in StatementKinds
<1>1. source \in Seq({t \in DOMAIN Nesting : t[1] \in StatementKinds})
  BY ProgramsAssumption DEF TablesInv
<1>2. at \in 1 .. Len(source) BY <1>1 DEF TablesInv
<1>3. source[at] \in DOMAIN Nesting /\ source[at] \in ToSet(source)
  BY <1>1, <1>2 DEF ToSet
<1> QED BY <1>1, <1>2, <1>3 DEF Trees

LEMMA TablesInvInit == CompilerInit => TablesInv
BY CompilerStartsSound DEF CompilerInit, TablesInv

LEMMA TablesInvStep ==
  ASSUME Recursive
  PROVE  TablesInv /\ [CompilerNext]_compilerVars => TablesInv'
<1> SUFFICES ASSUME TablesInv, [CompilerNext]_compilerVars PROVE TablesInv' OBVIOUS
<1>1. CASE CompileLine
  <2>1. source[at] \in Trees(source) /\ source[at][1] \in StatementKinds
    BY <1>1, LineIsStatement DEF CompileLine
  <2>2. Effect(Innermost[source[at]], c, do_line(c, source[at]))
    BY <2>1, LineTakesEffect
  <2>3. Sound(c') BY <1>1, <2>2 DEF CompileLine, Effect, TablesInv
  <2>4. source' = source /\ at' \in Nat \ {0} BY <1>1 DEF CompileLine, TablesInv
  <2> QED BY <2>3, <2>4 DEF TablesInv
<1>2. CASE WriteRoutines
  <2>1. Sound(c') BY <1>2, FinishSpares DEF WriteRoutines, Spares, TablesInv
  <2> QED BY <1>2, <2>1 DEF WriteRoutines, TablesInv
<1>3. CASE UNCHANGED compilerVars BY <1>3 DEF compilerVars, TablesInv
<1> QED BY <1>1, <1>2, <1>3 DEF CompilerNext

\* However long a program is and however deep it nests, add_variable,
\* add_to_function_table and do_native grow their tables before they write an entry,
\* and AddStruct writes the two entries after its own at most
THEOREM TablesAlwaysFit ==
  ASSUME Recursive
  PROVE  CompilerSpec => []TablesFit
<1>1. TablesInv => TablesFit BY DEF TablesInv, Sound, TablesHold, TablesFit
<1> QED BY <1>1, TablesInvInit, TablesInvStep, PTL DEF CompilerSpec

-----------------------------------------------------------------------------
(* The stack of loops.                                                      *)

LEMMA CountNone == \A p, kind : Count(p, 0, kind) = 0
<1> SUFFICES ASSUME NEW p, NEW kind PROVE Count(p, 0, kind) = 0 OBVIOUS
<1>1. {i \in 1 .. 0 : Innermost[p[i]] = kind} = {} OBVIOUS
<1> QED BY <1>1, FS_EmptySet DEF Count

LEMMA CountNext ==
  ASSUME NEW p, NEW n \in Nat, NEW kind
  PROVE  /\ Count(p, n, kind) \in Nat
         /\ Count(p, n + 1, kind) =
              Count(p, n, kind) + IF Innermost[p[n + 1]] = kind THEN 1 ELSE 0
<1> DEFINE A(m) == {i \in 1 .. m : Innermost[p[i]] = kind}
<1>1. A(n) \in SUBSET (1 .. n) /\ n + 1 \notin A(n) OBVIOUS
<1>2. IsFiniteSet(A(n))
  <2>1. IsFiniteSet(1 .. n) BY FS_Interval
  <2> HIDE DEF A
  <2> QED BY <1>1, <2>1, FS_Subset
<1>3. A(n + 1) = IF Innermost[p[n + 1]] = kind THEN A(n) \cup {n + 1} ELSE A(n)
  BY 1 .. n + 1 = 1 .. n \cup {n + 1}
<1>4. Count(p, n, kind) = Cardinality(A(n)) /\ Count(p, n + 1, kind) = Cardinality(A(n + 1))
  BY DEF Count
<1> HIDE DEF A
<1>5. Cardinality(A(n)) \in Nat BY <1>2, FS_CardinalityType
<1>6. Cardinality(A(n) \cup {n + 1}) = Cardinality(A(n)) + 1
  BY <1>1, <1>2, FS_AddElement
<1> QED BY <1>3, <1>4, <1>5, <1>6

\* The entries of while_stack in use, and a loop line of the code
Entries(d) == d.currentwhile + 1 .. MAX_WHILE_NESTING

Has(d, x) == \E n \in LoopLines(d.code) : d.code[n] = x

\* Every loop up to whilelines has its first label, and its last unless it is open:
\* then it has an entry on the stack, and only one.  No line names another loop
LabelsHold(d) ==
    /\ d.whilelines \in Nat /\ d.currentwhile \in -1 .. MAX_WHILE_NESTING
    /\ DOMAIN d.while_stack = 0 .. MAX_WHILE_NESTING
    /\ \A i \in Entries(d) : d.while_stack[i] \in 0 .. d.whilelines - 1
    /\ \A i, j \in Entries(d) : d.while_stack[i] = d.while_stack[j] => i = j
    /\ \A n \in LoopLines(d.code) :
          \E w \in {"while", "endwhile"}, j \in 0 .. d.whilelines - 1 :
              d.code[n][2] = <<w, j>>
    /\ \A n \in LoopLines(d.code) : d.code[n] = <<d.code[n][1], d.code[n][2]>>
    /\ \A n, p \in LoopLines(d.code) :
          d.code[n][1] = "label" /\ d.code[p] = d.code[n] => p = n
    /\ \A j \in 0 .. d.whilelines - 1 :
          /\ Has(d, <<"label", <<"while", j>>>>)
          /\ Has(d, <<"label", <<"endwhile", j>>>>)
                <=> \A i \in Entries(d) : d.while_stack[i] # j

LEMMA LoopLinesOf ==
  ASSUME NEW s, IsTable(s), NEW n
  PROVE  n \in LoopLines(s) <=> n \in 1 .. Len(s) /\ ~Loopless(s[n])
BY TableIsSequence DEF LoopLines, Loopless

\* Lines that name no loop change nothing
LEMMA ExtendsKeepsLabels ==
  ASSUME NEW d, NEW r, IsTable(d.code), IsTable(r.code), LabelsHold(d),
         SameLoops(d, r), Extends(d.code, r.code)
  PROVE  LabelsHold(r)
<1> DEFINE old == d.code
           new == r.code
<1>1. /\ Len(old) \in Nat /\ Len(new) \in Nat /\ Len(old) <= Len(new)
      /\ \A n \in 1 .. Len(old) : new[n] = old[n]
      /\ \A n \in Len(old) + 1 .. Len(new) : Loopless(new[n])
  BY TableIsSequence DEF Extends
<1>2. \A n : n \in LoopLines(old) <=> n \in 1 .. Len(old) /\ ~Loopless(old[n])
  BY LoopLinesOf
<1>3. \A n : n \in LoopLines(new) <=> n \in 1 .. Len(new) /\ ~Loopless(new[n])
  BY LoopLinesOf
<1>4. \A n : n \in 1 .. Len(new) <=>
                n \in 1 .. Len(old) \/ n \in Len(old) + 1 .. Len(new)
  BY <1>1
<1> HIDE DEF old, new
<1>5. LoopLines(new) = LoopLines(old) /\ \A n \in LoopLines(old) : new[n] = old[n]
  BY <1>1, <1>2, <1>3, <1>4
<1>6. Entries(r) = Entries(d) BY DEF Entries, SameLoops
<1>7. \A x : Has(r, x) <=> Has(d, x) BY <1>5 DEF Has, old, new
<1>8. /\ r.whilelines = d.whilelines /\ r.currentwhile = d.currentwhile
      /\ r.while_stack = d.while_stack
  BY DEF SameLoops
<1>9. \A n \in LoopLines(new) :
         \E w \in {"while", "endwhile"}, j \in 0 .. d.whilelines - 1 : new[n][2] = <<w, j>>
  BY <1>5 DEF LabelsHold, old
<1>10. \A n, p \in LoopLines(new) : new[n][1] = "label" /\ new[p] = new[n] => p = n
  BY <1>5 DEF LabelsHold, old
<1>11. \A n \in LoopLines(new) : new[n] = <<new[n][1], new[n][2]>>
  BY <1>5 DEF LabelsHold, old
<1> QED BY <1>6, <1>7, <1>8, <1>9, <1>10, <1>11 DEF LabelsHold, new

LEMMA NamesLoopLines ==
  ASSUME NEW old, NEW new, NEW x, NEW y, IsTable(old), IsTable(new),
         Names(old, new, x, y), ~Loopless(x), ~Loopless(y)
  PROVE  /\ \E p, q : /\ p \notin LoopLines(old) /\ q \notin LoopLines(old) /\ p # q
                      /\ LoopLines(new) = LoopLines(old) \cup {p, q}
                      /\ new[p] = x /\ new[q] = y
         /\ \A n \in LoopLines(old) : new[n] = old[n]
<1>1. /\ Len(old) \in Nat /\ Len(new) \in Nat /\ Len(old) <= Len(new)
      /\ \A n \in 1 .. Len(old) : new[n] = old[n]
  BY TableIsSequence DEF Names
<1>2. PICK p, q \in Len(old) + 1 .. Len(new) :
         /\ p # q /\ new[p] = x /\ new[q] = y
         /\ \A n \in Len(old) + 1 .. Len(new) : n # p /\ n # q => Loopless(new[n])
  BY DEF Names
<1>3. \A n : n \in LoopLines(old) <=> n \in 1 .. Len(old) /\ ~Loopless(old[n])
  BY LoopLinesOf
<1>4. \A n : n \in LoopLines(new) <=> n \in 1 .. Len(new) /\ ~Loopless(new[n])
  BY LoopLinesOf
<1>5. p \in 1 .. Len(new) /\ q \in 1 .. Len(new)
      /\ p \notin 1 .. Len(old) /\ q \notin 1 .. Len(old)
  BY <1>1
<1>6. \A n : n \in 1 .. Len(new) <=>
                n \in 1 .. Len(old) \/ n \in Len(old) + 1 .. Len(new)
  BY <1>1
<1>7. LoopLines(new) = LoopLines(old) \cup {p, q}
  BY <1>1, <1>2, <1>3, <1>4, <1>5, <1>6
<1> QED BY <1>1, <1>2, <1>3, <1>5, <1>7

\* WHILE takes the next number for its labels, and an entry
LEMMA OpenKeepsLabels ==
  ASSUME NEW d, NEW r, IsTable(d.code), IsTable(r.code), LabelsHold(d),
         LoopOpened(d, r), d.currentwhile >= 0
  PROVE  LabelsHold(r)
<1> DEFINE m == d.whilelines
           x == <<"label", <<"while", m>>>>
           y == <<"je", <<"endwhile", m>>>>
<1>1. m \in Nat /\ d.currentwhile \in 0 .. MAX_WHILE_NESTING BY DEF LabelsHold
<1>2. /\ r.currentwhile = d.currentwhile - 1 /\ r.whilelines = m + 1
      /\ DOMAIN r.while_stack = 0 .. MAX_WHILE_NESTING
      /\ r.while_stack = [d.while_stack EXCEPT ![d.currentwhile] = m]
      /\ Names(d.code, r.code, x, y)
  BY <1>1 DEF LoopOpened, LabelsHold
<1>3. ~Loopless(x) /\ ~Loopless(y) BY DEF Loopless
<1>4. PICK p, q : /\ p \notin LoopLines(d.code) /\ q \notin LoopLines(d.code) /\ p # q
                  /\ LoopLines(r.code) = LoopLines(d.code) \cup {p, q}
                  /\ r.code[p] = x /\ r.code[q] = y
  BY <1>2, <1>3, NamesLoopLines
<1>5. \A n \in LoopLines(d.code) : r.code[n] = d.code[n] BY <1>2, <1>3, NamesLoopLines
<1>6. /\ Entries(r) = Entries(d) \cup {d.currentwhile}
      /\ d.currentwhile \notin Entries(d)
      /\ \A i \in Entries(d) : r.while_stack[i] = d.while_stack[i]
      /\ r.while_stack[d.currentwhile] = m
  <2>1. Entries(r) = d.currentwhile .. MAX_WHILE_NESTING BY <1>1, <1>2 DEF Entries
  <2>2. Entries(d) \subseteq 0 .. MAX_WHILE_NESTING BY <1>1 DEF Entries
  <2>3. DOMAIN d.while_stack = 0 .. MAX_WHILE_NESTING BY DEF LabelsHold
  <2> QED BY <1>1, <1>2, <2>1, <2>2, <2>3, TableAssumption DEF Entries
<1>7. \A n \in LoopLines(d.code) :
         \E w \in {"while", "endwhile"}, j \in 0 .. m - 1 : d.code[n][2] = <<w, j>>
  BY DEF LabelsHold
<1>8. \A z : Has(r, z) <=> Has(d, z) \/ z = x \/ z = y BY <1>4, <1>5 DEF Has
<1> HIDE DEF Entries, Has
<1>9. /\ r.whilelines \in Nat /\ r.currentwhile \in -1 .. MAX_WHILE_NESTING
      /\ \A i \in Entries(r) : r.while_stack[i] \in 0 .. r.whilelines - 1
  <2>1. \A i \in Entries(d) : d.while_stack[i] \in 0 .. m - 1 BY DEF LabelsHold
  <2>2. r.whilelines - 1 = m /\ 0 .. m - 1 \subseteq 0 .. m /\ m \in 0 .. m
    BY <1>1, <1>2
  <2>3. r.whilelines \in Nat /\ r.currentwhile \in -1 .. MAX_WHILE_NESTING
    BY <1>1, <1>2, TableAssumption
  <2> HIDE DEF m
  <2> QED BY <1>6, <2>1, <2>2, <2>3
<1>10. \A i, j \in Entries(r) : r.while_stack[i] = r.while_stack[j] => i = j
  <2>1. \A i \in Entries(d) : d.while_stack[i] \in 0 .. m - 1 BY DEF LabelsHold
  <2>2. \A i, j \in Entries(d) : d.while_stack[i] = d.while_stack[j] => i = j
    BY DEF LabelsHold
  <2> QED BY <1>1, <1>6, <2>1, <2>2
<1>11. \A n \in LoopLines(r.code) :
          \E w \in {"while", "endwhile"}, j \in 0 .. m : r.code[n][2] = <<w, j>>
  <2>1. x[2] = <<"while", m>> /\ y[2] = <<"endwhile", m>> OBVIOUS
  <2> HIDE DEF x, y
  <2>2. 0 .. m - 1 \subseteq 0 .. m /\ m \in 0 .. m BY <1>1
  <2> QED BY <1>4, <1>5, <1>7, <2>1, <2>2
<1>12. \A n \in LoopLines(d.code) : d.code[n] # x /\ d.code[n] # y
  <2> SUFFICES ASSUME NEW n \in LoopLines(d.code), d.code[n] = x \/ d.code[n] = y
               PROVE  FALSE
    OBVIOUS
  <2>1. PICK w \in {"while", "endwhile"}, j \in 0 .. m - 1 : d.code[n][2] = <<w, j>>
    BY <1>7
  <2>2. d.code[n][2][2] = m /\ d.code[n][2][2] = j BY <2>1
  <2> QED BY <1>1, <2>2
<1>13. \A n, o \in LoopLines(r.code) :
          r.code[n][1] = "label" /\ r.code[o] = r.code[n] => o = n
  <2>1. x # y OBVIOUS
  <2>2. \A n, o \in LoopLines(d.code) :
           d.code[n][1] = "label" /\ d.code[o] = d.code[n] => o = n
    BY DEF LabelsHold
  <2> HIDE DEF x, y
  <2> QED BY <1>4, <1>5, <1>12, <2>1, <2>2
<1>14. ASSUME NEW j \in 0 .. m
       PROVE  /\ Has(r, <<"label", <<"while", j>>>>)
              /\ Has(r, <<"label", <<"endwhile", j>>>>)
                   <=> \A i \in Entries(r) : r.while_stack[i] # j
  <2>1. CASE j = m
    <3>1. Has(r, x) BY <1>8
    <3>2. ~Has(r, <<"label", <<"endwhile", m>>>>)
      <4>1. <<"label", <<"endwhile", m>>>> # x /\ <<"label", <<"endwhile", m>>>> # y
        OBVIOUS
      <4>2. ~Has(d, <<"label", <<"endwhile", m>>>>)
        <5> SUFFICES ASSUME NEW n \in LoopLines(d.code),
                            d.code[n] = <<"label", <<"endwhile", m>>>>
                     PROVE  FALSE
          BY DEF Has
        <5>1. PICK w \in {"while", "endwhile"}, i \in 0 .. m - 1 :
                 d.code[n][2] = <<w, i>>
          BY <1>7
        <5>2. d.code[n][2][2] = m /\ d.code[n][2][2] = i BY <5>1
        <5> QED BY <1>1, <5>2
      <4> QED BY <1>8, <4>1, <4>2
    <3>3. \E i \in Entries(r) : r.while_stack[i] = m BY <1>6
    <3> QED BY <2>1, <3>1, <3>2, <3>3
  <2>2. CASE j # m
    <3>1. j \in 0 .. m - 1 BY <1>1, <2>2
    <3>2. /\ Has(d, <<"label", <<"while", j>>>>)
          /\ Has(d, <<"label", <<"endwhile", j>>>>)
                <=> \A i \in Entries(d) : d.while_stack[i] # j
      BY <3>1 DEF LabelsHold
    <3>3. <<"label", <<"endwhile", j>>>> # x /\ <<"label", <<"endwhile", j>>>> # y
      BY <2>2
    <3>4. Has(r, <<"label", <<"endwhile", j>>>>) <=> Has(d, <<"label", <<"endwhile", j>>>>)
      BY <1>8, <3>3
    <3>5. Has(r, <<"label", <<"while", j>>>>) BY <1>8, <3>2
    <3>6. (\A i \in Entries(r) : r.while_stack[i] # j)
             <=> \A i \in Entries(d) : d.while_stack[i] # j
      BY <1>6, <2>2
    <3> QED BY <3>2, <3>4, <3>5, <3>6
  <2> QED BY <2>1, <2>2
<1>15. r.whilelines - 1 = m BY <1>1, <1>2
<1> HIDE DEF x, y, m
<1>16. \A n \in LoopLines(r.code) :
          \E w \in {"while", "endwhile"}, j \in 0 .. r.whilelines - 1 :
              r.code[n][2] = <<w, j>>
  BY <1>11, <1>15
<1>17. \A j \in 0 .. r.whilelines - 1 :
          /\ Has(r, <<"label", <<"while", j>>>>)
          /\ Has(r, <<"label", <<"endwhile", j>>>>)
                <=> \A i \in Entries(r) : r.while_stack[i] # j
  BY <1>14, <1>15
<1>18. DOMAIN r.while_stack = 0 .. MAX_WHILE_NESTING BY <1>2
<1>19. \A n \in LoopLines(r.code) : r.code[n] = <<r.code[n][1], r.code[n][2]>>
  <2>1. x = <<x[1], x[2]>> /\ y = <<y[1], y[2]>> BY DEF x, y
  <2>2. \A n \in LoopLines(d.code) : d.code[n] = <<d.code[n][1], d.code[n][2]>>
    BY DEF LabelsHold
  <2> QED BY <1>4, <1>5, <2>1, <2>2
<1> QED BY <1>9, <1>10, <1>13, <1>16, <1>17, <1>18, <1>19 DEF LabelsHold

\* ENDW gives the innermost open loop its last label, and drops its entry
LEMMA CloseKeepsLabels ==
  ASSUME NEW d, NEW r, IsTable(d.code), IsTable(r.code), LabelsHold(d),
         LoopClosed(d, r), d.currentwhile + 1 \in 0 .. MAX_WHILE_NESTING
  PROVE  LabelsHold(r)
<1> DEFINE last == d.currentwhile + 1
           m == d.while_stack[last]
           x == <<"jmp", <<"while", m>>>>
           y == <<"label", <<"endwhile", m>>>>
<1>1. /\ d.whilelines \in Nat /\ d.currentwhile \in -1 .. MAX_WHILE_NESTING
      /\ DOMAIN d.while_stack = 0 .. MAX_WHILE_NESTING
  BY DEF LabelsHold
<1>2. /\ r.currentwhile = last /\ r.whilelines = d.whilelines
      /\ r.while_stack = d.while_stack
      /\ Names(d.code, r.code, x, y)
  BY <1>1 DEF LoopClosed
<1>3. ~Loopless(x) /\ ~Loopless(y) BY DEF Loopless
<1>4. PICK p, q : /\ p \notin LoopLines(d.code) /\ q \notin LoopLines(d.code) /\ p # q
                  /\ LoopLines(r.code) = LoopLines(d.code) \cup {p, q}
                  /\ r.code[p] = x /\ r.code[q] = y
  BY <1>2, <1>3, NamesLoopLines
<1>5. \A n \in LoopLines(d.code) : r.code[n] = d.code[n] BY <1>2, <1>3, NamesLoopLines
<1>6. Entries(d) = Entries(r) \cup {last} /\ last \notin Entries(r)
  BY <1>1, <1>2, TableAssumption DEF Entries
<1>7. m \in 0 .. d.whilelines - 1 BY <1>6 DEF LabelsHold
<1>8. \A z : Has(r, z) <=> Has(d, z) \/ z = x \/ z = y BY <1>4, <1>5 DEF Has
<1>9. ~Has(d, y) BY <1>6, <1>7 DEF LabelsHold
<1> HIDE DEF Entries
<1>10. /\ \A i \in Entries(r) : r.while_stack[i] \in 0 .. r.whilelines - 1
       /\ \A i, j \in Entries(r) : r.while_stack[i] = r.while_stack[j] => i = j
  BY <1>2, <1>6 DEF LabelsHold
<1>11. \A n \in LoopLines(r.code) :
          \E w \in {"while", "endwhile"}, j \in 0 .. r.whilelines - 1 :
              r.code[n][2] = <<w, j>>
  <2>1. x[2] = <<"while", m>> /\ y[2] = <<"endwhile", m>> OBVIOUS
  <2>2. \A n \in LoopLines(d.code) :
          \E w \in {"while", "endwhile"}, j \in 0 .. d.whilelines - 1 :
              d.code[n][2] = <<w, j>>
    BY DEF LabelsHold
  <2> HIDE DEF x, y, m
  <2> QED BY <1>2, <1>4, <1>5, <1>7, <2>1, <2>2
<1>12. \A n, o \in LoopLines(r.code) :
          r.code[n][1] = "label" /\ r.code[o] = r.code[n] => o = n
  <2>1. x[1] # "label" /\ x # y OBVIOUS
  <2>2. \A n, o \in LoopLines(d.code) :
           d.code[n][1] = "label" /\ d.code[o] = d.code[n] => o = n
    BY DEF LabelsHold
  <2>3. \A n \in LoopLines(d.code) : d.code[n] # y BY <1>9 DEF Has
  <2> HIDE DEF x, y
  <2> QED BY <1>4, <1>5, <2>1, <2>2, <2>3
<1>13. ASSUME NEW j \in 0 .. d.whilelines - 1
       PROVE  /\ Has(r, <<"label", <<"while", j>>>>)
              /\ Has(r, <<"label", <<"endwhile", j>>>>)
                   <=> \A i \in Entries(r) : r.while_stack[i] # j
  <2>1. /\ Has(d, <<"label", <<"while", j>>>>)
        /\ Has(d, <<"label", <<"endwhile", j>>>>)
              <=> \A i \in Entries(d) : d.while_stack[i] # j
    BY DEF LabelsHold
  <2>2. Has(r, <<"label", <<"while", j>>>>) BY <1>8, <2>1
  <2>3. CASE j = m
    <3>1. Has(r, <<"label", <<"endwhile", j>>>>) BY <1>8, <2>3
    <3>2. \A i \in Entries(r) : r.while_stack[i] # j
      <4>1. \A i \in Entries(r) : d.while_stack[i] = d.while_stack[last] => i = last
        BY <1>6 DEF LabelsHold
      <4> QED BY <1>2, <1>6, <2>3, <4>1
    <3> QED BY <2>2, <3>1, <3>2
  <2>4. CASE j # m
    <3>1. <<"label", <<"endwhile", j>>>> # x /\ <<"label", <<"endwhile", j>>>> # y
      BY <2>4
    <3>2. Has(r, <<"label", <<"endwhile", j>>>>) <=> Has(d, <<"label", <<"endwhile", j>>>>)
      BY <1>8, <3>1
    <3>3. (\A i \in Entries(r) : r.while_stack[i] # j)
             <=> \A i \in Entries(d) : d.while_stack[i] # j
      BY <1>2, <1>6, <2>4
    <3> QED BY <2>1, <2>2, <3>2, <3>3
  <2> QED BY <2>3, <2>4
<1> HIDE DEF x, y, m
<1>14. r.whilelines \in Nat /\ r.currentwhile \in -1 .. MAX_WHILE_NESTING
       /\ DOMAIN r.while_stack = 0 .. MAX_WHILE_NESTING
  BY <1>1, <1>2
<1>15. 0 .. r.whilelines - 1 = 0 .. d.whilelines - 1 BY <1>2
<1>16. \A n \in LoopLines(r.code) : r.code[n] = <<r.code[n][1], r.code[n][2]>>
  <2>1. x = <<x[1], x[2]>> /\ y = <<y[1], y[2]>> BY DEF x, y
  <2>2. \A n \in LoopLines(d.code) : d.code[n] = <<d.code[n][1], d.code[n][2]>>
    BY DEF LabelsHold
  <2> QED BY <1>4, <1>5, <2>1, <2>2
<1> QED BY <1>10, <1>11, <1>12, <1>13, <1>14, <1>15, <1>16 DEF LabelsHold

\* currentwhile counts the open loops downwards
LoopsInv ==
    /\ TablesInv
    /\ c.outside = FALSE
    /\ LabelsHold(c)
    /\ phase = "compile" =>
         /\ at <= Len(source) + 1
         /\ c.currentwhile = MAX_WHILE_NESTING - Open(source, at - 1)

LEMMA LoopsInvInit == CompilerInit => LoopsInv
<1> SUFFICES ASSUME CompilerInit PROVE LoopsInv OBVIOUS
<1>1. TablesInv BY TablesInvInit
<1>2. /\ c.outside = FALSE /\ c.currentwhile = MAX_WHILE_NESTING
      /\ c.whilelines = 0 /\ c.code = <<>>
      /\ c.while_stack = [n \in 0 .. MAX_WHILE_NESTING |-> 0]
  BY DEF CompilerInit, Compiler0
<1>3. Open(source, at - 1) = 0 BY CountNone DEF CompilerInit, Open
<1>4. Len(source) \in Nat BY <1>1, ProgramsAssumption DEF TablesInv
<1>5. LabelsHold(c)
  <2>1. LoopLines(c.code) = {} BY <1>2 DEF LoopLines
  <2>2. Entries(c) = {} BY <1>2, TableAssumption DEF Entries
  <2>3. 0 .. c.whilelines - 1 = {} BY <1>2
  <2> QED BY <1>2, <2>1, <2>2, <2>3, TableAssumption DEF LabelsHold
<1> QED BY <1>1, <1>2, <1>3, <1>4, <1>5, TableAssumption DEF LoopsInv, CompilerInit

\* A line changes the stack of loops as it changes what is open
LEMMA LineKeepsLoops ==
  ASSUME LoopsInv, phase = "compile", at <= Len(source), LoopsNest(source), NEW r,
         Effect(Innermost[source[at]], c, r)
  PROVE  /\ r.outside = FALSE
         /\ LabelsHold(r)
         /\ r.currentwhile = MAX_WHILE_NESTING - Open(source, at)
         /\ Innermost[source[at]] = "endw" => c.currentwhile + 1 \in 0 .. MAX_WHILE_NESTING
<1> DEFINE kind == Innermost[source[at]]
           n == at - 1
           was == Open(source, n)
           is == Open(source, at)
<1>1. n \in Nat /\ n + 1 = at /\ Len(source) \in Nat
  BY ProgramsAssumption DEF LoopsInv, TablesInv
<1>2. /\ Count(source, n, "while") \in Nat /\ Count(source, n, "endw") \in Nat
      /\ Count(source, at, "while") =
            Count(source, n, "while") + IF kind = "while" THEN 1 ELSE 0
      /\ Count(source, at, "endw") =
            Count(source, n, "endw") + IF kind = "endw" THEN 1 ELSE 0
  <2> HIDE DEF n
  <2>1. \A x : /\ Count(source, n, x) \in Nat
               /\ Count(source, n + 1, x) = Count(source, n, x)
                    + IF Innermost[source[n + 1]] = x THEN 1 ELSE 0
    BY <1>1, CountNext
  <2> QED BY <1>1, <2>1
<1>3. was \in 0 .. MAX_WHILE_NESTING + 1 /\ is \in 0 .. MAX_WHILE_NESTING + 1
  BY <1>1 DEF LoopsNest
<1>4. is = was + (IF kind = "while" THEN 1 ELSE IF kind = "endw" THEN -1 ELSE 0)
  BY <1>2 DEF Open
<1>5. /\ Sound(c) /\ c.outside = FALSE /\ LabelsHold(c)
      /\ DOMAIN c.while_stack = 0 .. MAX_WHILE_NESTING
      /\ c.currentwhile = MAX_WHILE_NESTING - was
  BY DEF LoopsInv, TablesInv, LabelsHold
<1> HIDE DEF kind, was, is
<1>6. Effect(kind, c, r) BY DEF kind
<1>7. IsTable(c.code) /\ IsTable(r.code) BY <1>5, <1>6 DEF Effect, Sound
<1>8. CASE kind = "while"
  <2>1. LoopOpened(c, r) BY <1>5, <1>6, <1>8 DEF Effect
  <2>2. is = was + 1 BY <1>4, <1>8
  <2>3. c.currentwhile >= 0 /\ ~(c.currentwhile < 0) BY <1>3, <1>5, <2>2, TableAssumption
  <2>4. c.currentwhile - 1 = MAX_WHILE_NESTING - is
    BY <1>3, <1>5, <2>2, TableAssumption
  <2>5. LabelsHold(r) BY <1>5, <1>7, <2>1, <2>3, OpenKeepsLabels
  <2> QED BY <1>5, <1>8, <2>1, <2>3, <2>4, <2>5 DEF LoopOpened, is, kind
<1>9. CASE kind = "endw"
  <2>1. LoopClosed(c, r) BY <1>5, <1>6, <1>9 DEF Effect
  <2>2. is = was - 1 BY <1>3, <1>4, <1>9
  <2>3. /\ c.currentwhile + 1 \in 0 .. MAX_WHILE_NESTING
        /\ c.currentwhile + 1 = MAX_WHILE_NESTING - is
    BY <1>3, <1>5, <2>2, TableAssumption
  <2>4. LabelsHold(r) BY <1>5, <1>7, <2>1, <2>3, CloseKeepsLabels
  <2> QED BY <1>5, <2>1, <2>3, <2>4 DEF LoopClosed, is
<1>10. CASE kind \notin {"while", "endw"}
  <2>1. SameLoops(c, r) /\ Extends(c.code, r.code) BY <1>5, <1>6, <1>10 DEF Effect
  <2>2. is = was BY <1>3, <1>4, <1>10
  <2>3. LabelsHold(r) BY <1>5, <1>7, <2>1, ExtendsKeepsLabels
  <2> QED BY <1>5, <1>10, <2>1, <2>2, <2>3 DEF SameLoops, is, kind
<1> QED BY <1>8, <1>9, <1>10

LEMMA LoopsInvStep ==
  ASSUME Recursive, \A p \in Programs : LoopsNest(p)
  PROVE  LoopsInv /\ [CompilerNext]_compilerVars => LoopsInv'
<1> SUFFICES ASSUME LoopsInv, [CompilerNext]_compilerVars PROVE LoopsInv' OBVIOUS
<1>1. TablesInv' BY TablesInvStep DEF LoopsInv
<1>2. CASE CompileLine
  <2>1. phase = "compile" /\ at <= Len(source) /\ TablesInv
    BY <1>2 DEF CompileLine, LoopsInv
  <2>2. source[at] \in Trees(source) /\ source[at][1] \in StatementKinds
    BY <2>1, LineIsStatement
  <2>3. c' = do_line(c, source[at]) /\ source' = source /\ at' = at + 1
    BY <1>2 DEF CompileLine
  <2>4. Effect(Innermost[source[at]], c, c') BY <2>2, <2>3, LineTakesEffect
  <2>5. LoopsNest(source) BY <2>1 DEF TablesInv
  <2>6. /\ c'.outside = FALSE /\ LabelsHold(c')
        /\ c'.currentwhile = MAX_WHILE_NESTING - Open(source, at)
    BY <2>1, <2>4, <2>5, LineKeepsLoops
  <2>7. at \in Nat /\ Len(source) \in Nat
    BY <2>1, ProgramsAssumption DEF TablesInv
  <2>8. at' - 1 = at /\ at' <= Len(source') + 1 BY <2>1, <2>3, <2>7
  <2>9. LabelsHold(c)' BY <2>6 DEF LabelsHold, Entries, Has, LoopLines
  <2> QED BY <1>1, <2>3, <2>6, <2>8, <2>9 DEF LoopsInv
<1>3. CASE WriteRoutines
  <2>1. Spares(c, c') BY <1>3, FinishSpares DEF WriteRoutines
  <2>2. /\ Sound(c) /\ Sound(c') /\ SameLoops(c, c') /\ Extends(c.code, c'.code)
    BY <2>1 DEF Spares, LoopsInv, TablesInv
  <2>3. LabelsHold(c')
    BY <2>2, ExtendsKeepsLabels DEF Sound, LoopsInv
  <2>4. LabelsHold(c)' BY <2>3 DEF LabelsHold, Entries, Has, LoopLines
  <2>5. c'.outside = FALSE BY <2>2 DEF SameLoops, LoopsInv
  <2>6. phase' # "compile" BY <1>3 DEF WriteRoutines
  <2> QED BY <1>1, <2>4, <2>5, <2>6 DEF LoopsInv
<1>4. CASE UNCHANGED compilerVars
  <2>1. c' = c BY <1>4 DEF compilerVars
  <2>2. LabelsHold(c') BY <2>1 DEF LoopsInv
  <2>3. LabelsHold(c)' BY <2>2 DEF LabelsHold, Entries, Has, LoopLines
  <2> QED BY <1>1, <1>4, <2>3 DEF compilerVars, LoopsInv
<1> QED BY <1>2, <1>3, <1>4 DEF CompilerNext

\* A jump goes to a label of its loop, or to the end of one that is open
LEMMA LabelsHoldMatch == LoopsInv => LoopsMatch
<1> SUFFICES ASSUME LoopsInv PROVE LoopsMatch OBVIOUS
<1>1. LabelsHold(c) BY DEF LoopsInv
<1>2. LoopLabelsOnce BY <1>1 DEF LabelsHold, LoopLabelsOnce
<1>3. LoopJumpsResolved
  <2> SUFFICES ASSUME NEW n \in LoopLines(c.code)
               PROVE  \/ Has(c, <<"label", c.code[n][2]>>)
                      \/ \E i \in Entries(c) :
                            c.code[n][2] = <<"endwhile", c.while_stack[i]>>
    BY DEF LoopJumpsResolved, Has, Entries
  <2>1. PICK w \in {"while", "endwhile"}, j \in 0 .. c.whilelines - 1 :
           c.code[n][2] = <<w, j>>
    BY <1>1 DEF LabelsHold
  <2>2. /\ Has(c, <<"label", <<"while", j>>>>)
        /\ Has(c, <<"label", <<"endwhile", j>>>>)
              <=> \A i \in Entries(c) : c.while_stack[i] # j
    BY <1>1 DEF LabelsHold
  <2> QED BY <2>1, <2>2
<1> QED BY <1>2, <1>3 DEF LoopsMatch, LoopsInv

\* In programs whose loops nest, to MAX_WHILE_NESTING + 1 at once and in any number
\* one after the other, WHILE and ENDW use while_stack within its bounds; no two
\* loops share a label, and every jump of a loop has its own label to go to, as soon
\* as the loop is closed
THEOREM LoopsAlwaysMatch ==
  ASSUME Recursive, \A p \in Programs : LoopsNest(p)
  PROVE  CompilerSpec => []LoopsMatch
BY LabelsHoldMatch, LoopsInvInit, LoopsInvStep, PTL DEF CompilerSpec

-----------------------------------------------------------------------------
(* The labels.                                                              *)

\* x is the label that one of the first n lines of p is about, with its function:
\* the line is of one of the kinds
InUse(p, x, n, kinds) ==
    \E i \in 1 .. n, f \in DeclaredFunctions(p, Len(p)) :
        /\ Within(p, i, f) /\ Body(p[i])[1] \in kinds
        /\ x = <<"l", f, Body(p[i])[2]>>

\* A label of a loop that there is, or will be
OfLoops(d, x) ==
    \E w \in {"while", "endwhile"}, j \in 0 .. d.whilelines - 1 : x = <<w, j>>

\* After n lines: where the labels of the code come from, which of them there are
\* for sure, and what a line of code can go to
LabelsGood(d, n) ==
    /\ d.line \in Nat /\ Distinct(d.code)
    /\ \A x \in Labels(d.code) :
          \/ x \in Rets(0, d.label_num)
          \/ \E f \in Internal(d) : x = <<"fn", f>>
          \/ \E i \in 0 .. d.line - 1 : x = <<"i", i>>
          \/ InUse(source, x, n, {"label"})
          \/ x[1] \in {"while", "endwhile"}
    /\ \A f \in Internal(d) : <<"fn", f>> \in Labels(d.code)
    /\ \A x : InUse(source, x, n, {"label"}) => x \in Labels(d.code)
    /\ \A x \in LabelsOf(d.code) :
          \/ x \in Labels(d.code) \cup Known(d)
          \/ OfLoops(d, x)
          \/ InUse(source, x, n, {"goto", "gosub"})
    /\ DeclaredFunctions(source, n) \subseteq Internal(d)
    /\ d.fn # "none" => Within(source, n + 1, d.fn)

LabelsInv ==
    /\ LoopsInv
    /\ phase = "compile" => LabelsGood(c, at - 1)
    /\ phase = "run" => Distinct(c.code) /\ LabelsOf(c.code) \subseteq Labels(c.code)

\* A line is in one function
LEMMA WithinOne ==
  ASSUME NEW p, NEW n \in Nat, NEW f, NEW g, Within(p, n, f), Within(p, n, g)
  PROVE  f = g
<1>1. PICK i \in 1 .. n - 1 :
         /\ Body(p[i])[1] = "function" /\ Body(p[i])[2] = f
         /\ \A j \in i + 1 .. n - 1 : Body(p[j])[1] \notin {"function", "endf"}
  BY DEF Within
<1>2. PICK m \in 1 .. n - 1 :
         /\ Body(p[m])[1] = "function" /\ Body(p[m])[2] = g
         /\ \A j \in m + 1 .. n - 1 : Body(p[j])[1] \notin {"function", "endf"}
  BY DEF Within
<1>3. ~(i < m)
  <2> SUFFICES ASSUME i < m PROVE FALSE OBVIOUS
  <2>1. m \in i + 1 .. n - 1 OBVIOUS
  <2> QED BY <1>1, <1>2, <2>1
<1>4. ~(m < i)
  <2> SUFFICES ASSUME m < i PROVE FALSE OBVIOUS
  <2>1. i \in m + 1 .. n - 1 OBVIOUS
  <2> QED BY <1>1, <1>2, <2>1
<1>5. i = m BY <1>3, <1>4
<1> QED BY <1>1, <1>2, <1>5

\* The function of a line is declared before it
LEMMA WithinDeclared ==
  ASSUME NEW p, NEW n \in Nat, NEW m \in Nat, n <= m + 1, NEW f, Within(p, n, f)
  PROVE  f \in DeclaredFunctions(p, m)
<1>1. PICK i \in 1 .. n - 1 : Body(p[i])[1] = "function" /\ Body(p[i])[2] = f
  BY DEF Within
<1>2. i \in 1 .. m OBVIOUS
<1> QED BY <1>1, <1>2 DEF DeclaredFunctions

\* What a line does to the functions of a source, and to the place in it
LEMMA WithinNext ==
  ASSUME NEW p, NEW n \in Nat, n >= 1
  PROVE  /\ Body(p[n])[1] = "function" => Within(p, n + 1, Body(p[n])[2])
         /\ Body(p[n])[1] \notin {"function", "endf"} =>
              \A f : Within(p, n, f) => Within(p, n + 1, f)
         /\ DeclaredFunctions(p, n) =
              DeclaredFunctions(p, n - 1)
                \cup IF Body(p[n])[1] = "function" THEN {Body(p[n])[2]} ELSE {}
<1>1. n \in 1 .. (n + 1) - 1 /\ n + 1 .. (n + 1) - 1 = {} OBVIOUS
<1>2. Body(p[n])[1] = "function" => Within(p, n + 1, Body(p[n])[2]) BY <1>1 DEF Within
<1>3. ASSUME Body(p[n])[1] \notin {"function", "endf"}, NEW f, Within(p, n, f)
      PROVE  Within(p, n + 1, f)
  <2>1. PICK i \in 1 .. n - 1 :
           /\ Body(p[i])[1] = "function" /\ Body(p[i])[2] = f
           /\ \A j \in i + 1 .. n - 1 : Body(p[j])[1] \notin {"function", "endf"}
    BY <1>3 DEF Within
  <2>2. \A j \in i + 1 .. (n + 1) - 1 : j \in i + 1 .. n - 1 \/ j = n OBVIOUS
  <2>3. i \in 1 .. (n + 1) - 1 OBVIOUS
  <2>4. \A j \in i + 1 .. (n + 1) - 1 : Body(p[j])[1] \notin {"function", "endf"}
    BY <1>3, <2>1, <2>2
  <2> QED BY <2>1, <2>3, <2>4 DEF Within
<1>4. 1 .. n = (1 .. n - 1) \cup {n} OBVIOUS
<1>5. DeclaredFunctions(p, n) =
        DeclaredFunctions(p, n - 1)
          \cup IF Body(p[n])[1] = "function" THEN {Body(p[n])[2]} ELSE {}
  BY <1>4 DEF DeclaredFunctions
<1> QED BY <1>2, <1>3, <1>5

\* The labels in use after one line more
LEMMA InUseNext ==
  ASSUME NEW p, NEW n \in Nat, n >= 1, n <= Len(p), Len(p) \in Nat, NEW x, NEW kinds
  PROVE  /\ InUse(p, x, n - 1, kinds) => InUse(p, x, n, kinds)
         /\ InUse(p, x, n, kinds) =>
              \/ InUse(p, x, n - 1, kinds)
              \/ \E f : /\ Within(p, n, f) /\ Body(p[n])[1] \in kinds
                        /\ x = <<"l", f, Body(p[n])[2]>>
         /\ \A f : Within(p, n, f) /\ Body(p[n])[1] \in kinds
                     => InUse(p, <<"l", f, Body(p[n])[2]>>, n, kinds)
<1>1. 1 .. n = (1 .. n - 1) \cup {n} OBVIOUS
<1>2. \A f : Within(p, n, f) => f \in DeclaredFunctions(p, Len(p))
  <2> SUFFICES ASSUME NEW f, Within(p, n, f) PROVE f \in DeclaredFunctions(p, Len(p))
    OBVIOUS
  <2>1. n <= Len(p) + 1 OBVIOUS
  <2> QED BY <2>1, WithinDeclared
<1> QED BY <1>1, <1>2 DEF InUse

\* The loops of the code are its labels, of these names
LEMMA LoopLabels ==
  ASSUME NEW d, IsTable(d.code), LabelsHold(d), NEW x, x[1] \in {"while", "endwhile"}
  PROVE  x \in Labels(d.code) <=> Has(d, <<"label", x>>)
<1> DEFINE s == d.code
<1>1. \A n : n \in LoopLines(s) <=> n \in 1 .. Len(s) /\ ~Loopless(s[n])
  BY LoopLinesOf
<1>2. x \in Labels(s) <=> \E n \in 1 .. Len(s) : s[n][1] = "label" /\ s[n][2] = x
  BY LabelsAre
<1>3. \A n : s[n][1] = "label" /\ s[n][2] = x => ~Loopless(s[n]) BY DEF Loopless
<1>4. \A n \in LoopLines(s) : s[n] = <<s[n][1], s[n][2]>> BY DEF LabelsHold
<1>5. \A n : s[n] = <<"label", x>> => s[n][1] = "label" /\ s[n][2] = x OBVIOUS
<1> QED BY <1>1, <1>2, <1>3, <1>4, <1>5 DEF Has

LEMMA CompilerStartsGood == CompilerInit => LabelsInv
<1> SUFFICES ASSUME CompilerInit PROVE LabelsInv OBVIOUS
<1>1. LoopsInv BY LoopsInvInit
<1>2. /\ c.code = <<>> /\ c.functions = <<>> /\ c.line = 1 /\ c.fn = "none"
      /\ phase = "compile" /\ at - 1 = 0
  BY DEF CompilerInit, Compiler0
<1>3. IsTable(c.code) /\ Len(c.code) = 0 BY <1>2 DEF IsTable
<1>4. Labels(c.code) = {} /\ LabelsOf(c.code) = {} /\ Distinct(c.code)
  <2>1. 1 .. Len(c.code) = {} BY <1>3
  <2> QED BY <1>3, <2>1, LabelsAre
<1>5. Internal(c) = {} BY <1>2 DEF Internal
<1>6. 1 .. 0 = {} OBVIOUS
<1>7. DeclaredFunctions(source, 0) = {} /\ \A x, kinds : ~InUse(source, x, 0, kinds)
  BY <1>6 DEF DeclaredFunctions, InUse
<1> QED BY <1>1, <1>2, <1>4, <1>5, <1>7 DEF LabelsInv, LabelsGood

\* The first member of a label says where it is from
LEMMA LabelKinds ==
  ASSUME NEW d, NEW n, LabelsGood(d, n), NEW x \in Labels(d.code)
  PROVE  /\ x[1] \in {"ret", "fn", "i", "l", "while", "endwhile"}
         /\ x[1] = "ret" => x \in Rets(0, d.label_num)
         /\ x[1] = "fn" => \E f \in Internal(d) : x = <<"fn", f>>
         /\ x[1] = "i" => \E i \in 0 .. d.line - 1 : x = <<"i", i>>
         /\ x[1] = "l" => InUse(source, x, n, {"label"})
<1>1. \/ x \in Rets(0, d.label_num)
      \/ \E f \in Internal(d) : x = <<"fn", f>>
      \/ \E i \in 0 .. d.line - 1 : x = <<"i", i>>
      \/ InUse(source, x, n, {"label"})
      \/ x[1] \in {"while", "endwhile"}
  BY DEF LabelsGood
<1>2. x \in Rets(0, d.label_num) => x[1] = "ret" BY DEF Rets
<1>3. InUse(source, x, n, {"label"}) => x[1] = "l" BY DEF InUse
<1>4. (\E f \in Internal(d) : x = <<"fn", f>>) => x[1] = "fn" OBVIOUS
<1>5. (\E i \in 0 .. d.line - 1 : x = <<"i", i>>) => x[1] = "i" OBVIOUS
<1> QED BY <1>1, <1>2, <1>3, <1>4, <1>5

LEMMA KindOfLine ==
  ASSUME TablesInv, at <= Len(source), OneIfInLine(source)
  PROVE  /\ Innermost[source[at]] = Body(source[at])[1]
         /\ source[at][1] = "if" => source[at][3][1] \notin {"if", "struct"}
<1> DEFINE s == source[at]
<1>1. at \in 1 .. Len(source) /\ s \in Trees(source) BY LineIsStatement
<1>2. s \in DOMAIN Nesting /\ Parts(s) \subseteq Trees(source) BY <1>1, TreesClosed
<1>3. s[1] = "if" => s[3][1] \notin {"if", "struct"} BY <1>1 DEF OneIfInLine
<1> HIDE DEF s
<1>4. Innermost[s] = IF s[1] = "if" THEN Innermost[s[3]] ELSE s[1]
  BY <1>2, InnermostDefined
<1>5. CASE s[1] = "if"
  <2>1. s[3] \in Parts(s) BY <1>5 DEF Parts, Bodies
  <2>2. s[3] \in DOMAIN Nesting BY <1>2, <2>1, TreesClosed
  <2>3. Innermost[s[3]] = s[3][1] BY <1>3, <1>5, <2>2, InnermostDefined
  <2> QED BY <1>3, <1>4, <1>5, <2>3 DEF s, Body
<1>6. CASE s[1] # "if" BY <1>3, <1>4, <1>6 DEF s, Body
<1> QED BY <1>5, <1>6

\* What an ENDW ends, and how the numbers of the loops go on
LEMMA LoopsGoOn ==
  ASSUME NEW b, NEW r, Sound(c), LabelsHold(c), Effect(b[1], c, r),
         b[1] = "endw" => c.currentwhile + 1 \in 0 .. MAX_WHILE_NESTING
  PROVE  /\ InLoop(c, b)
         /\ c.whilelines \in Nat /\ r.whilelines \in Nat /\ c.whilelines <= r.whilelines
         /\ b[1] = "while" => c.whilelines < r.whilelines
         /\ b[1] = "endw" =>
              LET m == c.while_stack[c.currentwhile + 1]
              IN m \in 0 .. c.whilelines - 1 /\ ~Has(c, <<"label", <<"endwhile", m>>>>)
<1>1. c.whilelines \in Nat /\ DOMAIN c.while_stack = 0 .. MAX_WHILE_NESTING
      /\ c.currentwhile \in -1 .. MAX_WHILE_NESTING
  BY DEF LabelsHold
<1>2. InLoop(c, b) BY <1>1 DEF InLoop
<1>3. CASE b[1] = "while"
  <2>1. r.whilelines = c.whilelines + 1 BY <1>3 DEF Effect, LoopOpened
  <2> QED BY <1>1, <1>2, <1>3, <2>1
<1>4. CASE b[1] = "endw"
  <2>1. r.whilelines = c.whilelines BY <1>1, <1>4 DEF Effect, LoopClosed
  <2> DEFINE e == c.currentwhile + 1
             m == c.while_stack[e]
  <2>2. e \in Entries(c) BY <1>1, <1>4 DEF Entries
  <2> HIDE DEF e
  <2>3. m \in 0 .. c.whilelines - 1 BY <2>2 DEF LabelsHold
  <2>4. Has(c, <<"label", <<"endwhile", m>>>>) <=> \A i \in Entries(c) : c.while_stack[i] # m
    BY <2>3 DEF LabelsHold
  <2>5. ~Has(c, <<"label", <<"endwhile", m>>>>) BY <2>2, <2>4
  <2> QED BY <1>1, <1>2, <1>4, <2>1, <2>3, <2>5 DEF e
<1>5. CASE b[1] \notin {"while", "endw"}
  <2>1. r.whilelines = c.whilelines BY <1>5 DEF Effect, SameLoops
  <2> QED BY <1>1, <1>2, <1>5, <2>1
<1> QED BY <1>3, <1>4, <1>5

\* No label that a line gives is there before
LEMMA GivenIsNew ==
  ASSUME NEW s, NEW r, NEW T,
         at \in 1 .. Len(source), Len(source) \in Nat, s = source[at],
         NamesResolve(source, T), LabelsGood(c, at - 1),
         Sound(c), LabelsHold(c), c.label_num <= r.label_num, Goes(s, c, r),
         Body(s)[1] = "endw" =>
            ~Has(c, <<"label", <<"endwhile", c.while_stack[c.currentwhile + 1]>>>>)
  PROVE  Labels(c.code)
           \cap (Rets(c.label_num, r.label_num) \cup Given(c, Body(s)) \cup Skipped(c, s)) = {}
<1> DEFINE b == Body(s)
<1> SUFFICES ASSUME NEW x \in Labels(c.code),
                    x \in Rets(c.label_num, r.label_num) \cup Given(c, b) \cup Skipped(c, s)
             PROVE  FALSE
  OBVIOUS
<1>1. x[1] = "ret" => x \in Rets(0, c.label_num) BY LabelKinds
<1>2. x[1] = "fn" => \E f \in Internal(c) : x = <<"fn", f>> BY LabelKinds
<1>3. x[1] = "i" => \E i \in 0 .. c.line - 1 : x = <<"i", i>> BY LabelKinds
<1>4. x[1] = "l" => InUse(source, x, at - 1, {"label"}) BY LabelKinds
<1>5. IsTable(c.code) /\ c.label_num \in Nat BY DEF Sound
<1>6. CASE x \in Rets(c.label_num, r.label_num)
  <2>1. PICK i \in c.label_num .. r.label_num - 1 : x = <<"ret", i>> BY <1>6 DEF Rets
  <2>2. x[1] = "ret" /\ x[2] = i BY <2>1
  <2>3. PICK j \in 0 .. c.label_num - 1 : x = <<"ret", j>> BY <1>1, <2>2 DEF Rets
  <2>4. x[2] = j BY <2>3
  <2> QED BY <1>5, <2>2, <2>4
<1>7. CASE x \in Skipped(c, s)
  <2>1. x = <<"i", c.line>> BY <1>7 DEF Skipped
  <2>2. x[1] = "i" /\ x[2] = c.line BY <2>1
  <2>3. PICK i \in 0 .. c.line - 1 : x = <<"i", i>> BY <1>3, <2>2
  <2>4. x[2] = i /\ c.line \in Nat BY <2>3 DEF LabelsGood
  <2> QED BY <2>2, <2>4
<1>8. CASE x \in Given(c, b)
  <2>1. CASE b[1] = "label"
    <3>1. x = <<"l", c.fn, b[2]>> BY <1>8, <2>1 DEF Given
    <3>2. x[1] = "l" /\ x[2] = c.fn /\ x[3] = b[2] BY <3>1
    <3>3. PICK i \in 1 .. at - 1, f \in DeclaredFunctions(source, Len(source)) :
             /\ Within(source, i, f) /\ Body(source[i])[1] = "label"
             /\ x = <<"l", f, Body(source[i])[2]>>
      BY <1>4, <3>2 DEF InUse
    <3>4. f = c.fn /\ Body(source[i])[2] = b[2]
      <4>1. x[2] = f /\ x[3] = Body(source[i])[2] BY <3>3
      <4> QED BY <3>2, <4>1
    <3>5. Within(source, at, c.fn)
      <4>1. c.fn # "none" BY <2>1 DEF Goes
      <4>2. (at - 1) + 1 = at OBVIOUS
      <4> QED BY <4>1, <4>2 DEF LabelsGood
    <3>6. Labelled(source, c.fn, b[2]) = {at}
      BY <2>1, <3>3, <3>4, <3>5 DEF NamesResolve
    <3>7. i \in 1 .. Len(source) /\ i # at OBVIOUS
    <3>8. i \in Labelled(source, c.fn, b[2]) BY <3>3, <3>4, <3>7 DEF Labelled
    <3> QED BY <3>6, <3>7, <3>8
  <2>2. CASE b[1] = "function"
    <3>1. x = <<"fn", b[2]>> BY <1>8, <2>2 DEF Given
    <3>2. x[1] = "fn" /\ x[2] = b[2] BY <3>1
    <3>3. PICK f \in Internal(c) : x = <<"fn", f>> BY <1>2, <3>2
    <3>4. x[2] = f BY <3>3
    <3> QED BY <2>2, <3>2, <3>3, <3>4 DEF Goes
  <2>3. CASE b[1] = "while"
    <3>1. x = <<"while", c.whilelines>> BY <1>8, <2>3 DEF Given
    <3>2. x[1] = "while" /\ x[2] = c.whilelines BY <3>1
    <3>3. Has(c, <<"label", x>>) BY <1>5, <3>2, LoopLabels
    <3>4. PICK n \in LoopLines(c.code) : c.code[n] = <<"label", x>> BY <3>3 DEF Has
    <3>5. PICK w \in {"while", "endwhile"}, j \in 0 .. c.whilelines - 1 :
             c.code[n][2] = <<w, j>>
      BY DEF LabelsHold
    <3>6. x = <<w, j>> BY <3>4, <3>5
    <3>7. x[2] = j /\ c.whilelines \in Nat BY <3>6 DEF LabelsHold
    <3> QED BY <3>2, <3>7
  <2>4. CASE b[1] = "endw"
    <3>1. x = <<"endwhile", c.while_stack[c.currentwhile + 1]>> BY <1>8, <2>4 DEF Given
    <3>2. x[1] = "endwhile" BY <3>1
    <3>3. Has(c, <<"label", x>>) BY <1>5, <3>2, LoopLabels
    <3> QED BY <2>4, <3>1, <3>3
  <2>5. CASE b[1] \notin {"label", "function", "while", "endw"} BY <1>8, <2>5 DEF Given
  <2> QED BY <2>1, <2>2, <2>3, <2>4, <2>5
<1> QED BY <1>6, <1>7, <1>8

\* A line of the source leaves the labels as they have to be
LEMMA LineKeepsLabels ==
  ASSUME Recursive, LoopsNest(source), OneIfInLine(source), NEW T, NamesResolve(source, T),
         LoopsInv, phase = "compile", at <= Len(source), LabelsGood(c, at - 1),
         NEW r, r = do_line(c, source[at]), ~r.err
  PROVE  LabelsGood(r, at)
<1> DEFINE s == source[at]
           b == Body(s)
           n == at - 1
           X == Given(c, b) \cup Skipped(c, s)
           Y == Asked(c, b)
<1>1. /\ TablesInv /\ Sound(c) /\ LabelsHold(c)
      /\ at \in 1 .. Len(source) /\ Len(source) \in Nat
      /\ s \in Trees(source) /\ s[1] \in StatementKinds
  BY LineIsStatement, ProgramsAssumption DEF LoopsInv, TablesInv
<1>2. Innermost[s] = b[1] /\ (s[1] = "if" => s[3][1] \notin {"if", "struct"})
  BY <1>1, KindOfLine
<1>3. Effect(Innermost[s], c, r) BY <1>1, LineTakesEffect
<1>4. Innermost[s] = "endw" => c.currentwhile + 1 \in 0 .. MAX_WHILE_NESTING
  BY <1>3, LineKeepsLoops
<1>5. Sound(r) BY <1>1, <1>3 DEF Effect
<1> DEFINE m == c.while_stack[c.currentwhile + 1]
<1>6. /\ InLoop(c, b)
      /\ c.whilelines \in Nat /\ r.whilelines \in Nat /\ c.whilelines <= r.whilelines
      /\ b[1] = "while" => c.whilelines < r.whilelines
      /\ b[1] = "endw" =>
            m \in 0 .. c.whilelines - 1 /\ ~Has(c, <<"label", <<"endwhile", m>>>>)
  <2> HIDE DEF b
  <2> QED BY <1>1, <1>2, <1>3, <1>4, LoopsGoOn
<1>7. Adds(c, r, X, Y) /\ Goes(s, c, r) BY <1>1, <1>2, <1>6, LineServes
<1>8. Labels(c.code) \cap (Rets(c.label_num, r.label_num) \cup X) = {}
  <2>1. c.label_num <= r.label_num BY <1>7 DEF Adds
  <2>2. Labels(c.code)
          \cap (Rets(c.label_num, r.label_num) \cup Given(c, b) \cup Skipped(c, s)) = {}
    <3> HIDE DEF s
    <3> QED BY <1>1, <1>6, <1>7, <2>1, GivenIsNew DEF s
  <2> QED BY <2>2
<1>9. /\ Labels(r.code) = Labels(c.code) \cup Rets(c.label_num, r.label_num) \cup X
      /\ LabelsOf(r.code) \subseteq LabelsOf(c.code) \cup Labels(r.code) \cup Known(r) \cup Y
      /\ Known(c) \subseteq Known(r) /\ Distinct(r.code)
      /\ c.label_num \in Nat /\ r.label_num \in Nat /\ c.label_num <= r.label_num
  BY <1>1, <1>5, <1>7, <1>8 DEF Adds, LabelsGood, Sound
<1>10. /\ b[1] \in {"label", "goto", "gosub"} => c.fn # "none"
       /\ Internal(r) = Internal(c) \cup IF b[1] = "function" THEN {b[2]} ELSE {}
       /\ r.fn = CASE b[1] = "function" -> b[2] [] b[1] = "endf" -> "none" [] OTHER -> c.fn
       /\ c.line \in Nat /\ r.line \in Nat /\ c.line <= r.line
       /\ s[1] = "if" => c.line < r.line
  BY <1>7 DEF Goes, LabelsGood
<1>11. n \in Nat /\ n + 1 = at /\ at \in Nat /\ at >= 1 /\ at <= Len(source) BY <1>1
<1>12. c.fn # "none" => Within(source, at, c.fn) BY <1>11 DEF LabelsGood
<1>13. /\ b[1] = "function" => Within(source, at + 1, b[2])
       /\ b[1] \notin {"function", "endf"} =>
            \A f : Within(source, at, f) => Within(source, at + 1, f)
       /\ DeclaredFunctions(source, at) =
            DeclaredFunctions(source, n) \cup IF b[1] = "function" THEN {b[2]} ELSE {}
  BY <1>11, WithinNext
<1>14. \A x, kinds :
          /\ InUse(source, x, n, kinds) => InUse(source, x, at, kinds)
          /\ InUse(source, x, at, kinds) =>
               \/ InUse(source, x, n, kinds)
               \/ \E f : Within(source, at, f) /\ b[1] \in kinds /\ x = <<"l", f, b[2]>>
          /\ \A f : Within(source, at, f) /\ b[1] \in kinds
                      => InUse(source, <<"l", f, b[2]>>, at, kinds)
  BY <1>1, <1>11, InUseNext
<1>15. /\ \A x \in Labels(c.code) :
            \/ x \in Rets(0, c.label_num)
            \/ \E f \in Internal(c) : x = <<"fn", f>>
            \/ \E i \in 0 .. c.line - 1 : x = <<"i", i>>
            \/ InUse(source, x, n, {"label"})
            \/ x[1] \in {"while", "endwhile"}
       /\ \A f \in Internal(c) : <<"fn", f>> \in Labels(c.code)
       /\ \A x : InUse(source, x, n, {"label"}) => x \in Labels(c.code)
       /\ \A x \in LabelsOf(c.code) :
            \/ x \in Labels(c.code) \cup Known(c)
            \/ OfLoops(c, x)
            \/ InUse(source, x, n, {"goto", "gosub"})
       /\ DeclaredFunctions(source, n) \subseteq Internal(c)
  BY DEF LabelsGood
<1> HIDE DEF n, b
<1>16. ASSUME NEW x \in Labels(r.code)
       PROVE  \/ x \in Rets(0, r.label_num)
              \/ \E f \in Internal(r) : x = <<"fn", f>>
              \/ \E i \in 0 .. r.line - 1 : x = <<"i", i>>
              \/ InUse(source, x, at, {"label"})
              \/ x[1] \in {"while", "endwhile"}
  <2>1. Rets(0, r.label_num) = Rets(0, c.label_num) \cup Rets(c.label_num, r.label_num)
    BY <1>9, RetsJoin
  <2>2. CASE x \in Labels(c.code)
    <3>1. \A i \in 0 .. c.line - 1 : i \in 0 .. r.line - 1 BY <1>10
    <3> QED BY <1>10, <1>14, <1>15, <2>1, <2>2, <3>1
  <2>3. CASE x \in Rets(c.label_num, r.label_num) BY <2>1, <2>3
  <2>4. CASE x \in Skipped(c, s)
    <3>1. s[1] = "if" /\ x = <<"i", c.line>> BY <2>4 DEF Skipped
    <3>2. c.line \in 0 .. r.line - 1 BY <1>10, <3>1
    <3> QED BY <3>1, <3>2
  <2>5. CASE x \in Given(c, b)
    <3>1. CASE b[1] = "label"
      <4>1. x = <<"l", c.fn, b[2]>> /\ Within(source, at, c.fn)
        BY <1>10, <1>12, <2>5, <3>1 DEF Given
      <4> QED BY <1>14, <3>1, <4>1
    <3>2. CASE b[1] = "function"
      <4>1. x = <<"fn", b[2]>> /\ b[2] \in Internal(r) BY <1>10, <2>5, <3>2 DEF Given
      <4> QED BY <4>1
    <3>3. CASE b[1] \in {"while", "endw"}
      <4>1. x[1] \in {"while", "endwhile"} BY <2>5, <3>3 DEF Given
      <4> QED BY <4>1
    <3>4. CASE b[1] \notin {"label", "function", "while", "endw"}
      BY <2>5, <3>4 DEF Given
    <3> QED BY <3>1, <3>2, <3>3, <3>4
  <2> QED BY <1>9, <2>2, <2>3, <2>4, <2>5
<1>17. ASSUME NEW f \in Internal(r) PROVE <<"fn", f>> \in Labels(r.code)
  <2>1. CASE f \in Internal(c) BY <1>9, <1>15, <2>1
  <2>2. CASE f \notin Internal(c)
    <3>1. b[1] = "function" /\ f = b[2] BY <1>10, <2>2
    <3>2. <<"fn", f>> \in Given(c, b) BY <3>1 DEF Given
    <3> QED BY <1>9, <3>2
  <2> QED BY <2>1, <2>2
<1>18. ASSUME NEW x, InUse(source, x, at, {"label"}) PROVE x \in Labels(r.code)
  <2>1. CASE InUse(source, x, n, {"label"}) BY <1>9, <1>15, <2>1
  <2>2. CASE ~InUse(source, x, n, {"label"})
    <3>1. PICK f : Within(source, at, f) /\ b[1] = "label" /\ x = <<"l", f, b[2]>>
      BY <1>14, <1>18, <2>2
    <3>2. Within(source, at, c.fn) BY <1>10, <1>12, <3>1
    <3>3. f = c.fn BY <1>11, <3>1, <3>2, WithinOne
    <3>4. x \in Given(c, b) BY <3>1, <3>3 DEF Given
    <3> QED BY <1>9, <3>4
  <2> QED BY <2>1, <2>2
<1>19. ASSUME NEW x \in LabelsOf(r.code)
       PROVE  \/ x \in Labels(r.code) \cup Known(r)
              \/ OfLoops(r, x)
              \/ InUse(source, x, at, {"goto", "gosub"})
  <2>1. \A w \in {"while", "endwhile"}, j \in 0 .. r.whilelines - 1 : OfLoops(r, <<w, j>>)
    BY DEF OfLoops
  <2>2. CASE x \in LabelsOf(c.code)
    <3>1. OfLoops(c, x) => OfLoops(r, x)
      <4>1. 0 .. c.whilelines - 1 \subseteq 0 .. r.whilelines - 1 BY <1>6
      <4> QED BY <4>1 DEF OfLoops
    <3> QED BY <1>9, <1>14, <1>15, <2>2, <3>1
  <2>3. CASE x \in Y
    <3>1. CASE b[1] \in {"goto", "gosub"}
      <4>1. x = <<"l", c.fn, b[2]>> /\ Within(source, at, c.fn)
        BY <1>10, <1>12, <2>3, <3>1 DEF Asked
      <4> QED BY <1>14, <3>1, <4>1
    <3>2. CASE b[1] = "while"
      <4>1. x = <<"endwhile", c.whilelines>> BY <2>3, <3>2 DEF Asked
      <4>2. c.whilelines \in 0 .. r.whilelines - 1 BY <1>6, <3>2
      <4> QED BY <2>1, <4>1, <4>2
    <3>3. CASE b[1] = "endw"
      <4>1. x = <<"while", m>> BY <2>3, <3>3 DEF Asked
      <4>2. m \in 0 .. r.whilelines - 1
        <5>1. m \in 0 .. c.whilelines - 1 BY <1>6, <3>3
        <5> HIDE DEF m
        <5> QED BY <1>6, <5>1
      <4> QED BY <2>1, <4>1, <4>2
    <3>4. CASE b[1] \notin {"goto", "gosub", "while", "endw"} BY <2>3, <3>4 DEF Asked
    <3> QED BY <3>1, <3>2, <3>3, <3>4
  <2> QED BY <1>9, <2>2, <2>3
<1>20. DeclaredFunctions(source, at) \subseteq Internal(r) BY <1>10, <1>13, <1>15
<1>21. r.fn # "none" => Within(source, at + 1, r.fn) BY <1>10, <1>12, <1>13
<1> QED BY <1>9, <1>10, <1>16, <1>17, <1>18, <1>19, <1>20, <1>21 DEF LabelsGood

\* finish() gives the labels that are left, and no other
LEMMA FinishResolves ==
  ASSUME Open(source, Len(source)) = 0, NEW T \in SUBSET DOMAIN Nesting,
         NamesResolve(source, T), LoopsInv, phase = "compile", at > Len(source),
         LabelsGood(c, at - 1), NEW r, r = finish(c)
  PROVE  Distinct(r.code) /\ LabelsOf(r.code) \subseteq Labels(r.code)
<1>1. Sound(c) /\ LabelsHold(c) /\ at - 1 = Len(source) /\ Len(source) \in Nat
  BY ProgramsAssumption DEF LoopsInv, TablesInv
<1>2. PICK s, X : /\ r = Emit(c, s) /\ Block(s, X, Finishing) /\ Owed(c) \subseteq X
  BY <1>1, FinishBlock
<1>3. Part(s, X, Ends) /\ \A x \in X : x[1] \in Finishing BY <1>2 DEF Block
<1>4. Adds(c, r, X, Ends) /\ r.label_num = c.label_num /\ Known(r) = Known(c)
  BY <1>1, <1>2, <1>3, EmitAdds
<1>5. Rets(c.label_num, r.label_num) = {} BY <1>1, <1>4, RetsNone DEF Sound
<1>6. Labels(c.code) \cap X = {}
  <2>1. \A x \in Labels(c.code) : x[1] \in {"ret", "fn", "i", "l", "while", "endwhile"}
    BY LabelKinds
  <2>2. {"ret", "fn", "i", "l", "while", "endwhile"} \cap Finishing = {} BY DEF Finishing
  <2> QED BY <1>3, <2>1, <2>2
<1>7. /\ Distinct(r.code) /\ Labels(r.code) = Labels(c.code) \cup X
      /\ LabelsOf(r.code) \subseteq LabelsOf(c.code) \cup Labels(r.code) \cup Known(c) \cup Ends
  BY <1>4, <1>5, <1>6 DEF Adds, LabelsGood
<1>8. DeclaredFunctions(source, Len(source)) \subseteq Internal(c) BY <1>1 DEF LabelsGood
<1>9. \A f \in Internal(c) : <<"fn", f>> \in Labels(r.code) BY <1>7 DEF LabelsGood
<1>10. Taken \subseteq DeclaredFunctions(source, Len(source))
  <2>1. Trees(source) \subseteq T BY DEF Trees, NamesResolve
  <2> QED BY <2>1 DEF Taken, NamesResolve
<1>11. Known(c) \subseteq Labels(r.code)
  <2>1. Known(c) = Owed(c) \cup {<<"fn", f>> : f \in Internal(c) \cup Taken}
    BY DEF Known, Owed
  <2>2. Owed(c) \subseteq Labels(r.code) BY <1>2, <1>7
  <2> QED BY <1>8, <1>9, <1>10, <2>1, <2>2
<1>12. Ends \subseteq Labels(r.code)
  <2>1. "main" \in Internal(c) BY <1>8 DEF NamesResolve
  <2>2. Always \subseteq Labels(r.code) BY <1>2, <1>7 DEF Owed
  <2> QED BY <1>9, <2>1, <2>2 DEF Ends
<1>13. ASSUME NEW x, OfLoops(c, x) PROVE x \in Labels(r.code)
  <2>1. PICK w \in {"while", "endwhile"}, j \in 0 .. c.whilelines - 1 : x = <<w, j>>
    BY <1>13 DEF OfLoops
  <2>2. c.currentwhile = MAX_WHILE_NESTING BY <1>1, TableAssumption DEF LoopsInv
  <2>3. Entries(c) = {} BY <2>2, TableAssumption DEF Entries
  <2>4. /\ Has(c, <<"label", <<"while", j>>>>)
        /\ Has(c, <<"label", <<"endwhile", j>>>>)
    BY <1>1, <2>3 DEF LabelsHold
  <2>5. x[1] \in {"while", "endwhile"} /\ Has(c, <<"label", x>>) BY <2>1, <2>4
  <2>6. IsTable(c.code) BY <1>1 DEF Sound
  <2>7. x \in Labels(c.code) BY <1>1, <2>5, <2>6, LoopLabels
  <2> QED BY <1>7, <2>7
<1>14. ASSUME NEW x, InUse(source, x, Len(source), {"goto", "gosub"})
       PROVE  x \in Labels(r.code)
  <2>1. PICK i \in 1 .. Len(source), f \in DeclaredFunctions(source, Len(source)) :
           /\ Within(source, i, f) /\ Body(source[i])[1] \in {"goto", "gosub"}
           /\ x = <<"l", f, Body(source[i])[2]>>
    BY <1>14 DEF InUse
  <2>2. Labelled(source, f, Body(source[i])[2]) # {} BY <2>1 DEF NamesResolve
  <2>3. PICK n \in 1 .. Len(source) :
           /\ Within(source, n, f)
           /\ Body(source[n])[1] = "label" /\ Body(source[n])[2] = Body(source[i])[2]
    BY <2>2 DEF Labelled
  <2>4. InUse(source, x, Len(source), {"label"}) BY <2>1, <2>3 DEF InUse
  <2> QED BY <1>1, <1>7, <2>4 DEF LabelsGood
<1>15. LabelsOf(c.code) \subseteq Labels(r.code)
  <2>1. \A x \in LabelsOf(c.code) :
           \/ x \in Labels(c.code) \cup Known(c)
           \/ OfLoops(c, x)
           \/ InUse(source, x, Len(source), {"goto", "gosub"})
    BY <1>1 DEF LabelsGood
  <2> QED BY <1>7, <1>11, <1>13, <1>14, <2>1
<1> QED BY <1>7, <1>11, <1>12, <1>15

LEMMA LabelsInvStep ==
  ASSUME Recursive,
         \A p \in Programs : LoopsNest(p) /\ Open(p, Len(p)) = 0 /\ OneIfInLine(p)
             /\ \E T \in SUBSET DOMAIN Nesting : NamesResolve(p, T)
  PROVE  LabelsInv /\ [CompilerNext]_compilerVars => LabelsInv'
<1> SUFFICES ASSUME LabelsInv, [CompilerNext]_compilerVars PROVE LabelsInv' OBVIOUS
<1>1. LoopsInv /\ LoopsInv' BY LoopsInvStep DEF LabelsInv
<1>2. /\ LoopsNest(source) /\ Open(source, Len(source)) = 0 /\ OneIfInLine(source)
      /\ at \in Nat /\ Len(source) \in Nat
  BY <1>1, ProgramsAssumption DEF LoopsInv, TablesInv
<1>3. PICK T \in SUBSET DOMAIN Nesting : NamesResolve(source, T)
  BY <1>1 DEF LoopsInv, TablesInv
<1>4. CASE CompileLine
  <2>1. /\ phase = "compile" /\ at <= Len(source) /\ c' = do_line(c, source[at])
        /\ at' = at + 1 /\ source' = source /\ phase' # "run"
        /\ phase' = "compile" => ~c'.err
    BY <1>4 DEF CompileLine
  <2>2. ASSUME phase' = "compile" PROVE LabelsGood(c, at - 1)'
    <3>1. LabelsGood(c, at - 1) BY <2>1 DEF LabelsInv
    <3>2. LabelsGood(c', at) BY <1>1, <1>2, <1>3, <2>1, <2>2, <3>1, LineKeepsLabels
    <3>3. at' - 1 = at BY <1>2, <2>1
    <3>4. /\ Known(c)' = Known(c') /\ Internal(c)' = Internal(c')
          /\ Labels(c.code)' = Labels(c'.code) /\ LabelsOf(c.code)' = LabelsOf(c'.code)
          /\ Distinct(c.code)' = Distinct(c'.code)
      BY <2>1 DEF Known, Internal, Taken, Trees, Labels, LabelsOf, Distinct
    <3> QED BY <2>1, <3>2, <3>3, <3>4 DEF LabelsGood, OfLoops
  <2> QED BY <1>1, <2>1, <2>2 DEF LabelsInv
<1>5. CASE WriteRoutines
  <2>1. /\ phase = "compile" /\ at > Len(source) /\ c' = finish(c)
        /\ source' = source /\ phase' = "run"
    BY <1>5 DEF WriteRoutines
  <2>2. LabelsGood(c, at - 1) BY <2>1 DEF LabelsInv
  <2>3. Distinct(c'.code) /\ LabelsOf(c'.code) \subseteq Labels(c'.code)
    BY <1>1, <1>2, <1>3, <2>1, <2>2, FinishResolves
  <2> QED BY <1>1, <2>1, <2>3 DEF LabelsInv
<1>6. CASE UNCHANGED compilerVars
  <2>1. c' = c /\ at' = at /\ source' = source /\ phase' = phase BY <1>6 DEF compilerVars
  <2>2. /\ Known(c)' = Known(c) /\ Internal(c)' = Internal(c)
        /\ Labels(c.code)' = Labels(c.code) /\ LabelsOf(c.code)' = LabelsOf(c.code)
        /\ Distinct(c.code)' = Distinct(c.code)
    BY <2>1 DEF Known, Internal, Taken, Trees, Labels, LabelsOf, Distinct
  <2>3. LabelsGood(c, at - 1)' <=> LabelsGood(c, at - 1)
    BY <2>1, <2>2 DEF LabelsGood, OfLoops
  <2> QED BY <1>1, <2>1, <2>2, <2>3 DEF LabelsInv
<1> QED BY <1>4, <1>5, <1>6 DEF CompilerNext

\* A label once is as many lines as there are labels
LEMMA OnceEach ==
  ASSUME NEW s, IsTable(s), Distinct(s)
  PROVE  Cardinality({n \in DOMAIN s : s[n][1] = "label"}) = Cardinality(Labels(s))
<1> DEFINE D == {n \in DOMAIN s : s[n][1] = "label"}
           g == [n \in D |-> s[n][2]]
<1>1. Len(s) \in Nat /\ DOMAIN s = 1 .. Len(s) BY TableIsSequence
<1>2. IsFiniteSet(D)
  <2>1. IsFiniteSet(1 .. Len(s)) BY <1>1, FS_Interval
  <2> QED BY <1>1, <2>1, FS_Subset
<1>3. Labels(s) = {g[n] : n \in D} BY DEF Labels
<1>4. \A n, p \in D : g[n] = g[p] => n = p BY DEF Distinct
<1> HIDE DEF D
<1>5. g \in Bijection(D, Labels(s))
  BY <1>3, <1>4 DEF Bijection, Injection, Surjection, IsInjective
<1> QED BY <1>2, <1>5, FS_Bijection DEF D, ExistsBijection

LEMMA LabelsInvResolves == LabelsInv => LabelsResolved
<1> SUFFICES ASSUME LabelsInv, phase = "run"
             PROVE  /\ LabelsOf(c.code) \subseteq Labels(c.code)
                    /\ Cardinality({n \in DOMAIN c.code : c.code[n][1] = "label"})
                         = Cardinality(Labels(c.code))
  BY DEF LabelsResolved
<1>1. IsTable(c.code) BY DEF LabelsInv, LoopsInv, TablesInv, Sound
<1>2. Distinct(c.code) /\ LabelsOf(c.code) \subseteq Labels(c.code) BY DEF LabelsInv
<1> QED BY <1>1, <1>2, OnceEach

\* When the text is written, every label it names is there, and no label twice: of any
\* program whose loops nest and are closed, whose names are given, and that has one IF
\* in a line.  do_while and do_endw count the labels of loops and keep them on
\* while_stack, do_function_call counts the return addresses, do_if takes the line, and
\* finish() adds what the code before it refers to
THEOREM LabelsAlwaysResolved ==
  ASSUME Recursive,
         \A p \in Programs : LoopsNest(p) /\ Open(p, Len(p)) = 0 /\ OneIfInLine(p)
             /\ \E T \in SUBSET DOMAIN Nesting : NamesResolve(p, T)
  PROVE  CompilerSpec => []LabelsResolved
BY CompilerStartsGood, LabelsInvStep, LabelsInvResolves, PTL DEF CompilerSpec
=============================================================================
