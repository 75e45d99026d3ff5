---------------------------- MODULE VStackProofs ----------------------------
(* What VStack promises for every limit, every first buffer and every depth: *)
(* type correctness, the bounds of the buffer, and that the code implements  *)
(* StackSpec.  All of it is without Ctrl-C: InterruptibleSpec breaks it.     *)
EXTENDS VStack, SequenceTheorems, TLAPS

\* What holds inside a push: the debugger has the machine only between the
\* check of the limit and the check of the buffer, and each check still holds
\* when the next step is taken
Inside ==
    /\ debug => pc = "grow" /\ asked
    /\ pc = "store" => top < count
    /\ pc \in {"grow", "store"} /\ ~asked => ~Full

Bounds ==
    /\ count \in Nat \ {0}
    /\ top <= count
    /\ top <= MaxTop + 1
    /\ pc # "idle" => top <= MaxTop
    /\ touched <= count

IInv == TypeOK /\ Inside /\ Bounds

-----------------------------------------------------------------------------
(* Unsigned subtraction.                                                    *)

LEMMA IndexOf ==
    ASSUME NEW k \in Offsets, top \in 0 .. MaxTop + 1
    PROVE  /\ Index(k) \in 0 .. Width - 1
           /\ k <= top => Index(k) = top - k
           /\ k > top => Index(k) = top - k + Width
<1>1. k \in 0 .. Width - 1 /\ Width \in Nat /\ MaxTop \in Nat /\ top < Width
  BY StackAssumption
<1>2. Width > 0 /\ top - k \in Int
  BY <1>1
<1>3. (top - k) % Width \in 0 .. Width - 1
  BY <1>1, <1>2
<1>4. CASE k <= top
  <2>1. top - k \in 0 .. Width - 1
    BY <1>1, <1>4
  <2>2. (top - k) % Width = top - k
    BY <1>1, <2>1
  <2> QED  BY <1>3, <2>2, <1>4, <1>1 DEF Index
<1>5. CASE k > top
  <2>1. (top - k) + Width \in 0 .. Width - 1
    BY <1>1, <1>5
  <2>2. (top - k) % Width = (top - k) + Width
    BY <1>1, <2>1
  <2> QED  BY <1>3, <2>2, <1>5, <1>1 DEF Index
<1> QED  BY <1>1, <1>4, <1>5

-----------------------------------------------------------------------------
(* The invariant is inductive.                                              *)

\* The buffer of a growth has room for one more item, and its words are words
LEMMA GrowsEnough ==
    ASSUME TypeOK, Bounds
    PROVE  /\ Grown(content, count) \in [0 .. 2 * count - 1 -> Value]
           /\ 2 * count \in Nat \ {0}
           /\ top < 2 * count
<1>1. count \in Nat \ {0} /\ top \in Nat /\ top <= count
  BY DEF TypeOK, Bounds
<1>2. ASSUME NEW i \in 0 .. 2 * count - 1
      PROVE  (IF i < count THEN content[i] ELSE 0) \in Value
  <2>1. i < count => i \in 0 .. count - 1
    BY <1>1
  <2> QED  BY <2>1, StackAssumption DEF TypeOK
<1>3. Grown(content, count) \in [0 .. 2 * count - 1 -> Value]
  BY <1>2 DEF Grown
<1> QED  BY <1>1, <1>3

LEMMA InitInv == Init => IInv
<1> SUFFICES ASSUME Init PROVE IInv
  OBVIOUS
<1>1. FirstSize \in Nat \ {0} /\ MaxTop \in Nat \ {0} /\ Width \in Nat \ {0}
  BY StackAssumption
<1>2. content \in [0 .. count - 1 -> Value]
  BY StackAssumption DEF Init
<1>3. 0 \in Value /\ Width > 1
  BY StackAssumption
<1>4. TypeOK
  <2>1. touched \in 0 .. Width - 1 /\ count \in Nat /\ top \in Nat
    BY <1>1, <1>3 DEF Init
  <2> QED  BY <1>2, <1>3, <2>1 DEF Init, TypeOK
<1> QED  BY <1>1, <1>4 DEF Init, IInv, Inside, Bounds

\* One case per action
LEMMA StepInv == IInv /\ [Next]_vars => IInv'
<1> SUFFICES ASSUME IInv, [Next]_vars PROVE IInv'
  OBVIOUS
<1> USE DEF pushVars, debugVars
<1>0. /\ TypeOK /\ Inside /\ Bounds
      /\ Width \in Nat /\ MaxTop \in Nat \ {0} /\ MaxStack \in Nat \ {0}
      /\ Width > 2 * MaxTop + 1 /\ top \in 0 .. MaxTop + 1
  BY StackAssumption DEF IInv, TypeOK, Bounds
<1>1. ASSUME NEW v \in Value, BeginPush(v) PROVE IInv'
  <2>1. TypeOK'
    BY <1>0, <1>1 DEF BeginPush, TypeOK
  <2>2. Inside'
    BY <1>0, <1>1 DEF BeginPush, Inside
  <2>3. Bounds'
    BY <1>0, <1>1 DEF BeginPush, TypeOK, Bounds
  <2> QED  BY <2>1, <2>2, <2>3 DEF IInv
<1>2. CASE Limit
  <2>1. Full \in BOOLEAN
    BY DEF Full
  <2>2. TypeOK'
    BY <1>0, <1>2, <2>1 DEF Limit, TypeOK
  <2>3. Inside' /\ Bounds'
    BY <1>0, <1>2 DEF Limit, TypeOK, Inside, Bounds, Full
  <2> QED  BY <2>2, <2>3 DEF IInv
<1>3. CASE Grow
  <2>1. CASE MustGrow
    BY <1>0, <1>3, <2>1, GrowsEnough DEF Grow, IInv, TypeOK, Inside, Bounds, Full
  <2>2. CASE ~MustGrow
    BY <1>0, <1>3, <2>2 DEF Grow, MustGrow, IInv, TypeOK, Inside, Bounds, Full
  <2> QED  BY <2>1, <2>2
<1>4. CASE Store
  <2>1. top < count /\ top + 1 <= count /\ top <= MaxTop
    BY <1>0, <1>4 DEF Store, TypeOK, Inside, Bounds
  <2>2. content' \in [0 .. count - 1 -> Value]
    BY <1>0, <1>4 DEF Store, TypeOK
  <2> QED  BY <1>0, <1>4, <2>1, <2>2 DEF Store, IInv, TypeOK, Inside, Bounds
<1>5. ASSUME PopItem, top' \in Nat
      PROVE  /\ top' <= top
             /\ touched' \in 0 .. Width - 1
             /\ touched' <= count
             /\ result' \in Value \cup {Success}
  <2>1. top - 1 < count /\ top > 0 => top - 1 \in 0 .. count - 1
    BY <1>0 DEF TypeOK
  <2> QED  BY <1>0, <1>5, <2>1, StackAssumption DEF PopItem, TypeOK, Bounds
<1>6. PopItem => top' \in Nat
  BY <1>0 DEF PopItem, TypeOK
<1>7. CASE Pop
  BY <1>0, <1>5, <1>6, <1>7 DEF Pop, IInv, TypeOK, Inside, Bounds, Full
<1>8. ASSUME NEW k \in Offsets, GetItem(k) PROVE IInv'
  <2>1. Index(k) \in 0 .. Width - 1
    BY <1>0, IndexOf
  <2>2. result' \in Value \cup {Success}
    BY <1>0, <1>8, <2>1, StackAssumption DEF GetItem, TypeOK
  <2>3. touched' \in 0 .. Width - 1 /\ touched' <= count
    BY <1>0, <1>8, <2>1 DEF GetItem, Rejects, TypeOK, Bounds
  <2> QED  BY <1>0, <1>8, <2>2, <2>3 DEF GetItem, IInv, TypeOK, Inside, Bounds, Full
<1>9. ASSUME NEW k \in Offsets, NEW v \in Value, SetItem(k, v) PROVE IInv'
  <2>1. Index(k) \in 0 .. Width - 1
    BY <1>0, IndexOf
  <2>2. result' \in Value \cup {Success}
    BY <1>0, <1>9, StackAssumption DEF SetItem, TypeOK
  <2>3. touched' \in 0 .. Width - 1 /\ touched' <= count
    BY <1>0, <1>9, <2>1 DEF SetItem, Rejects, TypeOK, Bounds
  <2>4. content' \in [0 .. count - 1 -> Value]
    BY <1>0, <1>9 DEF SetItem, TypeOK
  <2> QED  BY <1>0, <1>9, <2>2, <2>3, <2>4 DEF SetItem, IInv, TypeOK, Inside, Bounds, Full
<1>10. ASSUME NEW v \in Value, DebugPush(v) PROVE IInv'
  <2>1. pc = "grow" /\ asked
    BY <1>0, <1>10 DEF DebugPush, Inside
  <2>2. /\ count' \in Nat \ {0}
        /\ top < count'
        /\ content' \in [0 .. count' - 1 -> Value]
    <3>1. CASE MustGrow
      BY <1>0, <1>10, <3>1, GrowsEnough DEF DebugPush
    <3>2. CASE ~MustGrow
      BY <1>0, <1>10, <3>2 DEF DebugPush, MustGrow, TypeOK, Bounds
    <3> QED  BY <3>1, <3>2
  <2>3. pending' \in BOOLEAN
    BY <1>0, <1>10 DEF DebugPush, TypeOK, Full
  <2>4. top' = top + 1 /\ touched' = top /\ top < MaxTop
    BY <1>10 DEF DebugPush
  <2>5. UNCHANGED <<pc, object, asked, debug, result>>
    BY <1>10 DEF DebugPush
  <2>6. TypeOK'
    <3>1. touched' \in 0 .. Width - 1 /\ top' \in Nat
      BY <1>0, <2>4
    <3> QED  BY <1>0, <2>2, <2>3, <2>5, <3>1 DEF TypeOK
  <2>7. Inside'
    BY <2>1, <2>5 DEF Inside
  <2>8. Bounds'
    BY <1>0, <2>2, <2>4 DEF Bounds
  <2> QED  BY <2>6, <2>7, <2>8 DEF IInv
<1>11. CASE DebugPop
  BY <1>0, <1>5, <1>6, <1>11 DEF DebugPop, IInv, TypeOK, Inside, Bounds, Full
<1>12. CASE Continue
  BY <1>0, <1>12 DEF Continue, IInv, TypeOK, Inside, Bounds, Full
<1>13. CASE UNCHANGED vars
  BY <1>0, <1>13 DEF vars, IInv, TypeOK, Inside, Bounds, Full
<1> QED  BY <1>1, <1>2, <1>3, <1>4, <1>7, <1>8, <1>9, <1>10, <1>11, <1>12, <1>13 DEF Next

LEMMA Invariance == Spec => []IInv
<1> QED  BY InitInv, StepInv, PTL DEF Spec

-----------------------------------------------------------------------------
(* The properties of the runs.                                              *)

\* VStack keeps its types: the buffer has as many items as stack_count says
\* (stack.c:88-108)
THEOREM StackTypeCorrect == Spec => []TypeOK
<1>1. IInv => TypeOK
  BY DEF IInv
<1> QED  BY <1>1, Invariance, PTL

\* No push writes past the buffer, with whatever the operator pushed and popped
\* between the check of the limit and the check of the buffer (stack.c:82-110)
THEOREM PushesFit == Spec => []StoreFits
<1>1. IInv => StoreFits
  BY DEF IInv, Inside, StoreFits
<1> QED  BY <1>1, Invariance, PTL

\* No operation uses an index beyond the first one past the buffer
\* (stack.c:55-68)
THEOREM OnePastIsTheWorst == Spec => []OnePastAtMost
<1>1. IInv => OnePastAtMost
  BY DEF IInv, Bounds, OnePastAtMost
<1> QED  BY <1>1, Invariance, PTL

\* The stack grows beyond its limit only with the operator's knowledge
\* (stack.c:82-87)
THEOREM LimitIsAsked == Spec => LimitAsks
<1>1. IInv /\ [Next]_vars => [top' > top /\ top >= MaxStack => debug \/ asked]_vars
  <2> SUFFICES ASSUME IInv, Next, top' > top, top >= MaxStack, ~debug
               PROVE  asked
    BY DEF vars
  <2>1. TypeOK /\ Inside
    BY DEF IInv
  <2>2. ~(top > top)
    BY <2>1 DEF TypeOK
  <2>3. PopItem => ~(top' > top)
    BY <2>1 DEF PopItem, TypeOK
  <2>4. Store
    BY <2>2, <2>3 DEF Next, BeginPush, Limit, Grow, Pop, GetItem, SetItem,
                      DebugPush, DebugPop, Continue
  <2> QED  BY <2>1, <2>4 DEF Store, Inside, Full
<1> QED  BY <1>1, Invariance, PTL DEF Spec, LimitAsks

-----------------------------------------------------------------------------
(* VStack implements StackSpec.                                             *)

\* The first n items of a buffer, as a sequence
LEMMA ItemsSeq ==
    ASSUME NEW c, NEW n \in Nat, \A i \in 0 .. n - 1 : c[i] \in Value
    PROVE  /\ [i \in 1 .. n |-> c[i - 1]] \in Seq(Value)
           /\ Len([i \in 1 .. n |-> c[i - 1]]) = n
           /\ \A i \in 1 .. n : [j \in 1 .. n |-> c[j - 1]][i] = c[i - 1]
<1>1. \A i \in 1 .. n : c[i - 1] \in Value
  <2> SUFFICES ASSUME NEW i \in 1 .. n PROVE c[i - 1] \in Value
    OBVIOUS
  <2>1. i - 1 \in 0 .. n - 1
    OBVIOUS
  <2> QED  BY <2>1
<1>2. [i \in 1 .. n |-> c[i - 1]] \in [1 .. n -> Value]
  BY <1>1
<1> QED  BY <1>2

\* Two buffers with the same first n items have the same contents
LEMMA SameItems ==
    ASSUME UNCHANGED top, TypeOK, Bounds, \A i \in 0 .. top - 1 : content'[i] = content[i]
    PROVE  Contents' = Contents
<1>1. \A i \in 1 .. top : i - 1 \in 0 .. top - 1
  BY DEF TypeOK
<1> QED  BY <1>1 DEF Contents

LEMMA ContentsType ==
    ASSUME TypeOK, Bounds
    PROVE  /\ Contents \in Seq(Value)
           /\ Len(Contents) = top
           /\ \A i \in 1 .. top : Contents[i] = content[i - 1]
<1>1. \A i \in 0 .. top - 1 : content[i] \in Value
  BY DEF TypeOK, Bounds
<1> QED  BY <1>1, ItemsSeq DEF Contents, TypeOK

\* A word stored at the top appends it
LEMMA StoreAppends ==
    ASSUME TypeOK, Bounds, NEW v \in Value, top' = top + 1,
           \A i \in 0 .. top - 1 : content'[i] = content[i], content'[top] = v
    PROVE  Contents' = Append(Contents, v)
<1>0. top \in Nat
  BY DEF TypeOK
<1>1. /\ Contents \in Seq(Value) /\ Len(Contents) = top
      /\ \A i \in 1 .. top : Contents[i] = content[i - 1]
  BY ContentsType
<1>2. \A i \in 0 .. top : content'[i] \in Value
  BY <1>0 DEF TypeOK, Bounds
<1>3. /\ Contents' \in Seq(Value) /\ Len(Contents') = top + 1
      /\ \A i \in 1 .. top + 1 : Contents'[i] = content'[i - 1]
  BY <1>0, <1>2, ItemsSeq DEF Contents
<1>4. /\ Append(Contents, v) \in Seq(Value)
      /\ Len(Append(Contents, v)) = top + 1
      /\ \A i \in 1 .. top : Append(Contents, v)[i] = Contents[i]
      /\ Append(Contents, v)[top + 1] = v
  BY <1>0, <1>1
<1>5. ASSUME NEW i \in 1 .. top + 1 PROVE Contents'[i] = Append(Contents, v)[i]
  <2>1. CASE i = top + 1
    BY <1>0, <1>3, <1>4, <2>1
  <2>2. CASE i # top + 1
    <3>1. i \in 1 .. top /\ i - 1 \in 0 .. top - 1
      BY <1>0, <2>2
    <3> QED  BY <1>1, <1>3, <1>4, <3>1
  <2> QED  BY <2>1, <2>2
<1> QED  BY <1>3, <1>4, <1>5, SeqEqual

LEMMA PopRemoves ==
    ASSUME TypeOK, Bounds, PopItem, UNCHANGED <<content, count>>
    PROVE  Abstract!Pop
<1>0. top \in Nat /\ top <= count
  BY DEF TypeOK, Bounds
<1>1. /\ Contents \in Seq(Value) /\ Len(Contents) = top
      /\ \A i \in 1 .. top : Contents[i] = content[i - 1]
  BY ContentsType
<1>2. CASE top = 0
  <2>1. UNCHANGED Contents /\ result' = Underflow
    BY <1>2, <1>0 DEF PopItem, Contents
  <2> QED  BY <1>1, <1>2, <2>1 DEF Abstract!Pop, Abstract!Depth
<1>3. CASE top > 0
  <2>1. top' = top - 1 /\ result' = content[top - 1]
    BY <1>0, <1>3 DEF PopItem, TypeOK
  <2>2. /\ SubSeq(Contents, 1, top - 1) \in Seq(Value)
        /\ Len(SubSeq(Contents, 1, top - 1)) = top - 1
        /\ \A i \in 1 .. top - 1 : SubSeq(Contents, 1, top - 1)[i] = Contents[i]
    BY <1>0, <1>1, <1>3
  <2>3. /\ Contents' \in Seq(Value) /\ Len(Contents') = top - 1
        /\ \A i \in 1 .. top - 1 : Contents'[i] = content[i - 1]
    <3>1. \A i \in 0 .. top - 1 - 1 : content[i] \in Value
      BY <1>0 DEF TypeOK
    <3>2. top - 1 \in Nat
      BY <1>0, <1>3
    <3> QED  BY <3>1, <3>2, <2>1, ItemsSeq DEF Contents
  <2>4. Contents' = SubSeq(Contents, 1, top - 1)
    <3>1. \A i \in 1 .. top - 1 : Contents'[i] = SubSeq(Contents, 1, top - 1)[i]
      BY <1>0, <1>1, <2>2, <2>3
    <3> QED  BY <2>2, <2>3, <3>1, SeqEqual
  <2>5. result' = Contents[top]
    BY <1>0, <1>1, <1>3, <2>1
  <2> QED  BY <1>1, <1>3, <2>4, <2>5 DEF Abstract!Pop, Abstract!Depth
<1> QED  BY <1>0, <1>2, <1>3
LEMMA GetReads ==
    ASSUME IInv, NEW k \in Offsets, GetItem(k)
    PROVE  Abstract!Read(k)
<1>0. top \in 0 .. MaxTop + 1 /\ top <= count /\ MaxTop \in Nat /\ TypeOK /\ Bounds
  BY StackAssumption DEF IInv, TypeOK, Bounds
<1>1. /\ Len(Contents) = top
      /\ \A i \in 1 .. top : Contents[i] = content[i - 1]
  BY <1>0, ContentsType
<1>2. /\ Index(k) \in 0 .. Width - 1
      /\ k <= top => Index(k) = top - k
  BY <1>0, IndexOf
<1>3. k \in Nat
  BY StackAssumption
<1>4. UNCHANGED Contents
  BY DEF GetItem, Contents
<1>5. CASE k \in 1 .. top
  <2>1. Index(k) = top - k /\ Index(k) < count /\ ~Rejects(Index(k))
    BY <1>0, <1>2, <1>3, <1>5 DEF Rejects, TypeOK
  <2>2. result' = content[top - k]
    BY <2>1 DEF GetItem
  <2>3. top + 1 - k \in 1 .. top /\ (top + 1 - k) - 1 = top - k
    BY <1>0, <1>5
  <2>4. result' = Contents[top + 1 - k]
    BY <1>1, <2>2, <2>3
  <2> QED  BY <1>1, <1>4, <1>5, <2>4 DEF Abstract!Read, Abstract!Depth, Abstract!At
<1>6. CASE k \notin 1 .. top
  <2>1. result' \in Value
    BY <1>0, <1>2, StackAssumption DEF GetItem, TypeOK
  <2> QED  BY <1>1, <1>4, <1>6, <2>1 DEF Abstract!Read, Abstract!Depth
<1> QED  BY <1>5, <1>6

LEMMA SetWrites ==
    ASSUME IInv, NEW k \in Offsets, NEW v \in Value, SetItem(k, v)
    PROVE  Abstract!Write(k, v)
<1>0. /\ top \in 0 .. MaxTop + 1 /\ top <= count /\ count \in Nat \ {0}
      /\ MaxTop \in Nat /\ Width \in Nat /\ TypeOK /\ Bounds
      /\ k \in 0 .. Width - 1 /\ Width > MaxTop + 1
  BY StackAssumption DEF IInv, TypeOK, Bounds
<1>1. /\ Contents \in Seq(Value)
      /\ Len(Contents) = top
      /\ \A i \in 1 .. top : Contents[i] = content[i - 1]
  BY <1>0, ContentsType
<1>2. /\ Index(k) \in 0 .. Width - 1
      /\ k <= top => Index(k) = top - k
      /\ k > top => Index(k) = top - k + Width
  BY <1>0, IndexOf
<1>3. UNCHANGED top
  BY DEF SetItem
<1>4. CASE k \in 1 .. top
  <2>1. /\ Index(k) = top - k /\ Index(k) \in 0 .. count - 1
        /\ ~Rejects(Index(k)) /\ top # 0 /\ count # 0
    BY <1>0, <1>2, <1>4 DEF Rejects
  <2>2. content' = [content EXCEPT ![top - k] = v] /\ result' = Success
    <3>1. Index(k) < count
      BY <1>0, <2>1
    <3>2. /\ content' = IF Index(k) < count THEN [content EXCEPT ![Index(k)] = v] ELSE content
          /\ result' = Success
      BY <2>1 DEF SetItem
    <3> QED  BY <2>1, <3>1, <3>2
  <2>3. top + 1 - k \in 1 .. top
    BY <1>0, <1>4
  <2>4. /\ [Contents EXCEPT ![top + 1 - k] = v] \in Seq(Value)
        /\ Len([Contents EXCEPT ![top + 1 - k] = v]) = top
        /\ \A i \in 1 .. top : [Contents EXCEPT ![top + 1 - k] = v][i]
                                 = IF i = top + 1 - k THEN v ELSE Contents[i]
    BY <1>1, <2>3, ExceptSeq
  <2>5. \A i \in 0 .. top - 1 : content'[i] = IF i = top - k THEN v ELSE content[i]
    BY <1>0, <2>2 DEF TypeOK
  <2>6. /\ Contents' \in Seq(Value) /\ Len(Contents') = top
        /\ \A i \in 1 .. top : Contents'[i] = content'[i - 1]
    <3>1. \A i \in 0 .. top - 1 : content'[i] \in Value
      BY <1>0, <2>5 DEF TypeOK
    <3> QED  BY <1>0, <1>3, <3>1, ItemsSeq DEF Contents
  <2>7. ASSUME NEW i \in 1 .. top
        PROVE  Contents'[i] = [Contents EXCEPT ![top + 1 - k] = v][i]
    <3>1. i - 1 \in 0 .. top - 1 /\ (i - 1 = top - k <=> i = top + 1 - k)
      BY <1>0
    <3> QED  BY <1>1, <2>4, <2>5, <2>6, <3>1
  <2>8. Contents' = [Contents EXCEPT ![top + 1 - k] = v]
    BY <2>4, <2>6, <2>7, SeqEqual
  <2> QED  BY <1>1, <1>4, <2>2, <2>8 DEF Abstract!Write, Abstract!Depth, Abstract!At
<1>5. CASE k \notin 1 .. top
  <2>1. Index(k) \notin 0 .. top - 1
    BY <1>0, <1>2, <1>5
  <2>2. \A i \in 0 .. top - 1 : content'[i] = content[i]
    BY <1>0, <2>1 DEF SetItem, TypeOK
  <2>3. UNCHANGED Contents
    BY <1>0, <1>3, <2>2, SameItems
  <2>4. result' \in {Underflow, Success}
    BY DEF SetItem
  <2> QED  BY <1>1, <1>5, <2>3, <2>4 DEF Abstract!Write, Abstract!Depth
<1> QED  BY <1>4, <1>5

LEMMA InitStack == Init => Abstract!Init
<1> SUFFICES ASSUME Init PROVE Abstract!Init
  OBVIOUS
<1>1. FirstSize \in Nat \ {0}
  BY StackAssumption
<1>2. Contents = [i \in 1 .. 1 |-> 0]
  BY <1>1 DEF Init, Contents
<1> QED  BY <1>2 DEF Init, Abstract!Init

\* Every step is a step of the abstract stack or leaves it alone
LEMMA StepStack == IInv /\ [Next]_vars => [Abstract!Next]_(Abstract!vars)
<1> SUFFICES ASSUME IInv, [Next]_vars PROVE [Abstract!Next]_(Abstract!vars)
  OBVIOUS
<1>0. TypeOK /\ Inside /\ Bounds
  BY DEF IInv
<1>1. ASSUME UNCHANGED <<content, top, result>> PROVE UNCHANGED Abstract!vars
  BY <1>1 DEF Abstract!vars, Contents
<1>2. ASSUME NEW v \in Value, BeginPush(v) PROVE UNCHANGED Abstract!vars
  BY <1>1, <1>2 DEF BeginPush
<1>3. CASE Limit
  BY <1>1, <1>3 DEF Limit
<1>4. CASE Grow
  <2>1. \A i \in 0 .. top - 1 : content'[i] = content[i]
    <3>1. CASE MustGrow
      BY <1>0, <1>4, <3>1 DEF Grow, Grown, TypeOK, Bounds
    <3>2. CASE ~MustGrow
      BY <1>4, <3>2 DEF Grow
    <3> QED  BY <3>1, <3>2
  <2>2. UNCHANGED Contents
    BY <1>0, <1>4, <2>1, SameItems DEF Grow
  <2> QED  BY <1>4, <2>2 DEF Grow, Abstract!vars
<1>5. CASE Store
  <2>1. top < count /\ top \in Nat /\ count \in Nat /\ object \in Value
    BY <1>0, <1>5 DEF Store, Inside, TypeOK
  <2>2. content' = [content EXCEPT ![top] = object]
    BY <1>5, <2>1 DEF Store
  <2>3. /\ \A i \in 0 .. top - 1 : content'[i] = content[i]
        /\ content'[top] = object
    BY <1>0, <2>1, <2>2 DEF TypeOK
  <2>4. Contents' = Append(Contents, object)
    BY <1>0, <1>5, <2>1, <2>3, StoreAppends DEF Store
  <2> QED  BY <1>5, <2>1, <2>4 DEF Store, Abstract!Next, Abstract!Push
<1>6. CASE Pop \/ DebugPop
  <2>1. Abstract!Pop
    BY <1>0, <1>6, PopRemoves DEF Pop, DebugPop
  <2> QED  BY <2>1 DEF Abstract!Next
<1>7. ASSUME NEW k \in Offsets, GetItem(k) PROVE Abstract!Next
  BY <1>7, GetReads DEF Abstract!Next
<1>8. ASSUME NEW k \in Offsets, NEW v \in Value, SetItem(k, v) PROVE Abstract!Next
  BY <1>8, SetWrites DEF Abstract!Next
<1>9. ASSUME NEW v \in Value, DebugPush(v) PROVE Abstract!Next
  <2>1. /\ \A i \in 0 .. top - 1 : content'[i] = content[i]
        /\ content'[top] = v
    <3>1. CASE MustGrow
      <4>1. /\ Grown(content, count) \in [0 .. 2 * count - 1 -> Value]
            /\ top \in 0 .. 2 * count - 1 /\ top < 2 * count
        BY <1>0, GrowsEnough DEF TypeOK
      <4>2. content' = [Grown(content, count) EXCEPT ![top] = v]
        BY <1>9, <3>1, <4>1 DEF DebugPush
      <4>3. \A i \in 0 .. top - 1 : i \in 0 .. 2 * count - 1 /\ i # top /\ i < count
        BY <1>0 DEF TypeOK, Bounds
      <4>4. \A i \in 0 .. top - 1 : Grown(content, count)[i] = content[i]
        BY <4>3 DEF Grown
      <4> QED  BY <4>1, <4>2, <4>3, <4>4
    <3>2. CASE ~MustGrow
      <4>1. top < count /\ content' = [content EXCEPT ![top] = v]
        BY <1>0, <1>9, <3>2 DEF DebugPush, MustGrow, TypeOK, Bounds
      <4> QED  BY <1>0, <4>1 DEF TypeOK
    <3> QED  BY <3>1, <3>2
  <2>2. Contents' = Append(Contents, v)
    BY <1>0, <1>9, <2>1, StoreAppends DEF DebugPush
  <2> QED  BY <1>9, <2>2 DEF DebugPush, Abstract!Next, Abstract!Push
<1>10. CASE Continue
  BY <1>1, <1>10 DEF Continue
<1>11. CASE UNCHANGED vars
  BY <1>1, <1>11 DEF vars
<1> QED  BY <1>2, <1>3, <1>4, <1>5, <1>6, <1>7, <1>8, <1>9, <1>10, <1>11 DEF Next

\* stack.c implements the last-in first-out stack of StackSpec
THEOREM StackImplements == Spec => ImplementsStack
<1> QED
  BY InitStack, StepStack, Invariance, PTL DEF Spec, ImplementsStack, Abstract!Spec
=============================================================================
