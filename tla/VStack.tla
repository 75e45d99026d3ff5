------------------------------ MODULE VStack ------------------------------
(***************************************************************************)
(* The growing stack of the R3X machine: src/src/stack.c.  A domain has    *)
(* two, the data stack and the call stack.                                 *)
(*                                                                         *)
(* PushtoStack is three steps, because it raises SIGSEGV in the middle     *)
(* when the stack is full, and the handler is the debugger, whose push and *)
(* pop commands work on the same stack (src/src/exception.c); when the     *)
(* operator continues, the push goes on from there.  With Ctrl-C, which    *)
(* enters the same debugger between any two steps, the specification is    *)
(* InterruptibleSpec.                                                      *)
(***************************************************************************)
EXTENDS Integers

CONSTANTS
    Value,        \* the 64-bit words; 0 and Underflow are two of them
    Underflow,    \* STACK_UFLOW_ERR
    Success,      \* 0, what SetItem returns when it writes
    FirstSize,    \* items of the first buffer: 16
    MaxStack,     \* the limit, max_stack: option -stack
    Width,        \* an index is an unsigned int: 2^32
    Offsets,      \* the k of get_item_from_stack_top(k) and of STORES k
    MaxTop        \* bound: depth of the stack

ASSUME StackAssumption ==
    /\ {0, Underflow} \subseteq Value
    /\ FirstSize \in Nat \ {0}
    /\ MaxStack \in Nat \ {0}
    /\ Width \in Nat
    /\ Offsets \subseteq 0 .. Width - 1
    /\ MaxTop \in Nat \ {0}
    /\ Width > 2 * MaxTop + FirstSize

VARIABLES
    content,   \* stack->content
    top,       \* stack->top_of_stack
    count,     \* stack->stack_count
    pc,        \* where PushtoStack is
    object,    \* its argument
    debug,     \* the debugger holds the machine
    pending,   \* a SIGSEGV waits until the handler of the first one returns
    asked,     \* history: this push has been through the debugger
    touched,   \* history: the last index of content that was used
    result     \* what the last Pop, GetItem or SetItem returned

vars == <<content, top, count, pc, object, debug, pending, asked, touched, result>>

pushVars == <<pc, object, asked>>

debugVars == <<debug, pending>>

\* Type invariant
TypeOK ==
    /\ count \in Nat
    /\ content \in [0 .. count - 1 -> Value]
    /\ top \in Nat
    /\ pc \in {"idle", "limit", "grow", "store"}
    /\ object \in Value
    /\ debug \in BOOLEAN
    /\ pending \in BOOLEAN
    /\ asked \in BOOLEAN
    /\ touched \in 0 .. Width - 1
    /\ result \in Value \cup {Success}

\* r3x_dispatch_job creates the stack and pushes a 0
Init ==
    /\ content = [i \in 0 .. FirstSize - 1 |-> 0]
    /\ top = 1
    /\ count = FirstSize
    /\ pc = "idle"
    /\ object = 0
    /\ debug = FALSE
    /\ pending = FALSE
    /\ asked = FALSE
    /\ touched = 0
    /\ result = Success

-----------------------------------------------------------------------------
(* PushtoStack.                                                             *)

\* Mutant: the limit is noticed one item late
FullLate == top > MaxStack

Full == top >= MaxStack

\* Mutant: the count is doubled, the buffer is not
GrownInPlace(c, n) == c

\* Mutant: the first item is left behind in the old buffer
GrownWithoutFirst(c, n) ==
    [i \in 0 .. 2 * n - 1 |-> IF i \in 1 .. n - 1 THEN c[i] ELSE 0]

\* The buffer has no room for one more item, and doubles; nt_malloc clears it
Grown(c, n) ==
    [i \in 0 .. 2 * n - 1 |-> IF i < n THEN c[i] ELSE 0]

\* Mutant: the buffer grows when the item after next would not fit
MustGrowLate == count < top

MustGrow == count = top

BeginPush(v) ==
    /\ pc = "idle" /\ ~debug
    /\ top < MaxTop
    /\ object' = v
    /\ pc' = "limit"
    /\ asked' = FALSE
    /\ UNCHANGED <<content, top, count, debugVars, touched, result>>

\* A full stack raises SIGSEGV, and the push goes on when the operator continues
Limit ==
    /\ pc = "limit" /\ ~debug
    /\ pc' = "grow"
    /\ debug' = Full
    /\ asked' = Full
    /\ UNCHANGED <<content, top, count, object, pending, touched, result>>

Grow ==
    /\ pc = "grow" /\ ~debug
    /\ IF MustGrow
       THEN content' = Grown(content, count) /\ count' = 2 * count
       ELSE UNCHANGED <<content, count>>
    /\ pc' = "store"
    /\ UNCHANGED <<top, object, asked, debugVars, touched, result>>

\* Past the end of the buffer the word goes to memory that is not the stack's
Store ==
    /\ pc = "store" /\ ~debug
    /\ content' = IF top < count THEN [content EXCEPT ![top] = object] ELSE content
    /\ touched' = top
    /\ top' = top + 1
    /\ pc' = "idle"
    /\ UNCHANGED <<count, object, asked, debugVars, result>>

-----------------------------------------------------------------------------
(* The other operations are one step each.                                  *)

\* PopFromStack
PopItem ==
    \/ /\ top = 0
       /\ result' = Underflow
       /\ UNCHANGED <<top, touched>>
    \/ /\ top > 0
       /\ top' = top - 1
       /\ touched' = top - 1
       /\ result' \in IF top - 1 < count THEN {content[top - 1]} ELSE Value

Pop ==
    /\ pc = "idle" /\ ~debug
    /\ PopItem
    /\ UNCHANGED <<content, count, pushVars, debugVars>>

\* top_of_stack - k, unsigned
Index(k) == (top - k) % Width

\* Mutant: the buffer's bound is not looked at
RejectsNothing(i) == FALSE

\* An index past the buffer is refused, but for the first one past it
Rejects(i) == i > count

\* GetItemS, as get_item_from_stack_top(k)
GetItem(k) ==
    /\ pc = "idle" /\ ~debug
    /\ LET i == Index(k) IN
       \/ /\ Rejects(i)
          /\ result' = Underflow
          /\ UNCHANGED touched
       \/ /\ ~Rejects(i)
          /\ result' \in IF i < count THEN {content[i]} ELSE Value
          /\ touched' = i
    /\ UNCHANGED <<content, top, count, pushVars, debugVars>>

\* SetItemS(top_of_stack - k, v)
SetItem(k, v) ==
    /\ pc = "idle" /\ ~debug
    /\ LET i == Index(k) IN
       \/ /\ top = 0 \/ count = 0 \/ Rejects(i)
          /\ result' = Underflow
          /\ UNCHANGED <<content, touched>>
       \/ /\ top # 0 /\ count # 0 /\ ~Rejects(i)
          /\ content' = IF i < count THEN [content EXCEPT ![i] = v] ELSE content
          /\ touched' = i
          /\ result' = Success
    /\ UNCHANGED <<top, count, pushVars, debugVars>>

-----------------------------------------------------------------------------
(* The debugger.                                                            *)

\* push x: PushtoStack from beginning to end.  SIGSEGV is blocked in its own
\* handler: when the stack is full it is pending until the handler returns
DebugPush(v) ==
    /\ debug
    /\ top < MaxTop
    /\ LET grown == IF MustGrow THEN Grown(content, count) ELSE content
           size  == IF MustGrow THEN 2 * count ELSE count
       IN  /\ content' = IF top < size THEN [grown EXCEPT ![top] = v] ELSE grown
           /\ count' = size
    /\ touched' = top
    /\ top' = top + 1
    /\ pending' = (pending \/ Full)
    /\ UNCHANGED <<pushVars, debug, result>>

\* pop
DebugPop ==
    /\ debug
    /\ PopItem
    /\ UNCHANGED <<content, count, pushVars, debugVars>>

\* continue: the handler returns, or begins again
Continue ==
    /\ debug
    /\ debug' = pending
    /\ pending' = FALSE
    /\ UNCHANGED <<content, top, count, pushVars, touched, result>>

\* Ctrl-C
Interrupt ==
    /\ ~debug
    /\ debug' = TRUE
    /\ UNCHANGED <<content, top, count, pushVars, pending, touched, result>>

Next ==
    \/ \E v \in Value : BeginPush(v)
    \/ Limit \/ Grow \/ Store
    \/ Pop
    \/ \E k \in Offsets : GetItem(k)
    \/ \E k \in Offsets, v \in Value : SetItem(k, v)
    \/ \E v \in Value : DebugPush(v)
    \/ DebugPop
    \/ Continue

Spec == Init /\ [][Next]_vars

InterruptibleSpec == Init /\ [][Next \/ Interrupt]_vars

-----------------------------------------------------------------------------
(* Properties.                                                              *)

\* A push writes inside the buffer, even when the operator has pushed and
\* popped in the middle of it: the check of the limit is made before SIGSEGV is
\* raised and the check of the buffer after it (stack.c:82-110).  The comment at
\* stack.c:88 says so of every push: "Check if we are going to overflow"
StoreFits == pc = "store" /\ ~debug => top < count

\* No operation ever uses an index beyond the first one past the buffer: top -
\* k wraps to a huge index when a program asks below the bottom of the stack
\* (stack.c:58, :65)
OnePastAtMost == touched <= count

\* A push beyond the limit of the -stack option has asked the operator
\* (stack.c:82-87)
LimitAsks ==
    [][top' > top /\ top >= MaxStack => debug \/ asked]_vars

\* stack.c implements the stack of StackSpec: what is pushed comes back in
\* reverse order across every growth of the buffer, STORES changes the item it
\* names and no other, whatever the operator does in the middle of a push
Contents == [i \in 1 .. top |-> content[i - 1]]

Abstract == INSTANCE StackSpec WITH stack <- Contents

ImplementsStack == Abstract!Spec
=============================================================================
