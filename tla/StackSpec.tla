----------------------------- MODULE StackSpec -----------------------------
(***************************************************************************)
(* What a program expects of the data stack: a last-in first-out sequence  *)
(* in which the k-th item from the top can be read and overwritten.  Below *)
(* the bottom there is the value Underflow; above the top, anything.       *)
(***************************************************************************)
EXTENDS Integers, Sequences

CONSTANTS
    Value,      \* the 64-bit words
    Underflow,  \* STACK_UFLOW_ERR
    Success,    \* what SetItem returns when it writes
    Offsets     \* how far from the top a program asks

VARIABLES stack, result

vars == <<stack, result>>

Init == stack = <<0>> /\ result = Success

Depth == Len(stack)

\* The position of the k-th item from the top
At(k) == Depth + 1 - k

Push(v) ==
    /\ stack' = Append(stack, v)
    /\ UNCHANGED result

Pop ==
    \/ /\ Depth = 0
       /\ result' = Underflow
       /\ UNCHANGED stack
    \/ /\ Depth > 0
       /\ result' = stack[Depth]
       /\ stack' = SubSeq(stack, 1, Depth - 1)

Read(k) ==
    /\ result' \in IF k \in 1 .. Depth THEN {stack[At(k)]} ELSE Value
    /\ UNCHANGED stack

Write(k, v) ==
    \/ /\ k \in 1 .. Depth
       /\ stack' = [stack EXCEPT ![At(k)] = v]
       /\ result' = Success
    \/ /\ k \notin 1 .. Depth
       /\ result' \in {Underflow, Success}
       /\ UNCHANGED stack

Next ==
    \/ \E v \in Value : Push(v)
    \/ Pop
    \/ \E k \in Offsets : Read(k)
    \/ \E k \in Offsets, v \in Value : Write(k, v)

Spec == Init /\ [][Next]_vars
=============================================================================
