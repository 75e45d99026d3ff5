------------------------------ MODULE MCVStack ------------------------------
(* Instances of VStack for TLC.                                             *)
EXTENDS VStack

\* The words 0 and -1, which are what a program cannot tell from an answer of
\* the functions of the stack
MinusOne == -1
SmallWords == {MinusOne, 0}
Zero == 0
=============================================================================
