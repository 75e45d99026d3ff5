----------------------------- MODULE MCDisasm ------------------------------
(* Instances of Disasm for TLC.                                             *)
EXTENDS Disasm

\* Room for the longest instruction after another, and a section it just fills
ListedSizes == {1, 11, 13}

\* One byte for every distance the switches move the cursor by
OneOfEach == {"FSQRT", "db", "SYSCALL", "RFC", "CALL", "LOADI", "LOADR64", "PUSH64"}
=============================================================================
