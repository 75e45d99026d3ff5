------------------------------ MODULE MCPages ------------------------------
(* Instances of Pages for TLC.                                              *)
EXTENDS Pages

\* A small library, one with more code, and one whose last page is cut short
LibrarySections ==
    [lib \in Libraries |->
        CASE lib = "small" -> [text |-> 1, data |-> 1, file |-> 3]
          [] lib = "code"  -> [text |-> 2, data |-> 1, file |-> 4]
          [] lib = "short" -> [text |-> 1, data |-> 2, file |-> 3]]
=============================================================================
