----------------------------- MODULE MCServices -----------------------------
(* Programs for the services: pairs of services that share the allocator,  *)
(* and the keyboard by itself.                                             *)
EXTENDS Services

SomeBlocks == 1 .. 18
SomePrograms == {{"stream", "library"}, {"library", "memory"}, {"library", "call"},
                 {"stream", "job1", "stack"}, {"native", "job1", "job2"},
                 {"memory", "job1", "job2"}, {"library", "job1"}, {"keyboard"}}
=============================================================================
