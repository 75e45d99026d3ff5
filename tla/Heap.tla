-------------------------------- MODULE Heap --------------------------------
(***************************************************************************)
(* The allocator wrapper, src/src/lib/ntmalloc/nt_malloc.c: malloc, free   *)
(* and realloc with a registry of the blocks that are in use.              *)
(*                                                                         *)
(* h is the registry: slot is malloc_pointers, sz malloc_pointer_sz, and   *)
(* allocs number_of_allocs.  ptr is what the last operation returned, and  *)
(* gone says that it has ended the program.  Entry sz is the one behind    *)
(* those the wrapper looks after: in the first buffer it is not cleared,   *)
(* and in the later ones it is not there.  beyond is what is found there.  *)
(***************************************************************************)
EXTENDS Integers, FiniteSets

CONSTANTS
    Blocks,     \* what malloc can return
    Null,
    Junk,       \* a value nobody has written
    HeapStep    \* 16: the entries of the first buffer, and what each growth adds

ASSUME HeapAssumption ==
    /\ Null \notin Blocks /\ Junk \notin Blocks /\ Null # Junk
    /\ HeapStep \in Nat /\ HeapStep > 1

Entries(h) == 0 .. h.sz - 1

Registered(h) == {h.slot[i] : i \in Entries(h)} \ {Null}

Used(h) == {i \in Entries(h) : h.slot[i] # Null}

nt_malloc_init(beyond) ==
    [slot |-> [i \in 0 .. HeapStep - 1 |-> IF i < HeapStep - 1 THEN Null ELSE beyond],
     sz |-> HeapStep - 1, allocs |-> 0, ptr |-> Null, gone |-> FALSE, beyond |-> beyond]

Gone(h) == [h EXCEPT !.gone = TRUE, !.ptr = Null]

\* A buffer with HeapStep more entries, cleared, and the old entries copied
Longer(h) ==
    LET sz == h.sz + HeapStep
    IN [h EXCEPT !.sz = sz,
                 !.slot = [i \in 0 .. sz |-> IF i < h.sz THEN h.slot[i]
                                             ELSE IF i < sz THEN Null ELSE h.beyond]]

\* Mutant: the buffer grows one block too late
MustLengthenLate(h) == h.allocs > h.sz

MustLengthen(h) == h.allocs >= h.sz

\* The search for an empty entry runs one past the end
Empty(h) == {i \in 0 .. h.sz : h.slot[i] = Null}

FirstIn(s) == CHOOSE i \in s : \A j \in s : i <= j

Registers(h, p) ==
    IF Empty(h) = {}
    THEN Gone(h)
    ELSE [h EXCEPT !.slot[FirstIn(Empty(h))] = p, !.allocs = @ + 1, !.ptr = p]

\* Without a block left the program ends
Unused(h) == Blocks \ Registered(h)

nt_malloc(h) ==
    IF h.gone \/ Unused(h) = {}
    THEN Gone(h)
    ELSE Registers(IF MustLengthen(h) THEN Longer(h) ELSE h,
                   CHOOSE p \in Unused(h) : TRUE)

EntriesOf(h, p) == {i \in Entries(h) : h.slot[i] = p}

\* Mutant: the entry is cleared and the count kept
nt_free_uncounted(h, p) ==
    IF h.gone \/ EntriesOf(h, p) = {}
    THEN h
    ELSE [h EXCEPT !.slot[FirstIn(EntriesOf(h, p))] = Null]

\* A block that is not registered is not freed.  NULL is taken for an empty entry,
\* and counted
nt_free(h, p) ==
    IF h.gone \/ EntriesOf(h, p) = {}
    THEN h
    ELSE [h EXCEPT !.slot[FirstIn(EntriesOf(h, p))] = Null, !.allocs = @ - 1]

\* The block moves whenever there is somewhere to go.  NULL for a block that is
\* not registered
nt_realloc(h, p) ==
    IF p = Null THEN nt_malloc(h)
    ELSE IF h.gone \/ EntriesOf(h, p) = {} THEN [h EXCEPT !.ptr = Null]
    ELSE LET q == IF Unused(h) = {} THEN p ELSE CHOOSE b \in Unused(h) : TRUE
         IN [h EXCEPT !.slot[FirstIn(EntriesOf(h, p))] = q, !.ptr = q]

-----------------------------------------------------------------------------
\* The registry is exact: the count is the number of blocks in it, each is there
\* once, and nothing has been put behind its end.  The count decides when the buffer
\* grows; were it less, a block would go behind the end, where neither free nor
\* realloc looks and the next growth leaves it behind
Exact(h) ==
    /\ h.allocs = Cardinality(Used(h))
    /\ h.slot[h.sz] = h.beyond
    /\ \A i, j \in Used(h) : h.slot[i] = h.slot[j] => i = j
=============================================================================
