--------------------------- MODULE ServicesProofs ---------------------------
(***************************************************************************)
(* Proofs about the allocator wrapper and the services over it, for every  *)
(* set of blocks and programs and every size of the tables.                *)
(***************************************************************************)
EXTENDS Services, FiniteSetTheorems, SequenceTheorems, TLAPS

Cells == Blocks \cup {Null, Junk}

Heaps == [slot : UNION {[0 .. n -> Cells] : n \in Nat}, sz : Nat, allocs : Int,
          ptr : Blocks \cup {Null}, gone : BOOLEAN, beyond : {Null, Junk}]

\* An allocator that nobody has misused
Sound(h) ==
    /\ h \in Heaps
    /\ h.slot \in [0 .. h.sz -> Cells]
    /\ Exact(h)

\* A non-empty set of numbers has a least element: the intervals below its
\* elements are finite sets, and inclusion of finite sets is well-founded.
LEMMA LeastNumber ==
    ASSUME NEW S \in SUBSET Nat, S # {}
    PROVE  FirstIn(S) \in S /\ \A j \in S : FirstIn(S) <= j
<1>1. PICK t \in S : TRUE
  OBVIOUS
<1> DEFINE B(d) == 0 .. d - 1
           All == 0 .. t
           T == {B(d) : d \in {e \in S : e <= t}}
<1>2. IsFiniteSet(All)
  BY FS_Interval
<1>3. FiniteSubsetsOf(All) = SUBSET All
  BY <1>2, FS_FiniteSubsetsOfFinite
<1>4. IsWellFoundedOn(StrictSubsetOrdering(All), SUBSET All)
  BY <1>3, FS_StrictSubsetOrderingWellFounded
<1>5. T \subseteq SUBSET All /\ T # {}
  OBVIOUS
<1>6. PICK x \in T : \A y \in T : <<y, x>> \notin StrictSubsetOrdering(All)
  BY <1>4, <1>5, WFMin
<1>7. PICK d \in S : d <= t /\ x = B(d)
  BY <1>6
<1>8. ASSUME NEW e \in S, e < d PROVE FALSE
  <2>1. B(e) \in T /\ e \in B(d) /\ e \notin B(e) /\ B(e) \subseteq B(d)
    BY <1>7, <1>8
  <2>2. B(e) # x
    BY <2>1, <1>7
  <2> QED BY <1>5, <1>6, <1>7, <2>1, <2>2 DEF StrictSubsetOrdering
<1>9. \E i \in S : \A j \in S : i <= j
  BY <1>8
<1> QED BY <1>9 DEF FirstIn

-----------------------------------------------------------------------------
(* The operations of the wrapper. *)

LEMMA UsedCounts ==
    ASSUME NEW h, Sound(h)
    PROVE  /\ IsFiniteSet(Used(h)) /\ Used(h) \subseteq Entries(h)
           /\ h.allocs = Cardinality(Used(h)) /\ h.allocs \in Nat /\ h.allocs <= h.sz
           /\ h.allocs < h.sz => Used(h) # Entries(h)
<1>1. h.sz \in Nat /\ Used(h) \in SUBSET Entries(h)
  BY DEF Sound, Heaps, Used
<1>2. IsFiniteSet(Entries(h)) /\ Cardinality(Entries(h)) = h.sz
  <2>1. h.sz - 1 \in Int /\ (0 > h.sz - 1 <=> h.sz = 0)
    BY <1>1
  <2>2. IsFiniteSet(0 .. h.sz - 1) /\ Cardinality(0 .. h.sz - 1) =
            IF 0 > h.sz - 1 THEN 0 ELSE (h.sz - 1) - 0 + 1
    BY <2>1, FS_Interval
  <2> QED BY <1>1, <2>1, <2>2 DEF Entries
<1>3. IsFiniteSet(Used(h)) /\ Cardinality(Used(h)) <= h.sz
      /\ (Cardinality(Used(h)) = h.sz => Used(h) = Entries(h))
  BY <1>1, <1>2, FS_Subset
<1>4. Cardinality(Used(h)) \in Nat
  BY <1>3, FS_CardinalityType
<1>5. Used(h) = Entries(h) => Cardinality(Used(h)) = h.sz
  BY <1>2
<1> QED BY <1>1, <1>3, <1>4, <1>5 DEF Sound, Exact

LEMMA LongerIsSound ==
    ASSUME NEW h, Sound(h)
    PROVE  /\ Sound(Longer(h)) /\ Longer(h).sz > h.allocs
           /\ Registered(Longer(h)) = Registered(h) /\ Longer(h).gone = h.gone
           /\ Longer(h).allocs = h.allocs
<1> DEFINE sz == h.sz + HeapStep
           slot == [i \in 0 .. sz |-> IF i < h.sz THEN h.slot[i]
                                      ELSE IF i < sz THEN Null ELSE h.beyond]
<1>1. h.sz \in Nat /\ sz \in Nat /\ sz > h.sz /\ h.allocs <= h.sz /\ h.allocs \in Nat
  BY UsedCounts, HeapAssumption DEF Sound, Heaps
<1>2. slot \in [0 .. sz -> Cells]
  BY <1>1 DEF Sound, Heaps, Cells
<1>3. Longer(h) = [h EXCEPT !.sz = sz, !.slot = slot]
  BY DEF Longer
<1>4. Longer(h).sz = sz /\ Longer(h).slot = slot /\ Longer(h).allocs = h.allocs
      /\ Longer(h).beyond = h.beyond /\ Longer(h).gone = h.gone /\ Longer(h).ptr = h.ptr
      /\ Longer(h) \in Heaps
  <2> HIDE DEF slot, sz
  <2> QED BY <1>1, <1>2, <1>3 DEF Sound, Heaps
<1>5. Used(Longer(h)) = Used(h)
  BY <1>1, <1>4 DEF Used, Entries
<1>6. \A i \in Used(h) : Longer(h).slot[i] = h.slot[i]
  BY <1>1, <1>4 DEF Used, Entries
<1>7. Exact(Longer(h))
  <2>1. slot[sz] = h.beyond
    BY <1>1
  <2> HIDE DEF slot, sz
  <2> QED BY <2>1, <1>4, <1>5, <1>6 DEF Sound, Exact
<1>8. Registered(Longer(h)) = Registered(h)
  <2>1. Registered(h) \subseteq Registered(Longer(h))
    <3>1. \A i \in Entries(h) : i \in 0 .. sz - 1 /\ slot[i] = h.slot[i]
      BY <1>1 DEF Entries
    <3> HIDE DEF slot, sz
    <3> QED BY <1>4, <3>1 DEF Registered, Entries
  <2>2. \A i \in 0 .. sz - 1 : slot[i] # Null => i \in Entries(h) /\ slot[i] = h.slot[i]
    BY <1>1 DEF Entries
  <2>3. Registered(Longer(h)) \subseteq Registered(h)
    <3> HIDE DEF slot, sz
    <3> QED BY <1>4, <2>2 DEF Registered, Entries
  <2> QED BY <2>1, <2>3
<1> QED BY <1>1, <1>2, <1>4, <1>7, <1>8 DEF Sound

LEMMA RegistersIsSound ==
    ASSUME NEW h, Sound(h), h.allocs < h.sz, ~h.gone, NEW p \in Blocks \ Registered(h)
    PROVE  /\ Sound(Registers(h, p)) /\ ~Registers(h, p).gone
           /\ Registers(h, p).ptr = p
           /\ Registered(Registers(h, p)) = Registered(h) \cup {p}
<1> DEFINE k == FirstIn(Empty(h))
           slot == [h.slot EXCEPT ![k] = p]
<1>1. h.sz \in Nat /\ h.slot \in [0 .. h.sz -> Cells] /\ h.allocs \in Nat /\ p # Null
  BY UsedCounts, HeapAssumption DEF Sound, Heaps
<1>2. PICK e \in Entries(h) : h.slot[e] = Null
  BY UsedCounts DEF Used
<1>3. e \in Empty(h) /\ Empty(h) \in SUBSET Nat /\ e < h.sz
  BY <1>1, <1>2 DEF Empty, Entries
<1>4. k \in Empty(h) /\ k <= e
  BY <1>3, LeastNumber
<1>5. k \in Entries(h) /\ h.slot[k] = Null /\ k \in Nat /\ k < h.sz
  BY <1>1, <1>3, <1>4 DEF Empty, Entries
<1>6. slot \in [0 .. h.sz -> Cells]
  BY <1>1 DEF Cells
<1>7. Registers(h, p) = [h EXCEPT !.slot = slot, !.allocs = h.allocs + 1, !.ptr = p]
  BY <1>3 DEF Registers, Sound, Heaps
<1>8. /\ Registers(h, p).slot = slot /\ Registers(h, p).sz = h.sz
      /\ Registers(h, p).allocs = h.allocs + 1 /\ Registers(h, p).beyond = h.beyond
      /\ Registers(h, p).gone = h.gone /\ Registers(h, p).ptr = p
      /\ Registers(h, p) \in Heaps
  <2> DEFINE n == h.allocs + 1
  <2>1. n \in Int
    BY <1>1
  <2>2. Registers(h, p) = [h EXCEPT !.slot = slot, !.allocs = n, !.ptr = p]
    BY <1>7
  <2>3. slot \in UNION {[0 .. m -> Cells] : m \in Nat}
    BY <1>1, <1>6
  <2> HIDE DEF slot, n
  <2>4. Registers(h, p) \in Heaps
    BY <2>1, <2>2, <2>3 DEF Sound, Heaps
  <2>5. /\ Registers(h, p).slot = slot /\ Registers(h, p).sz = h.sz
        /\ Registers(h, p).allocs = n /\ Registers(h, p).beyond = h.beyond
        /\ Registers(h, p).gone = h.gone /\ Registers(h, p).ptr = p
    BY <2>2 DEF Sound, Heaps
  <2> QED BY <2>4, <2>5 DEF n
<1>9. Used(Registers(h, p)) = Used(h) \cup {k} /\ k \notin Used(h)
  BY <1>1, <1>5, <1>8 DEF Used, Entries
<1>10. Cardinality(Used(h) \cup {k}) = Cardinality(Used(h)) + 1
  BY <1>9, UsedCounts, FS_AddElement
<1>11. slot[h.sz] = h.beyond
  BY <1>1, <1>5 DEF Sound, Exact
<1>12. \A i \in Used(h) : slot[i] = h.slot[i] /\ h.slot[i] # p
  BY <1>1, <1>5 DEF Used, Entries, Registered
<1>13. Exact(Registers(h, p))
  <2>1. slot[k] = p
    BY <1>1, <1>5 DEF Entries
  <2>2. \A i, j \in Used(h) : h.slot[i] = h.slot[j] => i = j
    BY DEF Sound, Exact
  <2>3. \A i, j \in Used(h) \cup {k} : slot[i] = slot[j] => i = j
    <3> HIDE DEF slot, k
    <3> QED BY <2>1, <2>2, <1>12
  <2>4. h.allocs + 1 = Cardinality(Used(Registers(h, p)))
    BY <1>9, <1>10, UsedCounts
  <2> HIDE DEF slot, k
  <2> QED BY <1>8, <1>9, <1>11, <2>3, <2>4 DEF Exact
<1>14. Registered(Registers(h, p)) = Registered(h) \cup {p}
  <2>1. \A i \in Entries(h) : slot[i] = IF i = k THEN p ELSE h.slot[i]
    BY <1>1 DEF Entries
  <2>2. Entries(Registers(h, p)) = Entries(h)
    BY <1>8 DEF Entries
  <2>3. p # Null /\ h.slot[k] = Null /\ k \in Entries(h)
    BY <1>1, <1>5
  <2> HIDE DEF slot, k
  <2> QED BY <1>8, <2>1, <2>2, <2>3 DEF Registered
<1> QED BY <1>6, <1>8, <1>13, <1>14 DEF Sound

LEMMA GoneIsSound ==
    ASSUME NEW h, Sound(h)
    PROVE  Sound(Gone(h)) /\ Gone(h).gone
  BY DEF Gone, Sound, Heaps, Exact, Used, Entries

\* malloc: the registry stays exact, and what it returns is a block unless the
\* program has ended
LEMMA MallocIsSound ==
    ASSUME NEW h, Sound(h)
    PROVE  /\ Sound(nt_malloc(h))
           /\ ~nt_malloc(h).gone =>
                 /\ nt_malloc(h).ptr \in Blocks \ Registered(h) /\ ~h.gone
                 /\ Registered(nt_malloc(h)) = Registered(h) \cup {nt_malloc(h).ptr}
<1>1. CASE h.gone \/ Unused(h) = {}
  BY <1>1, GoneIsSound DEF nt_malloc
<1>2. CASE ~(h.gone \/ Unused(h) = {})
  <2> DEFINE g == IF MustLengthen(h) THEN Longer(h) ELSE h
             p == CHOOSE q \in Unused(h) : TRUE
  <2>1. p \in Blocks \ Registered(h)
    BY <1>2 DEF Unused
  <2>2. Sound(g) /\ g.allocs < g.sz /\ ~g.gone /\ Registered(g) = Registered(h)
    <3>1. CASE MustLengthen(h)
      BY <1>2, <3>1, LongerIsSound
    <3>2. CASE ~MustLengthen(h)
      BY <1>2, <3>2, UsedCounts DEF MustLengthen, Sound, Heaps
    <3> QED BY <3>1, <3>2
  <2>3. nt_malloc(h) = Registers(g, p)
    BY <1>2 DEF nt_malloc
  <2> HIDE DEF g, p
  <2> QED BY <1>2, <2>1, <2>2, <2>3, RegistersIsSound
<1> QED BY <1>1, <1>2

\* free: of anything but NULL
LEMMA FreeIsSound ==
    ASSUME NEW h, Sound(h), NEW p, h.gone \/ p # Null
    PROVE  /\ Sound(nt_free(h, p)) /\ nt_free(h, p).gone = h.gone
           /\ ~h.gone => Registered(nt_free(h, p)) = Registered(h) \ {p}
<1>1. CASE h.gone \/ EntriesOf(h, p) = {}
  BY <1>1 DEF nt_free, Registered, EntriesOf
<1>2. CASE ~(h.gone \/ EntriesOf(h, p) = {})
  <2> DEFINE k == FirstIn(EntriesOf(h, p))
             slot == [h.slot EXCEPT ![k] = Null]
  <2>1. h.sz \in Nat /\ h.slot \in [0 .. h.sz -> Cells] /\ p # Null
    BY <1>2 DEF Sound, Heaps
  <2>2. k \in EntriesOf(h, p)
    <3>1. EntriesOf(h, p) \in SUBSET Nat
      BY <2>1 DEF EntriesOf, Entries
    <3> QED BY <1>2, <3>1, LeastNumber
  <2>3. k \in Nat /\ k < h.sz /\ h.slot[k] = p /\ k \in Used(h)
    BY <2>1, <2>2 DEF EntriesOf, Entries, Used
  <2>4. slot \in [0 .. h.sz -> Cells]
    BY <2>1 DEF Cells
  <2>5. nt_free(h, p) = [h EXCEPT !.slot = slot, !.allocs = h.allocs - 1]
    BY <1>2 DEF nt_free, Sound, Heaps
  <2>6. /\ nt_free(h, p).slot = slot /\ nt_free(h, p).sz = h.sz
        /\ nt_free(h, p).allocs = h.allocs - 1 /\ nt_free(h, p).beyond = h.beyond
        /\ nt_free(h, p).gone = h.gone /\ nt_free(h, p).ptr = h.ptr
        /\ nt_free(h, p) \in Heaps
    <3> DEFINE n == h.allocs - 1
    <3>1. n \in Int
      BY UsedCounts
    <3>2. nt_free(h, p) = [h EXCEPT !.slot = slot, !.allocs = n]
      BY <2>5
    <3>3. slot \in UNION {[0 .. m -> Cells] : m \in Nat}
      BY <2>1, <2>4
    <3> HIDE DEF slot, n
    <3>4. nt_free(h, p) \in Heaps
      BY <3>1, <3>2, <3>3 DEF Sound, Heaps
    <3>5. /\ nt_free(h, p).slot = slot /\ nt_free(h, p).sz = h.sz
          /\ nt_free(h, p).allocs = n /\ nt_free(h, p).beyond = h.beyond
          /\ nt_free(h, p).gone = h.gone /\ nt_free(h, p).ptr = h.ptr
      BY <3>2 DEF Sound, Heaps
    <3> QED BY <3>4, <3>5 DEF n
  <2>7. Used(nt_free(h, p)) = Used(h) \ {k}
    BY <2>1, <2>3, <2>6 DEF Used, Entries
  <2>8. Cardinality(Used(h) \ {k}) = h.allocs - 1
    BY <2>3, UsedCounts, FS_RemoveElement
  <2>9. slot[h.sz] = h.beyond
    BY <2>1, <2>3 DEF Sound, Exact
  <2>10. \A i, j \in Used(h) \ {k} : slot[i] = slot[j] => i = j
    BY <2>1 DEF Sound, Exact, Used, Entries
  <2>11. Exact(nt_free(h, p))
    <3> HIDE DEF slot, k
    <3> QED BY <2>6, <2>7, <2>8, <2>9, <2>10 DEF Exact
  <2>12. Registered(nt_free(h, p)) = Registered(h) \ {p}
    <3>1. \A i \in Entries(h) : slot[i] = IF i = k THEN Null ELSE h.slot[i]
      BY <2>1 DEF Entries
    <3>2. Entries(nt_free(h, p)) = Entries(h)
      BY <2>6 DEF Entries
    <3>3. \A i \in Entries(h) : h.slot[i] = p => i = k
      BY <2>1, <2>3 DEF Sound, Exact, Used
    <3>4. h.slot[k] = p
      BY <2>3
    <3> HIDE DEF slot, k
    <3> QED BY <2>6, <3>1, <3>2, <3>3, <3>4 DEF Registered
  <2> QED BY <2>4, <2>6, <2>11, <2>12 DEF Sound
<1> QED BY <1>1, <1>2

\* realloc: the entry follows the block
LEMMA ReallocIsSound ==
    ASSUME NEW h, Sound(h), NEW p \in Blocks \cup {Null}
    PROVE  /\ Sound(nt_realloc(h, p))
           /\ ~nt_realloc(h, p).gone => ~h.gone
           /\ ~nt_realloc(h, p).gone /\ p \in Registered(h) =>
                 LET q == nt_realloc(h, p).ptr
                 IN /\ q \in Blocks /\ (q = p \/ q \notin Registered(h))
                    /\ Registered(nt_realloc(h, p)) = (Registered(h) \ {p}) \cup {q}
<1>1. CASE p = Null
  BY <1>1, MallocIsSound DEF nt_realloc, Registered
<1>2. CASE p # Null /\ (h.gone \/ EntriesOf(h, p) = {})
  <2>1. nt_realloc(h, p) = [h EXCEPT !.ptr = Null]
    BY <1>2 DEF nt_realloc
  <2>2. /\ nt_realloc(h, p).slot = h.slot /\ nt_realloc(h, p).sz = h.sz
        /\ nt_realloc(h, p).allocs = h.allocs /\ nt_realloc(h, p).beyond = h.beyond
        /\ nt_realloc(h, p).gone = h.gone /\ nt_realloc(h, p) \in Heaps
    BY <2>1 DEF Sound, Heaps
  <2>3. Sound(nt_realloc(h, p))
    BY <2>2 DEF Sound, Exact, Used, Entries
  <2>4. ~h.gone => p \notin Registered(h)
    BY <1>2 DEF EntriesOf, Registered
  <2> QED BY <2>2, <2>3, <2>4
<1>3. CASE p # Null /\ ~(h.gone \/ EntriesOf(h, p) = {})
  <2> DEFINE k == FirstIn(EntriesOf(h, p))
             q == IF Unused(h) = {} THEN p ELSE CHOOSE b \in Unused(h) : TRUE
             slot == [h.slot EXCEPT ![k] = q]
  <2>1. h.sz \in Nat /\ h.slot \in [0 .. h.sz -> Cells]
    BY DEF Sound, Heaps
  <2>2. k \in EntriesOf(h, p)
    <3>1. EntriesOf(h, p) \in SUBSET Nat
      BY <2>1 DEF EntriesOf, Entries
    <3> QED BY <1>3, <3>1, LeastNumber
  <2>3. k \in Nat /\ k < h.sz /\ h.slot[k] = p /\ k \in Used(h)
    BY <1>3, <2>1, <2>2 DEF EntriesOf, Entries, Used
  <2>4. p \in Blocks /\ q \in Blocks /\ (q = p \/ q \notin Registered(h))
    BY <1>3 DEF Unused
  <2>5. q # Null
    BY <2>4, HeapAssumption
  <2>6. slot \in [0 .. h.sz -> Cells]
    <3> HIDE DEF q
    <3> QED BY <2>1, <2>4 DEF Cells
  <2>7. nt_realloc(h, p) = [h EXCEPT !.slot = slot, !.ptr = q]
    BY <1>3 DEF nt_realloc, Sound, Heaps
  <2>8. /\ nt_realloc(h, p).slot = slot /\ nt_realloc(h, p).sz = h.sz
        /\ nt_realloc(h, p).allocs = h.allocs /\ nt_realloc(h, p).beyond = h.beyond
        /\ nt_realloc(h, p).gone = h.gone /\ nt_realloc(h, p).ptr = q
        /\ nt_realloc(h, p) \in Heaps
    <3>1. slot \in UNION {[0 .. m -> Cells] : m \in Nat}
      BY <2>1, <2>6
    <3> HIDE DEF slot, q
    <3>2. nt_realloc(h, p) \in Heaps
      BY <2>4, <2>7, <3>1 DEF Sound, Heaps
    <3> QED BY <2>7, <3>2 DEF Sound, Heaps
  <2>9. Used(nt_realloc(h, p)) = Used(h)
    <3> HIDE DEF q
    <3> QED BY <2>1, <2>3, <2>5, <2>8 DEF Used, Entries
  <2>10. slot[h.sz] = h.beyond
    BY <2>1, <2>3 DEF Sound, Exact
  <2>11. \A i \in Used(h) : i # k => slot[i] = h.slot[i] /\ (q = p \/ h.slot[i] # q)
    <3>1. \A i \in Used(h) : i \in 0 .. h.sz /\ h.slot[i] \in Registered(h)
      BY <2>1 DEF Used, Entries, Registered
    <3> HIDE DEF q, k
    <3> QED BY <2>1, <2>4, <3>1
  <2>12. slot[k] = q
    <3> HIDE DEF q
    <3> QED BY <2>1, <2>3
  <2>13. \A i, j \in Used(h) : slot[i] = slot[j] => i = j
    <3>1. \A i, j \in Used(h) : h.slot[i] = h.slot[j] => i = j
      BY DEF Sound, Exact
    <3> HIDE DEF slot, k, q
    <3> QED BY <2>3, <2>11, <2>12, <3>1
  <2>14. Exact(nt_realloc(h, p))
    <3> HIDE DEF slot, k, q
    <3> QED BY <2>8, <2>9, <2>10, <2>13 DEF Sound, Exact
  <2>15. Registered(nt_realloc(h, p)) = (Registered(h) \ {p}) \cup {q}
    <3>1. \A i \in Entries(h) : slot[i] = IF i = k THEN q ELSE h.slot[i]
      <4> HIDE DEF q
      <4> QED BY <2>1 DEF Entries
    <3>2. Entries(nt_realloc(h, p)) = Entries(h)
      BY <2>8 DEF Entries
    <3>3. \A i \in Entries(h) : h.slot[i] = p => i = k
      BY <1>3, <2>1, <2>3 DEF Sound, Exact, Used
    <3>4. h.slot[k] = p /\ k \in Entries(h)
      BY <2>2 DEF EntriesOf
    <3> HIDE DEF slot, k, q
    <3> QED BY <2>5, <2>8, <3>1, <3>2, <3>3, <3>4 DEF Registered
  <2> HIDE DEF slot, k, q
  <2> QED BY <2>4, <2>6, <2>8, <2>14, <2>15 DEF Sound
<1> QED BY <1>1, <1>2, <1>3

-----------------------------------------------------------------------------
(* What the machine holds.  Once the wrapper has ended the program nothing is *)
(* freed any more; before that, everything that may be freed is a block.      *)

Given(h) == IF h.gone THEN Blocks \cup {Null} ELSE Blocks

Memories(h) == [block : Blocks \cup {Null}, actual : Int, size : Int, root : Given(h),
                pages : Given(h), areas : SUBSET (Int \X Int)]

JobRecords(h) == [job : Given(h), Stack : Given(h), CallStack : Given(h),
                  content : Given(h), calls : Given(h)]

JobsOK(h, js) ==
    /\ DOMAIN js = JobSlots
    /\ \A j \in JobSlots : js[j] # NoJob => js[j] \in JobRecords(h)

HeapInv ==
    /\ Sound(heap)
    /\ heap.gone => ended # "no"
    /\ memory \in Memories(heap)
    /\ JobsOK(heap, jobs)
    /\ streams.table \in Blocks \cup {Null}

LEMMA HeldGrows ==
    ASSUME NEW h, NEW g, ~g.gone => ~h.gone
    PROVE  /\ Given(h) \subseteq Given(g)
           /\ Memories(h) \subseteq Memories(g)
           /\ \A js : JobsOK(h, js) => JobsOK(g, js)
<1>1. Given(h) \subseteq Given(g)
  BY DEF Given
<1>2. JobRecords(h) \subseteq JobRecords(g) /\ Memories(h) \subseteq Memories(g)
  BY <1>1 DEF JobRecords, Memories
<1> QED BY <1>1, <1>2 DEF JobsOK

LEMMA MallocHeld ==
    ASSUME NEW h, Sound(h)
    PROVE  /\ Sound(nt_malloc(h)) /\ nt_malloc(h).ptr \in Given(nt_malloc(h))
           /\ ~nt_malloc(h).gone => ~h.gone
<1>1. nt_malloc(h).ptr \in Blocks \cup {Null}
  BY MallocIsSound DEF Sound, Heaps
<1> QED BY <1>1, MallocIsSound DEF Given

LEMMA FreeHeld ==
    ASSUME NEW h, Sound(h), NEW p \in Given(h)
    PROVE  Sound(nt_free(h, p)) /\ nt_free(h, p).gone = h.gone
  BY FreeIsSound, HeapAssumption DEF Given

LEMMA RebuildIsSound ==
    ASSUME NEW h, Sound(h), NEW m \in Memories(h)
    PROVE  LET r == RebuildMemoryBlock(h, m)
           IN /\ Sound(r[1]) /\ r[2] \in Memories(r[1]) /\ (~r[1].gone => ~h.gone)
<1> DEFINE h1 == nt_malloc(h)
           h2 == nt_malloc(h1)
           h3 == nt_free(h2, m.pages)
           h4 == nt_free(h3, m.root)
           n == [m EXCEPT !.root = h1.ptr, !.pages = h2.ptr]
<1>1. RebuildMemoryBlock(h, m) = <<h4, n>>
  BY DEF RebuildMemoryBlock
<1>2. Sound(h1) /\ h1.ptr \in Given(h1) /\ (~h1.gone => ~h.gone)
  BY MallocHeld
<1>3. Sound(h2) /\ h2.ptr \in Given(h2) /\ (~h2.gone => ~h1.gone)
  <2> HIDE DEF h1
  <2> QED BY <1>2, MallocHeld
<1>4. m.pages \in Given(h) /\ m.root \in Given(h)
  BY DEF Memories
<1>5. Sound(h3) /\ h3.gone = h2.gone
  <2> HIDE DEF h1, h2
  <2>1. m.pages \in Given(h2)
    BY <1>2, <1>3, <1>4, HeldGrows
  <2> QED BY <2>1, <1>3, FreeHeld
<1>6. Sound(h4) /\ h4.gone = h2.gone
  <2> HIDE DEF h1, h2, h3
  <2>1. m.root \in Given(h3)
    BY <1>2, <1>3, <1>4, <1>5, HeldGrows
  <2> QED BY <2>1, <1>5, FreeHeld
<1>7. n \in Memories(h4)
  <2> HIDE DEF h1, h2, h3, h4
  <2>1. h1.ptr \in Given(h4) /\ h2.ptr \in Given(h4) /\ m \in Memories(h4)
    BY <1>2, <1>3, <1>6, HeldGrows
  <2> QED BY <2>1 DEF Memories
<1> HIDE DEF h1, h2, h3, h4, n
<1> QED BY <1>1, <1>2, <1>3, <1>6, <1>7

LEMMA ResizedIsSound ==
    ASSUME NEW h, Sound(h), NEW m \in Memories(h), NEW n \in Int
    PROVE  LET r == Resized(h, m, n)
           IN /\ Sound(r[1]) /\ r[2] \in Memories(r[1]) /\ (~r[1].gone => ~h.gone)
<1> DEFINE h1 == nt_realloc(h, m.block)
           k == [m EXCEPT !.block = h1.ptr, !.actual = n]
<1>1. m.block \in Blocks \cup {Null}
  BY DEF Memories
<1>2. Sound(h1) /\ (~h1.gone => ~h.gone)
  BY <1>1, ReallocIsSound
<1>3. h1.ptr \in Blocks \cup {Null}
  BY <1>2 DEF Sound, Heaps
<1>4. k \in Memories(h1)
  <2> HIDE DEF h1
  <2>1. m \in Memories(h1)
    BY <1>2, HeldGrows
  <2> QED BY <2>1, <1>3 DEF Memories
<1>5. Resized(h, m, n) = RebuildMemoryBlock(h1, k)
  BY DEF Resized
<1> HIDE DEF h1, k
<1> QED BY <1>2, <1>4, <1>5, RebuildIsSound

-----------------------------------------------------------------------------
(* The steps of the machine. *)

LEMMA LeaveKeeps ==
    ASSUME HeapInv, NEW h, Sound(h), Leave(h),
           memory' \in Memories(h), JobsOK(h, jobs'), streams'.table \in Blocks \cup {Null}
    PROVE  HeapInv'
  BY DEF HeapInv, Leave

(* Streams. *)

Handles == Files \cup {Null, Junk}

OpenSlots(s) == {i \in DOMAIN s.slot : s.slot[i] \in Files}

StreamTables == [table : Blocks \cup {Null}, total : Nat, used : Int,
                 slot : UNION {[0 .. n - 1 -> Handles] : n \in Nat}]

StreamsOK(s) ==
    /\ s \in StreamTables
    /\ s.slot \in [0 .. s.total - 1 -> Handles]
    /\ s.used = Cardinality(OpenSlots(s))

FaultOK == ended = "fault" => \E i \in DOMAIN streams.slot : streams.slot[i] = Junk

SInv == HeapInv /\ StreamsOK(streams) /\ FaultOK

LEMMA OpenCounts ==
    ASSUME NEW s, StreamsOK(s)
    PROVE  /\ s.total \in Nat /\ IsFiniteSet(OpenSlots(s))
           /\ s.used = Cardinality(OpenSlots(s)) /\ s.used \in Nat
           /\ OpenSlots(s) = 0 .. s.total - 1 => s.used = s.total
<1>1. s.total \in Nat /\ OpenSlots(s) \in SUBSET (0 .. s.total - 1)
  BY DEF StreamsOK, StreamTables, OpenSlots
<1>2. IsFiniteSet(0 .. s.total - 1) /\ Cardinality(0 .. s.total - 1) = s.total
  <2>1. s.total - 1 \in Int /\ (0 > s.total - 1 <=> s.total = 0)
    BY <1>1
  <2>2. IsFiniteSet(0 .. s.total - 1) /\ Cardinality(0 .. s.total - 1) =
            IF 0 > s.total - 1 THEN 0 ELSE (s.total - 1) - 0 + 1
    BY <2>1, FS_Interval
  <2> QED BY <1>1, <2>1, <2>2
<1>3. IsFiniteSet(OpenSlots(s))
  BY <1>1, <1>2, FS_Subset
<1>4. Cardinality(OpenSlots(s)) \in Nat
  BY <1>3, FS_CardinalityType
<1> QED BY <1>1, <1>2, <1>3, <1>4 DEF StreamsOK

LEMMA LongerStreamsOK ==
    ASSUME Sound(heap), StreamsOK(streams), NEW tail \in Tails
    PROVE  LET h == LongerStreams(tail)[1]
               s == LongerStreams(tail)[2]
           IN /\ Sound(h) /\ (~h.gone => ~heap.gone)
              /\ StreamsOK(s) /\ s.total > streams.total
              /\ s.slot[streams.total] = tail[streams.total]
              /\ \A i \in DOMAIN streams.slot : i \in DOMAIN s.slot /\ s.slot[i] = streams.slot[i]
<1> DEFINE h == nt_realloc(heap, streams.table)
           total == streams.total + StreamStep
           slot == [i \in 0 .. total - 1 |->
                        IF i < streams.total THEN streams.slot[i] ELSE tail[i]]
           s == [streams EXCEPT !.table = h.ptr, !.total = total, !.slot = slot]
<1> USE ServicesAssumption
<1>1. /\ streams.total \in Nat /\ total \in Nat /\ total > streams.total
      /\ streams.slot \in [0 .. streams.total - 1 -> Handles]
      /\ streams.table \in Blocks \cup {Null}
  BY DEF StreamsOK, StreamTables
<1>2. Sound(h) /\ (~h.gone => ~heap.gone)
  BY <1>1, ReallocIsSound
<1>3. h.ptr \in Blocks \cup {Null}
  BY <1>2 DEF Sound, Heaps
<1>4. slot \in [0 .. total - 1 -> Handles]
  BY <1>1 DEF Tails, Handles
<1>5. LongerStreams(tail) = <<h, s>>
  BY DEF LongerStreams, StreamsOK, StreamTables
<1>6. /\ s \in StreamTables /\ s.slot = slot /\ s.total = total /\ s.used = streams.used
  <2> HIDE DEF h, total, slot
  <2> QED BY <1>1, <1>3, <1>4 DEF StreamsOK, StreamTables
<1>7. \A i \in DOMAIN streams.slot : i \in DOMAIN s.slot /\ s.slot[i] = streams.slot[i]
  BY <1>1, <1>6
<1>8. OpenSlots(s) = OpenSlots(streams)
  <2>1. \A i \in 0 .. total - 1 : i \notin DOMAIN streams.slot => slot[i] \notin Files
    BY <1>1 DEF Tails
  <2> HIDE DEF h, total, slot, s
  <2> QED BY <1>4, <1>6, <1>7, <2>1 DEF OpenSlots
<1>9. slot[streams.total] = tail[streams.total]
  BY <1>1
<1> HIDE DEF h, total, slot, s
<1> QED BY <1>1, <1>2, <1>4, <1>5, <1>6, <1>7, <1>8, <1>9 DEF StreamsOK

LEMMA OpenInKeeps ==
    ASSUME NEW h, NEW s, NEW file \in Files \cup {"missing"}, StreamsOK(s),
           OpenIn(h, s, file), ended = "no",
           s.used < s.total \/ \E i \in DOMAIN s.slot : s.slot[i] \notin Files
    PROVE  /\ StreamsOK(streams') /\ FaultOK'
           /\ DOMAIN s.slot \subseteq DOMAIN streams'.slot
           /\ \A i \in DOMAIN s.slot : s.slot[i] \in Files => streams'.slot[i] = s.slot[i]
<1> USE ServicesAssumption
<1> DEFINE free == {i \in 0 .. s.total - 1 : s.slot[i] = Null}
           k == FirstIn(free)
<1>1. s.total \in Nat /\ s.slot \in [0 .. s.total - 1 -> Handles] /\ s.used \in Nat
  BY OpenCounts DEF StreamsOK
<1>2. CASE free = {}
  <2>1. streams' = s /\ ended' = "fault"
    BY <1>2 DEF OpenIn
  <2>2. \E i \in 0 .. s.total - 1 : s.slot[i] \notin Files
    <3>1. OpenSlots(s) = 0 .. s.total - 1 => s.used = s.total
      BY OpenCounts
    <3> QED BY <1>1, <3>1 DEF OpenSlots
  <2>3. \E i \in 0 .. s.total - 1 : s.slot[i] = Junk
    BY <1>1, <1>2, <2>2 DEF Handles
  <2> QED BY <1>1, <2>1, <2>3 DEF FaultOK
<1>3. CASE free # {} /\ file \notin Files
  <2>1. streams' = s /\ ended' # "fault"
    BY <1>3 DEF OpenIn, Leave
  <2> QED BY <2>1 DEF FaultOK
<1>4. CASE free # {} /\ file \in Files
  <2> DEFINE slot == [s.slot EXCEPT ![k] = file]
             n == s.used + 1
  <2>1. ended' # "fault" /\ streams' = [s EXCEPT !.slot = slot, !.used = n]
    BY <1>4 DEF OpenIn, Leave, StreamsOK, StreamTables
  <2>2. k \in free
    <3>1. free \in SUBSET Nat /\ free # {}
      BY <1>1, <1>4
    <3> HIDE DEF free
    <3> QED BY <3>1, LeastNumber
  <2>3. slot \in [0 .. s.total - 1 -> Handles] /\ n \in Int
    <3>1. n \in Int
      BY <1>1
    <3>2. file \in Handles
      BY <1>4 DEF Handles
    <3>3. slot \in [0 .. s.total - 1 -> Handles]
      <4> HIDE DEF k
      <4> QED BY <1>1, <3>2
    <3> QED BY <3>1, <3>3
  <2>4. /\ streams' \in StreamTables /\ streams'.slot = slot /\ streams'.used = n
        /\ streams'.total = s.total
    <3> HIDE DEF slot, n
    <3> QED BY <1>1, <2>1, <2>3 DEF StreamsOK, StreamTables
  <2>5. k \notin OpenSlots(s) /\ slot[k] = file /\ k \in DOMAIN s.slot
    <3> HIDE DEF k
    <3> QED BY <1>1, <2>2 DEF OpenSlots
  <2>6. \A i \in DOMAIN s.slot : i # k => slot[i] = s.slot[i]
    BY <1>1
  <2>7. OpenSlots(streams') = OpenSlots(s) \cup {k}
    <3> HIDE DEF k, slot
    <3> QED BY <1>1, <1>4, <2>3, <2>4, <2>5, <2>6 DEF OpenSlots
  <2>8. Cardinality(OpenSlots(s) \cup {k}) = s.used + 1
    <3> HIDE DEF k
    <3>1. IsFiniteSet(OpenSlots(s)) /\ Cardinality(OpenSlots(s)) = s.used
      BY OpenCounts
    <3> QED BY <2>5, <3>1, FS_AddElement
  <2>9. StreamsOK(streams')
    <3> HIDE DEF k, slot
    <3> QED BY <2>3, <2>4, <2>7, <2>8 DEF StreamsOK
  <2>10. \A i \in DOMAIN s.slot : s.slot[i] \in Files => slot[i] = s.slot[i]
    <3> HIDE DEF k, slot
    <3> QED BY <2>5, <2>6 DEF OpenSlots
  <2> HIDE DEF k, slot
  <2> QED BY <1>1, <2>1, <2>3, <2>4, <2>9, <2>10 DEF FaultOK
<1> QED BY <1>2, <1>3, <1>4

LEMMA OpenStreamKeeps ==
    ASSUME SInv, OpenStream
    PROVE  SInv' /\ HandlesKept
<1>1. ended = "no" /\ UNCHANGED <<memory, jobs>>
  BY DEF OpenStream, Serves, Between
<1>2. ASSUME NEW h, NEW s, NEW file \in Files \cup {"missing"}, Sound(h),
             ~h.gone => ~heap.gone, StreamsOK(s), OpenIn(h, s, file),
             s.used < s.total \/ \E i \in DOMAIN s.slot : s.slot[i] \notin Files,
             \A i \in DOMAIN streams.slot :
                i \in DOMAIN s.slot /\ s.slot[i] = streams.slot[i]
      PROVE  SInv' /\ HandlesKept
  <2>1. memory' \in Memories(h) /\ JobsOK(h, jobs')
    BY <1>1, <1>2, HeldGrows DEF SInv, HeapInv
  <2>2. /\ StreamsOK(streams') /\ FaultOK'
        /\ \A i \in DOMAIN s.slot : s.slot[i] \in Files => streams'.slot[i] = s.slot[i]
    BY <1>1, <1>2, OpenInKeeps
  <2>3. streams'.table \in Blocks \cup {Null}
    BY <2>2 DEF StreamsOK, StreamTables
  <2>4. heap' = h /\ (ended' = "fault" \/ Leave(h))
    BY <1>2 DEF OpenIn, Leave
  <2>5. HeapInv'
    BY <1>2, <2>1, <2>3, <2>4, LeaveKeeps DEF HeapInv, SInv
  <2>6. HandlesKept
    BY <1>2, <2>2 DEF HandlesKept
  <2> QED BY <2>2, <2>5, <2>6 DEF SInv
<1>3. PICK file \in Files \cup {"missing"} :
          IF StreamsFull
          THEN \E tail \in Tails : OpenIn(LongerStreams(tail)[1], LongerStreams(tail)[2], file)
          ELSE OpenIn(heap, streams, file)
  BY DEF OpenStream
<1>4. CASE StreamsFull
  <2>1. PICK tail \in Tails :
            OpenIn(LongerStreams(tail)[1], LongerStreams(tail)[2], file)
    BY <1>3, <1>4
  <2>2. tail[streams.total] \notin Files /\ streams.total \in Nat
    BY ServicesAssumption DEF Tails, SInv, StreamsOK, StreamTables
  <2> DEFINE h == LongerStreams(tail)[1]
             s == LongerStreams(tail)[2]
  <2>3. /\ Sound(h) /\ (~h.gone => ~heap.gone) /\ StreamsOK(s) /\ s.total > streams.total
        /\ s.slot[streams.total] = tail[streams.total]
        /\ \A i \in DOMAIN streams.slot : i \in DOMAIN s.slot /\ s.slot[i] = streams.slot[i]
    BY LongerStreamsOK DEF SInv, HeapInv
  <2> HIDE DEF h, s
  <2>4. streams.total \in DOMAIN s.slot
    BY <2>2, <2>3 DEF StreamsOK, StreamTables
  <2> QED BY <1>2, <2>1, <2>2, <2>3, <2>4 DEF h, s
<1>5. CASE ~StreamsFull
  <2>1. streams.used < streams.total
    BY <1>5, OpenCounts DEF StreamsFull, SInv
  <2> QED BY <1>2, <1>3, <1>5, <2>1 DEF SInv, HeapInv
<1> QED BY <1>4, <1>5

LEMMA CloseStreamKeeps ==
    ASSUME SInv, CloseStream
    PROVE  SInv' /\ HandlesKept
<1> USE ServicesAssumption
<1>1. PICK k \in DOMAIN streams.slot :
          /\ streams.slot[k] # Null
          /\ IF streams.slot[k] = Junk
             THEN ended' = "crash" /\ UNCHANGED streams
             ELSE /\ streams' = [streams EXCEPT !.slot[k] = Null, !.used = @ - 1]
                  /\ UNCHANGED ended
  BY DEF CloseStream
<1>2. ended = "no" /\ UNCHANGED <<heap, memory, jobs>>
  BY DEF CloseStream, Serves, Between
<1>3. CASE streams.slot[k] = Junk
  <2>1. UNCHANGED streams /\ ended' = "crash"
    BY <1>1, <1>3
  <2> QED BY <1>2, <2>1 DEF SInv, HeapInv, FaultOK, HandlesKept, StreamsOK, OpenSlots, JobsOK
<1>4. CASE streams.slot[k] # Junk
  <2> DEFINE slot == [streams.slot EXCEPT ![k] = Null]
             n == streams.used - 1
  <2>1. streams.total \in Nat /\ streams.slot \in [0 .. streams.total - 1 -> Handles]
        /\ streams.used \in Nat
    BY OpenCounts DEF SInv, StreamsOK
  <2>2. streams' = [streams EXCEPT !.slot = slot, !.used = n] /\ ended' = "no"
    BY <1>1, <1>2, <1>4 DEF SInv, StreamsOK, StreamTables
  <2>3. slot \in [0 .. streams.total - 1 -> Handles] /\ n \in Int
    BY <2>1 DEF Handles
  <2>4. /\ streams' \in StreamTables /\ streams'.slot = slot /\ streams'.used = n
        /\ streams'.total = streams.total /\ streams'.table = streams.table
    <3> HIDE DEF slot, n
    <3> QED BY <2>1, <2>2, <2>3 DEF SInv, StreamsOK, StreamTables
  <2>5. streams.slot[k] \in Files /\ k \in OpenSlots(streams)
    BY <1>1, <1>4, <2>1 DEF OpenSlots, Handles
  <2>6. OpenSlots(streams') = OpenSlots(streams) \ {k}
    BY <1>1, <2>1, <2>4 DEF OpenSlots
  <2>7. Cardinality(OpenSlots(streams) \ {k}) = n
    BY <2>5, OpenCounts, FS_RemoveElement DEF SInv
  <2>8. StreamsOK(streams')
    <3> HIDE DEF slot, n
    <3> QED BY <2>3, <2>4, <2>6, <2>7 DEF StreamsOK
  <2>9. HandlesKept
    BY <2>1, <2>4 DEF HandlesKept
  <2>10. HeapInv' /\ FaultOK'
    <3> HIDE DEF slot, n
    <3> QED BY <1>2, <2>2, <2>4 DEF SInv, HeapInv, FaultOK, JobsOK
  <2> QED BY <2>8, <2>9, <2>10 DEF SInv
<1> QED BY <1>3, <1>4

-----------------------------------------------------------------------------
(* The steps that leave the streams alone. *)

LEMMA OtherKeeps ==
    ASSUME SInv, ended = "no", UNCHANGED streams, HeapInv', ended' # "fault"
    PROVE  SInv' /\ HandlesKept
  BY DEF SInv, FaultOK, StreamsOK, OpenSlots, HandlesKept

LEMMA LeaveOther ==
    ASSUME SInv, ended = "no", NEW h, Sound(h), Leave(h), UNCHANGED streams,
           memory' \in Memories(h), JobsOK(h, jobs')
    PROVE  SInv' /\ HandlesKept
<1>1. HeapInv'
  BY LeaveKeeps DEF SInv, HeapInv
<1> QED BY <1>1, OtherKeeps DEF Leave

LEMMA AllocKeeps ==
    ASSUME SInv, Alloc
    PROVE  SInv' /\ HandlesKept
<1>1. PICK n \in 1 .. MaxPages - memory.size :
          LET m == [memory EXCEPT !.size = @ + n, !.areas = @ \cup {<<memory.size, n>>}]
              r == Resized(heap, m, m.size)
          IN Leave(r[1]) /\ memory' = r[2]
  BY DEF Alloc
<1> DEFINE size == memory.size + n
           areas == memory.areas \cup {<<memory.size, n>>}
           m == [memory EXCEPT !.size = size, !.areas = areas]
           r == Resized(heap, m, m.size)
<1>2. Leave(r[1]) /\ memory' = r[2]
  BY <1>1 DEF SInv, HeapInv, Memories
<1>3. size \in Int /\ areas \in SUBSET (Int \X Int)
  BY DEF SInv, HeapInv, Memories
<1>4. m \in Memories(heap) /\ m.size \in Int
  <2> HIDE DEF size, areas
  <2> QED BY <1>3 DEF SInv, HeapInv, Memories
<1>5. Sound(r[1]) /\ r[2] \in Memories(r[1]) /\ (~r[1].gone => ~heap.gone)
  <2> HIDE DEF m
  <2> QED BY <1>4, ResizedIsSound DEF SInv, HeapInv
<1>6. JobsOK(r[1], jobs') /\ ended = "no" /\ UNCHANGED streams
  <2> HIDE DEF r
  <2> QED BY <1>5, HeldGrows DEF SInv, HeapInv, Alloc, Serves, Between
<1> HIDE DEF r
<1> QED BY <1>2, <1>5, <1>6, LeaveOther

LEMMA LoadDynamicKeeps ==
    ASSUME SInv, LoadDynamic
    PROVE  SInv' /\ HandlesKept
<1>1. ended = "no" /\ UNCHANGED <<streams, jobs>>
  BY DEF LoadDynamic, Serves, Between
<1>2. CASE UNCHANGED <<heap, memory>> /\ ended' \in {"no", "exit"}
  BY <1>1, <1>2, OtherKeeps DEF SInv, HeapInv, JobsOK
<1>3. ASSUME NEW name \in Libraries, NEW n \in 1 .. MaxPages - memory.size,
             LET temp == nt_malloc(heap)
                 r == Resized(temp, memory, memory.size + n)
             IN Placed(nt_free(r[1], temp.ptr), r[2], name, n)
      PROVE  SInv' /\ HandlesKept
  <2> DEFINE temp == nt_malloc(heap)
             total == memory.size + n
             r == Resized(temp, memory, total)
             h == nt_free(r[1], temp.ptr)
             h1 == nt_malloc(h)
             m == r[2]
             size == m.size + n
             areas == m.areas \cup {<<m.size, n>>}
             placed == [m EXCEPT !.size = size, !.areas = areas]
  <2>1. Sound(temp) /\ temp.ptr \in Given(temp) /\ (~temp.gone => ~heap.gone)
    BY MallocHeld DEF SInv, HeapInv
  <2>2. total \in Int
    BY DEF SInv, HeapInv, Memories
  <2>3. memory \in Memories(temp)
    <3> HIDE DEF temp
    <3> QED BY <2>1, HeldGrows DEF SInv, HeapInv
  <2>4. Sound(r[1]) /\ m \in Memories(r[1]) /\ (~r[1].gone => ~temp.gone)
    <3> HIDE DEF temp, total
    <3> QED BY <2>1, <2>2, <2>3, ResizedIsSound
  <2>5. Sound(h) /\ h.gone = r[1].gone
    <3> HIDE DEF temp, r
    <3>1. temp.ptr \in Given(r[1])
      BY <2>1, <2>4, HeldGrows
    <3> QED BY <2>4, <3>1, FreeHeld
  <2>6. m \in Memories(h) /\ JobsOK(h, jobs)
    <3> HIDE DEF temp, r, h, m
    <3> QED BY <2>1, <2>4, <2>5, HeldGrows DEF SInv, HeapInv
  <2>7. Sound(h1) /\ (~h1.gone => ~h.gone)
    <3> HIDE DEF h
    <3> QED BY <2>5, MallocHeld
  <2>8. placed \in Memories(h)
    <3>1. size \in Int /\ areas \in SUBSET (Int \X Int)
      <4> HIDE DEF h, m
      <4> QED BY <2>6 DEF Memories
    <3> HIDE DEF h, m, size, areas
    <3> QED BY <2>6, <3>1 DEF Memories
  <2>9. placed \in Memories(h1) /\ JobsOK(h1, jobs)
    <3> HIDE DEF h, h1, placed
    <3> QED BY <2>6, <2>7, <2>8, HeldGrows
  <2>10. Placed(h, m, name, n)
    BY <1>3
  <2>11. \/ Leave(h) /\ memory' = m
         \/ Leave(h1) /\ memory' = [m EXCEPT !.size = @ + n, !.areas = @ \cup {<<m.size, n>>}]
    <3> HIDE DEF h, m
    <3> QED BY <2>10 DEF Placed
  <2>12. [m EXCEPT !.size = @ + n, !.areas = @ \cup {<<m.size, n>>}] = placed
    <3> HIDE DEF h, m
    <3> QED BY <2>6 DEF Memories
  <2>13. (Leave(h) /\ memory' = m) \/ (Leave(h1) /\ memory' = placed)
    <3> HIDE DEF h, h1, m, placed
    <3> QED BY <2>11, <2>12
  <2> HIDE DEF h, h1, m, placed
  <2> QED BY <1>1, <2>5, <2>6, <2>7, <2>9, <2>13, LeaveOther
<1> QED BY <1>1, <1>2, <1>3 DEF LoadDynamic

\* The allocator after a library has been looked for by its name
LEMMA LookedForHeld ==
    ASSUME Sound(heap), NEW name
    PROVE  Sound(LookedFor(name)) /\ (~LookedFor(name).gone => ~heap.gone)
<1> DEFINE path == nt_malloc(heap)
           g == nt_free(path, path.ptr)
<1>1. Sound(path) /\ path.ptr \in Given(path) /\ (~path.gone => ~heap.gone)
  BY MallocHeld
<1>2. LookedFor(name) = IF name = "rstdlib" THEN g ELSE heap
  BY DEF LookedFor
<1>3. Sound(g) /\ g.gone = path.gone
  <2> HIDE DEF path
  <2> QED BY <1>1, FreeHeld
<1> HIDE DEF path, g
<1> QED BY <1>1, <1>2, <1>3

\* The program goes on, or ends, with an allocator that has been used
LEMMA LeavesOrEnds ==
    ASSUME SInv, ended = "no", UNCHANGED <<streams, memory, jobs>>,
           NEW h, Sound(h), ~h.gone => ~heap.gone,
           Leave(h) \/ (heap' = h /\ ended' = "exit")
    PROVE  SInv' /\ HandlesKept
<1>1. memory' \in Memories(h) /\ JobsOK(h, jobs')
  BY HeldGrows DEF SInv, HeapInv
<1>2. CASE Leave(h)
  BY <1>1, <1>2, LeaveOther
<1>3. CASE heap' = h /\ ended' = "exit"
  <2>1. HeapInv'
    BY <1>1, <1>3 DEF SInv, HeapInv, JobsOK
  <2> QED BY <1>3, <2>1, OtherKeeps
<1> QED BY <1>2, <1>3

LEMMA LoadLibKeeps ==
    ASSUME SInv, LoadLib
    PROVE  SInv' /\ HandlesKept
<1>1. ended = "no" /\ UNCHANGED <<streams, memory, jobs>>
  BY DEF LoadLib, Serves, Between
<1>2. PICK name \in NativeNames :
        LET f == nt_malloc(LookedFor(name))
        IN \/ Opened(LookedFor(name), name, Null)
           \/ Opened(f, name, f.ptr)
           \/ heap' = f /\ ended' = "exit"
  BY DEF LoadLib
<1> DEFINE g == LookedFor(name)
           f == nt_malloc(g)
<1>3. Sound(g) /\ (~g.gone => ~heap.gone)
  BY LookedForHeld DEF SInv, HeapInv
<1> HIDE DEF g
<1>4. Sound(f) /\ (~f.gone => ~heap.gone)
  BY <1>3, MallocHeld
<1>5. \/ \E path : Opened(g, name, path)
      \/ \E path : Opened(f, name, path)
      \/ heap' = f /\ ended' = "exit"
  BY <1>2 DEF g
<1> HIDE DEF f
<1>6. ASSUME NEW h, Sound(h), ~h.gone => ~heap.gone, NEW path, Opened(h, name, path)
      PROVE  SInv' /\ HandlesKept
  <2> DEFINE h1 == nt_malloc(h)
  <2>1. Sound(h1) /\ (~h1.gone => ~heap.gone)
    BY <1>6, MallocHeld
  <2>2. Leave(h1) \/ (heap' = h1 /\ ended' = "exit")
    BY <1>6 DEF Opened
  <2> HIDE DEF h1
  <2> QED BY <1>1, <2>1, <2>2, LeavesOrEnds
<1>7. CASE heap' = f /\ ended' = "exit"
  BY <1>1, <1>4, <1>7, LeavesOrEnds
<1> QED BY <1>3, <1>4, <1>5, <1>6, <1>7

LEMMA DispatchKeeps ==
    ASSUME SInv, Dispatch
    PROVE  SInv' /\ HandlesKept
<1> DEFINE h1 == nt_malloc(heap)
           h2 == nt_malloc(h1)
           h3 == nt_malloc(h2)
           h4 == nt_malloc(h3)
           h5 == nt_malloc(h4)
           rec == [job |-> h1.ptr, Stack |-> h2.ptr, CallStack |-> h3.ptr,
                   content |-> h4.ptr, calls |-> h5.ptr]
<1>1. ended = "no" /\ UNCHANGED <<streams, memory>>
  BY DEF Dispatch, Between
<1>2. PICK j \in JobSlots : jobs' = [jobs EXCEPT ![j] = rec] /\ Leave(h5)
  BY DEF Dispatch
<1>3. Sound(h1) /\ h1.ptr \in Given(h1) /\ (~h1.gone => ~heap.gone)
  BY MallocHeld DEF SInv, HeapInv
<1>4. Sound(h2) /\ h2.ptr \in Given(h2) /\ (~h2.gone => ~h1.gone)
  <2> HIDE DEF h1
  <2> QED BY <1>3, MallocHeld
<1>5. Sound(h3) /\ h3.ptr \in Given(h3) /\ (~h3.gone => ~h2.gone)
  <2> HIDE DEF h1, h2
  <2> QED BY <1>4, MallocHeld
<1>6. Sound(h4) /\ h4.ptr \in Given(h4) /\ (~h4.gone => ~h3.gone)
  <2> HIDE DEF h1, h2, h3
  <2> QED BY <1>5, MallocHeld
<1>7. Sound(h5) /\ h5.ptr \in Given(h5) /\ (~h5.gone => ~h4.gone)
  <2> HIDE DEF h1, h2, h3, h4
  <2> QED BY <1>6, MallocHeld
<1>8. rec \in JobRecords(h5)
  <2> HIDE DEF h1, h2, h3, h4, h5
  <2>1. h1.ptr \in Given(h5) /\ h2.ptr \in Given(h5) /\ h3.ptr \in Given(h5)
        /\ h4.ptr \in Given(h5)
    BY <1>3, <1>4, <1>5, <1>6, <1>7, HeldGrows
  <2> QED BY <2>1, <1>7 DEF JobRecords
<1>9. memory' \in Memories(h5) /\ JobsOK(h5, jobs)
  <2> HIDE DEF h1, h2, h3, h4, h5
  <2> QED BY <1>1, <1>3, <1>4, <1>5, <1>6, <1>7, HeldGrows DEF SInv, HeapInv
<1> HIDE DEF h1, h2, h3, h4, h5, rec
<1>10. JobsOK(h5, jobs')
  BY <1>2, <1>8, <1>9 DEF JobsOK
<1> QED BY <1>1, <1>2, <1>7, <1>9, <1>10, LeaveOther

LEMMA GrowKeeps ==
    ASSUME SInv, Grow
    PROVE  SInv' /\ HandlesKept
<1> DEFINE h == nt_malloc(heap)
<1>1. ended = "no" /\ UNCHANGED <<streams, memory>>
  BY DEF Grow, Serves, Between
<1>2. PICK j \in JobSlots :
          /\ jobs[j] # NoJob
          /\ \/ /\ Leave(nt_free(h, jobs[j].content))
                /\ jobs' = [jobs EXCEPT ![j].content = h.ptr]
             \/ /\ Leave(nt_free(h, jobs[j].calls))
                /\ jobs' = [jobs EXCEPT ![j].calls = h.ptr]
  BY DEF Grow
<1>3. Sound(h) /\ h.ptr \in Given(h) /\ (~h.gone => ~heap.gone)
  BY MallocHeld DEF SInv, HeapInv
<1> HIDE DEF h
<1>4. memory' \in Memories(h) /\ JobsOK(h, jobs) /\ jobs[j] \in JobRecords(h)
  BY <1>1, <1>2, <1>3, HeldGrows DEF SInv, HeapInv, JobsOK
<1>5. ASSUME NEW p \in Given(h), NEW rec \in JobRecords(h), Leave(nt_free(h, p)),
             jobs' = [jobs EXCEPT ![j] = rec]
      PROVE  SInv' /\ HandlesKept
  <2>1. Sound(nt_free(h, p)) /\ nt_free(h, p).gone = h.gone
    BY <1>3, <1>5, FreeHeld
  <2>2. memory' \in Memories(nt_free(h, p)) /\ JobsOK(nt_free(h, p), jobs)
        /\ rec \in JobRecords(nt_free(h, p))
    BY <1>4, <2>1, HeldGrows DEF JobRecords, Given
  <2>3. JobsOK(nt_free(h, p), jobs')
    BY <1>5, <2>2 DEF JobsOK
  <2> QED BY <1>1, <1>5, <2>1, <2>2, <2>3, LeaveOther
<1>6. /\ jobs[j].content \in Given(h) /\ [jobs[j] EXCEPT !.content = h.ptr] \in JobRecords(h)
      /\ jobs[j].calls \in Given(h) /\ [jobs[j] EXCEPT !.calls = h.ptr] \in JobRecords(h)
  BY <1>3, <1>4 DEF JobRecords
<1>7. /\ [jobs EXCEPT ![j].content = h.ptr] = [jobs EXCEPT ![j] = [jobs[j] EXCEPT !.content = h.ptr]]
      /\ [jobs EXCEPT ![j].calls = h.ptr] = [jobs EXCEPT ![j] = [jobs[j] EXCEPT !.calls = h.ptr]]
  OBVIOUS
<1> QED BY <1>2, <1>5, <1>6, <1>7

LEMMA ExitJobKeeps ==
    ASSUME SInv, ExitJob
    PROVE  SInv' /\ HandlesKept
<1>1. ended = "no" /\ UNCHANGED <<streams, memory>>
  BY DEF ExitJob, Between
<1>2. PICK j \in JobSlots :
        LET h1 == DestroyStack(heap, jobs[j].content, jobs[j].Stack)
            h2 == DestroyStack(h1, jobs[j].calls, jobs[j].CallStack)
        IN /\ jobs[j] # NoJob
           /\ Leave(nt_free(h2, jobs[j].job))
           /\ jobs' = [jobs EXCEPT ![j] = NoJob]
  BY DEF ExitJob
<1> DEFINE a == nt_free(heap, jobs[j].content)
           b == nt_free(a, jobs[j].Stack)
           c == nt_free(b, jobs[j].calls)
           d == nt_free(c, jobs[j].CallStack)
           e == nt_free(d, jobs[j].job)
<1>3. Leave(e) /\ jobs[j] # NoJob /\ jobs' = [jobs EXCEPT ![j] = NoJob]
  BY <1>2 DEF DestroyStack
<1>4. jobs[j] \in JobRecords(heap) /\ Sound(heap)
  BY <1>3 DEF SInv, HeapInv, JobsOK
<1>5. /\ jobs[j].content \in Given(heap) /\ jobs[j].Stack \in Given(heap)
      /\ jobs[j].calls \in Given(heap) /\ jobs[j].CallStack \in Given(heap)
      /\ jobs[j].job \in Given(heap)
  BY <1>4 DEF JobRecords
<1>6. Sound(a) /\ a.gone = heap.gone
  BY <1>4, <1>5, FreeHeld
<1>7. Sound(b) /\ b.gone = heap.gone
  <2> HIDE DEF a
  <2> QED BY <1>5, <1>6, FreeHeld DEF Given
<1>8. Sound(c) /\ c.gone = heap.gone
  <2> HIDE DEF a, b
  <2> QED BY <1>5, <1>7, FreeHeld DEF Given
<1>9. Sound(d) /\ d.gone = heap.gone
  <2> HIDE DEF a, b, c
  <2> QED BY <1>5, <1>8, FreeHeld DEF Given
<1>10. Sound(e) /\ e.gone = heap.gone
  <2> HIDE DEF a, b, c, d
  <2> QED BY <1>5, <1>9, FreeHeld DEF Given
<1> HIDE DEF a, b, c, d, e
<1>11. memory' \in Memories(e) /\ JobsOK(e, jobs)
  BY <1>1, <1>10, HeldGrows DEF SInv, HeapInv
<1>12. JobsOK(e, jobs')
  BY <1>3, <1>11 DEF JobsOK
<1> QED BY <1>1, <1>3, <1>10, <1>11, <1>12, LeaveOther

LEMMA StillKeeps ==
    ASSUME SInv, \/ CallDynamic \/ LibExec \/ Event \/ ThreadStep \/ GetC \/ UNCHANGED vars
    PROVE  SInv' /\ HandlesKept
<1>1. UNCHANGED <<heap, streams, memory, jobs>>
  BY DEF CallDynamic, LibExec, Event, ThreadStep, GetC, KeyboardUnchanged, machine, vars
<1>2. UNCHANGED ended \/ (ended = "no" /\ ended' \in {"crash", "no", "exit"})
  BY DEF CallDynamic, LibExec, Event, ThreadStep, GetC, KeyboardUnchanged, machine, vars,
         Serves, Between
<1>3. HeapInv' /\ FaultOK'
  BY <1>1, <1>2 DEF SInv, HeapInv, JobsOK, FaultOK
<1> QED BY <1>1, <1>3 DEF SInv, StreamsOK, OpenSlots, HandlesKept

LEMMA StepKeeps == SInv /\ [Next]_vars => SInv' /\ HandlesKept
  BY OpenStreamKeeps, CloseStreamKeeps, AllocKeeps, LoadDynamicKeeps, LoadLibKeeps,
     DispatchKeeps, GrowKeeps, ExitJobKeeps, StillKeeps DEF Next

-----------------------------------------------------------------------------
LEMMA FirstHeap ==
    ASSUME NEW beyond \in {Null, Junk}
    PROVE  Sound(nt_malloc_init(beyond))
<1> DEFINE h == nt_malloc_init(beyond)
<1>1. HeapStep \in Nat /\ HeapStep > 1 /\ HeapStep - 1 \in Nat
  BY HeapAssumption
<1>2. /\ h.slot = [i \in 0 .. HeapStep - 1 |-> IF i < HeapStep - 1 THEN Null ELSE beyond]
      /\ h.sz = HeapStep - 1 /\ h.allocs = 0 /\ h.beyond = beyond /\ h.gone = FALSE
      /\ h.ptr = Null
  BY DEF nt_malloc_init
<1>3. h.slot \in [0 .. h.sz -> Cells]
  BY <1>1, <1>2 DEF Cells
<1>4. h \in Heaps
  <2>1. h.slot \in UNION {[0 .. n -> Cells] : n \in Nat}
    BY <1>1, <1>2, <1>3
  <2> QED BY <1>1, <2>1 DEF nt_malloc_init, Heaps
<1>5. Used(h) = {} /\ h.slot[h.sz] = h.beyond
  BY <1>1, <1>2 DEF Used, Entries
<1>6. Exact(h)
  BY <1>2, <1>5, FS_EmptySet DEF Exact
<1> QED BY <1>3, <1>4, <1>6 DEF Sound

LEMMA InitSound == Init => SInv
<1> SUFFICES ASSUME Init PROVE SInv
  OBVIOUS
<1>1. PICK beyond \in {Null, Junk} :
        LET h1 == nt_malloc(nt_malloc_init(beyond))
            h2 == nt_malloc(h1)
            h3 == nt_malloc(h2)
            h4 == nt_malloc(h3)
            h5 == nt_malloc(h4)
        IN /\ heap = h5
           /\ streams = [table |-> h2.ptr, total |-> StreamStep, used |-> 0,
                         slot |-> [i \in 0 .. StreamStep - 1 |-> Null]]
           /\ memory = [block |-> h3.ptr, actual |-> 1, size |-> 1, root |-> h4.ptr,
                        pages |-> h5.ptr, areas |-> {}]
           /\ ended = IF h5.gone THEN "exit" ELSE "no"
           /\ jobs = [j \in JobSlots |-> NoJob]
  BY DEF Init
<1> DEFINE h1 == nt_malloc(nt_malloc_init(beyond))
           h2 == nt_malloc(h1)
           h3 == nt_malloc(h2)
           h4 == nt_malloc(h3)
           h5 == nt_malloc(h4)
<1>2. Sound(h1)
  BY FirstHeap, MallocHeld
<1>3. Sound(h2)
  <2> HIDE DEF h1
  <2> QED BY <1>2, MallocHeld
<1>4. Sound(h3)
  <2> HIDE DEF h1, h2
  <2> QED BY <1>3, MallocHeld
<1>5. Sound(h4) /\ h4.ptr \in Given(h4)
  <2> HIDE DEF h1, h2, h3
  <2> QED BY <1>4, MallocHeld
<1>6. Sound(h5) /\ h5.ptr \in Given(h5) /\ (~h5.gone => ~h4.gone)
  <2> HIDE DEF h1, h2, h3, h4
  <2> QED BY <1>5, MallocHeld
<1>7. h2.ptr \in Blocks \cup {Null} /\ h3.ptr \in Blocks \cup {Null}
  <2> HIDE DEF h2, h3
  <2> QED BY <1>3, <1>4 DEF Sound, Heaps
<1>8. /\ heap = h5 /\ (ended = IF h5.gone THEN "exit" ELSE "no")
      /\ jobs = [j \in JobSlots |-> NoJob]
      /\ memory = [block |-> h3.ptr, actual |-> 1, size |-> 1, root |-> h4.ptr,
                   pages |-> h5.ptr, areas |-> {}]
      /\ streams = [table |-> h2.ptr, total |-> StreamStep, used |-> 0,
                    slot |-> [i \in 0 .. StreamStep - 1 |-> Null]]
  BY <1>1
<1> HIDE DEF h1, h2, h3, h4, h5
<1>9. memory \in Memories(heap)
  <2>1. h4.ptr \in Given(h5)
    BY <1>5, <1>6, HeldGrows
  <2> QED BY <2>1, <1>6, <1>7, <1>8 DEF Memories
<1>10. HeapInv
  BY <1>6, <1>7, <1>8, <1>9 DEF HeapInv, JobsOK
<1>11. StreamsOK(streams)
  <2>1. streams.slot \in [0 .. streams.total - 1 -> Handles] /\ streams.total \in Nat
    BY <1>8, ServicesAssumption DEF Handles
  <2>2. streams \in StreamTables
    <3>1. [i \in 0 .. StreamStep - 1 |-> Null] \in UNION {[0 .. n - 1 -> Handles] : n \in Nat}
      BY ServicesAssumption DEF Handles
    <3> QED BY <1>7, <1>8, <3>1, ServicesAssumption DEF StreamTables
  <2>3. OpenSlots(streams) = {}
    BY <1>8, ServicesAssumption DEF OpenSlots
  <2> QED BY <1>8, <2>1, <2>2, <2>3, FS_EmptySet DEF StreamsOK
<1> QED BY <1>8, <1>10, <1>11 DEF SInv, FaultOK

\* The registry of nt_malloc.c is exact in every program that uses the
\* services, whatever it opens, loads, starts and ends: with every block once
\* and the count equal to the blocks, the registry grows in time.
THEOREM ServicesRegistry == Spec => []RegistryExact
<1>1. SInv => RegistryExact
  BY DEF SInv, HeapInv, Sound, RegistryExact
<1> QED BY <1>1, InitSound, StepKeeps, PTL DEF Spec

\* used_streams counts the open streams, and stream_open finds a slot unless a
\* growth has left junk in the table: stream.c.
THEOREM ServicesStreams == Spec => []StreamsCounted
<1>1. SInv => StreamsCounted
  BY DEF SInv, StreamsOK, OpenSlots, FaultOK, StreamsCounted
<1> QED BY <1>1, InitSound, StepKeeps, PTL DEF Spec

\* A handle stays with its file until it is closed, growth of the table
\* included: stream.c.
THEOREM ServicesHandles == Spec => StreamHandlesKept
<1>1. SInv /\ [Next]_vars => [HandlesKept]_vars
  BY StepKeeps
<1> QED BY <1>1, InitSound, StepKeeps, PTL DEF Spec, StreamHandlesKept

-----------------------------------------------------------------------------
(* Images: the memory only grows at its end, and a slot of the libraries,   *)
(* once filled, stays as it is.                                             *)

Images == [name : Libraries, loadaddr : Nat \ {0}, pages : Nat \ {0}, block : Blocks \cup {Null}]

LibsOK ==
    /\ libs \in [table : Blocks \cup {Null}, total : Nat, used : {0},
                 slot : UNION {[0 .. n - 1 -> Images \cup {Null}] : n \in Nat}]
    /\ libs.slot \in [0 .. libs.total - 1 -> Images \cup {Null}]

AreasOK ==
    /\ memory.size \in Nat \ {0}
    /\ memory.areas \subseteq (Nat \ {0}) \X (Nat \ {0})

CallsOK == call \in [raised : 0 .. 2, from : {"here", "handler"}, r20 : Nat,
                     offset : Int, target : Nat]

ImageInv == SInv /\ LibsOK /\ AreasOK /\ CallsOK /\ ImagesApart

LEMMA ResizedSize ==
    ASSUME NEW h, Sound(h), NEW m \in Memories(h), NEW n \in Int
    PROVE  Resized(h, m, n)[2].size = m.size /\ Resized(h, m, n)[2].areas = m.areas
<1> DEFINE h1 == nt_realloc(h, m.block)
           k == [m EXCEPT !.block = h1.ptr, !.actual = n]
           g1 == nt_malloc(h1)
           g2 == nt_malloc(g1)
           r == [k EXCEPT !.root = g1.ptr, !.pages = g2.ptr]
<1>1. Resized(h, m, n)[2] = r
  BY DEF Resized, RebuildMemoryBlock
<1> HIDE DEF h1, g1, g2
<1> QED BY <1>1 DEF Memories

LEMMA ResizedActual ==
    ASSUME NEW h, Sound(h), NEW m \in Memories(h), NEW n \in Int
    PROVE  Resized(h, m, n)[2].actual = n
<1> DEFINE h1 == nt_realloc(h, m.block)
           k == [m EXCEPT !.block = h1.ptr, !.actual = n]
           g1 == nt_malloc(h1)
           g2 == nt_malloc(g1)
           r == [k EXCEPT !.root = g1.ptr, !.pages = g2.ptr]
<1>1. Resized(h, m, n)[2] = r
  BY DEF Resized, RebuildMemoryBlock
<1> HIDE DEF h1, g1, g2
<1> QED BY <1>1 DEF Memories

\* The memory grows by n pages at its end
LEMMA AreaAdded ==
    ASSUME SInv, AreasOK, ImagesApart, NEW n \in Nat \ {0},
           memory'.size = memory.size + n,
           memory'.areas = memory.areas \cup {<<memory.size, n>>}
    PROVE  /\ AreasOK'
           /\ \A a \in memory'.areas : a[1] + a[2] <= memory'.size
           /\ \A a, b \in memory'.areas : a = b \/ Apart(a, b)
<1>1. \A a \in memory.areas : a[1] \in Nat /\ a[2] \in Nat /\ a[1] + a[2] <= memory.size
  BY DEF AreasOK, ImagesApart
<1>2. AreasOK'
  BY DEF AreasOK
<1>3. \A a \in memory'.areas : a[1] + a[2] <= memory'.size
  BY <1>1 DEF AreasOK
<1>4. \A a \in memory.areas : Apart(a, <<memory.size, n>>) /\ Apart(<<memory.size, n>>, a)
  BY <1>1 DEF AreasOK, Apart
<1>5. \A a, b \in memory.areas : a = b \/ Apart(a, b)
  BY DEF ImagesApart
<1>6. \A a, b \in memory'.areas : a = b \/ Apart(a, b)
  BY <1>4, <1>5
<1> QED BY <1>2, <1>3, <1>6

LEMMA ImagesStay ==
    ASSUME ImageInv, SInv', UNCHANGED <<libs, call>>, memory'.size = memory.size,
           memory'.areas = memory.areas
    PROVE  ImageInv'
  BY DEF ImageInv, LibsOK, AreasOK, CallsOK, ImagesApart

LEMMA ImagesAlloc ==
    ASSUME ImageInv, SInv', Alloc
    PROVE  ImageInv'
<1>1. PICK n \in 1 .. MaxPages - memory.size :
          LET m == [memory EXCEPT !.size = @ + n, !.areas = @ \cup {<<memory.size, n>>}]
              r == Resized(heap, m, m.size)
          IN Leave(r[1]) /\ memory' = r[2]
  BY DEF Alloc
<1> DEFINE size == memory.size + n
           areas == memory.areas \cup {<<memory.size, n>>}
           m == [memory EXCEPT !.size = size, !.areas = areas]
<1>2. memory' = Resized(heap, m, m.size)[2] /\ n \in Nat \ {0}
  BY <1>1 DEF ImageInv, SInv, HeapInv, Memories
<1>3. size \in Int /\ areas \in SUBSET (Int \X Int) /\ Sound(heap)
  BY DEF ImageInv, SInv, HeapInv, Memories
<1>4. m \in Memories(heap) /\ m.size = size /\ m.areas = areas
  <2> HIDE DEF size, areas
  <2> QED BY <1>3 DEF ImageInv, SInv, HeapInv, Memories
<1>5. memory'.size = size /\ memory'.areas = areas
  <2> HIDE DEF m, size, areas
  <2> QED BY <1>2, <1>3, <1>4, ResizedSize
<1>6. /\ AreasOK' /\ \A a \in memory'.areas : a[1] + a[2] <= memory'.size
      /\ \A a, b \in memory'.areas : a = b \/ Apart(a, b)
  BY <1>2, <1>5, AreaAdded DEF ImageInv
<1>7. UNCHANGED <<libs, call>>
  BY DEF Alloc
<1> HIDE DEF size, areas, m
<1> QED BY <1>6, <1>7 DEF ImageInv, LibsOK, CallsOK, ImagesApart

LEMMA ImagesLoad ==
    ASSUME ImageInv, SInv', LoadDynamic
    PROVE  ImageInv'
<1>1. UNCHANGED call
  BY DEF LoadDynamic
<1>2. CASE UNCHANGED <<memory, libs>>
  BY <1>1, <1>2, ImagesStay
<1>3. ASSUME NEW name \in Libraries, NEW n \in 1 .. MaxPages - memory.size,
             Loaded(name) = {},
             LET temp == nt_malloc(heap)
                 r == Resized(temp, memory, memory.size + n)
             IN Placed(nt_free(r[1], temp.ptr), r[2], name, n)
      PROVE  ImageInv'
  <2> DEFINE temp == nt_malloc(heap)
             r == Resized(temp, memory, memory.size + n)
             h == nt_free(r[1], temp.ptr)
             h1 == nt_malloc(h)
             m == r[2]
  <2>1. Sound(temp) /\ memory \in Memories(temp) /\ temp.ptr \in Given(temp)
    <3>1. Sound(temp) /\ temp.ptr \in Given(temp) /\ (~temp.gone => ~heap.gone)
      BY MallocHeld DEF ImageInv, SInv, HeapInv
    <3> HIDE DEF temp
    <3> QED BY <3>1, HeldGrows DEF ImageInv, SInv, HeapInv
  <2>2. memory.size + n \in Int /\ n \in Nat \ {0} /\ memory.size \in Nat \ {0}
    BY DEF ImageInv, AreasOK
  <2>3. /\ Sound(r[1]) /\ m \in Memories(r[1]) /\ (~r[1].gone => ~temp.gone)
        /\ m.size = memory.size /\ m.areas = memory.areas
    <3> HIDE DEF temp
    <3> QED BY <2>1, <2>2, ResizedIsSound, ResizedSize
  <2>4. Sound(h)
    <3> HIDE DEF temp, r
    <3>1. temp.ptr \in Given(r[1])
      BY <2>1, <2>3, HeldGrows
    <3> QED BY <2>3, <3>1, FreeHeld
  <2>5. h1.ptr \in Blocks \cup {Null}
    <3>1. Sound(h1)
      <4> HIDE DEF h
      <4> QED BY <2>4, MallocHeld
    <3> HIDE DEF h1
    <3> QED BY <3>1 DEF Sound, Heaps
  <2> DEFINE k == FirstIn(LibrarySlots)
             image == [name |-> name, loadaddr |-> m.size, pages |-> n, block |-> h1.ptr]
             slot == [libs.slot EXCEPT ![k] = image]
  <2>6. Placed(h, m, name, n)
    BY <1>3
  <2>7. \/ memory' = m /\ UNCHANGED libs
        \/ /\ LibrarySlots # {}
           /\ memory' = [m EXCEPT !.size = @ + n, !.areas = @ \cup {<<m.size, n>>}]
           /\ libs' = [libs EXCEPT !.slot[k] = image]
    <3> HIDE DEF h, m
    <3> QED BY <2>6 DEF Placed
  <2>8. CASE memory' = m /\ UNCHANGED libs
    BY <1>1, <2>3, <2>8, ImagesStay
  <2>9. CASE /\ LibrarySlots # {}
             /\ memory' = [m EXCEPT !.size = @ + n, !.areas = @ \cup {<<m.size, n>>}]
             /\ libs' = [libs EXCEPT !.slot[k] = image]
    <3>1. image \in Images
      <4> HIDE DEF h1, m
      <4> QED BY <2>2, <2>3, <2>5 DEF Images
    <3>2. memory'.size = memory.size + n
          /\ memory'.areas = memory.areas \cup {<<memory.size, n>>}
      <4> HIDE DEF m, r
      <4> QED BY <2>3, <2>9 DEF Memories
    <3>3. /\ AreasOK' /\ \A a \in memory'.areas : a[1] + a[2] <= memory'.size
          /\ \A a, b \in memory'.areas : a = b \/ Apart(a, b)
      BY <2>2, <3>2, AreaAdded DEF ImageInv
    <3>4. libs.total \in Nat /\ libs.slot \in [0 .. libs.total - 1 -> Images \cup {Null}]
      BY DEF ImageInv, LibsOK
    <3>5. k \in LibrarySlots
      <4>1. LibrarySlots \in SUBSET Nat
        BY <3>4 DEF LibrarySlots
      <4> QED BY <2>9, <4>1, LeastNumber
    <3>6. slot \in [0 .. libs.total - 1 -> Images \cup {Null}] /\ slot[k] = image
          /\ k \in 0 .. libs.total - 1 /\ libs.slot[k] = Null
      <4> HIDE DEF k, image
      <4> QED BY <3>1, <3>4, <3>5 DEF LibrarySlots
    <3>7. \A i \in 0 .. libs.total - 1 : i # k => slot[i] = libs.slot[i]
      <4> HIDE DEF k, image
      <4> QED BY <3>4
    <3>8. libs' = [libs EXCEPT !.slot = slot]
      <4> HIDE DEF k, image
      <4> QED BY <2>9
    <3>9. libs'.slot = slot /\ libs'.total = libs.total /\ LibsOK'
      <4>1. slot \in UNION {[0 .. j - 1 -> Images \cup {Null}] : j \in Nat}
        BY <3>4, <3>6
      <4> HIDE DEF slot
      <4> QED BY <3>6, <3>8, <4>1 DEF ImageInv, LibsOK
    <3>10. \A i \in 0 .. libs.total - 1 : libs.slot[i] # Null => libs.slot[i].name # name
      BY <1>3, <3>4 DEF Loaded
    <3>11. image.name = name
      OBVIOUS
    <3>12. \A i, j \in DOMAIN libs'.slot :
              libs'.slot[i] # Null /\ libs'.slot[j] # Null
                /\ libs'.slot[i].name = libs'.slot[j].name => i = j
      <4>1. \A i, j \in DOMAIN libs.slot :
              libs.slot[i] # Null /\ libs.slot[j] # Null
                /\ libs.slot[i].name = libs.slot[j].name => i = j
        BY DEF ImageInv, ImagesApart
      <4> HIDE DEF slot, image, k
      <4> QED BY <3>4, <3>6, <3>7, <3>9, <3>10, <3>11, <4>1
    <3>13. call'.target # 0 =>
              \E i \in DOMAIN libs'.slot :
                 /\ libs'.slot[i] # Null /\ libs'.slot[i].loadaddr = call'.r20
                 /\ call'.target = (call'.r20 + call'.offset) % PageSpace
      <4> HIDE DEF slot, image, k
      <4> QED BY <1>1, <3>4, <3>6, <3>7, <3>9 DEF ImageInv, ImagesApart
    <3> HIDE DEF slot, image, k
    <3> QED BY <1>1, <3>3, <3>9, <3>12, <3>13 DEF ImageInv, CallsOK, ImagesApart
  <2> HIDE DEF m, k, image, slot
  <2> QED BY <2>7, <2>8, <2>9
<1> QED BY <1>2, <1>3 DEF LoadDynamic

LEMMA ImagesCall ==
    ASSUME ImageInv, SInv', CallDynamic
    PROVE  ImageInv'
<1>1. PICK handle \in DOMAIN libs.slot \cup {-1}, offset \in Offsets \cup {Unknown}, rw \in BOOLEAN :
          LET first == IF rw THEN 0 ELSE 1
              d_addr == return_dynamic_load_addr(handle)
              target == dynamic_call(handle, offset)
          IN call' = [raised |-> first + IF target = 0 THEN 1 ELSE 0,
                      from |-> IF rw THEN "here" ELSE "handler",
                      r20 |-> IF d_addr = 0 THEN call.r20 ELSE d_addr,
                      offset |-> offset, target |-> target]
  BY DEF CallDynamic
<1>2. UNCHANGED <<libs, memory>>
  BY DEF CallDynamic
<1> DEFINE d == return_dynamic_load_addr(handle)
           t == dynamic_call(handle, offset)
<1>3. libs.slot \in [0 .. libs.total - 1 -> Images \cup {Null}]
  BY DEF ImageInv, LibsOK
<1>4. d \in Nat /\ (d # 0 => handle \in DOMAIN libs.slot /\ libs.slot[handle] \in Images
                             /\ libs.slot[handle] # Null /\ libs.slot[handle].loadaddr = d)
  BY <1>3 DEF return_dynamic_load_addr, Images
<1>5. t \in Nat /\ (t # 0 => d # 0 /\ t = (d + offset) % PageSpace)
  <2> HIDE DEF d
  <2>1. t = IF d = 0 \/ offset = Unknown THEN 0 ELSE (d + offset) % PageSpace
    BY DEF dynamic_call, d
  <2>2. offset # Unknown => (d + offset) % PageSpace \in Nat
    <3>1. offset # Unknown => d + offset \in Nat
      BY <1>4, OffsetsAssumption
    <3> DEFINE e == d + offset
    <3> HIDE DEF e
    <3> QED BY <3>1, OffsetsAssumption DEF e
  <2> QED BY <2>1, <2>2
<1>6. call'.target = t /\ (call'.r20 = IF d = 0 THEN call.r20 ELSE d)
      /\ call'.offset = offset
      /\ call'.raised \in 0 .. 2 /\ call'.from \in {"here", "handler"}
  <2> HIDE DEF d, t
  <2> QED BY <1>1 DEF d, t
<1> HIDE DEF d, t
<1>7. CallsOK'
  <2>1. /\ call'.r20 \in Nat /\ call'.target \in Nat
        /\ call'.offset \in Int
    BY <1>4, <1>5, <1>6, OffsetsAssumption DEF ImageInv, CallsOK, Unknown
  <2>2. call' = [raised |-> call'.raised, from |-> call'.from, r20 |-> call'.r20,
                 offset |-> call'.offset, target |-> call'.target]
    BY <1>1
  <2> QED BY <1>6, <2>1, <2>2 DEF CallsOK
<1>8. call'.target # 0 =>
          /\ libs.slot[handle] # Null /\ libs.slot[handle].loadaddr = call'.r20
          /\ call'.target = (call'.r20 + call'.offset) % PageSpace
          /\ handle \in DOMAIN libs.slot
  BY <1>4, <1>5, <1>6 DEF Images
<1> QED BY <1>2, <1>7, <1>8 DEF ImageInv, LibsOK, AreasOK, ImagesApart

LEMMA ImagesKept == ImageInv /\ [Next]_vars => ImageInv'
<1> SUFFICES ASSUME ImageInv, [Next]_vars PROVE ImageInv'
  OBVIOUS
<1>1. SInv'
  BY StepKeeps DEF ImageInv
<1>2. CASE Alloc
  BY <1>1, <1>2, ImagesAlloc
<1>3. CASE LoadDynamic
  BY <1>1, <1>3, ImagesLoad
<1>4. CASE CallDynamic
  BY <1>1, <1>4, ImagesCall
<1>5. CASE ~(Alloc \/ LoadDynamic \/ CallDynamic)
  <2>1. UNCHANGED <<libs, call, memory>>
    BY <1>5 DEF Next, vars, machine, OpenStream, CloseStream, LoadLib, LibExec, Dispatch,
                Grow, ExitJob, Event, ThreadStep, GetC, KeyboardUnchanged
  <2> QED BY <1>1, <2>1, ImagesStay
<1> QED BY <1>2, <1>3, <1>4, <1>5

LEMMA InitImages == Init => ImageInv
<1> SUFFICES ASSUME Init PROVE ImageInv
  OBVIOUS
<1>1. /\ memory.size = 1 /\ memory.areas = {} /\ call = NoCall
      /\ libs.slot = [i \in 0 .. LibSlots - 1 |-> Null] /\ libs.total = LibSlots
  BY DEF Init
<1>2. LibsOK
  <2>1. PICK beyond \in {Null, Junk} :
            libs = [table |-> nt_malloc(nt_malloc_init(beyond)).ptr, total |-> LibSlots,
                    used |-> 0, slot |-> [i \in 0 .. LibSlots - 1 |-> Null]]
    BY DEF Init
  <2> DEFINE h == nt_malloc(nt_malloc_init(beyond))
  <2>2. Sound(h)
    BY FirstHeap, MallocHeld
  <2>3. libs = [table |-> h.ptr, total |-> LibSlots, used |-> 0,
                slot |-> [i \in 0 .. LibSlots - 1 |-> Null]]
    BY <2>1
  <2> HIDE DEF h
  <2>4. h.ptr \in Blocks \cup {Null}
    BY <2>2 DEF Sound, Heaps
  <2>5. [i \in 0 .. LibSlots - 1 |-> Null] \in
            UNION {[0 .. n - 1 -> Images \cup {Null}] : n \in Nat}
    BY ServicesAssumption
  <2> QED BY <1>1, <2>3, <2>4, <2>5, ServicesAssumption DEF LibsOK
<1>3. AreasOK /\ CallsOK
  BY <1>1 DEF AreasOK, CallsOK, NoCall
<1>4. ImagesApart
  BY <1>1 DEF ImagesApart, NoCall
<1> QED BY <1>2, <1>3, <1>4, InitSound DEF ImageInv

\* Libraries and allocated memory never overlap, a name has one handle, and a
\* call through CALLDYNAMIC goes to its function's place behind the address of a
\* library, which is in R20: dynamic.c and cpu.c.
THEOREM ServicesImages == Spec => []ImagesApart
<1>1. ImageInv => ImagesApart
  BY DEF ImageInv
<1> QED BY <1>1, InitImages, ImagesKept, PTL DEF Spec

-----------------------------------------------------------------------------
(* The keyboard: where the thread and GETC are says what is in keycode.     *)

Threads == {"wait", "check", "store", "release", "after", "zero"}

KeysOK ==
    keys \in [is_read : BOOLEAN, keycode : Nat, thread : Threads, event : Nat,
              getc : {"idle", "take", "read"}, pressed : Nat, accepted : Seq(Nat),
              got : Seq(Nat), raced : BOOLEAN]

\* The thread takes a key only while is_read is set, and GETC one only while it is
\* not; a key that waits is in keycode
Turns ==
    /\ keys.thread \in {"store", "release", "zero"} => keys.is_read
    /\ keys.getc = "take" => ~keys.is_read
    /\ keys.thread \in {"check", "store", "release"} => keys.event # 0
    /\ keys.thread = "release" => keys.keycode = keys.event
    /\ ~keys.raced => /\ ~keys.is_read \/ keys.getc = "read" => keys.keycode # 0
                      /\ ~(keys.getc = "read" /\ keys.thread = "release")
                      /\ keys.getc = "read" => keys.is_read

\* What GETC has pushed is not newer than what is in keycode
Older ==
    /\ keys.event <= keys.pressed /\ keys.keycode <= keys.event
    /\ \A i \in DOMAIN keys.got :
          keys.got[i] <= keys.event /\ (keys.keycode # 0 => keys.got[i] <= keys.keycode)

KeysInv == KeysOK /\ Turns /\ Older /\ KeysOnce

\* Both hold before the first key
LEMMA InitKeys == Init => KeysInv
<1> SUFFICES ASSUME Init PROVE KeysInv
  OBVIOUS
<1>1. keys = [is_read |-> TRUE, keycode |-> 0, thread |-> "wait", event |-> 0,
              getc |-> "idle", pressed |-> 0, accepted |-> <<>>, got |-> <<>>,
              raced |-> FALSE]
  BY DEF Init
<1>2. KeysOK
  BY <1>1 DEF KeysOK, Threads
<1>3. Turns /\ Older
  BY <1>1 DEF Turns, Older
<1>4. KeysOnce
  BY <1>1 DEF KeysOnce
<1> QED BY <1>2, <1>3, <1>4 DEF KeysInv

\* What is left alone when a key is not taken by GETC and not written by the thread
LEMMA KeysStay ==
    ASSUME KeysInv, KeysOK', Turns',
           keys'.event <= keys'.pressed, keys.event <= keys'.event,
           keys'.keycode \in {keys.keycode, 0},
           UNCHANGED <<keys.accepted, keys.got, keys.raced>>,
           ~keys'.raced => keys'.keycode = keys.keycode \/ (keys'.is_read /\ keys'.getc # "read"),
           (~keys'.is_read \/ keys'.getc = "read") <=> (~keys.is_read \/ keys.getc = "read")
    PROVE  KeysInv'
<1>1. Older'
  <2>1. keys'.event \in Nat /\ keys.event \in Nat /\ keys.keycode \in Nat
    BY DEF KeysInv, KeysOK
  <2>2. keys'.keycode <= keys'.event
    BY <2>1 DEF KeysInv, Older
  <2>3. \A i \in DOMAIN keys.got : keys.got[i] \in Nat
    BY DEF KeysInv, KeysOK
  <2>4. \A i \in DOMAIN keys.got :
            keys.got[i] <= keys'.event /\ (keys'.keycode # 0 => keys.got[i] <= keys'.keycode)
    BY <2>1, <2>3 DEF KeysInv, Older
  <2> QED BY <2>2, <2>4 DEF Older
<1>2. KeysOnce'
  BY DEF KeysInv, KeysOnce
<1> QED BY <1>1, <1>2 DEF KeysInv

\* The keyboard keeps its promise
LEMMA KeysKept == KeysInv /\ [Next]_vars => KeysInv'
<1> SUFFICES ASSUME KeysInv, [Next]_vars PROVE KeysInv'
  OBVIOUS
<1>0. /\ KeysOK /\ Turns /\ Older /\ KeysOnce
      /\ keys.is_read \in BOOLEAN /\ keys.keycode \in Nat /\ keys.thread \in Threads
      /\ keys.event \in Nat /\ keys.getc \in {"idle", "take", "read"} /\ keys.pressed \in Nat
      /\ keys.accepted \in Seq(Nat) /\ keys.got \in Seq(Nat) /\ keys.raced \in BOOLEAN
  BY DEF KeysInv, KeysOK
<1>1. CASE UNCHANGED keys
  BY <1>1 DEF KeysInv, KeysOK, Turns, Older, KeysOnce
<1>2. CASE Event
  <2>1. \/ keys' = [keys EXCEPT !.pressed = @ + 1, !.event = keys.pressed + 1,
                                !.thread = "check"]
        \/ keys' = [keys EXCEPT !.thread = "after"]
    BY <1>2 DEF Event
  <2>2. /\ KeysOK' /\ keys'.event <= keys'.pressed /\ keys.event <= keys'.event
        /\ keys'.thread \in {"check", "after"} /\ (keys'.thread = "check" => keys'.event # 0)
        /\ UNCHANGED <<keys.keycode, keys.is_read, keys.getc, keys.accepted, keys.got,
                       keys.raced>>
    <3>1. CASE keys' = [keys EXCEPT !.pressed = @ + 1, !.event = keys.pressed + 1,
                                    !.thread = "check"]
      <4> DEFINE n == keys.pressed + 1
      <4>1. n \in Nat /\ n # 0 /\ keys.event <= n
        BY <1>0 DEF Older
      <4>2. keys' = [keys EXCEPT !.pressed = n, !.event = n, !.thread = "check"]
        BY <3>1 DEF KeysInv, KeysOK
      <4> HIDE DEF n
      <4>3. KeysOK'
        BY <1>0, <4>1, <4>2 DEF KeysOK, Threads
      <4>4. /\ keys'.pressed = n /\ keys'.event = n /\ keys'.thread = "check"
            /\ UNCHANGED <<keys.keycode, keys.is_read, keys.getc, keys.accepted, keys.got,
                           keys.raced>>
        BY <1>0, <4>2 DEF KeysOK
      <4> QED BY <4>1, <4>3, <4>4
    <3>2. CASE keys' = [keys EXCEPT !.thread = "after"]
      BY <1>0, <3>2 DEF KeysOK, Threads, Older
    <3> QED BY <2>1, <3>1, <3>2
  <2>3. Turns'
    BY <1>0, <2>2 DEF Turns
  <2> QED BY <2>2, <2>3, KeysStay
<1>3. CASE ThreadStep
  <2>1. CASE keys.thread = "check"
    <3>1. keys' = [keys EXCEPT !.thread = IF Accepts(keys) THEN "store" ELSE "after"]
      BY <1>3, <2>1 DEF ThreadStep
    <3>2. /\ KeysOK' /\ keys'.thread = (IF keys.is_read THEN "store" ELSE "after")
          /\ UNCHANGED <<keys.event, keys.pressed, keys.keycode, keys.is_read, keys.getc,
                         keys.accepted, keys.got, keys.raced>>
      BY <1>0, <3>1 DEF KeysOK, Threads, Accepts
    <3>3. Turns'
      BY <1>0, <2>1, <3>2 DEF Turns
    <3> QED BY <1>0, <3>2, <3>3, KeysStay DEF Older
  <2>2. CASE keys.thread = "store"
    <3>1. keys' = [keys EXCEPT !.keycode = keys.event, !.thread = "release",
                               !.raced = @ \/ keys.getc = "read"]
      BY <1>3, <2>2 DEF ThreadStep
    <3>2. /\ KeysOK' /\ keys'.thread = "release" /\ keys'.keycode = keys.event
          /\ keys'.raced = (keys.raced \/ keys.getc = "read")
          /\ UNCHANGED <<keys.event, keys.pressed, keys.is_read, keys.getc,
                         keys.accepted, keys.got>>
      BY <1>0, <3>1 DEF KeysOK, Threads
    <3>3. Turns'
      BY <1>0, <2>2, <3>2 DEF Turns
    <3>4. Older'
      BY <1>0, <3>2 DEF Older
    <3>5. KeysOnce'
      <4>1. keys.is_read
        BY <1>0, <2>2 DEF Turns
      <4> QED BY <1>0, <3>2, <4>1 DEF KeysOnce
    <3> QED BY <3>2, <3>3, <3>4, <3>5 DEF KeysInv
  <2>3. CASE keys.thread = "release"
    <3>1. keys' = [keys EXCEPT !.is_read = FALSE, !.thread = "after",
                               !.accepted = Append(@, keys.keycode)]
      BY <1>3, <2>3 DEF ThreadStep
    <3>2. /\ KeysOK' /\ keys'.thread = "after" /\ keys'.is_read = FALSE
          /\ keys'.accepted = Append(keys.accepted, keys.keycode)
          /\ UNCHANGED <<keys.event, keys.pressed, keys.keycode, keys.getc, keys.got,
                         keys.raced>>
      <4> DEFINE accepted == Append(keys.accepted, keys.keycode)
      <4>1. accepted \in Seq(Nat)
        BY <1>0
      <4>2. keys' = [keys EXCEPT !.is_read = FALSE, !.thread = "after",
                                 !.accepted = accepted]
        BY <3>1 DEF KeysInv, KeysOK
      <4> HIDE DEF accepted
      <4>3. /\ KeysOK' /\ keys'.thread = "after" /\ keys'.is_read = FALSE
            /\ keys'.accepted = accepted
            /\ UNCHANGED <<keys.event, keys.pressed, keys.keycode, keys.getc, keys.got,
                           keys.raced>>
        BY <1>0, <4>1, <4>2 DEF KeysOK, Threads
      <4> QED BY <4>3 DEF accepted
    <3>3. Turns'
      BY <1>0, <2>3, <3>2 DEF Turns
    <3>4. Older'
      BY <1>0, <3>2 DEF Older
    <3>5. KeysOnce'
      <4>1. keys.is_read
        BY <1>0, <2>3 DEF Turns
      <4>2. ~keys.raced => keys.accepted = keys.got
        <5>1. ~keys.raced => keys.getc # "read" /\ keys.accepted = keys.got \o <<>>
          BY <1>0, <2>3, <4>1 DEF Turns, KeysOnce
        <5>2. keys.got \o <<>> = keys.got
          BY <1>0, ConcatEmptySeq
        <5> QED BY <5>1, <5>2
      <4>3. Append(keys.got, keys.keycode) = keys.got \o <<keys.keycode>>
        BY <1>0, AppendIsConcat
      <4> QED BY <1>0, <3>2, <4>2, <4>3 DEF KeysOnce
    <3> QED BY <3>2, <3>3, <3>4, <3>5 DEF KeysInv
  <2>4. CASE keys.thread = "after"
    <3>1. keys' = [keys EXCEPT !.thread = IF keys.is_read THEN "zero" ELSE "wait"]
      BY <1>3, <2>4 DEF ThreadStep
    <3>2. /\ KeysOK' /\ keys'.thread = (IF keys.is_read THEN "zero" ELSE "wait")
          /\ UNCHANGED <<keys.event, keys.pressed, keys.keycode, keys.is_read, keys.getc,
                         keys.accepted, keys.got, keys.raced>>
      BY <1>0, <3>1 DEF KeysOK, Threads
    <3>3. Turns'
      BY <1>0, <3>2 DEF Turns
    <3> QED BY <1>0, <3>2, <3>3, KeysStay DEF Older
  <2>5. CASE keys.thread = "zero"
    <3>1. keys' = [keys EXCEPT !.keycode = 0, !.thread = "wait",
                               !.raced = @ \/ keys.getc = "read"]
      BY <1>3, <2>5 DEF ThreadStep
    <3>2. /\ KeysOK' /\ keys'.thread = "wait" /\ keys'.keycode = 0
          /\ keys'.raced = (keys.raced \/ keys.getc = "read")
          /\ UNCHANGED <<keys.event, keys.pressed, keys.is_read, keys.getc,
                         keys.accepted, keys.got>>
      BY <1>0, <3>1 DEF KeysOK, Threads
    <3>3. keys.is_read
      BY <1>0, <2>5 DEF Turns
    <3>4. Turns'
      BY <1>0, <3>2, <3>3 DEF Turns
    <3>5. Older'
      BY <1>0, <3>2 DEF Older
    <3>6. KeysOnce'
      BY <1>0, <3>2, <3>3 DEF KeysOnce
    <3> QED BY <3>2, <3>4, <3>5, <3>6 DEF KeysInv
  <2>6. keys.thread # "wait"
    BY <1>3 DEF ThreadStep
  <2> QED BY <1>0, <2>1, <2>2, <2>3, <2>4, <2>5, <2>6 DEF Threads
<1>4. CASE GetC
  <2>1. CASE keys.getc = "idle"
    <3>1. keys' = [keys EXCEPT !.getc = IF keys.is_read THEN "idle" ELSE "take"]
      BY <1>4, <2>1 DEF GetC
    <3>2. /\ KeysOK' /\ keys'.getc = (IF keys.is_read THEN "idle" ELSE "take")
          /\ UNCHANGED <<keys.event, keys.pressed, keys.keycode, keys.is_read, keys.thread,
                         keys.accepted, keys.got, keys.raced>>
      BY <1>0, <3>1 DEF KeysOK, Threads
    <3>3. Turns'
      BY <1>0, <2>1, <3>2 DEF Turns
    <3> QED BY <1>0, <2>1, <3>2, <3>3, KeysStay DEF Older
  <2>2. CASE keys.getc = "take"
    <3>1. keys' = [keys EXCEPT !.is_read = TRUE, !.getc = "read"]
      BY <1>4, <2>2 DEF GetC
    <3>2. /\ KeysOK' /\ keys'.getc = "read" /\ keys'.is_read = TRUE
          /\ UNCHANGED <<keys.event, keys.pressed, keys.keycode, keys.thread,
                         keys.accepted, keys.got, keys.raced>>
      BY <1>0, <3>1 DEF KeysOK, Threads
    <3>3. ~keys.is_read
      BY <1>0, <2>2 DEF Turns
    <3>4. Turns'
      BY <1>0, <3>2, <3>3 DEF Turns
    <3> QED BY <1>0, <3>2, <3>3, <3>4, KeysStay DEF Older
  <2>3. CASE keys.getc = "read"
    <3>1. keys' = [keys EXCEPT !.getc = "idle",
                     !.got = IF keys.keycode = 0 THEN @ ELSE Append(@, keys.keycode)]
      BY <1>4, <2>3 DEF GetC
    <3> DEFINE got == IF keys.keycode = 0 THEN keys.got ELSE Append(keys.got, keys.keycode)
    <3>2. got \in Seq(Nat)
      BY <1>0
    <3>3. /\ KeysOK' /\ keys'.getc = "idle" /\ keys'.got = got
          /\ UNCHANGED <<keys.event, keys.pressed, keys.keycode, keys.thread, keys.is_read,
                         keys.accepted, keys.raced>>
      <4>1. keys' = [keys EXCEPT !.getc = "idle", !.got = got]
        BY <3>1 DEF KeysInv, KeysOK
      <4> HIDE DEF got
      <4> QED BY <1>0, <3>2, <4>1 DEF KeysOK
    <3>4. Turns'
      BY <1>0, <2>3, <3>3 DEF Turns
    <3>5. \A i \in DOMAIN got :
              \/ i \in DOMAIN keys.got /\ got[i] = keys.got[i]
              \/ /\ keys.keycode # 0 /\ got[i] = keys.keycode
                 /\ \A j \in DOMAIN keys.got : j < i
      BY <1>0
    <3>6. \A i \in DOMAIN keys.got : keys.got[i] \in Nat /\ i \in Nat
      BY <1>0
    <3>7. \A i \in DOMAIN got : i \in Nat
      BY <3>2
    <3>8. Older'
      <4> HIDE DEF got
      <4> QED BY <1>0, <3>3, <3>5, <3>6 DEF Older
    <3>9. \A i, j \in DOMAIN got : i < j => got[i] <= got[j]
      <4>1. SUFFICES ASSUME NEW i \in DOMAIN got, NEW j \in DOMAIN got, i < j
                     PROVE  got[i] <= got[j]
        OBVIOUS
      <4> HIDE DEF got
      <4>2. CASE i \in DOMAIN keys.got /\ got[i] = keys.got[i]
        <5>1. CASE j \in DOMAIN keys.got /\ got[j] = keys.got[j]
          BY <1>0, <4>1, <4>2, <5>1 DEF KeysOnce
        <5>2. CASE keys.keycode # 0 /\ got[j] = keys.keycode
          BY <1>0, <4>2, <5>2 DEF Older
        <5> QED BY <3>5, <5>1, <5>2
      <4>3. CASE /\ keys.keycode # 0 /\ got[i] = keys.keycode
                 /\ \A k \in DOMAIN keys.got : k < i
        <5>1. CASE j \in DOMAIN keys.got
          BY <3>7, <4>1, <4>3, <5>1
        <5>2. CASE got[j] = keys.keycode
          BY <1>0, <4>3, <5>2
        <5> QED BY <3>5, <5>1, <5>2
      <4> QED BY <3>5, <4>2, <4>3
    <3>10. ~keys'.raced => keys'.accepted = keys'.got \o IF ~keys'.is_read \/ keys'.getc = "read"
                                      THEN <<keys'.keycode>> ELSE <<>>
      <4>1. SUFFICES ASSUME ~keys.raced PROVE keys.accepted = got \o <<>>
        BY <1>0, <2>3, <3>3 DEF Turns
      <4>2. keys.keycode # 0 /\ keys.accepted = keys.got \o <<keys.keycode>>
        BY <1>0, <2>3, <4>1 DEF Turns, KeysOnce
      <4>3. got = Append(keys.got, keys.keycode)
        BY <4>2
      <4>4. Append(keys.got, keys.keycode) = keys.got \o <<keys.keycode>> /\ got \o <<>> = got
        BY <1>0, <3>2, AppendIsConcat, ConcatEmptySeq
      <4> QED BY <4>2, <4>3, <4>4
    <3>11. KeysOnce'
      <4> HIDE DEF got
      <4> QED BY <3>3, <3>9, <3>10 DEF KeysOnce
    <3> QED BY <3>3, <3>4, <3>8, <3>11 DEF KeysInv
  <2> QED BY <1>0, <2>1, <2>2, <2>3
<1> QED
  BY <1>1, <1>2, <1>3, <1>4 DEF Next, vars, OpenStream, CloseStream, Alloc, LoadDynamic,
     CallDynamic, LoadLib, LibExec, Dispatch, Grow, ExitJob

\* What the keyboard thread takes reaches GETC once and in order as long as the
\* thread does not write keycode between GETC's two steps: cpu.c:1993-2070.
THEOREM ServicesKeys == Spec => []KeysOnce
<1>1. KeysInv => KeysOnce
  BY DEF KeysInv
<1> QED BY <1>1, InitKeys, KeysKept, PTL DEF Spec
-----------------------------------------------------------------------------
(* Who holds which block.  A pointer is what it is for, which one of these it *)
(* is, and the block.                                                         *)

\* The registry has the blocks of P and no other, and no block is in P twice
Owned(h, P) ==
    /\ Sound(h)
    /\ ~h.gone => /\ \A a \in P : a[3] \in Blocks
                  /\ \A a, b \in P : a[3] = b[3] => a = b
                  /\ Registered(h) = {a[3] : a \in P}

\* malloc: the new block has one owner
LEMMA OwnedMalloc ==
    ASSUME NEW h, NEW P, Owned(h, P), NEW k, NEW i
    PROVE  /\ Owned(nt_malloc(h), P \cup {<<k, i, nt_malloc(h).ptr>>})
           /\ ~nt_malloc(h).gone => ~h.gone /\ nt_malloc(h).ptr \in Blocks
<1> DEFINE g == nt_malloc(h)
           a == <<k, i, g.ptr>>
<1>1. Sound(h) /\ Sound(g)
  BY MallocIsSound DEF Owned
<1>2. ~g.gone => /\ g.ptr \in Blocks \ Registered(h) /\ ~h.gone
                 /\ Registered(g) = Registered(h) \cup {g.ptr}
  BY <1>1, MallocIsSound
<1>3. a[3] = g.ptr
  OBVIOUS
<1> HIDE DEF g, a
<1>4. ASSUME ~g.gone
      PROVE  /\ \A b \in P \cup {a} : b[3] \in Blocks
             /\ \A b, c \in P \cup {a} : b[3] = c[3] => b = c
             /\ Registered(g) = {b[3] : b \in P \cup {a}}
  <2>1. /\ \A b \in P : b[3] \in Blocks /\ b[3] # g.ptr
        /\ \A b, c \in P : b[3] = c[3] => b = c
        /\ Registered(h) = {b[3] : b \in P}
    BY <1>2, <1>4 DEF Owned
  <2>2. {b[3] : b \in P \cup {a}} = {b[3] : b \in P} \cup {a[3]}
    OBVIOUS
  <2> QED BY <1>2, <1>3, <1>4, <2>1, <2>2
<1> QED BY <1>1, <1>2, <1>4 DEF Owned, g, a

\* free: the block's owner is gone with it
LEMMA OwnedFree ==
    ASSUME NEW h, NEW P, Owned(h, P), NEW k, NEW i, NEW p, h.gone \/ <<k, i, p>> \in P
    PROVE  Owned(nt_free(h, p), P \ {<<k, i, p>>}) /\ nt_free(h, p).gone = h.gone
<1> DEFINE a == <<k, i, p>>
<1>1. a[3] = p /\ (h.gone \/ a \in P)
  OBVIOUS
<1> HIDE DEF a
<1>2. h.gone \/ p \in Blocks
  BY <1>1 DEF Owned
<1>3. /\ Sound(nt_free(h, p)) /\ nt_free(h, p).gone = h.gone
      /\ ~h.gone => Registered(nt_free(h, p)) = Registered(h) \ {p}
  BY <1>2, FreeIsSound, HeapAssumption DEF Owned
<1>4. ASSUME ~h.gone
      PROVE  /\ \A b \in P \ {a} : b[3] \in Blocks
             /\ \A b, c \in P \ {a} : b[3] = c[3] => b = c
             /\ Registered(nt_free(h, p)) = {b[3] : b \in P \ {a}}
  <2>1. /\ \A b \in P : b[3] \in Blocks
        /\ \A b, c \in P : b[3] = c[3] => b = c
        /\ Registered(h) = {b[3] : b \in P}
    BY <1>4 DEF Owned
  <2>2. {b[3] : b \in P \ {a}} = {b[3] : b \in P} \ {a[3]}
    BY <1>1, <1>4, <2>1
  <2> QED BY <1>1, <1>3, <1>4, <2>1, <2>2
<1> QED BY <1>3, <1>4 DEF Owned, a

\* realloc: the owner has the block that takes the place of the old one
LEMMA OwnedRealloc ==
    ASSUME NEW h, NEW P, Owned(h, P), NEW k, NEW i, NEW p \in Blocks \cup {Null},
           h.gone \/ <<k, i, p>> \in P
    PROVE  /\ Owned(nt_realloc(h, p),
                    (P \ {<<k, i, p>>}) \cup {<<k, i, nt_realloc(h, p).ptr>>})
           /\ ~nt_realloc(h, p).gone => ~h.gone
<1> DEFINE g == nt_realloc(h, p)
           a == <<k, i, p>>
           e == <<k, i, g.ptr>>
<1>1. a[3] = p /\ (h.gone \/ a \in P) /\ e[3] = g.ptr
  OBVIOUS
<1>2. Sound(g) /\ (~g.gone => ~h.gone)
  BY ReallocIsSound DEF Owned
<1>3. ~g.gone => p \in Registered(h)
  <2> HIDE DEF g, a
  <2> QED BY <1>1, <1>2 DEF Owned
<1>4. ~g.gone => /\ g.ptr \in Blocks /\ (g.ptr = p \/ g.ptr \notin Registered(h))
                 /\ Registered(g) = (Registered(h) \ {p}) \cup {g.ptr}
  BY <1>3, ReallocIsSound DEF Owned
<1> HIDE DEF g, a, e
<1>5. ASSUME ~g.gone
      PROVE  /\ \A b \in (P \ {a}) \cup {e} : b[3] \in Blocks
             /\ \A b, c \in (P \ {a}) \cup {e} : b[3] = c[3] => b = c
             /\ Registered(g) = {b[3] : b \in (P \ {a}) \cup {e}}
  <2>1. /\ \A b \in P : b[3] \in Blocks
        /\ \A b, c \in P : b[3] = c[3] => b = c
        /\ Registered(h) = {b[3] : b \in P}
    BY <1>2, <1>5 DEF Owned
  <2>2. \A b \in P \ {a} : b[3] # p /\ b[3] # g.ptr
    BY <1>1, <1>2, <1>4, <1>5, <2>1
  <2>3. {b[3] : b \in P \ {a}} = Registered(h) \ {p}
    BY <1>1, <1>2, <1>5, <2>1, <2>2
  <2>4. {b[3] : b \in (P \ {a}) \cup {e}} = {b[3] : b \in P \ {a}} \cup {e[3]}
    OBVIOUS
  <2> QED BY <1>1, <1>4, <1>5, <2>1, <2>2, <2>3, <2>4
<1> QED BY <1>2, <1>5 DEF Owned, g, a, e

\* A block changes its owner
LEMMA OwnedMoves ==
    ASSUME NEW h, NEW P, Owned(h, P), NEW k, NEW i, NEW l, NEW j, NEW p,
           h.gone \/ <<k, i, p>> \in P
    PROVE  Owned(h, (P \ {<<k, i, p>>}) \cup {<<l, j, p>>})
<1> DEFINE a == <<k, i, p>>
           e == <<l, j, p>>
<1>1. a[3] = p /\ e[3] = p /\ (h.gone \/ a \in P)
  OBVIOUS
<1> HIDE DEF a, e
<1>2. ASSUME ~h.gone
      PROVE  /\ \A b \in (P \ {a}) \cup {e} : b[3] \in Blocks
             /\ \A b, c \in (P \ {a}) \cup {e} : b[3] = c[3] => b = c
             /\ Registered(h) = {b[3] : b \in (P \ {a}) \cup {e}}
  <2>1. /\ \A b \in P : b[3] \in Blocks
        /\ \A b, c \in P : b[3] = c[3] => b = c
        /\ Registered(h) = {b[3] : b \in P}
    BY <1>2 DEF Owned
  <2>2. \A b \in P \ {a} : b[3] # p
    BY <1>1, <1>2, <2>1
  <2>3. {b[3] : b \in (P \ {a}) \cup {e}} = {b[3] : b \in P}
    BY <1>1, <1>2
  <2> QED BY <1>1, <1>2, <2>1, <2>2, <2>3
<1> QED BY <1>2 DEF Owned, a, e

\* RebuildMemoryBlock: the two new blocks take the places of the old ones
LEMMA OwnedRebuild ==
    ASSUME NEW h, NEW m \in Memories(h), NEW R,
           \A a \in R : a[1] \notin {"root", "pages", "new"},
           Owned(h, R \cup {<<"root", 0, m.root>>, <<"pages", 0, m.pages>>})
    PROVE  LET r == RebuildMemoryBlock(h, m)
           IN /\ Owned(r[1], R \cup {<<"root", 0, r[2].root>>, <<"pages", 0, r[2].pages>>})
              /\ r[2].block = m.block /\ (~r[1].gone => ~h.gone)
<1> DEFINE h1 == nt_malloc(h)
           h2 == nt_malloc(h1)
           h3 == nt_free(h2, m.pages)
           h4 == nt_free(h3, m.root)
           n == [m EXCEPT !.root = h1.ptr, !.pages = h2.ptr]
           root == <<"root", 0, m.root>>
           pages == <<"pages", 0, m.pages>>
           newroot == <<"new", 0, h1.ptr>>
           newpages == <<"new", 1, h2.ptr>>
           theroot == <<"root", 0, h1.ptr>>
           thepages == <<"pages", 0, h2.ptr>>
           P1 == (R \cup {root, pages}) \cup {newroot}
           P2 == P1 \cup {newpages}
           P3 == P2 \ {pages}
           P4 == P3 \ {root}
           P5 == (P4 \ {newroot}) \cup {theroot}
           P6 == (P5 \ {newpages}) \cup {thepages}
<1>1. RebuildMemoryBlock(h, m) = <<h4, n>>
  BY DEF RebuildMemoryBlock
<1>2. n.root = h1.ptr /\ n.pages = h2.ptr /\ n.block = m.block
  <2> HIDE DEF h1, h2
  <2> QED BY DEF Memories
<1>3. /\ root \notin R /\ pages \notin R /\ newroot \notin R /\ newpages \notin R
      /\ root # pages /\ newroot # newpages /\ root # newroot /\ root # newpages
      /\ pages # newroot /\ pages # newpages /\ theroot # newpages
  <2> HIDE DEF h1, h2
  <2>1. /\ root[1] = "root" /\ pages[1] = "pages" /\ newroot[1] = "new"
        /\ newpages[1] = "new" /\ newroot[2] = 0 /\ newpages[2] = 1 /\ theroot[1] = "root"
    OBVIOUS
  <2> HIDE DEF root, pages, newroot, newpages, theroot
  <2> QED BY <2>1
<1>4. Owned(h1, P1) /\ (~h1.gone => ~h.gone)
  BY OwnedMalloc
<1>5. Owned(h2, P2) /\ (~h2.gone => ~h1.gone)
  <2> HIDE DEF h1, P1
  <2> QED BY <1>4, OwnedMalloc
<1>6. Owned(h3, P3) /\ h3.gone = h2.gone
  <2> HIDE DEF h1, h2, P1, newroot, newpages
  <2>1. pages \in P2
    BY DEF P1
  <2> HIDE DEF P2
  <2> QED BY <1>5, <2>1, OwnedFree
<1>7. Owned(h4, P4) /\ h4.gone = h2.gone
  <2> HIDE DEF h1, h2, h3, newroot, newpages
  <2>1. root \in P3
    <3> HIDE DEF root, pages
    <3> QED BY <1>3
  <2> HIDE DEF P3
  <2> QED BY <1>6, <2>1, OwnedFree
<1>8. Owned(h4, P5)
  <2> HIDE DEF h1, h2, h3, h4
  <2>1. newroot \in P4
    <3> HIDE DEF root, pages, newroot, newpages
    <3> QED BY <1>3
  <2> HIDE DEF P4
  <2> QED BY <1>7, <2>1, OwnedMoves
<1>9. Owned(h4, P6)
  <2> HIDE DEF h1, h2, h3, h4
  <2>1. newpages \in P5
    <3> HIDE DEF root, pages, newroot, newpages
    <3> QED BY <1>3
  <2> HIDE DEF P5
  <2> QED BY <1>8, <2>1, OwnedMoves
<1>10. P6 = R \cup {theroot, thepages}
  <2> HIDE DEF root, pages, newroot, newpages, theroot, thepages
  <2> QED BY <1>3
<1>11. ~h4.gone => ~h.gone
  BY <1>4, <1>5, <1>7
<1>12. Owned(h4, R \cup {theroot, thepages})
  <2> HIDE DEF h4, P6
  <2> QED BY <1>9, <1>10
<1>13. Owned(h4, R \cup {<<"root", 0, n.root>>, <<"pages", 0, n.pages>>})
  <2> HIDE DEF h1, h2, h3, h4, n
  <2> QED BY <1>2, <1>12
<1> DEFINE r == RebuildMemoryBlock(h, m)
<1>14. r[1] = h4 /\ r[2] = n
  BY <1>1
<1>15. /\ Owned(r[1], R \cup {<<"root", 0, r[2].root>>, <<"pages", 0, r[2].pages>>})
       /\ r[2].block = m.block /\ (~r[1].gone => ~h.gone)
  <2> HIDE DEF h1, h2, h3, h4, n, r
  <2> QED BY <1>2, <1>11, <1>13, <1>14
<1> QED BY <1>15

MemoryPointers(m) ==
    {<<"block", 0, m.block>>, <<"root", 0, m.root>>, <<"pages", 0, m.pages>>}

\* Memory of another size: its block has moved, and what describes it is new
LEMMA OwnedResized ==
    ASSUME NEW h, NEW m \in Memories(h), NEW n \in Int, NEW R,
           \A a \in R : a[1] \notin {"block", "root", "pages", "new"},
           Owned(h, R \cup MemoryPointers(m))
    PROVE  LET r == Resized(h, m, n)
           IN Owned(r[1], R \cup MemoryPointers(r[2])) /\ (~r[1].gone => ~h.gone)
<1> DEFINE h1 == nt_realloc(h, m.block)
           k == [m EXCEPT !.block = h1.ptr, !.actual = n]
           block == <<"block", 0, m.block>>
           root == <<"root", 0, m.root>>
           pages == <<"pages", 0, m.pages>>
           theblock == <<"block", 0, h1.ptr>>
           P == R \cup MemoryPointers(m)
           Q == R \cup {theblock}
           r == RebuildMemoryBlock(h1, k)
<1>1. Resized(h, m, n) = r
  BY DEF Resized
<1>2. m.block \in Blocks \cup {Null} /\ Sound(h)
  BY DEF Memories, Owned
<1>3. Owned(h1, (P \ {block}) \cup {theblock}) /\ (~h1.gone => ~h.gone)
  <2>1. block \in P /\ Owned(h, P)
    BY DEF MemoryPointers
  <2> HIDE DEF P
  <2> QED BY <1>2, <2>1, OwnedRealloc
<1>4. (P \ {block}) \cup {theblock} = Q \cup {root, pages}
  <2>1. block[1] = "block" /\ root[1] = "root" /\ pages[1] = "pages"
    OBVIOUS
  <2>2. MemoryPointers(m) = {block, root, pages}
    BY DEF MemoryPointers
  <2> HIDE DEF block, root, pages, theblock
  <2> QED BY <2>1, <2>2
<1>5. k \in Memories(h1) /\ k.root = m.root /\ k.pages = m.pages /\ k.block = h1.ptr
  <2>1. h1.ptr \in Blocks \cup {Null}
    <3> HIDE DEF h1
    <3> QED BY <1>3 DEF Owned, Sound, Heaps
  <2> HIDE DEF h1
  <2>2. m \in Memories(h1)
    BY <1>3, HeldGrows
  <2> QED BY <2>1, <2>2 DEF Memories
<1>6. \A a \in Q : a[1] \notin {"root", "pages", "new"}
  <2>1. theblock[1] = "block"
    OBVIOUS
  <2> HIDE DEF theblock
  <2> QED BY <2>1
<1>7. Owned(h1, Q \cup {<<"root", 0, k.root>>, <<"pages", 0, k.pages>>})
  BY <1>3, <1>4, <1>5
<1>8. /\ Owned(r[1], Q \cup {<<"root", 0, r[2].root>>, <<"pages", 0, r[2].pages>>})
      /\ r[2].block = h1.ptr /\ (~r[1].gone => ~h1.gone)
  <2> HIDE DEF h1, k, Q
  <2> QED BY <1>5, <1>6, <1>7, OwnedRebuild
<1>9. Q \cup {<<"root", 0, r[2].root>>, <<"pages", 0, r[2].pages>>}
        = R \cup MemoryPointers(r[2])
  <2> HIDE DEF r, h1
  <2> QED BY <1>8 DEF MemoryPointers
<1> HIDE DEF r
<1> QED BY <1>1, <1>3, <1>8, <1>9

\* The pointers of the machine
TablePointers == {<<"streams", 0, streams.table>>, <<"libs", 0, libs.table>>}

LibPointers == {<<"lib", i, libs.slot[i].block>> : i \in {n \in DOMAIN libs.slot :
                                                              libs.slot[n] # Null}}

\* The entries of the list, and the paths that were left behind with them
EntryPointers == {<<"native", i, natives[i].block>> : i \in DOMAIN natives}

PathPointers == {<<"path", i, natives[i].path>> : i \in {n \in DOMAIN natives :
                                                              natives[n].path # Null}}

NativePointers == EntryPointers \cup PathPointers

JobParts(j, r) == {<<"job", j, r.job>>, <<"Stack", j, r.Stack>>, <<"CallStack", j, r.CallStack>>,
                   <<"content", j, r.content>>, <<"calls", j, r.calls>>}

JobPointers == UNION {JobParts(j, jobs[j]) : j \in {n \in JobSlots : jobs[n] # NoJob}}

Pointers ==
    TablePointers \cup MemoryPointers(memory) \cup LibPointers \cup NativePointers \cup JobPointers

NativesOK == natives \in Seq([name : NativeNames, block : Blocks \cup {Null},
                              path : Blocks \cup {Null}])

OwnedInv == ended = "no" => Owned(heap, Pointers)

PInv == ImageInv /\ NativesOK /\ OwnedInv

JobKinds == {"job", "Stack", "CallStack", "content", "calls"}

\* What a pointer is for tells whose it is
LEMMA PointerKinds ==
    /\ \A a \in TablePointers : a[1] \in {"streams", "libs"}
    /\ \A m : \A a \in MemoryPointers(m) : a[1] \in {"block", "root", "pages"}
    /\ \A a \in LibPointers : a[1] = "lib"
    /\ \A a \in NativePointers : a[1] \in {"native", "path"}
    /\ \A a \in JobPointers : a[1] \in JobKinds
<1>1. \A a \in TablePointers : a[1] \in {"streams", "libs"}
  BY DEF TablePointers
<1>2. \A m : \A a \in MemoryPointers(m) : a[1] \in {"block", "root", "pages"}
  BY DEF MemoryPointers
<1>3. \A a \in LibPointers : a[1] = "lib"
  BY DEF LibPointers
<1>4. \A a \in NativePointers : a[1] \in {"native", "path"}
  BY DEF NativePointers, EntryPointers, PathPointers
<1>5. \A j, r : \A a \in JobParts(j, r) : a[1] \in JobKinds
  BY DEF JobParts, JobKinds
<1>6. \A a \in JobPointers : a[1] \in JobKinds
  BY <1>5 DEF JobPointers
<1> QED BY <1>1, <1>2, <1>3, <1>4, <1>6

\* The pointers are the blocks the machine holds and the ones it has left
LEMMA PointersAreHeld ==
    /\ Left = {a[3] : a \in PathPointers}
    /\ Held = {a[3] : a \in Pointers \ PathPointers}
<1>1. {a[3] : a \in TablePointers} = {streams.table, libs.table}
  BY DEF TablePointers
<1>2. {a[3] : a \in MemoryPointers(memory)} = {memory.block, memory.root, memory.pages}
  BY DEF MemoryPointers
<1>3. {a[3] : a \in LibPointers}
        = {libs.slot[i].block : i \in {n \in DOMAIN libs.slot : libs.slot[n] # Null}}
  <2> DEFINE D == {n \in DOMAIN libs.slot : libs.slot[n] # Null}
             b(i) == libs.slot[i].block
  <2>1. LibPointers = {<<"lib", i, b(i)>> : i \in D}
    BY DEF LibPointers
  <2>2. ASSUME NEW a \in LibPointers PROVE a[3] \in {b(i) : i \in D}
    BY <2>1
  <2>3. ASSUME NEW i \in D PROVE \E a \in LibPointers : b(i) = a[3]
    <3>1. <<"lib", i, b(i)>> \in LibPointers
      BY <2>1
    <3>2. <<"lib", i, b(i)>>[3] = b(i)
      OBVIOUS
    <3> QED BY <3>1, <3>2
  <2> HIDE DEF D, b
  <2> QED BY <2>2, <2>3 DEF D, b
<1>4. {a[3] : a \in EntryPointers} = {natives[i].block : i \in DOMAIN natives}
  <2> DEFINE D == DOMAIN natives
             b(i) == natives[i].block
  <2>1. EntryPointers = {<<"native", i, b(i)>> : i \in D}
    BY DEF EntryPointers
  <2>2. ASSUME NEW a \in EntryPointers PROVE a[3] \in {b(i) : i \in D}
    BY <2>1
  <2>3. ASSUME NEW i \in D PROVE \E a \in EntryPointers : b(i) = a[3]
    <3>1. <<"native", i, b(i)>> \in EntryPointers
      BY <2>1
    <3>2. <<"native", i, b(i)>>[3] = b(i)
      OBVIOUS
    <3> QED BY <3>1, <3>2
  <2> HIDE DEF D, b
  <2> QED BY <2>2, <2>3 DEF D, b
<1> DEFINE Parts(r) == {r.job, r.Stack, r.CallStack, r.content, r.calls}
           On == {n \in JobSlots : jobs[n] # NoJob}
<1>5. \A j, r : /\ \A a \in JobParts(j, r) : a[3] \in Parts(r)
                /\ \A p \in Parts(r) : \E a \in JobParts(j, r) : p = a[3]
  <2> SUFFICES ASSUME NEW j, NEW r
               PROVE  /\ \A a \in JobParts(j, r) : a[3] \in Parts(r)
                      /\ \A p \in Parts(r) : \E a \in JobParts(j, r) : p = a[3]
    OBVIOUS
  <2>1. \A a \in JobParts(j, r) : a[3] \in Parts(r)
    BY DEF JobParts
  <2>2. \A p \in Parts(r) : \E a \in JobParts(j, r) : p = a[3]
    <3>1. /\ <<"job", j, r.job>>[3] = r.job /\ <<"Stack", j, r.Stack>>[3] = r.Stack
          /\ <<"CallStack", j, r.CallStack>>[3] = r.CallStack
          /\ <<"content", j, r.content>>[3] = r.content /\ <<"calls", j, r.calls>>[3] = r.calls
      OBVIOUS
    <3>2. /\ <<"job", j, r.job>> \in JobParts(j, r) /\ <<"Stack", j, r.Stack>> \in JobParts(j, r)
          /\ <<"CallStack", j, r.CallStack>> \in JobParts(j, r)
          /\ <<"content", j, r.content>> \in JobParts(j, r)
          /\ <<"calls", j, r.calls>> \in JobParts(j, r)
      BY DEF JobParts
    <3>3. ASSUME NEW p \in Parts(r) PROVE \E a \in JobParts(j, r) : p = a[3]
      <4>1. CASE p = r.job
        BY <3>1, <3>2, <4>1
      <4>2. CASE p = r.Stack
        BY <3>1, <3>2, <4>2
      <4>3. CASE p = r.CallStack
        BY <3>1, <3>2, <4>3
      <4>4. CASE p = r.content
        BY <3>1, <3>2, <4>4
      <4>5. CASE p = r.calls
        BY <3>1, <3>2, <4>5
      <4> QED BY <4>1, <4>2, <4>3, <4>4, <4>5
    <3> QED BY <3>3
  <2> QED BY <2>1, <2>2
<1>6. {a[3] : a \in JobPointers} = UNION {Parts(jobs[j]) : j \in On}
  <2>1. JobPointers = UNION {JobParts(j, jobs[j]) : j \in On}
    BY DEF JobPointers
  <2> HIDE DEF Parts, On
  <2>2. \A j \in On : \A a \in JobParts(j, jobs[j]) : a[3] \in Parts(jobs[j])
    BY <1>5
  <2>3. \A j \in On : \A p \in Parts(jobs[j]) : \E a \in JobParts(j, jobs[j]) : p = a[3]
    BY <1>5
  <2>4. \A p \in {a[3] : a \in JobPointers} : p \in UNION {Parts(jobs[j]) : j \in On}
    BY <2>1, <2>2
  <2>5. \A p \in UNION {Parts(jobs[j]) : j \in On} : p \in {a[3] : a \in JobPointers}
    BY <2>1, <2>3
  <2> QED BY <2>4, <2>5
<1>7. {a[3] : a \in Pointers \ PathPointers}
        = {a[3] : a \in TablePointers} \cup {a[3] : a \in MemoryPointers(memory)}
            \cup {a[3] : a \in LibPointers} \cup {a[3] : a \in EntryPointers}
            \cup {a[3] : a \in JobPointers}
  <2>1. \A a \in PathPointers : a[1] = "path"
    BY DEF PathPointers
  <2>2. \A a \in EntryPointers : a[1] = "native"
    BY DEF EntryPointers
  <2>3. Pointers \ PathPointers
          = TablePointers \cup MemoryPointers(memory) \cup LibPointers \cup EntryPointers
              \cup JobPointers
    BY <2>1, <2>2, PointerKinds DEF Pointers, NativePointers, JobKinds
  <2> QED BY <2>3
<1>9. Left = {a[3] : a \in PathPointers}
  <2> DEFINE D == {n \in DOMAIN natives : natives[n].path # Null}
             b(i) == natives[i].path
  <2>1. PathPointers = {<<"path", i, b(i)>> : i \in D}
    BY DEF PathPointers
  <2>2. ASSUME NEW a \in PathPointers PROVE a[3] \in {b(i) : i \in D}
    BY <2>1
  <2>3. ASSUME NEW i \in D PROVE \E a \in PathPointers : b(i) = a[3]
    <3>1. <<"path", i, b(i)>> \in PathPointers
      BY <2>1
    <3>2. <<"path", i, b(i)>>[3] = b(i)
      OBVIOUS
    <3> QED BY <3>1, <3>2
  <2>4. Left = {b(i) : i \in D}
    BY DEF Left
  <2> HIDE DEF D, b
  <2> QED BY <2>2, <2>3, <2>4
<1>8. Held = {streams.table, libs.table, memory.block, memory.root, memory.pages}
        \cup {libs.slot[i].block : i \in {n \in DOMAIN libs.slot : libs.slot[n] # Null}}
        \cup {natives[i].block : i \in DOMAIN natives}
        \cup UNION {Parts(jobs[j]) : j \in On}
  BY DEF Held
<1> HIDE DEF Parts, On
<1> QED BY <1>1, <1>2, <1>3, <1>4, <1>6, <1>7, <1>8, <1>9

\* A step that moves no pointer
LEMMA OwnedStays ==
    ASSUME PInv, ended = "no", UNCHANGED <<heap, libs, natives, jobs, memory>>,
           streams'.table = streams.table
    PROVE  OwnedInv'
<1>1. TablePointers' = TablePointers /\ LibPointers' = LibPointers
      /\ NativePointers' = NativePointers /\ JobPointers' = JobPointers
      /\ MemoryPointers(memory)' = MemoryPointers(memory)
  BY DEF TablePointers, LibPointers, NativePointers, EntryPointers, PathPointers, JobPointers
<1>2. Pointers' = Pointers
  BY <1>1 DEF Pointers
<1> QED BY <1>2 DEF PInv, OwnedInv

\* stream_open on a table leaves it where it is
LEMMA OpenInTable ==
    ASSUME NEW h, NEW s \in StreamTables, NEW file, OpenIn(h, s, file)
    PROVE  heap' = h /\ streams'.table = s.table
<1> DEFINE free == {i \in 0 .. s.total - 1 : s.slot[i] = Null}
           slot == [s.slot EXCEPT ![FirstIn(free)] = file]
<1>1. streams' = s \/ streams' = [s EXCEPT !.slot = slot, !.used = s.used + 1]
  BY DEF OpenIn, StreamTables
<1>2. heap' = h
  BY DEF OpenIn, Leave
<1> HIDE DEF slot
<1> QED BY <1>1, <1>2 DEF StreamTables

\* stream_open: the table may have moved
LEMMA OwnedOpen ==
    ASSUME PInv, OpenStream
    PROVE  OwnedInv'
<1>1. ended = "no" /\ UNCHANGED <<libs, natives, memory, jobs>>
  BY DEF OpenStream, Serves, Between
<1>2. streams \in StreamTables /\ Owned(heap, Pointers)
  BY <1>1 DEF PInv, ImageInv, SInv, StreamsOK, OwnedInv
<1>3. PICK file \in Files \cup {"missing"} :
          IF StreamsFull
          THEN \E tail \in Tails : OpenIn(LongerStreams(tail)[1], LongerStreams(tail)[2], file)
          ELSE OpenIn(heap, streams, file)
  BY DEF OpenStream
<1>4. CASE ~StreamsFull
  <2>1. UNCHANGED heap /\ streams'.table = streams.table
    BY <1>2, <1>3, <1>4, OpenInTable
  <2> QED BY <1>1, <2>1, OwnedStays
<1>5. CASE StreamsFull
  <2>1. PICK tail \in Tails :
            OpenIn(LongerStreams(tail)[1], LongerStreams(tail)[2], file)
    BY <1>3, <1>5
  <2> DEFINE h == nt_realloc(heap, streams.table)
             s == LongerStreams(tail)[2]
             a == <<"streams", 0, streams.table>>
             e == <<"streams", 0, h.ptr>>
             c == <<"libs", 0, libs.table>>
  <2>2. LongerStreams(tail)[1] = h
    BY DEF LongerStreams
  <2>3. s.table = h.ptr
    <3> DEFINE total == streams.total + StreamStep
               slot == [i \in 0 .. total - 1 |->
                            IF i < streams.total THEN streams.slot[i] ELSE tail[i]]
    <3>1. s = [streams EXCEPT !.table = h.ptr, !.total = total, !.slot = slot]
      BY <1>2 DEF LongerStreams, StreamTables
    <3> HIDE DEF h, s, slot, total
    <3> QED BY <1>2, <3>1 DEF StreamTables
  <2>4. s \in StreamTables
    BY LongerStreamsOK DEF PInv, ImageInv, SInv, HeapInv, StreamsOK
  <2>5. heap' = h /\ streams'.table = h.ptr
    <3> HIDE DEF h, s
    <3> QED BY <2>1, <2>2, <2>3, <2>4, OpenInTable DEF s
  <2>6. Owned(h, (Pointers \ {a}) \cup {e})
    <3>1. a \in Pointers /\ streams.table \in Blocks \cup {Null}
      BY <1>2 DEF Pointers, TablePointers, StreamTables
    <3> QED BY <1>2, <3>1, OwnedRealloc
  <2>7. Pointers' = (Pointers \ {a}) \cup {e}
    <3>1. TablePointers = {a, c} /\ TablePointers' = {e, c}
      <4> HIDE DEF h
      <4> QED BY <1>1, <2>5 DEF TablePointers
    <3>2. /\ LibPointers' = LibPointers /\ NativePointers' = NativePointers
          /\ JobPointers' = JobPointers /\ MemoryPointers(memory)' = MemoryPointers(memory)
      BY <1>1 DEF LibPointers, NativePointers, EntryPointers, PathPointers, JobPointers
    <3>3. a[1] = "streams" /\ a # c
      OBVIOUS
    <3> HIDE DEF a, c, e
    <3> QED BY <3>1, <3>2, <3>3, PointerKinds DEF Pointers, JobKinds
  <2> HIDE DEF h, a, e
  <2> QED BY <2>5, <2>6, <2>7 DEF OwnedInv
<1> QED BY <1>4, <1>5

\* SYSCALL_ALLOC: the memory has moved
LEMMA OwnedAlloc ==
    ASSUME PInv, Alloc
    PROVE  OwnedInv'
<1>1. ended = "no" /\ UNCHANGED <<streams, libs, natives, jobs>>
  BY DEF Alloc, Serves, Between
<1>2. PICK n \in 1 .. MaxPages - memory.size :
          LET m == [memory EXCEPT !.size = @ + n, !.areas = @ \cup {<<memory.size, n>>}]
              r == Resized(heap, m, m.size)
          IN Leave(r[1]) /\ memory' = r[2]
  BY DEF Alloc
<1> DEFINE size == memory.size + n
           areas == memory.areas \cup {<<memory.size, n>>}
           m == [memory EXCEPT !.size = size, !.areas = areas]
           R == TablePointers \cup LibPointers \cup NativePointers \cup JobPointers
           r == Resized(heap, m, m.size)
<1>3. heap' = r[1] /\ memory' = r[2]
  BY <1>2 DEF Leave, PInv, ImageInv, SInv, HeapInv, Memories
<1>4. size \in Int /\ areas \in SUBSET (Int \X Int) /\ memory \in Memories(heap)
  BY DEF PInv, ImageInv, SInv, HeapInv, Memories
<1>5. /\ m \in Memories(heap) /\ m.size = size
      /\ m.block = memory.block /\ m.root = memory.root /\ m.pages = memory.pages
  <2> HIDE DEF size, areas
  <2> QED BY <1>4 DEF Memories
<1>6. Owned(heap, R \cup MemoryPointers(m))
  <2>1. MemoryPointers(m) = MemoryPointers(memory)
    <3> HIDE DEF m
    <3> QED BY <1>5 DEF MemoryPointers
  <2>2. Pointers = R \cup MemoryPointers(memory)
    BY DEF Pointers
  <2>3. Owned(heap, Pointers)
    BY <1>1 DEF PInv, OwnedInv
  <2> HIDE DEF R, m
  <2> QED BY <2>1, <2>2, <2>3
<1>7. \A a \in R : a[1] \notin {"block", "root", "pages", "new"}
  BY PointerKinds DEF JobKinds
<1>8. Owned(r[1], R \cup MemoryPointers(r[2]))
  <2> HIDE DEF R, m, size
  <2> QED BY <1>4, <1>5, <1>6, <1>7, OwnedResized
<1>9. Pointers' = R \cup MemoryPointers(r[2])
  <2>1. /\ LibPointers' = LibPointers /\ NativePointers' = NativePointers
        /\ JobPointers' = JobPointers /\ TablePointers' = TablePointers
    BY <1>1 DEF LibPointers, NativePointers, EntryPointers, PathPointers, JobPointers, TablePointers
  <2>2. MemoryPointers(memory)' = MemoryPointers(r[2])
    <3> HIDE DEF r
    <3> QED BY <1>3
  <2>3. Pointers' = TablePointers' \cup MemoryPointers(memory)' \cup LibPointers'
                      \cup NativePointers' \cup JobPointers'
    BY DEF Pointers
  <2> HIDE DEF r
  <2> QED BY <2>1, <2>2, <2>3
<1> HIDE DEF r, R
<1> QED BY <1>3, <1>8, <1>9 DEF OwnedInv

\* A library: the memory has grown, the temporary block has been freed, and the
\* structure has its slot
LEMMA OwnedLoad ==
    ASSUME PInv, LoadDynamic
    PROVE  OwnedInv'
<1>1. ended = "no" /\ UNCHANGED <<streams, natives, jobs>>
  BY DEF LoadDynamic, Serves, Between
<1>2. CASE UNCHANGED <<heap, memory, libs, ended>>
  BY <1>1, <1>2, OwnedStays
<1>3. CASE ended' = "exit"
  BY <1>3 DEF OwnedInv
<1>4. ASSUME NEW name \in Libraries, NEW n \in 1 .. MaxPages - memory.size,
             LET temp == nt_malloc(heap)
                 r == Resized(temp, memory, memory.size + n)
             IN Placed(nt_free(r[1], temp.ptr), r[2], name, n)
      PROVE  OwnedInv'
  <2> DEFINE temp == nt_malloc(heap)
             size == memory.size + n
             r == Resized(temp, memory, size)
             h == nt_free(r[1], temp.ptr)
             h1 == nt_malloc(h)
             m == r[2]
             t == <<"temp", 0, temp.ptr>>
             R == TablePointers \cup LibPointers \cup NativePointers \cup JobPointers
             k == FirstIn(LibrarySlots)
             image == [name |-> name, loadaddr |-> m.size, pages |-> n, block |-> h1.ptr]
             slot == [libs.slot EXCEPT ![k] = image]
             l == <<"lib", k, h1.ptr>>
  <2>1. /\ Owned(temp, Pointers \cup {t}) /\ (~temp.gone => ~heap.gone)
        /\ memory \in Memories(temp) /\ size \in Int /\ memory.size \in Nat
    <3>1. Owned(heap, Pointers) /\ memory \in Memories(heap) /\ memory.size \in Nat
      BY <1>1 DEF PInv, OwnedInv, ImageInv, SInv, HeapInv, AreasOK
    <3>2. Owned(temp, Pointers \cup {t}) /\ (~temp.gone => ~heap.gone)
      BY <3>1, OwnedMalloc
    <3> HIDE DEF temp
    <3> QED BY <3>1, <3>2, HeldGrows
  <2>2. /\ \A a \in R : a[1] \in {"streams", "libs", "lib", "native", "path"} \cup JobKinds
        /\ t[1] = "temp"
    BY PointerKinds
  <2>3. /\ Owned(r[1], (R \cup {t}) \cup MemoryPointers(m)) /\ (~r[1].gone => ~temp.gone)
        /\ m.size = memory.size /\ m \in Memories(r[1])
    <3>1. Pointers \cup {t} = (R \cup {t}) \cup MemoryPointers(memory)
      BY DEF Pointers
    <3>2. \A a \in R \cup {t} : a[1] \notin {"block", "root", "pages", "new"}
      <4> HIDE DEF R, t
      <4> QED BY <2>2 DEF JobKinds
    <3> HIDE DEF temp, R, t, size
    <3>3. Owned(temp, (R \cup {t}) \cup MemoryPointers(memory)) /\ Sound(temp)
      BY <2>1, <3>1 DEF Owned
    <3> QED BY <2>1, <3>2, <3>3, OwnedResized, ResizedSize, ResizedIsSound
  <2>4. Owned(h, R \cup MemoryPointers(m)) /\ h.gone = r[1].gone
    <3> DEFINE P == (R \cup {t}) \cup MemoryPointers(m)
    <3>1. t \in P
      OBVIOUS
    <3>2. P \ {t} = R \cup MemoryPointers(m)
      <4> HIDE DEF R, t, m
      <4> QED BY <2>2, PointerKinds DEF JobKinds
    <3>3. Owned(h, P \ {t}) /\ h.gone = r[1].gone
      <4> HIDE DEF temp, r, m, R
      <4>1. Owned(r[1], P)
        BY <2>3
      <4> HIDE DEF P
      <4> QED BY <3>1, <4>1, OwnedFree
    <3> HIDE DEF P, h
    <3> QED BY <3>2, <3>3
  <2>5. Placed(h, m, name, n)
    BY <1>4
  <2>6. \/ heap' = h /\ memory' = m /\ UNCHANGED libs
        \/ /\ heap' = h1 /\ LibrarySlots # {}
           /\ memory' = [m EXCEPT !.size = @ + n, !.areas = @ \cup {<<m.size, n>>}]
           /\ libs' = [libs EXCEPT !.slot[k] = image]
    <3> HIDE DEF h, m
    <3> QED BY <2>5 DEF Placed, Leave
  <2>7. NativePointers' = NativePointers /\ JobPointers' = JobPointers
    BY <1>1 DEF NativePointers, EntryPointers, PathPointers, JobPointers
  <2>8. Pointers' = TablePointers' \cup MemoryPointers(memory)' \cup LibPointers'
                      \cup NativePointers' \cup JobPointers'
    BY DEF Pointers
  <2>9. CASE heap' = h /\ memory' = m /\ UNCHANGED libs
    <3>1. TablePointers' = TablePointers /\ LibPointers' = LibPointers
      BY <1>1, <2>9 DEF TablePointers, LibPointers
    <3>2. MemoryPointers(memory)' = MemoryPointers(m)
      <4> HIDE DEF m
      <4> QED BY <2>9
    <3>3. Pointers' = R \cup MemoryPointers(m)
      <4> HIDE DEF m
      <4> QED BY <2>7, <2>8, <3>1, <3>2
    <3> HIDE DEF m, h, R
    <3> QED BY <2>4, <2>9, <3>3 DEF OwnedInv
  <2>10. CASE /\ heap' = h1 /\ LibrarySlots # {}
              /\ memory' = [m EXCEPT !.size = @ + n, !.areas = @ \cup {<<m.size, n>>}]
              /\ libs' = [libs EXCEPT !.slot[k] = image]
    <3>1. Owned(h1, (R \cup MemoryPointers(m)) \cup {l})
      <4> HIDE DEF h, m, R
      <4> QED BY <2>4, OwnedMalloc
    <3>2. libs.slot \in [0 .. libs.total - 1 -> Images \cup {Null}] /\ libs.total \in Nat
      BY DEF PInv, ImageInv, LibsOK
    <3>3. k \in LibrarySlots
      <4>1. LibrarySlots \in SUBSET Nat
        BY <3>2 DEF LibrarySlots
      <4> QED BY <2>10, <4>1, LeastNumber
    <3>4. image # Null /\ image.block = h1.ptr
      <4>1. h1.ptr \in Blocks \cup {Null}
        <5> HIDE DEF h1
        <5> QED BY <3>1 DEF Owned, Sound, Heaps
      <4>2. image \in [name : Libraries, loadaddr : Nat, pages : Nat, block : Blocks \cup {Null}]
        <5> HIDE DEF h1, m
        <5> QED BY <1>4, <2>1, <2>3, <4>1
      <4> HIDE DEF h1, m
      <4> QED BY <4>2, NullAssumption
    <3>5. libs'.table = libs.table /\ libs'.slot = slot
      <4>1. libs' = [libs EXCEPT !.slot = slot]
        <5> HIDE DEF k, image
        <5> QED BY <2>10
      <4> HIDE DEF slot
      <4> QED BY <4>1 DEF PInv, ImageInv, LibsOK
    <3>6. /\ k \in DOMAIN libs.slot /\ libs.slot[k] = Null /\ slot[k] = image
          /\ DOMAIN slot = DOMAIN libs.slot
          /\ \A i \in DOMAIN libs.slot : i # k => slot[i] = libs.slot[i]
      <4> HIDE DEF k, image
      <4> QED BY <3>2, <3>3 DEF LibrarySlots
    <3>7. LibPointers' = LibPointers \cup {l}
      <4> DEFINE D == {i \in DOMAIN libs.slot : libs.slot[i] # Null}
                 D1 == {i \in DOMAIN slot : slot[i] # Null}
      <4> HIDE DEF image, slot, k
      <4>1. D1 = D \cup {k}
        BY <3>4, <3>6
      <4>2. LibPointers' = {<<"lib", i, slot[i].block>> : i \in D1}
        BY <3>5 DEF LibPointers
      <4>3. \A i \in D : slot[i].block = libs.slot[i].block
        BY <3>6
      <4>4. slot[k].block = h1.ptr
        BY <3>4, <3>6
      <4>5. LibPointers = {<<"lib", i, libs.slot[i].block>> : i \in D}
        BY DEF LibPointers
      <4> HIDE DEF D, D1, h1
      <4> QED BY <4>1, <4>2, <4>3, <4>4, <4>5
    <3>8. TablePointers' = TablePointers
      <4> HIDE DEF slot
      <4> QED BY <1>1, <3>5 DEF TablePointers
    <3>9. MemoryPointers(memory)' = MemoryPointers(m)
      <4>1. memory'.block = m.block /\ memory'.root = m.root /\ memory'.pages = m.pages
        <5> HIDE DEF m, r
        <5> QED BY <2>3, <2>10 DEF Memories
      <4> HIDE DEF m
      <4> QED BY <4>1 DEF MemoryPointers
    <3>10. Pointers' = (R \cup MemoryPointers(m)) \cup {l}
      <4> HIDE DEF m, l
      <4> QED BY <2>7, <2>8, <3>7, <3>8, <3>9
    <3> HIDE DEF m, h1, R, l
    <3> QED BY <2>10, <3>1, <3>10 DEF OwnedInv
  <2> HIDE DEF m, h, h1, k, image
  <2> QED BY <2>6, <2>9, <2>10
<1> QED BY <1>2, <1>3, <1>4 DEF LoadDynamic

\* Looking for a library by its name leaves nothing
LEMMA OwnedLookedFor ==
    ASSUME NEW P, Owned(heap, P), \A a \in P : a[1] # "temp", NEW name
    PROVE  Owned(LookedFor(name), P)
<1> DEFINE path == nt_malloc(heap)
           g == nt_free(path, path.ptr)
           t == <<"temp", 0, path.ptr>>
           Q == P \cup {t}
<1>1. LookedFor(name) = IF name = "rstdlib" THEN g ELSE heap
  BY DEF LookedFor
<1>2. t \in Q /\ Owned(path, Q)
  BY OwnedMalloc
<1>3. Owned(g, Q \ {t})
  <2> HIDE DEF Q, path
  <2> QED BY <1>2, OwnedFree
<1>4. Q \ {t} = P
  <2>1. t[1] = "temp"
    OBVIOUS
  <2> HIDE DEF t
  <2> QED BY <2>1
<1> HIDE DEF g
<1> QED BY <1>1, <1>3, <1>4

\* The path that is left behind, if one is, with the entry it will belong to
LeftPath(path) == IF path = Null THEN {} ELSE {<<"path", Len(natives) + 1, path>>}

\* The new entry's block, and the path, are in the list
LEMMA OwnedOpened ==
    ASSUME PInv, UNCHANGED <<streams, libs, memory, jobs>>, NEW name \in NativeNames,
           NEW path \in Blocks \cup {Null}, NEW h, Owned(h, Pointers \cup LeftPath(path)),
           Opened(h, name, path)
    PROVE  NativesOK' /\ OwnedInv'
<1> DEFINE h1 == nt_malloc(h)
           k == Len(natives) + 1
           l == <<"native", k, h1.ptr>>
           x == [name |-> name, block |-> h1.ptr, path |-> path]
<1>1. \/ heap' = h1 /\ natives' = Append(natives, x)
      \/ ended' = "exit" /\ UNCHANGED natives
  BY DEF Opened, Leave
<1>2. CASE ended' = "exit" /\ UNCHANGED natives
  BY <1>2 DEF PInv, NativesOK, OwnedInv
<1>3. CASE heap' = h1 /\ natives' = Append(natives, x)
  <2>1. Owned(h1, (Pointers \cup LeftPath(path)) \cup {l})
    <3> HIDE DEF k
    <3> QED BY OwnedMalloc
  <2>2. x.block = h1.ptr /\ x.path = path /\ x.name = name
    OBVIOUS
  <2>3. x \in [name : NativeNames, block : Blocks \cup {Null}, path : Blocks \cup {Null}]
    <3>1. h1.ptr \in Blocks \cup {Null}
      <4> HIDE DEF h1
      <4> QED BY <2>1 DEF Owned, Sound, Heaps
    <3> HIDE DEF h1
    <3> QED BY <3>1
  <2> HIDE DEF x
  <2>4. NativesOK'
    BY <1>3, <2>3 DEF PInv, NativesOK
  <2>5. /\ DOMAIN natives' = DOMAIN natives \cup {k} /\ natives'[k] = x /\ k \notin DOMAIN natives
        /\ \A i \in DOMAIN natives : natives'[i] = natives[i]
    BY <1>3, <2>3 DEF PInv, NativesOK
  <2>6. EntryPointers' = EntryPointers \cup {l}
    <3> HIDE DEF k, h1
    <3> QED BY <2>2, <2>5 DEF EntryPointers
  <2>7. PathPointers' = PathPointers \cup LeftPath(path)
    <3>1. LeftPath(path) = IF path = Null THEN {} ELSE {<<"path", k, path>>}
      BY DEF LeftPath
    <3> HIDE DEF k, h1
    <3>2. CASE path = Null
      BY <2>2, <2>5, <3>1, <3>2 DEF PathPointers
    <3>3. CASE path # Null
      BY <2>2, <2>5, <3>1, <3>3 DEF PathPointers
    <3> QED BY <3>2, <3>3
  <2>8. Pointers' = (Pointers \cup LeftPath(path)) \cup {l}
    <3>1. /\ LibPointers' = LibPointers /\ TablePointers' = TablePointers
          /\ JobPointers' = JobPointers /\ MemoryPointers(memory)' = MemoryPointers(memory)
      BY DEF LibPointers, TablePointers, JobPointers
    <3> HIDE DEF l
    <3> QED BY <2>6, <2>7, <3>1 DEF Pointers, NativePointers
  <2> HIDE DEF h1, l
  <2> QED BY <1>3, <2>1, <2>4, <2>8 DEF OwnedInv
<1> HIDE DEF x, h1
<1> QED BY <1>1, <1>2, <1>3

\* load_native_library: the entry's block is kept, and so is the path of a library
\* that was not found at once
LEMMA OwnedLoadLib ==
    ASSUME PInv, LoadLib
    PROVE  NativesOK' /\ OwnedInv'
<1>1. ended = "no" /\ UNCHANGED <<streams, libs, memory, jobs>>
  BY DEF LoadLib, Serves, Between
<1>2. PICK name \in NativeNames :
        LET f == nt_malloc(LookedFor(name))
        IN \/ Opened(LookedFor(name), name, Null)
           \/ Opened(f, name, f.ptr)
           \/ ended' = "exit" /\ UNCHANGED natives
  BY DEF LoadLib
<1> DEFINE g == LookedFor(name)
           f == nt_malloc(g)
           k == Len(natives) + 1
<1>3. Owned(g, Pointers)
  <2>1. \A a \in Pointers : a[1] # "temp"
    BY PointerKinds DEF Pointers, JobKinds
  <2> QED BY <1>1, <2>1, OwnedLookedFor DEF PInv, OwnedInv
<1> HIDE DEF g
<1>4. CASE Opened(g, name, Null)
  <2>1. Pointers \cup LeftPath(Null) = Pointers
    BY DEF LeftPath
  <2> QED BY <1>1, <1>3, <1>4, <2>1, OwnedOpened
<1>5. CASE Opened(f, name, f.ptr)
  <2>1. /\ Owned(f, Pointers \cup {<<"path", k, f.ptr>>})
        /\ ~f.gone => f.ptr \in Blocks
    <3> HIDE DEF k
    <3> QED BY <1>3, OwnedMalloc
  <2>2. f.ptr \in Blocks \cup {Null}
    <3> HIDE DEF f
    <3> QED BY <2>1 DEF Owned, Sound, Heaps
  <2>3. Owned(f, Pointers \cup LeftPath(f.ptr))
    <3>1. CASE f.ptr = Null
      <4>1. f.gone
        <5> HIDE DEF f
        <5> QED BY <2>1, <3>1, HeapAssumption
      <4> HIDE DEF f
      <4> QED BY <2>1, <4>1 DEF Owned
    <3>2. CASE f.ptr # Null
      <4>1. LeftPath(f.ptr) = {<<"path", k, f.ptr>>}
        BY <3>2 DEF LeftPath
      <4> HIDE DEF f, k
      <4> QED BY <2>1, <4>1
    <3> QED BY <3>1, <3>2
  <2> HIDE DEF f
  <2> QED BY <1>1, <1>5, <2>2, <2>3, OwnedOpened
<1>6. CASE ended' = "exit" /\ UNCHANGED natives
  BY <1>6 DEF PInv, NativesOK, OwnedInv
<1>7. Opened(g, name, Null) \/ Opened(f, name, f.ptr) \/ (ended' = "exit" /\ UNCHANGED natives)
  BY <1>2 DEF g
<1> HIDE DEF f
<1> QED BY <1>4, <1>5, <1>6, <1>7

\* The pointers that are not those of job j
OtherJobs(j) == UNION {JobParts(i, jobs[i]) : i \in {n \in JobSlots : jobs[n] # NoJob /\ n # j}}

Others(j) ==
    TablePointers \cup MemoryPointers(memory) \cup LibPointers \cup NativePointers \cup OtherJobs(j)

\* None of them is taken for one of job j, or for a block on its way
LEMMA OthersApart ==
    ASSUME NEW j \in JobSlots
    PROVE  /\ \A a \in Others(j) : a[1] # "new" /\ (a[1] \in JobKinds => a[2] # j)
           /\ jobs[j] = NoJob => Pointers = Others(j)
           /\ jobs[j] # NoJob => Pointers = Others(j) \cup JobParts(j, jobs[j])
<1>1. \A i, r : \A a \in JobParts(i, r) : a[1] \in JobKinds /\ a[2] = i
  BY DEF JobParts, JobKinds
<1>2. \A a \in OtherJobs(j) : a[1] \in JobKinds /\ a[2] # j
  BY <1>1 DEF OtherJobs
<1>3. \A a \in Others(j) : a[1] # "new" /\ (a[1] \in JobKinds => a[2] # j)
  BY <1>2, PointerKinds DEF Others, JobKinds
<1>4. jobs[j] = NoJob => JobPointers = OtherJobs(j)
  BY DEF JobPointers, OtherJobs
<1>5. jobs[j] # NoJob => JobPointers = OtherJobs(j) \cup JobParts(j, jobs[j])
  BY DEF JobPointers, OtherJobs
<1> QED BY <1>3, <1>4, <1>5 DEF Pointers, Others

\* A step of job j leaves them alone
LEMMA OthersStay ==
    ASSUME NEW j \in JobSlots, UNCHANGED <<streams, libs, natives, memory>>,
           DOMAIN jobs = JobSlots, NEW r, jobs' = [jobs EXCEPT ![j] = r]
    PROVE  /\ r = NoJob => Pointers' = Others(j)
           /\ r # NoJob => Pointers' = Others(j) \cup JobParts(j, r)
<1>1. \A i \in JobSlots : jobs'[i] = IF i = j THEN r ELSE jobs[i]
  OBVIOUS
<1>2. /\ LibPointers' = LibPointers /\ TablePointers' = TablePointers
      /\ NativePointers' = NativePointers /\ MemoryPointers(memory)' = MemoryPointers(memory)
  BY DEF LibPointers, TablePointers, NativePointers, EntryPointers, PathPointers
<1>3. r = NoJob => JobPointers' = OtherJobs(j)
  BY <1>1 DEF JobPointers, OtherJobs
<1>4. r # NoJob => JobPointers' = OtherJobs(j) \cup JobParts(j, r)
  BY <1>1 DEF JobPointers, OtherJobs
<1>5. Pointers' = TablePointers' \cup MemoryPointers(memory)' \cup LibPointers'
                    \cup NativePointers' \cup JobPointers'
  BY DEF Pointers
<1> QED BY <1>2, <1>3, <1>4, <1>5 DEF Others

\* r3x_dispatch_job: five blocks more
LEMMA OwnedDispatch ==
    ASSUME PInv, Dispatch
    PROVE  OwnedInv'
<1>1. ended = "no" /\ UNCHANGED <<streams, libs, natives, memory>> /\ DOMAIN jobs = JobSlots
  BY DEF Dispatch, Between, PInv, ImageInv, SInv, HeapInv, JobsOK
<1>2. PICK j \in JobSlots \cap uses :
          LET h1 == nt_malloc(heap)
              h2 == nt_malloc(h1)
              h3 == nt_malloc(h2)
              h4 == nt_malloc(h3)
              h5 == nt_malloc(h4)
          IN /\ jobs[j] = NoJob
             /\ jobs' = [jobs EXCEPT ![j] =
                    [job |-> h1.ptr, Stack |-> h2.ptr, CallStack |-> h3.ptr,
                     content |-> h4.ptr, calls |-> h5.ptr]]
             /\ Leave(h5)
  BY DEF Dispatch
<1> DEFINE h1 == nt_malloc(heap)
           h2 == nt_malloc(h1)
           h3 == nt_malloc(h2)
           h4 == nt_malloc(h3)
           h5 == nt_malloc(h4)
           r == [job |-> h1.ptr, Stack |-> h2.ptr, CallStack |-> h3.ptr,
                 content |-> h4.ptr, calls |-> h5.ptr]
           P1 == Pointers \cup {<<"job", j, h1.ptr>>}
           P2 == P1 \cup {<<"Stack", j, h2.ptr>>}
           P3 == P2 \cup {<<"CallStack", j, h3.ptr>>}
           P4 == P3 \cup {<<"content", j, h4.ptr>>}
           P5 == P4 \cup {<<"calls", j, h5.ptr>>}
<1>3. jobs[j] = NoJob /\ jobs' = [jobs EXCEPT ![j] = r] /\ heap' = h5
  BY <1>2 DEF Leave
<1>4. Owned(h1, P1)
  BY <1>1, OwnedMalloc DEF PInv, OwnedInv
<1>5. Owned(h2, P2)
  <2> HIDE DEF h1, P1
  <2> QED BY <1>4, OwnedMalloc
<1>6. Owned(h3, P3)
  <2> HIDE DEF h2, P2
  <2> QED BY <1>5, OwnedMalloc
<1>7. Owned(h4, P4)
  <2> HIDE DEF h3, P3
  <2> QED BY <1>6, OwnedMalloc
<1>8. Owned(h5, P5)
  <2> HIDE DEF h4, P4
  <2> QED BY <1>7, OwnedMalloc
<1>9. r # NoJob
  <2>1. \A x, y, z, u, v, w : [job |-> x, Stack |-> y, CallStack |-> z, content |-> u,
                                calls |-> v] # [job |-> w]
    OBVIOUS
  <2> HIDE DEF h1, h2, h3, h4, h5
  <2> QED BY <2>1 DEF NoJob
<1>10. Pointers' = Pointers \cup JobParts(j, r)
  <2> HIDE DEF r
  <2> QED BY <1>1, <1>3, <1>9, OthersApart, OthersStay
<1>11. Pointers' = P5
  <2>1. /\ r.job = h1.ptr /\ r.Stack = h2.ptr /\ r.CallStack = h3.ptr
        /\ r.content = h4.ptr /\ r.calls = h5.ptr
    OBVIOUS
  <2> HIDE DEF h1, h2, h3, h4, h5, r
  <2> QED BY <1>10, <2>1 DEF JobParts
<1> HIDE DEF h5, P5
<1> QED BY <1>3, <1>8, <1>11 DEF OwnedInv

\* The new buffer has the place of the old one
LEMMA OwnedReplaced ==
    ASSUME NEW h, NEW R, NEW k, NEW j, NEW p, NEW S, Owned(h, R \cup S),
           <<k, j, p>> \in S, \A a \in R \cup S : a[1] # "new", k # "new",
           <<k, j, p>> \notin R
    PROVE  LET g == nt_malloc(h)
           IN Owned(nt_free(g, p), R \cup (S \ {<<k, j, p>>}) \cup {<<k, j, g.ptr>>})
<1> DEFINE g == nt_malloc(h)
           f == nt_free(g, p)
           a == <<k, j, p>>
           t == <<"new", 0, g.ptr>>
           e == <<k, j, g.ptr>>
           P == (R \cup S) \cup {t}
<1>1. Owned(g, P)
  BY OwnedMalloc
<1>2. t[1] = "new" /\ a[1] = k /\ e[1] = k /\ a \in P
  OBVIOUS
<1>3. Owned(f, P \ {a})
  <2> HIDE DEF g, P
  <2> QED BY <1>1, <1>2, OwnedFree
<1>4. t \in P \ {a}
  <2> HIDE DEF t, a
  <2> QED BY <1>2
<1>5. Owned(f, ((P \ {a}) \ {t}) \cup {e})
  <2> DEFINE Q == P \ {a}
  <2>1. Owned(f, Q) /\ t \in Q
    BY <1>3, <1>4
  <2> HIDE DEF g, f, Q
  <2> QED BY <2>1, OwnedMoves DEF Q
<1>6. ((P \ {a}) \ {t}) \cup {e} = R \cup (S \ {a}) \cup {e}
  <2>1. a \notin R /\ \A b \in R \cup S : b # t
    <3> HIDE DEF t
    <3> QED BY <1>2
  <2> HIDE DEF t, a, e
  <2> QED BY <2>1
<1> HIDE DEF P, t
<1> QED BY <1>5, <1>6

\* PushtoStack, of either stack
LEMMA OwnedGrow ==
    ASSUME PInv, Grow
    PROVE  OwnedInv'
<1>1. ended = "no" /\ UNCHANGED <<streams, libs, natives, memory>> /\ DOMAIN jobs = JobSlots
  BY DEF Grow, Serves, Between, PInv, ImageInv, SInv, HeapInv, JobsOK
<1> DEFINE h == nt_malloc(heap)
<1>2. PICK j \in JobSlots :
          /\ jobs[j] # NoJob
          /\ \/ /\ heap' = nt_free(h, jobs[j].content)
                /\ jobs' = [jobs EXCEPT ![j].content = h.ptr]
             \/ /\ heap' = nt_free(h, jobs[j].calls)
                /\ jobs' = [jobs EXCEPT ![j].calls = h.ptr]
  BY DEF Grow, Leave
<1>3. jobs[j] \in JobRecords(heap) /\ Owned(heap, Pointers)
  BY <1>1, <1>2 DEF PInv, OwnedInv, ImageInv, SInv, HeapInv, JobsOK
<1> DEFINE R == Others(j)
           S == JobParts(j, jobs[j])
<1>4. Owned(heap, R \cup S)
  BY <1>2, <1>3, OthersApart
<1>5. /\ \A a \in R \cup S : a[1] # "new"
      /\ \A k \in JobKinds, p \in Blocks \cup {Null} : <<k, j, p>> \notin R
  <2>1. \A a \in S : a[1] # "new"
    BY DEF JobParts
  <2>2. \A a \in R : a[1] # "new" /\ (a[1] \in JobKinds => a[2] # j)
    BY OthersApart
  <2>3. \A k, p : <<k, j, p>>[1] = k /\ <<k, j, p>>[2] = j
    OBVIOUS
  <2> HIDE DEF R, S
  <2> QED BY <2>1, <2>2, <2>3
<1>6. /\ jobs[j].content \in Blocks \cup {Null} /\ jobs[j].calls \in Blocks \cup {Null}
      /\ "content" \in JobKinds /\ "calls" \in JobKinds
  BY <1>3 DEF JobRecords, Given, JobKinds
<1>7. S = {<<"job", j, jobs[j].job>>, <<"Stack", j, jobs[j].Stack>>,
           <<"CallStack", j, jobs[j].CallStack>>, <<"content", j, jobs[j].content>>,
           <<"calls", j, jobs[j].calls>>}
  BY DEF JobParts
<1>8. CASE /\ heap' = nt_free(h, jobs[j].content)
           /\ jobs' = [jobs EXCEPT ![j].content = h.ptr]
  <2> DEFINE r == [jobs[j] EXCEPT !.content = h.ptr]
             a == <<"content", j, jobs[j].content>>
             e == <<"content", j, h.ptr>>
  <2>1. jobs' = [jobs EXCEPT ![j] = r]
    BY <1>1, <1>8
  <2>2. /\ r # NoJob /\ r.content = h.ptr /\ r.job = jobs[j].job /\ r.Stack = jobs[j].Stack
        /\ r.CallStack = jobs[j].CallStack /\ r.calls = jobs[j].calls
    <3> HIDE DEF h
    <3> QED BY <1>3 DEF JobRecords, NoJob
  <2>3. Pointers' = R \cup JobParts(j, r)
    <3> HIDE DEF r
    <3> QED BY <1>1, <2>1, <2>2, OthersStay
  <2>4. JobParts(j, r) = (S \ {a}) \cup {e}
    <3> DEFINE b == <<"job", j, jobs[j].job>>
               c == <<"Stack", j, jobs[j].Stack>>
               d == <<"CallStack", j, jobs[j].CallStack>>
               f == <<"calls", j, jobs[j].calls>>
    <3>1. JobParts(j, r) = {b, c, d, e, f} /\ S = {a, b, c, d, f}
      <4> HIDE DEF h, r
      <4> QED BY <2>2 DEF JobParts
    <3>2. a # b /\ a # c /\ a # d /\ a # f
      OBVIOUS
    <3> HIDE DEF a, b, c, d, e, f, S, r
    <3> QED BY <3>1, <3>2
  <2>5. Owned(heap', R \cup (S \ {a}) \cup {e})
    <3>1. a \in S /\ a \notin R
      BY <1>5, <1>6, <1>7
    <3> HIDE DEF R, S
    <3> QED BY <1>4, <1>5, <1>8, <3>1, OwnedReplaced
  <2> HIDE DEF R, S, a, e, r
  <2> QED BY <2>3, <2>4, <2>5 DEF OwnedInv
<1>9. CASE /\ heap' = nt_free(h, jobs[j].calls)
           /\ jobs' = [jobs EXCEPT ![j].calls = h.ptr]
  <2> DEFINE r == [jobs[j] EXCEPT !.calls = h.ptr]
             a == <<"calls", j, jobs[j].calls>>
             e == <<"calls", j, h.ptr>>
  <2>1. jobs' = [jobs EXCEPT ![j] = r]
    BY <1>1, <1>9
  <2>2. /\ r # NoJob /\ r.calls = h.ptr /\ r.job = jobs[j].job /\ r.Stack = jobs[j].Stack
        /\ r.CallStack = jobs[j].CallStack /\ r.content = jobs[j].content
    <3> HIDE DEF h
    <3> QED BY <1>3 DEF JobRecords, NoJob
  <2>3. Pointers' = R \cup JobParts(j, r)
    <3> HIDE DEF r
    <3> QED BY <1>1, <2>1, <2>2, OthersStay
  <2>4. JobParts(j, r) = (S \ {a}) \cup {e}
    <3> DEFINE b == <<"job", j, jobs[j].job>>
               c == <<"Stack", j, jobs[j].Stack>>
               d == <<"CallStack", j, jobs[j].CallStack>>
               f == <<"content", j, jobs[j].content>>
    <3>1. JobParts(j, r) = {b, c, d, e, f} /\ S = {a, b, c, d, f}
      <4> HIDE DEF h, r
      <4> QED BY <2>2 DEF JobParts
    <3>2. a # b /\ a # c /\ a # d /\ a # f
      OBVIOUS
    <3> HIDE DEF a, b, c, d, e, f, S, r
    <3> QED BY <3>1, <3>2
  <2>5. Owned(heap', R \cup (S \ {a}) \cup {e})
    <3>1. a \in S /\ a \notin R
      BY <1>5, <1>6, <1>7
    <3> HIDE DEF R, S
    <3> QED BY <1>4, <1>5, <1>9, <3>1, OwnedReplaced
  <2> HIDE DEF R, S, a, e, r
  <2> QED BY <2>3, <2>4, <2>5 DEF OwnedInv
<1> HIDE DEF h
<1> QED BY <1>2, <1>8, <1>9

\* r3x_exit_job: the five blocks are freed
LEMMA OwnedExit ==
    ASSUME PInv, ExitJob
    PROVE  OwnedInv'
<1>1. ended = "no" /\ UNCHANGED <<streams, libs, natives, memory>> /\ DOMAIN jobs = JobSlots
  BY DEF ExitJob, Between, PInv, ImageInv, SInv, HeapInv, JobsOK
<1>2. PICK j \in JobSlots :
        LET h1 == DestroyStack(heap, jobs[j].content, jobs[j].Stack)
            h2 == DestroyStack(h1, jobs[j].calls, jobs[j].CallStack)
        IN /\ jobs[j] # NoJob
           /\ Leave(nt_free(h2, jobs[j].job))
           /\ jobs' = [jobs EXCEPT ![j] = NoJob]
  BY DEF ExitJob
<1> DEFINE a == nt_free(heap, jobs[j].content)
           b == nt_free(a, jobs[j].Stack)
           c == nt_free(b, jobs[j].calls)
           d == nt_free(c, jobs[j].CallStack)
           e == nt_free(d, jobs[j].job)
           R == Others(j)
           content == <<"content", j, jobs[j].content>>
           stack == <<"Stack", j, jobs[j].Stack>>
           calls == <<"calls", j, jobs[j].calls>>
           callstack == <<"CallStack", j, jobs[j].CallStack>>
           job == <<"job", j, jobs[j].job>>
           P1 == Pointers \ {content}
           P2 == P1 \ {stack}
           P3 == P2 \ {calls}
           P4 == P3 \ {callstack}
           P5 == P4 \ {job}
<1>3. heap' = e /\ jobs[j] # NoJob /\ jobs' = [jobs EXCEPT ![j] = NoJob]
  BY <1>2 DEF DestroyStack, Leave
<1>4. Pointers = R \cup {job, stack, callstack, content, calls}
  BY <1>3, OthersApart DEF JobParts
<1>5. /\ content # stack /\ content # calls /\ content # callstack /\ content # job
      /\ stack # calls /\ stack # callstack /\ stack # job
      /\ calls # callstack /\ calls # job /\ callstack # job
  OBVIOUS
<1>6. content \notin R /\ stack \notin R /\ calls \notin R /\ callstack \notin R /\ job \notin R
  <2>1. /\ content[1] \in JobKinds /\ content[2] = j /\ stack[1] \in JobKinds /\ stack[2] = j
        /\ calls[1] \in JobKinds /\ calls[2] = j /\ callstack[1] \in JobKinds
        /\ callstack[2] = j /\ job[1] \in JobKinds /\ job[2] = j
    BY DEF JobKinds
  <2>2. \A x \in R : x[1] \in JobKinds => x[2] # j
    BY OthersApart
  <2> HIDE DEF content, stack, calls, callstack, job, R
  <2> QED BY <2>1, <2>2
<1>7. Owned(a, P1)
  <2>1. Owned(heap, Pointers) /\ content \in Pointers
    BY <1>1, <1>4 DEF PInv, OwnedInv
  <2> QED BY <2>1, OwnedFree
<1>8. stack \in P1 /\ calls \in P2 /\ callstack \in P3 /\ job \in P4 /\ P5 = R
  <2> HIDE DEF content, stack, calls, callstack, job, R
  <2> QED BY <1>4, <1>5, <1>6
<1>9. Owned(b, P2)
  <2> HIDE DEF a, P1
  <2> QED BY <1>7, <1>8, OwnedFree
<1>10. Owned(c, P3)
  <2> HIDE DEF b, P2
  <2> QED BY <1>8, <1>9, OwnedFree
<1>11. Owned(d, P4)
  <2> HIDE DEF c, P3
  <2> QED BY <1>8, <1>10, OwnedFree
<1>12. Owned(e, P5)
  <2> HIDE DEF d, P4
  <2> QED BY <1>8, <1>11, OwnedFree
<1>13. Pointers' = R
  BY <1>1, <1>3, OthersStay
<1> HIDE DEF e, P5, R
<1> QED BY <1>3, <1>8, <1>12, <1>13 DEF OwnedInv

\* The blocks of main()
LEMMA InitOwned == Init => PInv
<1> SUFFICES ASSUME Init PROVE PInv
  OBVIOUS
<1>1. PICK beyond \in {Null, Junk} :
        LET h1 == nt_malloc(nt_malloc_init(beyond))
            h2 == nt_malloc(h1)
            h3 == nt_malloc(h2)
            h4 == nt_malloc(h3)
            h5 == nt_malloc(h4)
        IN /\ heap = h5
           /\ libs = [table |-> h1.ptr, total |-> LibSlots, used |-> 0,
                      slot |-> [i \in 0 .. LibSlots - 1 |-> Null]]
           /\ streams = [table |-> h2.ptr, total |-> StreamStep, used |-> 0,
                         slot |-> [i \in 0 .. StreamStep - 1 |-> Null]]
           /\ memory = [block |-> h3.ptr, actual |-> 1, size |-> 1, root |-> h4.ptr,
                        pages |-> h5.ptr, areas |-> {}]
  BY DEF Init
<1> DEFINE h0 == nt_malloc_init(beyond)
           h1 == nt_malloc(h0)
           h2 == nt_malloc(h1)
           h3 == nt_malloc(h2)
           h4 == nt_malloc(h3)
           h5 == nt_malloc(h4)
           P1 == {} \cup {<<"libs", 0, h1.ptr>>}
           P2 == P1 \cup {<<"streams", 0, h2.ptr>>}
           P3 == P2 \cup {<<"block", 0, h3.ptr>>}
           P4 == P3 \cup {<<"root", 0, h4.ptr>>}
           P5 == P4 \cup {<<"pages", 0, h5.ptr>>}
<1>2. Owned(h0, {})
  <2>1. Sound(h0)
    BY FirstHeap
  <2>2. h0.sz = HeapStep - 1
        /\ h0.slot = [i \in 0 .. HeapStep - 1 |-> IF i < HeapStep - 1 THEN Null ELSE beyond]
    BY DEF nt_malloc_init
  <2>3. \A i \in Entries(h0) : h0.slot[i] = Null
    <3> HIDE DEF h0
    <3> QED BY <2>2, HeapAssumption DEF Entries
  <2>4. Registered(h0) = {}
    <3> HIDE DEF h0
    <3> QED BY <2>3 DEF Registered
  <2> HIDE DEF h0
  <2> QED BY <2>1, <2>4 DEF Owned
<1>3. Owned(h1, P1)
  <2> HIDE DEF h0
  <2> QED BY <1>2, OwnedMalloc
<1>4. Owned(h2, P2)
  <2> HIDE DEF h1, P1
  <2> QED BY <1>3, OwnedMalloc
<1>5. Owned(h3, P3)
  <2> HIDE DEF h2, P2
  <2> QED BY <1>4, OwnedMalloc
<1>6. Owned(h4, P4)
  <2> HIDE DEF h3, P3
  <2> QED BY <1>5, OwnedMalloc
<1>7. Owned(h5, P5)
  <2> HIDE DEF h4, P4
  <2> QED BY <1>6, OwnedMalloc
<1>8. heap = h5
  BY <1>1
<1>9. TablePointers = {<<"libs", 0, h1.ptr>>, <<"streams", 0, h2.ptr>>}
  <2>1. libs.table = h1.ptr /\ streams.table = h2.ptr
    BY <1>1
  <2> HIDE DEF h1, h2
  <2> QED BY <2>1 DEF TablePointers
<1>10. MemoryPointers(memory) = {<<"block", 0, h3.ptr>>, <<"root", 0, h4.ptr>>,
                                 <<"pages", 0, h5.ptr>>}
  <2>1. memory.block = h3.ptr /\ memory.root = h4.ptr /\ memory.pages = h5.ptr
    BY <1>1
  <2> HIDE DEF h3, h4, h5
  <2> QED BY <2>1 DEF MemoryPointers
<1>11. LibPointers = {}
  <2>1. libs.slot = [i \in 0 .. LibSlots - 1 |-> Null]
    BY <1>1
  <2> QED BY <2>1 DEF LibPointers
<1>12. NativePointers = {} /\ JobPointers = {} /\ NativesOK
  <2>1. natives = <<>> /\ jobs = [j \in JobSlots |-> NoJob]
    BY DEF Init
  <2> QED BY <2>1 DEF NativePointers, EntryPointers, PathPointers, JobPointers, NativesOK
<1>13. Pointers = P5
  <2> HIDE DEF h1, h2, h3, h4, h5
  <2> QED BY <1>9, <1>10, <1>11, <1>12 DEF Pointers
<1> HIDE DEF h5, P5
<1> QED BY <1>7, <1>8, <1>12, <1>13, InitImages DEF PInv, OwnedInv

\* Every step keeps the owners and the registry together
LEMMA OwnedKept == PInv /\ [Next]_vars => PInv'
<1> SUFFICES ASSUME PInv, [Next]_vars PROVE PInv'
  OBVIOUS
<1>1. ImageInv'
  BY ImagesKept DEF PInv
<1>2. CASE LoadLib
  BY <1>1, <1>2, OwnedLoadLib DEF PInv
<1>3. CASE ~LoadLib
  <2>1. NativesOK'
    <3>1. UNCHANGED natives
      BY <1>3 DEF Next, vars, machine, OpenStream, CloseStream, Alloc, LoadDynamic, CallDynamic,
                  LibExec, Dispatch, Grow, ExitJob, Event, ThreadStep, GetC, KeyboardUnchanged
    <3> QED BY <3>1 DEF PInv, NativesOK
  <2>2. CASE OpenStream \/ Alloc \/ LoadDynamic \/ Dispatch \/ Grow \/ ExitJob
    BY <1>1, <2>1, <2>2, OwnedOpen, OwnedAlloc, OwnedLoad, OwnedDispatch, OwnedGrow,
       OwnedExit DEF PInv
  <2>3. CASE CloseStream
    <3>1. UNCHANGED <<heap, libs, natives, jobs, memory>> /\ ended = "no"
          /\ streams'.table = streams.table
      BY <2>3 DEF CloseStream, Serves, Between, PInv, ImageInv, SInv, StreamsOK, StreamTables
    <3> QED BY <1>1, <2>1, <3>1, OwnedStays DEF PInv
  <2>4. CASE CallDynamic \/ LibExec \/ Event \/ ThreadStep \/ GetC \/ UNCHANGED vars
    <3>1. UNCHANGED <<heap, libs, natives, jobs, memory, streams>>
          /\ (ended' = "no" => ended = "no")
      BY <2>4 DEF CallDynamic, LibExec, Event, ThreadStep, GetC, KeyboardUnchanged, machine,
                  vars, Serves, Between
    <3>2. CASE ended = "no"
      BY <1>1, <2>1, <3>1, <3>2, OwnedStays DEF PInv
    <3>3. CASE ended # "no"
      BY <1>1, <2>1, <3>1, <3>3 DEF PInv, OwnedInv
    <3> QED BY <3>2, <3>3
  <2> QED BY <1>3, <2>2, <2>3, <2>4 DEF Next
<1> QED BY <1>2, <1>3

\* While the program runs, the blocks in use are the machine's pointers and the
\* paths that load_native_library has left: nothing is used after it was freed or
\* moved, and nothing else is left behind, in stream.c, dynamic.c, native.c, memory.c
\* and dispatcher.c over nt_malloc.c.
THEOREM ServicesPointers == Spec => []PointersOwned
<1>1. PInv => PointersOwned
  <2> SUFFICES ASSUME PInv, ended = "no"
               PROVE  Held \cup Left = Registered(heap) /\ Held \cap Left = {}
    BY DEF PointersOwned
  <2>1. /\ \A a, b \in Pointers : a[3] = b[3] => a = b
        /\ Registered(heap) = {a[3] : a \in Pointers}
    BY DEF PInv, OwnedInv, ImageInv, SInv, HeapInv, Owned
  <2>2. PathPointers \subseteq Pointers
    BY DEF Pointers, NativePointers
  <2>3. {a[3] : a \in Pointers}
          = {a[3] : a \in Pointers \ PathPointers} \cup {a[3] : a \in PathPointers}
    BY <2>2
  <2>4. ASSUME NEW p \in Held, p \in Left PROVE FALSE
    <3>1. PICK a \in Pointers \ PathPointers : p = a[3]
      BY PointersAreHeld
    <3>2. PICK b \in PathPointers : p = b[3]
      BY <2>4, PointersAreHeld
    <3> QED BY <2>1, <2>2, <3>1, <3>2
  <2> QED BY <2>1, <2>3, <2>4, PointersAreHeld
<1> QED BY <1>1, InitOwned, OwnedKept, PTL DEF Spec

-----------------------------------------------------------------------------
(* Types: what is left are the sizes and the bounds. *)

Limits ==
    /\ memory.size <= MaxPages /\ memory.size <= memory.actual
    /\ keys.pressed <= MaxKeys
    /\ ended \in {"no", "exit", "crash", "fault"}

\* The memory never has fewer pages than the machine thinks, growths that fail
\* half-way included
LEMMA LimitsKept ==
    ASSUME ImageInv, KeysInv, Limits, [Next]_vars
    PROVE  Limits'
<1>1. memory \in Memories(heap) /\ memory.size \in Nat \ {0} /\ Sound(heap)
  BY DEF ImageInv, SInv, HeapInv, AreasOK
<1>2. keys'.pressed <= MaxKeys
  <2>1. CASE Event
    <3>1. \/ keys.pressed < MaxKeys /\ keys'.pressed = keys.pressed + 1
          \/ keys'.pressed = keys.pressed
      <4>1. \/ /\ keys.pressed < MaxKeys
               /\ keys' = [keys EXCEPT !.pressed = @ + 1, !.event = keys.pressed + 1,
                                       !.thread = "check"]
            \/ keys' = [keys EXCEPT !.thread = "after"]
        BY <2>1 DEF Event
      <4> QED BY <4>1 DEF KeysInv, KeysOK
    <3> QED BY <3>1, BoundsAssumption DEF Limits, KeysInv, KeysOK
  <2>2. CASE ThreadStep
    <3>1. keys'.pressed = keys.pressed
      BY <2>2 DEF ThreadStep, KeysInv, KeysOK, Threads
    <3> QED BY <3>1 DEF Limits
  <2>3. CASE GetC
    <3>1. keys'.pressed = keys.pressed
      BY <2>3 DEF GetC, KeysInv, KeysOK
    <3> QED BY <3>1 DEF Limits
  <2>4. CASE UNCHANGED keys
    BY <2>4 DEF Limits
  <2> QED
    BY <2>1, <2>2, <2>3, <2>4 DEF Next, vars, OpenStream, CloseStream, Alloc, LoadDynamic,
       CallDynamic, LoadLib, LibExec, Dispatch, Grow, ExitJob
<1>3. ended' \in {"no", "exit", "crash", "fault"}
  BY DEF Limits, Next, vars, OpenStream, OpenIn, CloseStream, Alloc, LoadDynamic, Placed, Leave,
         CallDynamic, LoadLib, Opened, LibExec, Dispatch, Grow, ExitJob, Event, ThreadStep, GetC,
         KeyboardUnchanged, Serves, Between
<1>4. memory'.size <= MaxPages /\ memory'.size <= memory'.actual
  <2>1. CASE Alloc
    <3>1. PICK n \in 1 .. MaxPages - memory.size :
            LET m == [memory EXCEPT !.size = @ + n, !.areas = @ \cup {<<memory.size, n>>}]
            IN memory' = Resized(heap, m, m.size)[2]
      BY <2>1 DEF Alloc
    <3> DEFINE size == memory.size + n
               areas == memory.areas \cup {<<memory.size, n>>}
               m == [memory EXCEPT !.size = size, !.areas = areas]
    <3>2. size \in Int /\ areas \in SUBSET (Int \X Int) /\ size <= MaxPages
      BY <1>1, BoundsAssumption DEF Memories
    <3>3. memory' = Resized(heap, m, m.size)[2]
      BY <1>1, <3>1 DEF Memories
    <3>4. m \in Memories(heap) /\ m.size = size
      <4> HIDE DEF size, areas
      <4> QED BY <1>1, <3>2 DEF Memories
    <3>5. memory'.size = size /\ memory'.actual = size
      <4> HIDE DEF m, size
      <4> QED BY <1>1, <3>2, <3>3, <3>4, ResizedSize, ResizedActual
    <3> QED BY <3>2, <3>5
  <2>2. CASE LoadDynamic
    <3>1. CASE UNCHANGED memory
      BY <3>1 DEF Limits
    <3>2. ASSUME NEW name \in Libraries, NEW n \in 1 .. MaxPages - memory.size,
                 LET temp == nt_malloc(heap)
                     r == Resized(temp, memory, memory.size + n)
                 IN Placed(nt_free(r[1], temp.ptr), r[2], name, n)
          PROVE  memory'.size <= MaxPages /\ memory'.size <= memory'.actual
      <4> DEFINE temp == nt_malloc(heap)
                 size == memory.size + n
                 r == Resized(temp, memory, size)
                 m == r[2]
      <4>1. Sound(temp) /\ memory \in Memories(temp)
        <5>1. Sound(temp) /\ (~temp.gone => ~heap.gone)
          BY <1>1, MallocHeld
        <5> HIDE DEF temp
        <5> QED BY <1>1, <5>1, HeldGrows
      <4>2. size \in Int /\ size <= MaxPages /\ memory.size <= size
        BY <1>1, BoundsAssumption
      <4>3. /\ m.size = memory.size /\ m.actual = size /\ m \in Memories(r[1])
        <5> HIDE DEF temp, size
        <5>1. m.size = memory.size
          BY <4>1, <4>2, ResizedSize
        <5>2. m.actual = size
          BY <4>1, <4>2, ResizedActual
        <5>3. m \in Memories(r[1])
          BY <4>1, <4>2, ResizedIsSound
        <5> QED BY <5>1, <5>2, <5>3
      <4>4. \/ memory' = m
            \/ memory' = [m EXCEPT !.size = @ + n, !.areas = @ \cup {<<m.size, n>>}]
        <5> HIDE DEF m, temp, r
        <5> QED BY <3>2 DEF Placed, m, temp, r
      <4>5. memory'.actual = size /\ memory'.size \in {memory.size, size}
        <5> HIDE DEF m, r
        <5> QED BY <4>3, <4>4 DEF Memories
      <4> HIDE DEF size
      <4> QED BY <1>1, <4>2, <4>5, BoundsAssumption
    <3> QED BY <2>2, <3>1, <3>2 DEF LoadDynamic
  <2>3. CASE ~(Alloc \/ LoadDynamic)
    <3>1. UNCHANGED memory
      BY <2>3 DEF Next, vars, machine, OpenStream, CloseStream, CallDynamic, LoadLib, LibExec,
                  Dispatch, Grow, ExitJob, Event, ThreadStep, GetC, KeyboardUnchanged
    <3> QED BY <3>1 DEF Limits
  <2> QED BY <2>1, <2>2, <2>3
<1> QED BY <1>2, <1>3, <1>4 DEF Limits

LEMMA InitLimits == Init => Limits
<1>1. Init => /\ memory.size = 1 /\ memory.actual = 1 /\ keys.pressed = 0
              /\ ended \in {"no", "exit"}
  BY DEF Init
<1> QED BY <1>1, BoundsAssumption DEF Limits

\* The registry, the tables, the memory and the keyboard have the shapes of the
\* structures in nt_malloc.c, stream.c, dynamic.c, memory.c and cpu.c; the memory is
\* never smaller than the machine's size.
THEOREM ServicesTypes == Spec => []TypeOK
<1>1. ImageInv /\ KeysInv /\ Limits => TypeOK
  <2> SUFFICES ASSUME ImageInv, KeysInv, Limits PROVE TypeOK
    OBVIOUS
  <2>1. heap.slot \in [0 .. heap.sz -> Blocks \cup {Null, Junk}]
        /\ heap.sz \in Nat /\ heap.allocs \in Int
    BY DEF ImageInv, SInv, HeapInv, Sound, Heaps, Cells
  <2>2. DOMAIN streams.slot = 0 .. streams.total - 1 /\ DOMAIN libs.slot = 0 .. libs.total - 1
    BY DEF ImageInv, SInv, StreamsOK, LibsOK
  <2>3. memory.size \in 1 .. MaxPages /\ memory.size <= memory.actual
    BY BoundsAssumption DEF ImageInv, AreasOK, Limits
  <2>4. keys.is_read \in BOOLEAN /\ keys.keycode \in 0 .. MaxKeys
    BY BoundsAssumption DEF KeysInv, KeysOK, Older, Limits
  <2> QED BY <2>1, <2>2, <2>3, <2>4 DEF TypeOK, Limits
<1>2. ImageInv /\ KeysInv /\ Limits /\ [Next]_vars => (ImageInv /\ KeysInv /\ Limits)'
  BY ImagesKept, KeysKept, LimitsKept
<1> QED BY <1>1, <1>2, InitImages, InitKeys, InitLimits, PTL DEF Spec
=============================================================================
