---------------------------- MODULE PagesProofs ----------------------------
(***************************************************************************)
(* The attributes of pages, for every size of the address space and every  *)
(* set of libraries.  The inductive invariant is the conjunction of the    *)
(* three invariants the runs check: an old page keeps its attribute only   *)
(* because the table has an entry for it (LookupsFit), and a page matches  *)
(* its use only because no later mapping starts below the end of memory.   *)
(* A table with no entries is the exception in all three: a step that      *)
(* makes one loses every page of memory, and a step that makes another     *)
(* starts from pages that are all lost or all in the old table.            *)
(***************************************************************************)
EXTENDS Pages, TLAPS

Inv == TypeOK /\ UseMatches /\ LookupsFit

-----------------------------------------------------------------------------
(* The size of a table.                                                     *)

LEMMA Wrapped ==
    ASSUME NEW m \in Nat
    PROVE  /\ NumberOfPages(m) \in Nat
           /\ m < PageSpace - 1 => NumberOfPages(m) = m + 1
           /\ m = PageSpace - 1 => NumberOfPages(m) = 0
BY ProgramAssumption DEF NumberOfPages, ProgramEnd, DataPage, TextPage

-----------------------------------------------------------------------------
(* MemoryMap.                                                               *)

\* A table stays a table
LEMMA MappedType ==
    ASSUME NEW n \in Nat, NEW t \in [0 .. n - 1 -> Kinds], NEW kind \in Kinds,
           NEW start \in Nat, NEW end \in Nat
    PROVE  Mapped(t, n, kind, start, end) \in [0 .. n - 1 -> Kinds]
BY DEF Mapped

LEMMA RebuiltType ==
    ASSUME NEW n \in Nat, NEW t \in [0 .. n - 1 -> Kinds], NEW m \in Nat
    PROVE  Rebuilt(t, m) \in [0 .. NumberOfPages(m) - 1 -> Kinds]
<1>1. NumberOfPages(m) \in Nat
    BY Wrapped
<1> QED BY <1>1 DEF Rebuilt, Entries, Kinds

\* The pages of start .. end - 1 are among the ones MemoryMap reaches, and how
\* many it reaches
LEMMA Reach ==
    ASSUME NEW start \in Nat \ {0}, NEW end \in Nat, start < end, end < PageSpace
    PROVE  /\ PagesToMap(start, end) = IF end = start + 1 THEN 1 ELSE end + 1 - start
           /\ start .. end - 1 \subseteq ToMap(start, end)
<1>1. (end - start) % PageSpace = end - start
    BY ProgramAssumption DEF ProgramEnd, DataPage, TextPage
<1>2. CASE end = start + 1
    BY <1>1, <1>2 DEF PagesToMap, ToMap
<1>3. CASE end # start + 1
    <2>1. (end + 1 - start) % PageSpace = end + 1 - start
        BY ProgramAssumption DEF ProgramEnd, DataPage, TextPage
    <2>2. end - start # 1
        BY <1>3
    <2>3. PagesToMap(start, end) = end + 1 - start
        BY <1>1, <2>1, <2>2 DEF PagesToMap
    <2> QED BY <1>3, <2>3 DEF ToMap
<1> QED BY <1>2, <1>3

\* Pages below the first one to be mapped are left alone
LEMMA MappedBelow ==
    ASSUME NEW n \in Nat, NEW t, NEW kind, NEW start \in Nat, NEW end,
           NEW p \in 0 .. n - 1, p < start
    PROVE  Mapped(t, n, kind, start, end)[p] = t[p]
BY DEF Mapped, ToMap

\* When they are in the table, the pages asked for get the attribute
LEMMA MappedInside ==
    ASSUME NEW n \in Nat, NEW t, NEW kind, NEW start \in Nat \ {0}, NEW end \in Nat,
           start < end, end < PageSpace, end < n, NEW p \in start .. end - 1
    PROVE  Mapped(t, n, kind, start, end)[p] = kind
<1>1. ~Refused(n, start, end)
    BY Reach DEF Refused
<1>2. p \in ToMap(start, end)
    BY Reach
<1>3. p \in 0 .. n - 1
    OBVIOUS
<1> QED BY <1>1, <1>2, <1>3 DEF Mapped

-----------------------------------------------------------------------------
(* The initial table.                                                       *)

LEMMA Layout ==
    /\ HeaderPage \in Nat /\ TextPage \in Nat /\ DataPage \in Nat
    /\ ProgramEnd \in Nat /\ PageSpace \in Nat
    /\ ProgramText \in Nat \ {0} /\ ProgramData \in Nat \ {0}
    /\ HeaderPage > 2
    /\ TextPage = HeaderPage + 2
    /\ DataPage = TextPage + ProgramText + 1
    /\ ProgramEnd = DataPage + ProgramData + 1
    /\ PageSpace > ProgramEnd + 1
BY ProgramAssumption DEF ProgramEnd, DataPage, TextPage

LEMMA InitInv == Init => Inv
<1> SUFFICES ASSUME Init PROVE Inv
    OBVIOUS
<1> USE Layout
<1> DEFINE n == NumberOfPages(ProgramEnd)
           t1 == Mapped(Built(ProgramEnd), n, "exec", 0, 1)
           t2 == Mapped(t1, n, "rw", 1, 1)
           t3 == Mapped(t2, n, "exec", TextPage, TextPage + ProgramText)
           t4 == Mapped(t3, n, "rw", DataPage, DataPage + ProgramData)
           t5 == Mapped(t4, n, "rw", DataPage + ProgramData,
                                     DataPage + ProgramData + 1)
           t6 == Mapped(t5, n, "ronly", HeaderPage, HeaderPage + 1)
<1>0. table = t6 /\ blocks = n
    BY DEF Init, InitialTable
<1>1. n \in Nat /\ n = ProgramEnd + 1
    BY Wrapped
<1> HIDE DEF n, t1, t2, t3, t4, t5, t6
<1>2. Built(ProgramEnd) \in [0 .. n - 1 -> Kinds]
    BY DEF Built, Entries, Kinds, n
<1> DEFINE Table == [0 .. n - 1 -> Kinds]
<1> HIDE DEF Table
<1>3. ASSUME NEW t \in Table, NEW kind \in Kinds, NEW start \in Nat, NEW end \in Nat
      PROVE  Mapped(t, n, kind, start, end) \in Table
    BY <1>1, <1>3, MappedType DEF Table
<1>4. t1 \in Table
    BY <1>2, <1>3 DEF t1, Kinds, Table
<1>5. t2 \in Table
    BY <1>3, <1>4 DEF t2, Kinds
<1>6. t3 \in Table
    BY <1>3, <1>5 DEF t3, Kinds
<1>7. t4 \in Table
    BY <1>3, <1>6 DEF t4, Kinds
<1>8. t5 \in Table
    BY <1>3, <1>7 DEF t5, Kinds
<1>9. t6 \in Table
    BY <1>3, <1>8 DEF t6, Kinds
<1>10. TypeOK
    <2>1. use \in [0 .. memory - 1 -> {"code", "data", "other"}]
        BY DEF Init, InitialUse
    <2>2. table \in [0 .. blocks - 1 -> Kinds] /\ blocks \in Nat
        BY <1>0, <1>1, <1>9 DEF Table
    <2>3. memory \in 1 .. PageSpace - 1
        BY DEF Init
    <2>4. lost \in 0 .. memory
        <3>1. lost = 0 /\ memory = ProgramEnd
            BY DEF Init
        <3> QED BY <3>1
    <2> QED BY <2>1, <2>2, <2>3, <2>4 DEF Init, TypeOK
<1>11. LookupsFit
    BY <1>0, <1>1 DEF Init, LookupsFit
<1>12. ToMap(HeaderPage, HeaderPage + 1) = HeaderPage .. HeaderPage + 1
    BY Reach DEF ToMap
<1>13. /\ PagesToMap(0, 1) = 1 /\ ToMap(0, 1) = 0 .. 1
       /\ PagesToMap(1, 1) = 1 /\ ToMap(1, 1) = 1 .. 2
    <2>1. 1 % PageSpace = 1 /\ 0 % PageSpace = 0
        OBVIOUS
    <2>2. PagesToMap(0, 1) = 1 /\ PagesToMap(1, 1) = 1
        BY <2>1 DEF PagesToMap
    <2> QED BY <2>2 DEF ToMap
<1>14. ASSUME NEW p \in 0 .. ProgramEnd - 1
       PROVE  p \in 0 .. n - 1
    BY <1>1
<1>15. ASSUME NEW p \in 0 .. ProgramEnd - 1, p \notin HeaderPage .. HeaderPage + 1
       PROVE  table[p] = t5[p]
    BY <1>0, <1>12, <1>14, <1>15 DEF Mapped, t6
<1>16. ASSUME NEW p \in 0 .. ProgramEnd - 1, p < DataPage + ProgramData
       PROVE  t5[p] = t4[p]
    <2>1. DataPage + ProgramData \in Nat /\ p \in 0 .. n - 1
        BY <1>14
    <2> QED BY <1>1, <1>16, <2>1, MappedBelow DEF t5
<1>17. ASSUME NEW p \in 0 .. ProgramEnd - 1, p < DataPage
       PROVE  t4[p] = t3[p]
    BY <1>1, <1>14, <1>17, MappedBelow DEF t4
<1>18. ASSUME NEW p \in 0 .. ProgramEnd - 1, p < TextPage
       PROVE  t3[p] = t2[p]
    BY <1>1, <1>14, <1>18, MappedBelow DEF t3
<1>19. table[0] = "exec"
    <2>1. ~Refused(n, 0, 1)
        BY <1>1, <1>13 DEF Refused
    <2>2. t1[0] = "exec"
        BY <1>1, <1>13, <2>1 DEF Mapped, t1
    <2>3. t2[0] = t1[0]
        BY <1>1, MappedBelow DEF t2
    <2> QED BY <1>15, <1>16, <1>17, <1>18, <2>2, <2>3
<1>20. table[1] = "rw"
    <2>1. ~Refused(n, 1, 1)
        BY <1>1, <1>13 DEF Refused
    <2>2. t2[1] = "rw"
        BY <1>1, <1>13, <2>1 DEF Mapped, t2
    <2> QED BY <1>15, <1>16, <1>17, <1>18, <2>2
<1>21. ASSUME NEW p \in TextPage .. TextPage + ProgramText - 1
       PROVE  table[p] = "exec"
    <2>1. t3[p] = "exec"
        BY <1>1, MappedInside DEF t3
    <2> QED BY <1>15, <1>16, <1>17, <2>1
<1>22. ASSUME NEW p \in DataPage .. DataPage + ProgramData - 1
       PROVE  table[p] = "rw"
    <2>1. t4[p] = "rw"
        BY <1>1, MappedInside DEF t4
    <2> QED BY <1>15, <1>16, <2>1
<1>23. UseMatches
    BY <1>19, <1>20, <1>21, <1>22 DEF UseMatches, Init, InitialUse
<1> QED BY <1>10, <1>11, <1>23 DEF Inv

-----------------------------------------------------------------------------
(* The steps.                                                               *)

\* In a table rebuilt for m pages, which has entries, the pages that stay in
\* memory and are not lost have the attributes they had
LEMMA OldPages ==
    ASSUME Inv, NEW m \in Nat, m < PageSpace - 1,
           NEW p \in lost .. memory - 1, p < m
    PROVE  /\ p \in 0 .. NumberOfPages(m) - 1
           /\ Rebuilt(table, m)[p] = table[p]
<1>1. /\ memory \in Nat /\ lost \in Nat /\ blocks \in Nat
      /\ table \in [0 .. blocks - 1 -> Kinds]
    BY Layout DEF Inv, TypeOK
<1>2. memory < blocks
    BY <1>1 DEF Inv, LookupsFit
<1>3. NumberOfPages(m) = m + 1
    BY Wrapped
<1> QED BY <1>1, <1>2, <1>3 DEF Rebuilt, Entries

\* What the steps that make a table have in common: the old pages are as they
\* were and the new ones match their use, or there are no pages but lost ones
LEMMA Extended ==
    ASSUME Inv, memory' \in 1 .. PageSpace - 1, blocks' \in Nat,
           lost' = LostIn(memory', blocks'),
           blocks' # 0 => memory' < blocks',
           table' \in [0 .. blocks' - 1 -> Kinds],
           loaded' \subseteq Libraries, alive' \in BOOLEAN, past' \in BOOLEAN,
           use' \in [0 .. memory' - 1 -> {"code", "data", "other"}],
           \A p \in lost' .. memory - 1 :
              p < memory' => table'[p] = table[p] /\ use'[p] = use[p],
           blocks' # 0 =>
              \A p \in memory .. memory' - 1 :
                 /\ use'[p] = "code" => table'[p] = "exec"
                 /\ use'[p] = "data" => table'[p] = "rw"
    PROVE  Inv'
<1> USE Layout
<1>1. /\ memory \in Nat /\ memory' \in Nat /\ lost \in 0 .. memory
      /\ use \in [0 .. memory - 1 -> {"code", "data", "other"}]
    BY DEF Inv, TypeOK
<1>2. /\ lost' \in Nat /\ lost' \in 0 .. memory'
      /\ lost' = memory' \/ (lost' = lost /\ blocks' # 0)
    <2>1. lost' = IF blocks' = 0 \/ memory' < lost THEN memory' ELSE lost
        BY DEF LostIn
    <2> QED BY ONLY <1>1, <2>1
<1>3. TypeOK'
    BY <1>2 DEF TypeOK
<1>4. LookupsFit'
    BY <1>1, <1>2 DEF LookupsFit, LostIn
<1>5. ASSUME NEW q \in lost' .. memory' - 1
      PROVE  /\ use'[q] = "code" => table'[q] = "exec"
             /\ use'[q] = "data" => table'[q] = "rw"
    <2>0. q \in lost' .. memory' - 1
        OBVIOUS
    <2>1. /\ q \in Nat /\ q < memory' /\ lost' <= q
          /\ lost' = lost /\ blocks' # 0
        <3> DEFINE l == lost'  m == memory'
        <3>1. l \in Nat /\ m \in Nat /\ q \in l .. m - 1
            BY <1>1, <1>2, <2>0
        <3> HIDE DEF l, m
        <3>2. q \in Nat /\ q < m /\ l <= q /\ l # m
            BY ONLY <3>1
        <3> QED BY <1>2, <3>2 DEF l, m
    <2>2. CASE q < memory
        <3>1. q \in lost .. memory - 1 /\ q \in lost' .. memory - 1
            BY <1>1, <2>1, <2>2
        <3>2. table'[q] = table[q] /\ use'[q] = use[q]
            BY <2>1, <3>1
        <3> QED BY <3>1, <3>2 DEF Inv, UseMatches
    <2>3. CASE q >= memory
        <3>1. q \in memory .. memory' - 1
            <4> DEFINE m == memory'
            <4>1. m \in Nat /\ q \in Nat /\ q < m /\ memory \in Nat /\ memory <= q
                BY <1>1, <2>1, <2>3
            <4> HIDE DEF m
            <4>2. q \in memory .. m - 1
                BY ONLY <4>1
            <4> QED BY <4>2 DEF m
        <3>2. /\ use'[q] = "code" => table'[q] = "exec"
              /\ use'[q] = "data" => table'[q] = "rw"
            BY <2>1, <3>1, Zenon
        <3> QED BY <3>2
    <2>4. q < memory \/ q >= memory
        BY ONLY <1>1, <2>1
    <2> QED BY ONLY <2>2, <2>3, <2>4
<1>6. UseMatches'
    BY <1>5 DEF UseMatches
<1> QED BY <1>3, <1>4, <1>6 DEF Inv

\* The old pages that are not lost, in every step
Kept == \A p \in lost' .. memory - 1 : p < memory' => table'[p] = table[p]

\* Where pages are kept at all, the new table has entries
LEMMA NotLost ==
    ASSUME Inv, NEW m \in 1 .. PageSpace - 1, NEW n, lost' = LostIn(m, n),
           NEW p \in lost' .. memory - 1, p < m
    PROVE  n # 0 /\ p \in lost .. memory - 1
BY Layout DEF Inv, TypeOK, LostIn

LEMMA AllocStep ==
    ASSUME Inv, NEW r \in 0 .. PageSpace - 1, Alloc(r)
    PROVE  Inv' /\ Kept
<1> DEFINE k == (r + 1) % PageSpace
           m == Enlarged(k)
           u == [p \in memory .. m - 1 |-> "data"]
<1>1. k \in 0 .. PageSpace - 1
    BY Layout
<1>2. m \in 1 .. PageSpace - 1 /\ memory' = m
    BY <1>1, Layout DEF Alloc, Enlarged, Inv, TypeOK
<1>3. /\ blocks' = NumberOfPages(m)
      /\ table' = Mapped(Rebuilt(table, m), blocks', "rw", memory, m)
      /\ use' = Uses(m, u)
      /\ lost' = LostIn(m, blocks')
      /\ UNCHANGED <<loaded, alive>>
      /\ past' \in BOOLEAN
    BY DEF Alloc, Inv, TypeOK
<1> HIDE DEF k, m
<1>4. /\ blocks' \in Nat
      /\ blocks' # 0 => blocks' = m + 1 /\ m < PageSpace - 1
    <2>1. m = PageSpace - 1 \/ m < PageSpace - 1
        BY <1>2, Layout
    <2> QED BY <1>2, <1>3, <2>1, Wrapped, Layout
<1>5. table' \in [0 .. blocks' - 1 -> Kinds]
    <2>1. memory \in Nat /\ m \in Nat /\ blocks \in Nat
        BY <1>2, Layout DEF Inv, TypeOK
    <2>2. Rebuilt(table, m) \in [0 .. blocks' - 1 -> Kinds]
        BY <1>3, <2>1, RebuiltType DEF Inv, TypeOK
    <2>3. "rw" \in Kinds
        BY DEF Kinds
    <2> QED BY <1>3, <1>4, <2>1, <2>2, <2>3, MappedType
<1>6. Kept
    <2> SUFFICES ASSUME NEW p \in lost' .. memory - 1, p < m
                 PROVE  table'[p] = table[p]
        BY <1>2 DEF Kept
    <2>1. blocks' # 0 /\ p \in lost .. memory - 1
        BY <1>2, <1>3, NotLost
    <2>2. Rebuilt(table, m)[p] = table[p] /\ p \in 0 .. blocks' - 1
        BY <1>2, <1>3, <1>4, <2>1, OldPages, Layout
    <2> QED BY <1>3, <1>4, <2>1, <2>2, MappedBelow, Layout DEF Inv, TypeOK
<1>7. ASSUME NEW p \in memory .. m - 1, blocks' # 0
      PROVE  table'[p] = "rw"
    BY <1>2, <1>3, <1>4, <1>7, MappedInside, Layout DEF Inv, TypeOK
<1>8. /\ use' \in [0 .. memory' - 1 -> {"code", "data", "other"}]
      /\ \A p \in 0 .. memory - 1 : p < memory' => use'[p] = use[p]
      /\ \A p \in memory .. memory' - 1 : use'[p] = "data"
    BY <1>2, <1>3, Layout DEF Uses, Inv, TypeOK
<1>9. Inv'
    <2>1. blocks' # 0 =>
             \A p \in memory .. memory' - 1 :
                /\ use'[p] = "code" => table'[p] = "exec"
                /\ use'[p] = "data" => table'[p] = "rw"
        BY <1>2, <1>7, <1>8
    <2>2. loaded' \subseteq Libraries /\ alive' \in BOOLEAN
        BY <1>3 DEF Inv, TypeOK
    <2>3. memory' \in 1 .. PageSpace - 1 /\ (blocks' # 0 => memory' < blocks')
        BY <1>2, <1>4, Layout
    <2>4. ASSUME NEW p \in lost' .. memory - 1, p < memory'
          PROVE  table'[p] = table[p] /\ use'[p] = use[p]
        <3>1. p \in lost .. memory - 1 /\ lost \in 0 .. memory /\ memory \in Nat
            BY <1>2, <1>3, <2>4, NotLost, Layout DEF Inv, TypeOK
        <3>2. p \in 0 .. memory - 1
            BY <3>1
        <3> QED BY <1>6, <1>8, <2>4, <3>2 DEF Kept
    <2>5. lost' = LostIn(memory', blocks')
        BY <1>2, <1>3
    <2> QED BY <1>3, <1>4, <1>5, <1>8, <2>1, <2>2, <2>3, <2>4, <2>5, Extended
<1> QED BY <1>6, <1>9

LEMMA LoadStep ==
    ASSUME Inv, NEW lib \in Libraries, LoadLibrary(lib)
    PROVE  Inv' /\ Kept
<1> DEFINE s == Sections[lib]
           m == memory + s.file + 1
           text == memory + 1
           data == text + s.text
           n == NumberOfPages(m)
           t1 == Mapped(Rebuilt(table, m), n, "exec", text, data)
<1>1. /\ s.text \in Nat \ {0} /\ s.data \in Nat \ {0}
      /\ s.file \in {s.text + s.data, s.text + s.data + 1}
    BY LibraryAssumption
<1>2. /\ memory \in Nat \ {0} /\ m \in Nat /\ m < PageSpace /\ memory < m
      /\ text \in Nat \ {0} /\ data \in Nat /\ data + s.data <= m
      /\ blocks \in Nat /\ lost \in 0 .. memory
    <2>1. memory \in Nat \ {0} /\ blocks \in Nat /\ lost \in 0 .. memory
        BY Layout DEF Inv, TypeOK
    <2>2. m < PageSpace
        BY DEF LoadLibrary
    <2>3. m \in Nat /\ memory < m
        BY <1>1, <2>1
    <2>4. text \in Nat \ {0} /\ data \in Nat /\ data + s.data <= m
        BY <1>1, <2>1
    <2> QED BY <2>1, <2>2, <2>3, <2>4
<1>3. /\ blocks' = n
      /\ table' = Mapped(t1, n, "rw", data, data + s.data)
      /\ alive' = alive
      /\ past' \in BOOLEAN
      /\ lost' = LostIn(memory', n)
      /\ \/ /\ loaded' = loaded \cup {lib}
            /\ memory' = m
            /\ use' = Uses(m, LibraryUse(s, m))
         \/ UNCHANGED <<loaded, memory, use>>
    BY DEF LoadLibrary, LibraryTable, Inv, TypeOK
<1>4. n \in Nat /\ (n # 0 => n = m + 1 /\ m < PageSpace - 1)
    <2>1. m = PageSpace - 1 \/ m < PageSpace - 1
        BY <1>2, Layout
    <2> QED BY <1>2, <2>1, Wrapped
<1>5. memory' \in 1 .. PageSpace - 1 /\ memory <= memory' /\ memory' <= m
    BY <1>2, <1>3, Layout
<1> HIDE DEF s, m, text, data, n, t1
<1>6. t1 \in [0 .. n - 1 -> Kinds]
    <2>1. Rebuilt(table, m) \in [0 .. n - 1 -> Kinds]
        BY <1>2, RebuiltType DEF Inv, TypeOK, n
    <2>2. "exec" \in Kinds
        BY DEF Kinds
    <2> QED BY <1>2, <1>4, <2>1, <2>2, MappedType DEF t1
<1>7. table' \in [0 .. blocks' - 1 -> Kinds]
    <2>1. "rw" \in Kinds /\ data + s.data \in Nat
        BY <1>1, <1>2 DEF Kinds
    <2> QED BY <1>2, <1>3, <1>4, <1>6, <2>1, MappedType
<1>8. ASSUME NEW p \in lost' .. memory - 1, p < memory'
      PROVE  table'[p] = table[p] /\ p \in 0 .. memory - 1
    <2>1. n # 0 /\ p \in lost .. memory - 1
        BY <1>3, <1>5, <1>8, NotLost
    <2>2. p \in 0 .. n - 1 /\ p < text /\ p < data /\ p < m
        BY <1>1, <1>2, <1>4, <2>1 DEF text, data
    <2>3. Rebuilt(table, m)[p] = table[p]
        BY <1>2, <1>4, <2>1, <2>2, OldPages
    <2>4. t1[p] = table[p]
        BY <1>2, <1>4, <2>2, <2>3, MappedBelow DEF t1
    <2>5. table'[p] = table[p]
        BY <1>2, <1>3, <1>4, <2>2, <2>4, MappedBelow
    <2> QED BY <1>2, <2>1, <2>5
<1>9. ASSUME NEW p \in text .. data - 1, n # 0
      PROVE  table'[p] = "exec"
    <2>1. /\ text < data /\ data < PageSpace /\ data < n
          /\ p \in 0 .. n - 1 /\ p < data
        BY <1>1, <1>2, <1>4, <1>9, Layout DEF data
    <2>2. t1[p] = "exec"
        BY <1>2, <1>4, <2>1, MappedInside DEF t1
    <2> QED BY <1>2, <1>3, <1>4, <2>1, <2>2, MappedBelow
<1>10. ASSUME NEW p \in data .. data + s.data - 1, n # 0
       PROVE  table'[p] = "rw"
    <2> DEFINE end == data + s.data
    <2>1. data \in Nat \ {0} /\ end \in Nat /\ data < end /\ end < PageSpace /\ end < n
        BY <1>1, <1>2, <1>4, <1>10, Layout DEF data
    <2>2. p \in data .. end - 1
        <3>1. end - 1 = data + (s.data - 1)
            BY <1>1, <2>1
        <3> QED BY <3>1
    <2>3. table' = Mapped(t1, n, "rw", data, end)
        BY <1>3
    <2> HIDE DEF end
    <2> QED BY <1>4, <2>1, <2>2, <2>3, MappedInside
<1>11. Kept
    BY <1>8 DEF Kept
<1>12. loaded' \subseteq Libraries /\ alive' \in BOOLEAN
    BY <1>3 DEF Inv, TypeOK
<1>13. blocks' \in Nat /\ (blocks' # 0 => memory' < blocks') /\ lost' = LostIn(memory', blocks')
    BY <1>2, <1>3, <1>4, <1>5
<1>14. CASE memory' = m /\ use' = Uses(m, LibraryUse(s, m))
    <2>1. /\ use' \in [0 .. m - 1 -> {"code", "data", "other"}]
          /\ \A p \in 0 .. memory - 1 : use'[p] = use[p]
          /\ \A p \in memory .. m - 1 : use'[p] = LibraryUse(s, m)[p]
        BY <1>2, <1>14 DEF Uses, LibraryUse, Inv, TypeOK
    <2>2. ASSUME NEW p \in memory .. m - 1, n # 0
          PROVE  /\ use'[p] = "code" => table'[p] = "exec"
                 /\ use'[p] = "data" => table'[p] = "rw"
        <3>1. /\ text .. data - 1 = memory + 1 .. memory + s.text
              /\ data .. data + s.data - 1
                    = memory + s.text + 1 .. memory + s.text + s.data
            <4>1. text = memory + 1 /\ data - 1 = memory + s.text
                BY <1>1, <1>2 DEF text, data
            <4>2. /\ data = memory + s.text + 1
                  /\ data + s.data - 1 = memory + s.text + s.data
                BY <1>1, <1>2 DEF text, data
            <4> QED BY <4>1, <4>2
        <3>2. use'[p] = IF p \in text .. data - 1 THEN "code"
                        ELSE IF p \in data .. data + s.data - 1 THEN "data"
                        ELSE "other"
            BY <2>1, <3>1 DEF LibraryUse
        <3> QED BY <1>9, <1>10, <2>2, <3>2
    <2>3. ASSUME NEW p \in lost' .. memory - 1, p < memory'
          PROVE  table'[p] = table[p] /\ use'[p] = use[p]
        BY <1>8, <2>1, <2>3
    <2>4. Inv'
        BY <1>3, <1>5, <1>7, <1>12, <1>13, <1>14, <2>1, <2>2, <2>3, Extended
    <2> QED BY <1>11, <2>4
<1>15. CASE UNCHANGED <<loaded, memory, use>>
    <2>1. use' \in [0 .. memory' - 1 -> {"code", "data", "other"}]
        BY <1>15 DEF Inv, TypeOK
    <2>2. \A p \in memory .. memory' - 1 : FALSE
        BY <1>2, <1>15
    <2>3. ASSUME NEW p \in lost' .. memory - 1, p < memory'
          PROVE  table'[p] = table[p] /\ use'[p] = use[p]
        BY <1>8, <1>15, <2>3
    <2>4. Inv'
        BY <1>3, <1>5, <1>7, <1>12, <1>13, <2>1, <2>2, <2>3, Extended
    <2> QED BY <1>11, <2>4
<1> QED BY <1>3, <1>14, <1>15

LEMMA StopStep ==
    ASSUME Inv, Stop \/ UNCHANGED vars
    PROVE  Inv' /\ Kept
BY DEF Stop, vars, Inv, TypeOK, UseMatches, LookupsFit, Kept

LEMMA NextInv ==
    ASSUME Inv, [Next]_vars
    PROVE  Inv' /\ Kept
<1>1. ASSUME NEW r \in 0 .. PageSpace - 1, Alloc(r)
      PROVE  Inv' /\ Kept
    BY <1>1, AllocStep
<1>2. ASSUME NEW lib \in Libraries, LoadLibrary(lib)
      PROVE  Inv' /\ Kept
    BY <1>2, LoadStep
<1>3. CASE NoMemory \/ BadLibrary \/ UNCHANGED vars
    BY <1>3, StopStep DEF NoMemory, BadLibrary
<1> QED BY <1>1, <1>2, <1>3 DEF Next

-----------------------------------------------------------------------------
(* The theorems.                                                            *)

LEMMA InvHolds == Spec => []Inv
<1>1. Inv /\ [Next]_vars => Inv'
    BY NextInv
<1> QED BY InitInv, <1>1, PTL DEF Spec

\* The state of src/src/memory.c keeps its types for every size of memory
THEOREM PagesTypeCorrect == Spec => []TypeOK
<1>1. Inv => TypeOK
    BY DEF Inv
<1> QED BY InvHolds, <1>1, PTL

\* Code stays executable, and data and allocated pages stay read-write, for
\* every sequence of allocations and libraries (src/src/memory.c:39-65)
THEOREM PagesMatchTheirUse == Spec => []UseMatches
<1>1. Inv => UseMatches
    BY DEF Inv
<1> QED BY InvHolds, <1>1, PTL

\* The table has an entry for the page at MemorySize, although a failed
\* LOADDYNAMIC and a wrapped ALLOC change the two independently
THEOREM EveryLookupFits == Spec => []LookupsFit
<1>1. Inv => LookupsFit
    BY DEF Inv
<1> QED BY InvHolds, <1>1, PTL

\* RebuildMemoryBlock and MemoryMap together leave every old page alone
\* (src/src/memory.c:17-38, 61-63)
THEOREM OldPagesKept == Spec => AttributesKept
<1>1. Inv /\ [Next]_vars =>
        [\A p \in lost' .. memory - 1 : p < memory' => table'[p] = table[p]]_vars
    BY NextInv DEF Kept
<1> QED BY InvHolds, <1>1, PTL DEF Spec, AttributesKept
=============================================================================
