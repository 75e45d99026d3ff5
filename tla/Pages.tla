------------------------------- MODULE Pages -------------------------------
(***************************************************************************)
(* The memory blocks of the R3X machine: who may read, write and execute   *)
(* which page.  src/src/memory.c, with everything that calls it: main,     *)
(* SYSCALL_ALLOC (src/src/cpu.c) and the dynamic linker's loader           *)
(* (src/src/dynamic.c).                                                    *)
(*                                                                         *)
(* The unit is the page of SEGMENT_SIZE bytes: every address these callers *)
(* pass is a multiple of it (r3x_load_executable and load_dynamic_library  *)
(* refuse sections that are not).  Addresses are unsigned ints, so page    *)
(* numbers are modulo PageSpace.                                           *)
(***************************************************************************)
EXTENDS Integers, FiniteSets

CONSTANTS
    PageSpace,     \* 2^32 / SEGMENT_SIZE
    HeaderPage,    \* PROG_EXEC_POINT / SEGMENT_SIZE, 0x100
    ProgramText,   \* pages of code of the executable
    ProgramData,   \* its pages of data and bss
    Libraries,     \* the libraries a program can name
    Sections,      \* [text, data, file] of each: pages, file rounded down
    MaxLibraries   \* total_number_of_structs: 32, it never grows

\* libR3X.pkg: header, a page "TEXT", the code, a page "DATA", the data; main
\* adds a page of rounding
TextPage == HeaderPage + 2
DataPage == TextPage + ProgramText + 1
ProgramEnd == DataPage + ProgramData + 1

ASSUME ProgramAssumption ==
    /\ HeaderPage \in Nat /\ HeaderPage > 2
    /\ ProgramText \in Nat \ {0}
    /\ ProgramData \in Nat \ {0}
    /\ PageSpace \in Nat /\ PageSpace > ProgramEnd + 1

\* dynR3X.pkg: a page of header, the code, the data.  Reserved words at the end
\* of the last page need not be in the file
ASSUME LibraryAssumption ==
    /\ MaxLibraries \in Nat
    /\ Sections \in [Libraries -> [text : Nat \ {0}, data : Nat \ {0}, file : Nat]]
    /\ \A lib \in Libraries :
          LET s == Sections[lib]
          IN  s.file \in {s.text + s.data, s.text + s.data + 1}

Kinds == {"noexist", "exec", "ronly", "rw"}

VARIABLES
    memory,   \* CPU->MemorySize, in pages
    blocks,   \* NumberOfBlocks
    table,    \* MemoryBlocks
    loaded,   \* the libraries in lbstructs
    alive,    \* the process runs
    past,     \* history: an entry past the table has been written
    use,      \* history: what each page of memory is there for
    lost      \* history: the pages below it were in memory when a table was
              \* made for a memory that ends at the last page

vars == <<memory, blocks, table, loaded, alive, past, use, lost>>

\* Type invariant
TypeOK ==
    /\ memory \in 1 .. PageSpace - 1
    /\ blocks \in Nat
    /\ table \in [0 .. blocks - 1 -> Kinds]
    /\ loaded \subseteq Libraries
    /\ alive \in BOOLEAN
    /\ past \in BOOLEAN
    /\ use \in [0 .. memory - 1 -> {"code", "data", "other"}]
    /\ lost \in 0 .. memory

-----------------------------------------------------------------------------
(* memory.c.                                                                *)

\* Mutant: an entry for every page of memory, and none after them
NumberOfPagesTight(m) == m

\* The entries of the table of a memory of m pages, one more than it has.  The
\* sum is an unsigned int: a memory that ends at the last page has none
NumberOfPages(m) == (m + 1) % PageSpace

Entries(m) == 0 .. NumberOfPages(m) - 1

\* BuildMemoryBlock
Built(m) == [p \in Entries(m) |-> "noexist"]

\* Mutant: the entries are cleared after they have been copied
RebuiltCleared(old, m) == [p \in Entries(m) |-> "noexist"]

\* RebuildMemoryBlock
Rebuilt(old, m) ==
    [p \in Entries(m) |-> IF p \in DOMAIN old THEN old[p] ELSE "noexist"]

\* It clears as many entries of the new table as the OLD one had
ClearsPast(oldBlocks, m) == oldBlocks > NumberOfPages(m)

\* How far past start MemoryMap goes: one page maps two, n pages map n + 2
PagesToMap(start, end) ==
    IF (end - start) % PageSpace = 1 THEN 1 ELSE (end + 1 - start) % PageSpace

\* "Attempt to map an unallocated memory block!"
Refused(n, start, end) == start > n \/ start + PagesToMap(start, end) > n

ToMap(start, end) == start .. start + PagesToMap(start, end)

\* MemoryMap, on a table t of n entries
Mapped(t, n, kind, start, end) ==
    [p \in 0 .. n - 1 |->
        IF ~Refused(n, start, end) /\ p \in ToMap(start, end) THEN kind ELSE t[p]]

MapsPast(n, start, end) ==
    ~Refused(n, start, end) /\ start + PagesToMap(start, end) >= n

-----------------------------------------------------------------------------
\* main: the BIOS, the video memory, the code, the data and the page after it,
\* the header
InitialTable ==
    LET m  == NumberOfPages(ProgramEnd)
        t1 == Mapped(Built(ProgramEnd), m, "exec", 0, 1)
        t2 == Mapped(t1, m, "rw", 1, 1)
        t3 == Mapped(t2, m, "exec", TextPage, TextPage + ProgramText)
        t4 == Mapped(t3, m, "rw", DataPage, DataPage + ProgramData)
        t5 == Mapped(t4, m, "rw", DataPage + ProgramData, DataPage + ProgramData + 1)
    IN  Mapped(t5, m, "ronly", HeaderPage, HeaderPage + 1)

InitialUse ==
    [p \in 0 .. ProgramEnd - 1 |->
        IF p = 0 \/ p \in TextPage .. TextPage + ProgramText - 1 THEN "code"
        ELSE IF p = 1 \/ p \in DataPage .. DataPage + ProgramData - 1 THEN "data"
        ELSE "other"]

Init ==
    /\ memory = ProgramEnd
    /\ blocks = NumberOfPages(ProgramEnd)
    /\ table = InitialTable
    /\ loaded = {}
    /\ alive = TRUE
    /\ past = FALSE
    /\ use = InitialUse
    /\ lost = 0

\* exit, in the middle of an operation
Stop ==
    /\ alive' = FALSE
    /\ UNCHANGED <<memory, blocks, table, loaded, past, use, lost>>

\* What the first m pages are there for
Uses(m, u) == [p \in 0 .. m - 1 |-> IF p < memory THEN use[p] ELSE u[p]]

\* The pages without the attribute they were given, in a memory that now has m
\* pages and a table of n entries
LostIn(m, n) == IF n = 0 \/ m < lost THEN m ELSE lost

\* Mutant: the size is wider than an address
EnlargedUnbounded(n) == memory + n

\* MemorySize is an unsigned int
Enlarged(n) == (memory + n) % PageSpace

\* SYSCALL_ALLOC of r whole pages and a part of one.  Both the number of pages
\* and the size of memory wrap.  nt_realloc exits when it gets no memory, and a
\* size of 0 is none
Alloc(r) ==
    LET n == (r + 1) % PageSpace
        m == Enlarged(n)
    IN  /\ alive
        /\ m # 0
        /\ memory' = m
        /\ blocks' = NumberOfPages(m)
        /\ table' = Mapped(Rebuilt(table, m), blocks', "rw", memory, m)
        /\ past' = (past \/ ClearsPast(blocks, m) \/ MapsPast(blocks', memory, m))
        /\ use' = Uses(m, [p \in memory .. m - 1 |-> "data"])
        /\ lost' = LostIn(m, blocks')
        /\ UNCHANGED <<loaded, alive>>

NoMemory == alive /\ Stop

\* Mutant: the code is mapped after the data
LibraryTableCodeLast(s, m) ==
    LET text == memory + 1
        data == text + s.text
        n    == NumberOfPages(m)
        t1   == Mapped(Rebuilt(table, m), n, "rw", data, data + s.data)
    IN  Mapped(t1, n, "exec", text, data)

\* The table load_dynamic_library makes for a library with sections s, in a
\* memory of m pages
LibraryTable(s, m) ==
    LET text == memory + 1
        data == text + s.text
        n    == NumberOfPages(m)
        t1   == Mapped(Rebuilt(table, m), n, "exec", text, data)
    IN  Mapped(t1, n, "rw", data, data + s.data)

LibraryMapsPast(s, m) ==
    LET text == memory + 1
        data == text + s.text
        n    == NumberOfPages(m)
    IN  MapsPast(n, text, data) \/ MapsPast(n, data, data + s.data)

LibraryUse(s, m) ==
    [p \in memory .. m - 1 |->
        IF p \in memory + 1 .. memory + s.text THEN "code"
        ELSE IF p \in memory + s.text + 1 .. memory + s.text + s.data THEN "data"
        ELSE "other"]

\* load_dynamic_library, called by SYSCALL_LOADDYNAMIC and load_dependencies,
\* of a library that is not loaded yet.  Memory and the table have grown before
\* a free slot is looked for; without one, MemorySize stays what it was
LoadLibrary(lib) ==
    LET s == Sections[lib]
        m == memory + s.file + 1
    IN  /\ alive
        /\ lib \notin loaded
        /\ m < PageSpace
        /\ blocks' = NumberOfPages(m)
        /\ table' = LibraryTable(s, m)
        /\ past' = (past \/ ClearsPast(blocks, m) \/ LibraryMapsPast(s, m))
        /\ \/ /\ Cardinality(loaded) < MaxLibraries
              /\ loaded' = loaded \cup {lib}
              /\ memory' = m
              /\ use' = Uses(m, LibraryUse(s, m))
           \/ /\ Cardinality(loaded) >= MaxLibraries
              /\ UNCHANGED <<loaded, memory, use>>
        /\ lost' = LostIn(memory', blocks')
        /\ UNCHANGED alive

\* The file is not there, is cut short, or is not a library
BadLibrary == alive /\ Stop

Next ==
    \/ \E r \in 0 .. PageSpace - 1 : Alloc(r)
    \/ NoMemory
    \/ \E lib \in Libraries : LoadLibrary(lib)
    \/ BadLibrary

Spec == Init /\ [][Next]_vars

-----------------------------------------------------------------------------
(* Properties.                                                              *)

\* docs/Memory.html: the code of the program and of every library is
\* executable, their data and what SYSCALL_ALLOC returned is read-write, however
\* many allocations and libraries come later, and although MemoryMap always maps
\* more pages than it is asked to (memory.c:50-63).  The pages that were in
\* memory when it reached the last page of the space are lost
UseMatches ==
    \A p \in lost .. memory - 1 :
        /\ use[p] = "code" => table[p] = "exec"
        /\ use[p] = "data" => table[p] = "rw"

\* Whatever is mapped, and whatever the size of the request, no page that stays
\* in memory changes its attribute (RebuildMemoryBlock, memory.c:17-38), but for
\* the pages that are lost
AttributesKept ==
    [][\A p \in lost' .. memory - 1 : p < memory' => table'[p] = table[p]]_vars

\* Every address that passes the CPU's tests, which let Addr = MemorySize
\* through (cpu.c:2025 and the others), has an entry in the table, unless the
\* last table was made for a memory that ends at the last page: that one has no
\* entry at all (memory.c:20)
LookupsFit == memory < blocks \/ (blocks = 0 /\ lost = memory)

-----------------------------------------------------------------------------
(* What the code and its documentation say, and it does not do.             *)

\* memory.c:56: "Attempt to map an unallocated memory block!" is the answer to
\* pages that are not in the table
InsideTable == ~past
=============================================================================
