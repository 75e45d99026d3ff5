# A verification project for the R3X virtual machine

R3X is a virtual machine with a byte code of its own (`src/src`), an assembler
and a small compiler that target it (`src/fasm`, `src/compiler`), and a shell
that runs several machines (`src/server`).  This directory holds TLA+ models of
the machine's core and its services, of the compiler, of the disassemblers and of
the server, the TLC configurations that check them, and proofs for TLAPS.
Source paths are relative to the directory that holds `src/`, so the file
`cpu.c` of the repository is `src/src/cpu.c`.

## 1. The system

| part | code | state | operations | interacts with |
|---|---|---|---|---|
| CPU core | `cpu.c`, `rfc.c` | one register file, flags, instruction pointer, exception flag and handlers, 256 interrupt vectors, `exitcalled` | `r3x_cpu_loop`, `r3x_emulate_instruction`, `r3x_syscall`, `handle_cpu_exception` | everything below |
| Dispatcher | `dispatcher.c` | `Jobs[]`, `TotalNumberOfJobs`, `NumberOfActiveJobs`, `CurrentJobID` | init, dispatch, load, save, exit | CPU loop, debugger, allocator |
| Debugger, signals | `exception.c`, `main.c` | none of its own; it works on the CPU's | continue, quit, setip, setreg, push, pop, switchdomain | runs inside the handler of SIGSEGV and SIGINT |
| Stacks | `stack.c` | `content`, `top_of_stack`, `stack_count`, `max_stack` | Push, Pop, GetItem, SetItem | raise SIGSEGV when full |
| Memory blocks | `memory.c` | one attribute per 4096-byte page | Build, Rebuild, Map, lookup | `main`, SYSCALL_ALLOC, dynamic linker, fetch, LOAD/STORE |
| REX dynamic linker | `dynamic.c`, `format.c` | `lbstructs[]`, its two counters | load, call, address of a handle | memory blocks, CALLDYNAMIC, import section |
| Loader | `format.c` | none | read, check, place an executable | `main` |
| Keyboard thread | `cpu.c` 1993-2020 | `is_read`, `keycode` | poll events | GETC, `exitcalled` |
| Watchdog thread | `cpu.c` 2304-2313 | none | sets `exitcalled` | CPU loop (REX_OPTIMIZE builds) |
| Streams | `stream.c` | `streams[]`, `used_streams` | open, close, seek, read, write | system calls |
| Native libraries, objects | `native.c`, `object.c` | list of handles; list of objects | LOADLIB, LIBEXEC | host code |
| Allocator wrapper | `nt_malloc.c` | registry of pointers and its count | malloc, realloc, free, freeall | all of them |
| Process server | `server/server.c` | table of client pids | run, kill, pause, cont, status, quit | one process per machine |
| T++ compiler | `compiler/tbc.c` | tables of variables, functions, structs, libraries; `while_stack`, `label_num`, `whilelines` | one function per statement and per kind of expression; `begin`, `finish` | the assembler, and the CPU that runs what comes out |
| Disassemblers | `disassemble.c`, `disasm/rexdump.c` | a cursor | one switch over the opcodes each | debugger's `disasm`; the dump tool |
| Script, graphics, fonts, readers | | | text and pictures in, text and pictures out | |

What is hard in this code:

* **One register file for many domains.**  A turn of the loop is fetch check,
  load, emulate, save, advance; load and save copy a context field by field.  The
  debugger can be entered between any two of these, inside a copy and inside an
  instruction, and can put another domain into the CPU.
* **Signals as control flow.**  Faults, a full stack and Ctrl-C all enter the
  debugger through the same handler, and the interrupted code goes on from there.
* **Three threads** share `exitcalled` and the instruction pointer without a lock.
* **Tables that grow** (jobs, stacks, page attributes, libraries, streams, pids),
  each with a counter that decides when, and slots that nobody clears.
* **The same knowledge in several places**: the length of an instruction is in
  the CPU and in two disassemblers; where an argument is on the stack is in every
  function of the compiler that pushes something.
* **Processes that end by themselves** while a table says that they are there.
* **Widths**: 64-bit registers saved to 32 bits, memory sizes and stack indices
  that wrap, comparisons that are off by one on purpose or by accident.

`PROJECT.json` lists these hazards at the lines where they bite, each with the
properties that cover it.  Three have none, and say why.

What makes each part correct: for the dispatcher and the loop, that every domain
has a context of its own, that its turns keep coming, and that exit ends the
machine; for a stack, that it is a stack across its growth and never writes
outside its buffer; for the memory blocks, that code stays executable and data
writable and that looking up a page is safe; for the linker, the
streams and the allocator, that handles and pointers stay valid, unique and
counted; for the server, that every client is in its table until it is killed and
that quit ends them all; for the compiler, that the program that comes out does
what the source says; for a disassembler, that it takes instructions to be as
long as the CPU does.

## 2. The modules

```
Instructions ── Dispatcher ── Cpu ── CpuRefinement ── MCCpu
      └────────── Domains ──────────────┘ (INSTANCE: the abstract machine)
StackSpec ──(INSTANCE)── VStack ── MCVStack
Pages ── MCPages
Heap ── Services ── MCServices
Server ── MCServer
TppMachine ── TppSource ──────┐
TppCode ── TppCompiler ───── Tpp ── MCTpp
Disasm ── MCDisasm
proofs: CpuProofs, CpuRefinementProofs, VStackProofs, PagesProofs, ServerProofs,
        ServicesProofs, DisasmProofs, TppCompilerProofs
```

**Instructions** says what one instruction does to a *context*: instruction
pointer, exception flag, handlers, registers, call stack.  `Outcomes(c, isr)` is
the set of contexts an instruction that does not fault can lead to, one operator
per family (jumps, calls, CATCH, POPF, ...).  `Faults` is the set of ways of
faulting: which exception, and how far the instruction has moved the pointer
before `handle_cpu_exception` and moves it after.  The registers and the four
compare flags are one datum.  Code bytes and the data stack are abstracted: at
any address there can be any instruction, and what it reads from the data stack
is arbitrary, so the model runs all programs at once.

**Dispatcher** is the table of domains.  A slot holds `NoJob`, a job, or `Wild`:
`nt_realloc` does not clear what it adds, and `TailValues` says what can be
found there.  Following a `Wild` pointer is modelled as a fault.  A job's stacks
are pointers; the heap is `callStack`.

**Cpu** is the loop over both, with the debugger, Ctrl-C, the window's close
button and the watchdog.  `pc` is where the loop is.  A turn is the fetch check, the
tests of `r3x_load_job_state` and then its copy, one field in a step (`copy` has the
`JobID` the function was called with and how far it is), the test of `exitcalled`
at the head of `r3x_emulate_instruction`, the instruction, the save in the same
steps as the load, and the advance.  Ctrl-C can come between any two of them, and
the other threads can set `exitcalled` there, after its test too.  A LOADI that
complains of its address sets the vector in a step of its own, after the debugger.
`resume` is where the debugger returns to and what the interrupted instruction still
adds to the instruction pointer.  `fresh` (the jobs that have had no turn yet) and
`torn` (the operator has switched domains inside a copy) are history variables.

**Domains** is the promise to a program: a context per domain, and each step is
one instruction of one domain on its context.  A context changes in no other way,
but by the operator's hand while the debugger has stopped the machine in the middle
of that domain's turn (`held`); when the machine is told to halt while an
instruction is executed, that one is the last (`halted`; `owed` is what a LOADI that
complained has still to do).  There is no table, scheduler, load or save in it.
**CpuRefinement** maps `Cpu` to it: of the domain whose turn it is, each field is
where it is now, in the CPU or in the table; the others are in the table.

**StackSpec** is a sequence with push, pop, read and write from the top;
**VStack** is `stack.c`: a push is three steps (limit, buffer, store), because
SIGSEGV is raised in the middle of it and the operator's own `push` and `pop`
happen there.  A second SIGSEGV raised inside the handler is pending until it
returns.  `asked` and `touched` are history variables.

**Pages** is `memory.c` with everything that calls it, in units of a page.
All its callers pass multiples of the page size.  The number of entries wraps as
the size of memory does: a memory that ends at the last page of the address space
has a table of none.  `use` (what each page is there for), `past` (an entry after the
table has been written) and `lost` (the pages that were in memory when the number of
entries wrapped) are history variables.

**Heap** is the allocator wrapper `nt_malloc.c` as functions from a registry to a
registry: malloc with its growth and its search that runs one past the end, realloc
that moves the block, free that takes NULL for an empty entry. **Services** puts
over it what allocates and what hands out handles: streams, dynamic libraries with
the memory they are loaded into, native libraries, jobs and their stacks; and, by
itself, the keyboard thread against GETC, step by step. Each action is one system
call or instruction with all of its calls of the allocator, in their order.  A path
that nobody frees is kept with the entry it was made for, so that `PointersOwned`
can say what is left behind.  A program is the set of services it uses, so that TLC
combines them in pairs.  `heap.beyond` is what lies behind the registry.

**Server** is the mini-server: the table of pids, `run` in the steps between
which the client already runs (fork, record, hold, continue), kill, pause, cont,
status and quit, and what they do to a client that has no handlers yet, is held,
or has ended.  The terminal's Ctrl-C and Ctrl-Z go to the whole group.  A typed
word that is no number is the pid 0, which is in every empty slot; a number can also
be the one an uncleared slot holds (`Junk`).  `removed`, `lost` and `uncleared` are
history variables.

**TppCode** is the code generator of `tbc.c`: one operator per function of the
compiler, from the compiler's static variables to the same variables with the lines
it emits added.  The source is taken parsed, as tuples that nest the way the
functions call each other; where one of them calls `do_expression` or `do_statement`
again, it calls the constants `Expression` and `Statement`, to which `MCTpp` gives
those two as values.  `Stale` and `StaleFlags` are what the memory that `xrealloc`
adds to a table holds: names the searches find beyond the entries in use, and flags
a new function has without being given them.  **TppCompiler** is the compiler from
`main` to the last line of assembler, and says what a source is: trees of these
kinds, whose parts nest less deep (`Nesting`).  **TppMachine** is what each line
that can be emitted does on registers, two stacks and memory, here with real values.
**TppSource** is the reference: what a T++ program means according to
`docs/T++.html` and `docs/REXCall.html`, with an environment instead of registers
and stacks, and a result instead of labels.  **Tpp** composes them: compile line by
line, finish, resolve the labels as the assembler would, and run.

**Disasm** has the two switches, opcode by opcode, with the number of bytes each
adds to the cursor, against the lengths of `cpu.c`.  What the cursor has not
reached is not fixed yet, so the model lists every program at once; an operand's
bytes can be any opcode.  `lost` is a history variable: the listing began inside
an instruction, or has met an opcode a switch is known to get wrong.

## 3. What TLC checks

| run | question | states | answers |
|---|---|---|---|
| `cpu_core` | does the loop implement private contexts? | 523,856 | `TypeOK`, `ImplementsDomains` hold |
| `cpu_debug` | can the operator, or an uncleared slot, mix up domains? | 5,184,065 | `ContextOwned` holds |
| `cpu_table` | do growth and exit keep the table right, and every job running? | 15,323 | `JobsCounted`, `DispatchFindsSlot`, `FetchChecked`, `EveryJobRuns`, `ExitStops` hold |
| `vstack` | is `stack.c` a stack? | 125,632 | `TypeOK`, `StoreFits`, `OnePastAtMost`, `LimitAsks`, `ImplementsStack` hold |
| `pages` | does every page keep the attribute its use needs? | 1,256,834 | `TypeOK`, `UseMatches`, `LookupsFit`, `AttributesKept` hold |
| `services` | do pointers, handles, images and keys stay what they are? | 485,094 | `TypeOK`, `RegistryExact`, `PointersOwned`, `StreamsCounted`, `ImagesApart`, `KeysOnce`, `StreamHandlesKept` hold |
| `server` | does the table know the clients, and does quit end them? | 1,691,256 | `TypeOK`, `TableExact`, `FirstClientsRecorded`, `QuitEndsClients` hold |
| `tpp` | does a compiled program do what its source says? | 14,793 | `TypeOK`, `TablesFit`, `LoopsMatch`, `LabelsResolved`, `ComputesSource`, `StacksBalanced`, `ReachesExit` hold |
| `disasm` | do the disassemblers know the instructions' lengths? | 21,336 | `TypeOK`, `ListsInstructions`, `EndsWithSection`, `Finishes` hold |
| `vstack_ctrlc` | does a push fit when Ctrl-C comes in the middle? | | violated |
| `pages_past` | does `MemoryMap` stay in its table? | | violated |
| `tpp_less` | does a comparison with `<` compare? | | violated |

The three violations are disagreements between the code and its own documents or
comments; `PROJECT.json` quotes both sides:

1. Ctrl-C between the test of the buffer and the store of a push lets the
   operator's own pushes fill the buffer first (`stack.c:88-110`).
2. `MemoryMap` loops once too often (`memory.c:61`) and, after the table's end,
   writes an entry that is not there; its own check means to refuse that
   (`memory.c:55-56`).
3. `COMP_L` is 0, which is also "no operator" (`tbc.c:97`, `tbc.c:1106`): `a < b`
   compiles to nothing, where `docs/T++.html:127` compares with it.

### Other disagreements met while modelling

No run is spent on these.  Where a model has the code in question it follows the
code, and the properties are stated so that they hold with it; where it leaves the
code out, section 5 says so.

*CPU and memory.*  `SYSCALL_DISPATCH` makes every job a main job, so any job's
EXIT stops the machine (`cpu.c:2120`; `docs/Multithreading.html:24`).  The execute
permission is looked up for the previous job's instruction pointer (`cpu.c:168`
comes before `cpu.c:173`), so a new job's first instruction is not checked
(`docs/Memory.html:52`).  Registers are cut to 32 bits when a turn ends
(`dispatcher.c:117`; `docs/Opcodes.html:658`).  Ctrl-C in the middle of
`r3x_load_job_state` or `r3x_save_job_state`, and `switchdomain` there
(`exception.c:208`): the copy goes on with the `JobID` it was called with, the rest
of one domain's context goes into another's slot, the pointers to its stacks
included, and from then on two domains share a stack (`docs/Multithreading.html:15`
gives each its own threading information).  When memory comes to end at the last page
of the address space, the sum of `memory.c:20` wraps and the table has no entry: what
SYSCALL_ALLOC returned is not read-write (`docs/Memory.html:50`), nor is anything else
what it was.

*Services.*  The keyboard thread writes `keycode` while GETC is between setting
`is_read` and reading it (`cpu.c:2007`; the comments of `cpu.c:2057` and `2062`
expect otherwise).  `stream_seek`'s cases fall through (`stream.c:77-83`;
`docs/Syscalls.html:27-30`), and the slots that a growth adds are not cleared
(`stream.c:40`).  CALLDYNAMIC goes on after its first exception (`cpu.c:1162`). The
33rd library is loaded and gets the handle -1 (`dynamic.c:78`, `107`); the copy of a
library's rounded size reads past its buffer (`dynamic.c:92`). `returnhandle`
follows a NULL head (`native.c:96`), and the path of a native library that was found
in the machine's own directory is never freed (`native.c:50-59`).  `r_fopen` grows
its table in bytes (`src/lib/rstdlib/rstdlib.c:72`).

*Server* (`server.c`).  The 17th client is started and lost (180); what is not a
number signals the whole group (163); 16 bytes of the table are cleared, not 16
slots (39); status ends a client that has no handlers yet (`main.c:124`); a
failing fork and the end of the input leave without ending the clients; the
question that says "[y/N]" goes on when it gets Enter (148).

*Disassemblers.*  FSQRT never moves the cursor (`disassemble.c:382`,
`rexdump.c:527`); PUSH64 lacks a break (`disassemble.c:428`, `rexdump.c:573`);
LOADR64 is one byte short in rexdump (`rexdump.c:571`); LOAD, STORE, LOR and LAND
are "not recognized", though their length comes out right.

*Compiler* (`tbc.c`).  A shift leaves R9 on the call stack (1456); `$n` after a
nested call among the same arguments is looked for in the wrong place (1921, 2015);
INPUT pushes R0 without counting it, and a call in its size overwrites it
(1713-1718); FREE leaves an item on the stack (2076); a `raw_call` without arguments
drops one too many (1940-1944); `sizeof` reads an expression before its name (1480);
NOT is `~` and NEG is `!`, other than the language's description; a table of structs
is written up to two entries past its end (363-377); the depth of `while_stack` is
not checked (1769, 1783); `mod_f` is documented and not there (1409); `externcall`
moves `$n` by two; a function from the second table on keeps the `is_external` and
`is_native` that `xrealloc` has left in its entry (341-349, 1996-2010); the tables
are searched beyond the entries in use, where `xrealloc` has cleared nothing
(309-311, 353, 391); the dynamic build keeps absolute jumps (1749, 1732).  An IF in an IF takes the same line for its label, which then
stands twice, and a STRUCT in one moves the line between the jump and the label
(1749, 1752); a `:label` that is given twice in a function is not noticed.

### Bounds, and why they are enough

* Addresses: 4 or 5, so that there is an executable one, one that is in memory
  and not executable, one past memory, and so that the pointer wraps and `-1` (an
  empty call stack's answer) is an address.  Two targets, one of each kind.
* Registers: 4 values in the CPU, 2 in a job (`cpu_core`), so that a save cuts.
* `Chunk` is 2 (16 in the code) and `MaxJobs` up to 5, so that the table grows
  twice and jobs exit from, and are dispatched into, both parts of it.
* `MaxDepth` 2: the call stack is empty, has the initial 0, and has one more.
* `TotalExceptions` 0 (3 in the code): one exception with a handler, the break
  point, and one id past the array.
* `cpu_core` has all sixteen kinds of instruction, Ctrl-C and the REX_OPTIMIZE
  build.  It leaves out switchdomain, which throws away the instruction in progress
  by design, and setip, which multiplies the states by more than a run can take: the
  theorem of section 4 has it.  `cpu_debug` has both, and uncleared slots.
* `vstack`: first buffer of 2 items, a limit of 3, a depth of 5: the buffer
  doubles twice, and the limit is met between the two.  `Width` 16 so that `top - k`
  wraps to an index far outside.
* `pages`: 18 pages in all, the program takes 9: requests of every size, those that
  wrap and those that end at the last page included, with up to two of three
  different libraries registered and the third finding the table full.  A library
  load does not wrap the address space (`m < PageSpace`), which would take 4 GB of
  files.
* `services`: a registry that grows by 4 (16 in the code) holds five blocks before
  the program starts, so it has grown once by then and grows again; two streams to
  a table that grows to four; two slots for three libraries, so the third
  finds none; a library's functions at its first address, inside it, and past its
  end; two jobs; three keys, enough for one to be held back and one to be
  overwritten.
* `server`: four clients for a table of three slots (16), one of them cleared (4),
  so a slot may hold somebody else's pid and a client may find no slot.
* `tpp`: tables of two entries that grow by two (16 and 16), a stack of loops for
  four (257), and four loops one in the other.  About 150 programs, in families:
  every operator alone and under another on either side, nested and consecutive
  loops, jumps out of them, GOSUB, calls among arguments, recursion, pointers and
  struct members with calls while an address waits, every table past its first size,
  and everything the compiler refuses.  They keep away from the disagreements listed
  above: a program that uses one is known not to compute its source.  The memory that
  `xrealloc` adds is clear here: what a program does otherwise depends on it.  `MCTpp`
  asserts of each of them what the theorems assume: its loops nest and are closed, its
  names resolve, and no line has two IFs.
* `disasm`: the longest instruction is 11 bytes; the ranges of 11 and 13 hold it
  alone and after another one.  An operand's byte is one of eight: one for each
  distance the cursor can move, and one that is no opcode.

### Fairness

`FairSpec` (Cpu) is weak fairness of `Turn`, the loop's own steps: the thread runs,
and each instruction terminates.  The operator, the keyboard thread, the watchdog
and signals may act or not, so the liveness properties end in "or the debugger
holds the machine".  `EveryJobRuns` is relative to `MaxJobs`: a program that
dispatches without end makes the table, and the scan, grow without end.

`Disasm` has weak fairness of the one loop, `Tpp` of its whole next-state
relation: a single process that waits for nothing.  A T++ program that loops for
ever would not reach its exit; the programs of `MCTpp` are those whose source ends,
and what `ReachesExit` adds is that the compiled ones end too.

### Deadlock

It is allowed where the system stops: `cpu_*` and `pages*` (the process can end),
`disasm` (the listing is over), `tpp` (the program is), `server` (the server is gone
and the clients have ended) and `services` (the process has ended, or the program
has asked for all the bounds admit).  In `vstack` it is checked.

## 4. What is proved

TLAPS checks, for every value of the constants that satisfies the named
assumptions:

* **The CPU and its table** (`CpuProofs`).  `TypeCorrect`,
  `OwnedContexts`, `CountedJobs`, `RoomForEveryJob`.
  The inductive invariant `IInv` is `TypeOK`, `ContextOwned`, `JobsCounted`,
  that the CPU's stack pointer points into the table, that a copy in progress is the
  current job's (`Placed`), and that there are no wild slots when new slots are NULL.
  They need each other: `active` stays a natural number because the count is right,
  the count stays right because an instruction is executed on a job that is there, and
  a job owns its stack because the CPU holds the current job's pointer whenever a save
  will write it back.  Inside a copy that takes the
  copy's own `JobID`, which is the current job as long as the operator has not
  switched domains there: `OwnedContexts` is about those histories.
  `DispatchFindsSlot` follows from the count: with `NoJob` tails, a table that does not grow has at most
  `total - 2` jobs in it.
* **The fetch check** (`CpuProofs`).  `FetchCheckSuffices`: when the operator
  neither moves the instruction pointer nor switches domains, checking the
  *saved* pointer is enough for every turn but a job's first.  The invariant
  (`FetchInv`) says that every job that has had a turn was saved with a pointer
  that a check has passed, or that is still in the CPU for the next check to see.
* **The loop implements private contexts** (`CpuRefinementProofs`).
  `CpuImplementsDomains`: `Spec` implements `Domains!Spec` when the operator does
  not switch domains.  The mapping takes each field of the domain whose turn it is
  from the CPU once it is loaded and until it is saved, with what an instruction the
  debugger stopped still has to add to the pointer, and every other domain from the
  table; a step of a copy is then no step of `Domains`.  The operator's setip and
  setreg map to `Operate`, which only the domain in hand admits: that what is in the
  CPU in the middle of a turn belongs to the current job, and what is there outside
  of one to none, is what has to be proved of them.  An instruction that has passed
  the test of `exitcalled` when the flag is set is executed, and is the last one.
  The invariant is `IInv` with four more facts: every job is a main job, so EXIT
  halts the abstract machine too; the table stays within `MaxJobs + Chunk` names; no
  copy is mixed with another; and something is owed to the instruction pointer only
  where the instruction is otherwise over.  The lemma that carries the proof is
  `OutcomeOfKept`: what is cut from a register when a turn ends never decides where
  an instruction goes, so an instruction can be run on the context as the table
  keeps it.
* **The stack** (`VStackProofs`).  `StackTypeCorrect`, `PushesFit`,
  `OnePastIsTheWorst`, `LimitIsAsked`, and `StackImplements`: initial states and
  every step map to `StackSpec`.  The invariant has `top <= count`
  (so a buffer that is full is noticed by the test for equality), `top < count`
  at the store, and that the debugger has the machine only between the check of
  the limit and the check of the buffer: that is what Ctrl-C breaks.
* **The pages** (`PagesProofs`).  `PagesTypeCorrect`, `PagesMatchTheirUse`,
  `EveryLookupFits`, `OldPagesKept`: for every page that was not in memory when the
  number of entries wrapped (`lost`).  `LookupsFit` is part of the invariant since a
  library that finds no slot leaves a table that is larger than memory; the next
  load must still start from a table that covers the old pages.
* **The server** (`ServerProofs`).  `ServerTypes`, `ServerTable`, `ServerRecords`,
  `ServerQuit`.  The invariant is `TypeOK`, `TableExact` and `History`: a client that
  was taken out of the table, and every recorded client after quit, has
  ended.  That the table is exact needs that `add_pid` writes an empty slot only and
  that a fresh pid is in no slot.  `ServerRecords` counts: as long as no client is
  lost, the slots that hold clients are as many as the clients recorded, and the
  slots that held junk at the start take no client unless a kill of that number has
  emptied them.
* **The services** (`ServicesProofs`).  `ServicesRegistry`: the invariant of the
  allocator (`Sound`) is kept by malloc, realloc and free, with the entry behind the
  end untouched because the count makes the registry grow in time, and every action
  of `Services` is a composition of those.  `ServicesStreams` and `ServicesHandles`
  from the same invariant with the count of open streams. `ServicesImages` has an
  invariant of its own: areas are handed out at `memory.size`, which only grows, and
  a library's area starts at its `loadaddr`. `ServicesKeys` needs to know where the
  two threads are: the keyboard thread holds a key only while `is_read` is set, and
  what GETC has pushed is never newer than what is in `keycode`.  `ServicesPointers`
  keeps a set of owned blocks, one element for each pointer of the machine with what
  it is for: malloc adds an owner, free takes one away, realloc gives the owner
  another block and an assignment renames it, and every action is a chain of those
  that ends in the pointers of the next state.  The paths that `native.c:50-59`
  leaves behind are among them.  `ServicesTypes` adds that the memory is never
  smaller than its size.
* **The disassemblers** (`DisasmProofs`).  `TypeCorrect`, `ListingFollowsProgram`,
  `StaysInSection`, for ranges of every size and every program, and the action
  property `OnlyFsqrtHolds`.  The lemmas compare the two switches with the lengths of
  the instructions, class of operands by class: every opcode that is longer than a
  byte is in the case of its length and in no other, but for those in `MisreadBy`
  (FSQRT, PUSH64 and, in rexdump, LOADR64).  That the cursor stays on instructions is
  not inductive: the step needs to know where the next instruction starts
  (`NextAfter`), that it starts inside a section of whole instructions
  (`SectionIsWhole`), and that a listing that began in data is lost.  `OnlyFsqrtHolds`
  is the safe half of `Finishes`: no other opcode leaves the cursor where it is.
* **The compiler's tables, its loops and its labels** (`TppCompilerProofs`).
  `TablesAlwaysFit`, `LoopsAlwaysMatch`, `LabelsAlwaysResolved`, for every program,
  however long and however deep it nests, and whatever the memory that `xrealloc` adds
  holds.  `Spares(d, r)` says that a piece of the
  code generator takes compiler variables d whose tables are in order to r whose
  tables are, with the stack of loops as it was, and that the lines it adds name no
  loop (`Extends`).  `Keeps(d, r)` says besides that the only labels it adds are the
  return addresses it has counted (`Adds`), and that its lines go to labels that are
  there or that the rest of the compilation owes (`Known`): strings, the routines in
  `uses`, functions.  Every function of `tbc.c` keeps, or spares, when what it calls
  for its operands does, and so all of them do, by induction on `Nesting`: of the
  trees that do not keep, one nests least (`LeastNat`, from the well-foundedness of
  `<`), and its parts nest less.  A hypothesis of all three, `Recursive`, is that
  `Expression` and `Statement` are `do_expression` and `do_statement` on the trees of
  the source, as the configurations have them; every `Nesting` the module admits has
  such a pair.

  The invariant of `TablesFit` is stronger than it: the table of variables has
  room for one more *between* operations, those of functions and libraries need not.

  For the loops there are two parts.  `currentwhile` is `MAX_WHILE_NESTING` less the
  loops that are open (`Open`), where an IF counts for the statement it holds
  (`Innermost`): that keeps WHILE and ENDW inside `while_stack`.  `LabelsHold` is what
  makes the labels right: the entries in use are numbers below `whilelines` and all
  different, no line names a loop from `whilelines` on, no label stands twice, and of
  each loop the first label is there and the last one is there just when the loop has
  no entry.  WHILE takes a number that no line has (`OpenKeepsLabels`), ENDW gives the
  missing label to the entry it drops (`CloseKeepsLabels`), and nothing else, however
  much code it emits, touches either (`ExtendsKeepsLabels`).
  `LoopsAlwaysMatch` assumes `LoopsNest` of the programs, since the compiler does not
  look: an ENDW without a WHILE, or the 258th open WHILE, does leave the stack.

  `LabelsAlwaysResolved` is about all of the text: every label it goes to is there,
  and no label twice.  That is no invariant while lines are still being compiled,
  where labels are missing.  `LabelsGood` is: it says of every label in the
  code where it is from (a return address below `label_num`, a function of the table,
  an IF of a line before this one, a label of a line before this one in its function,
  a loop), and of every label that is missing who will give it (finish(), an ENDW, a
  line of the source).  So a label that a line gives is new
  (`GivenIsNew`), each for its own reason: `label_num` and `whilelines` only grow, an
  IF moves the line on, `do_func` looks in its table, and the entry
  ENDW drops is one whose last label is not there.  Every line keeps `LabelsGood`
  (`LineKeepsLabels`), and finish() gives what is owed and nothing that was there
  (`FinishBlock`, `FinishResolves`).  It assumes of each program what the compiler
  does not look at and leaves to the assembler: `LoopsNest` with no loop left open,
  `NamesResolve` (a GOTO or GOSUB has its label in its function, once; a function
  that is named is there, and so is `main`), and `OneIfInLine` (the label of an IF is
  its line: see *Compiler* in section 3).

The proofs rest on the assumptions the modules name: sizes are naturals,
`Chunk > 1`, page 0 is executable, sections have at least a page and lie as
`libR3X.pkg` and `dynR3X.pkg` lay them out, the index width is larger than any
stack the bound admits, the registry grows by more than one entry, pids are
positive, what an uncleared slot holds is no client's pid, a library's
structure is not NULL, a source is a finite tree, and a STRUCT says how many members
it has.

Only model-checked: liveness (`EveryJobRuns`, `ExitStops`, `ReachesExit`,
`Finishes`), which is out of the prover's reach; and, of `Tpp`, `TypeOK`,
`ComputesSource` and `StacksBalanced`: its reference meaning is a recursive operator
over the program and its machine computes with bits, and a module that reaches either
has no prover for it.

## 5. What the models leave out

* The values on the data stack and in memory inside `Cpu`; `VStack`, `Pages` and
  `TppMachine` model the containers.  The effect of host libraries.
* **The memory checks of instructions**: which page each of LOAD, STORE, MEMCPY and
  the system calls admits.  In `Cpu` such an instruction may fault or not.  STORE
  looks at the page of the value (`cpu.c:864`) and LOAD's condition is always true
  (`cpu.c:843`); a model of either has an address and a value as data that `Cpu` does
  not have, and would state that one condition and nothing else.
* The instruction pointer inside a system call (`-2`, then `+2`) is not seen by
  the watchdog.
* Ctrl-C is delivered to the thread of the loop; a Ctrl-C while the debugger
  runs is not modelled, nor a hardware fault other than through a `Wild` slot.  What
  an instruction does to a context is one step against Ctrl-C, but for the places
  where it raises an exception itself.
* In a copy of a context, the four compare flags and the registers are one field and
  the handlers another, and `Stack` and `CallStack` are one pointer.  After a
  switchdomain inside a copy two jobs may point to one stack; what is then done to a
  stack that one of them has freed is not followed.
* An opcode that does not exist, in the REX_OPTIMIZE build, jumps through a
  table entry nobody has set; the model treats it as in the other build.
* In `Services`: the positions in streams and what is read or written, which are
  the C library's; the addresses inside pages; the bytes of a library as it is
  copied; `nt_freeall`, which runs when the
  process ends.  A GETLINE over the keyboard is a loop of GETC.
* In `Tpp`: the tokenizer and the precedence of operators, the dynamic build
  (`-d`), `mod_f`, inline assembler, the widths of loads and stores, 64-bit and floating
  point arithmetic (the operators matter by their operands).
* In `Pages`: what a write past the end of a table does to the heap.
* In `Disasm`: the text of a line.
* In `Server`: the prompt's text, and pids that the kernel uses again (a client is
  never waited for, so its pid stays its own while the server runs).
* **Not modelled**: objects (nothing in the repository calls them), the loader
  (straight-line code that runs once before the machine starts; the layout it
  accepts is an assumption of `Pages`), the dump tools (no state), BIOS, graphics,
  fonts, script and package readers (I/O), the libraries (thin wrappers of the
  host's), vendored and generated code.  `PROJECT.json` gives the reason for each.

## 6. What is left

1. Of the hazards without a property, the one at `cpu.c:864` needs the memory
   checks, over the table of `Pages`, with addresses and values as data; the one at
   `cpu.c:781` needs a program that is the same in both builds.
2. The compiler's dynamic build, whose addresses are relative to R20, over the same
   `TppSource`; it would join `Services`' CALLDYNAMIC to `TppMachine`.
3. `StacksBalanced` as a fact about the code the compiler emits, before any machine
   runs it: what each piece of code does to the height of the two stacks could be
   proved in `TppCompilerProofs` as what it does to the labels is.
