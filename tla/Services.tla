------------------------------ MODULE Services ------------------------------
(***************************************************************************)
(* What the machine offers a program beside computing: streams             *)
(* (src/src/stream.c), dynamic libraries (dynamic.c), native libraries     *)
(* (native.c), memory and jobs, as the system calls and instructions of    *)
(* cpu.c use them, all over one allocator (Heap); and the keyboard, which  *)
(* GETC shares with a thread.                                              *)
(*                                                                         *)
(* A program is the set of the services it uses.  Pages and segments are   *)
(* counted, not addressed; the host's files are names.                     *)
(***************************************************************************)
EXTENDS Heap, Sequences

CONSTANTS
    Programs,       \* sets of services
    StreamStep,     \* 16: number_of_total_streams, and what a growth adds
    LibSlots,       \* 32: total_number_of_structs
    Libraries,      \* names of libraries that can be loaded
    Files,          \* names of files that can be opened
    JobSlots,       \* services too: a program has the jobs it uses
    Offsets,        \* what an export table can say of where a function is
    PageSpace,      \* the pages an address can name
    MaxStreams, MaxPages, MaxNatives, MaxKeys   \* bounds

ASSUME ServicesAssumption ==
    /\ StreamStep \in Nat \ {0} /\ LibSlots \in Nat \ {0}
    /\ {Null, Junk, "missing"} \cap Files = {}

ASSUME BoundsAssumption == MaxPages \in Nat \ {0} /\ MaxKeys \in Nat

ASSUME OffsetsAssumption == Offsets \subseteq Nat /\ PageSpace \in Nat \ {0}

\* A library's structure is not NULL
ASSUME NullAssumption ==
    Null \notin [name : Libraries, loadaddr : Nat, pages : Nat, block : Blocks \cup {Null}]

VARIABLES
    uses,       \* the program
    heap,
    streams,    \* streams, number_of_total_streams, used_streams
    libs,       \* lbstructs, total_number_of_structs, number_of_used_structs
    natives,    \* the list from head to tail; path is history: the string that
                \* looking for the library has left behind
    memory,     \* Memory, MemorySize, CPUMemoryBlocks; what was asked for, where
    jobs,       \* the stacks and the structure of each job
    call,       \* what the last CALLDYNAMIC did
    keys,       \* is_read and keycode, and where the thread and GETC are
    ended       \* "no", "exit", "crash", or "fault": no slot for a stream

machine == <<streams, libs, natives, memory, jobs, call>>
vars == <<uses, heap, machine, keys, ended>>

NoJob == [job |-> Null]
NoCall == [raised |-> 0, from |-> "here", r20 |-> 0, offset |-> 0, target |-> 0]

\* main() before the program starts: the blocks of the tables, in the order of main.c
Init ==
    \E beyond \in {Null, Junk} :
        LET h1 == nt_malloc(nt_malloc_init(beyond))
            h2 == nt_malloc(h1)
            h3 == nt_malloc(h2)
            h4 == nt_malloc(h3)
            h5 == nt_malloc(h4)
        IN /\ heap = h5
           /\ libs = [table |-> h1.ptr, total |-> LibSlots, used |-> 0,
                      slot |-> [i \in 0 .. LibSlots - 1 |-> Null]]
           /\ streams = [table |-> h2.ptr, total |-> StreamStep, used |-> 0,
                         slot |-> [i \in 0 .. StreamStep - 1 |-> Null]]
           /\ memory = [block |-> h3.ptr, actual |-> 1, size |-> 1, root |-> h4.ptr,
                        pages |-> h5.ptr, areas |-> {}]
           /\ uses \in Programs
           /\ natives = <<>> /\ call = NoCall
           /\ ended = IF h5.gone THEN "exit" ELSE "no"
           /\ jobs = [j \in JobSlots |-> NoJob]
           /\ keys = [is_read |-> TRUE, keycode |-> 0, thread |-> "wait", event |-> 0,
                      getc |-> "idle", pressed |-> 0, accepted |-> <<>>, got |-> <<>>,
                      raced |-> FALSE]

\* The CPU thread is between two instructions
Between == ended = "no" /\ keys.getc = "idle"

\* and the program uses the service
Serves(service) == Between /\ service \in uses

\* The wrapper may have ended the program
Leave(h) == heap' = h /\ ended' = IF h.gone THEN "exit" ELSE "no"

-----------------------------------------------------------------------------
(* Streams.                                                                *)

\* Mutant: the table is made anew
LongerStreamsEmpty(tail) ==
    LET h == nt_realloc(heap, streams.table)
        total == streams.total + StreamStep
    IN <<h, [streams EXCEPT !.table = h.ptr, !.total = total,
                            !.slot = [i \in 0 .. total - 1 |-> Null]]>>

\* nt_realloc does not clear what it adds
LongerStreams(tail) ==
    LET h == nt_realloc(heap, streams.table)
        total == streams.total + StreamStep
    IN <<h, [streams EXCEPT !.table = h.ptr, !.total = total,
                            !.slot = [i \in 0 .. total - 1 |->
                                        IF i < streams.total THEN @[i] ELSE tail[i]]]>>

\* Mutant: the table grows when it has been over-filled
StreamsFullLate == streams.used > streams.total

StreamsFull == streams.used >= streams.total

Tails == [streams.total .. streams.total + StreamStep - 1 -> {Null, Junk}]

\* stream_open on a table with room, if there is room
OpenIn(h, s, file) ==
    LET free == {i \in 0 .. s.total - 1 : s.slot[i] = Null}
    IN IF free = {}
       THEN heap' = h /\ streams' = s /\ ended' = "fault"
       ELSE /\ Leave(h)
            /\ streams' = IF file \in Files
                          THEN [s EXCEPT !.slot[FirstIn(free)] = file, !.used = @ + 1]
                          ELSE s

OpenStream ==
    /\ Serves("stream")
    /\ \E file \in Files \cup {"missing"} :
          IF StreamsFull
          THEN /\ streams.total < MaxStreams
               /\ \E tail \in Tails :
                    OpenIn(LongerStreams(tail)[1], LongerStreams(tail)[2], file)
          ELSE OpenIn(heap, streams, file)
    /\ UNCHANGED <<uses, libs, natives, memory, jobs, call, keys>>

\* Any number is a handle; a slot that was never written is followed
CloseStream ==
    /\ Serves("stream")
    /\ \E handle \in DOMAIN streams.slot :
          /\ streams.slot[handle] # Null
          /\ IF streams.slot[handle] = Junk
             THEN ended' = "crash" /\ UNCHANGED streams
             ELSE /\ streams' = [streams EXCEPT !.slot[handle] = Null, !.used = @ - 1]
                  /\ UNCHANGED ended
    /\ UNCHANGED <<uses, heap, libs, natives, memory, jobs, call, keys>>

-----------------------------------------------------------------------------
(* Memory and libraries.                                                   *)

\* Mutant: the old structure is not freed
RebuildMemoryBlockLeaking(h, m) ==
    LET h1 == nt_malloc(h)
        h2 == nt_malloc(h1)
    IN <<nt_free(h2, m.pages), [m EXCEPT !.root = h1.ptr, !.pages = h2.ptr]>>

\* RebuildMemoryBlock: two new blocks, then the old ones are freed
RebuildMemoryBlock(h, m) ==
    LET h1 == nt_malloc(h)
        h2 == nt_malloc(h1)
        h3 == nt_free(h2, m.pages)
    IN <<nt_free(h3, m.root), [m EXCEPT !.root = h1.ptr, !.pages = h2.ptr]>>

\* Mutant: a page less
ResizedShort(h, m, n) ==
    LET h1 == nt_realloc(h, m.block)
    IN RebuildMemoryBlock(h1, [m EXCEPT !.block = h1.ptr, !.actual = n - 1])

\* Memory becomes n pages; the machine's size stays
Resized(h, m, n) ==
    LET h1 == nt_realloc(h, m.block)
    IN RebuildMemoryBlock(h1, [m EXCEPT !.block = h1.ptr, !.actual = n])

\* SYSCALL_ALLOC: the new pages are behind the old ones
Alloc ==
    /\ Serves("memory")
    /\ \E n \in 1 .. MaxPages - memory.size :
          LET m == [memory EXCEPT !.size = @ + n, !.areas = @ \cup {<<memory.size, n>>}]
              r == Resized(heap, m, m.size)
          IN Leave(r[1]) /\ memory' = r[2]
    /\ UNCHANGED <<uses, streams, libs, natives, jobs, call, keys>>

LibrarySlots == {i \in DOMAIN libs.slot : libs.slot[i] = Null}

\* The library's structure and its share of the memory.  With all slots taken the
\* memory has grown and MemorySize has not
Placed(h, m, name, n) ==
    LET h1 == nt_malloc(h)
    IN IF LibrarySlots = {}
       THEN Leave(h) /\ memory' = m /\ UNCHANGED libs
       ELSE /\ Leave(h1)
            /\ memory' = [m EXCEPT !.size = @ + n, !.areas = @ \cup {<<m.size, n>>}]
            /\ libs' = [libs EXCEPT !.slot[FirstIn(LibrarySlots)] =
                            [name |-> name, loadaddr |-> m.size, pages |-> n,
                             block |-> h1.ptr]]

\* Mutant: the names are not compared
LoadedNever(name) == {i \in DOMAIN libs.slot : FALSE}

Loaded(name) ==
    {i \in DOMAIN libs.slot : libs.slot[i] # Null /\ libs.slot[i].name = name}

\* load_dynamic_library.  number_of_used_structs stays 0: the table never grows.
\* A file that is not there, or not a library, ends the program
LoadDynamic ==
    /\ Serves("library")
    /\ \/ \E name \in Libraries : Loaded(name) # {} /\ UNCHANGED <<heap, memory, libs, ended>>
       \/ \E name \in Libraries, n \in 1 .. MaxPages - memory.size :
             LET temp == nt_malloc(heap)
                 r == Resized(temp, memory, memory.size + n)
             IN /\ Loaded(name) = {} /\ libs.used < libs.total
                /\ Placed(nt_free(r[1], temp.ptr), r[2], name, n)
       \/ ended' = "exit" /\ UNCHANGED <<heap, memory, libs>>
    /\ UNCHANGED <<uses, streams, natives, jobs, call, keys>>

return_dynamic_load_addr(handle) ==
    IF handle \in DOMAIN libs.slot /\ libs.slot[handle] # Null
    THEN libs.slot[handle].loadaddr ELSE 0

Unknown == -1

\* offset is that of the function in the library: data of the file, which nothing
\* holds against the library's size
dynamic_call(handle, offset) ==
    IF return_dynamic_load_addr(handle) = 0 \/ offset = Unknown
    THEN 0 ELSE (return_dynamic_load_addr(handle) + offset) % PageSpace

\* CALLDYNAMIC.  A name that is not in data raises an exception and the instruction
\* goes on: what it pushes is then next to the handler.  R20 is set before the name
\* is looked up.  Handle -1 is what a load into a full table has returned; offset is
\* kept as history
CallDynamic ==
    /\ Serves("call")
    /\ \E handle \in DOMAIN libs.slot \cup {-1}, offset \in Offsets \cup {Unknown}, rw \in BOOLEAN :
          LET first == IF rw THEN 0 ELSE 1
              d_addr == return_dynamic_load_addr(handle)
              target == dynamic_call(handle, offset)
          IN call' = [raised |-> first + IF target = 0 THEN 1 ELSE 0,
                      from |-> IF rw THEN "here" ELSE "handler",
                      r20 |-> IF d_addr = 0 THEN call.r20 ELSE d_addr,
                      offset |-> offset, target |-> target]
    /\ UNCHANGED <<uses, heap, streams, libs, natives, memory, jobs, keys, ended>>

-----------------------------------------------------------------------------
(* Native libraries and jobs.                                              *)

NativeNames == Libraries \cup {"rstdlib"}

\* dlopen of the name; rstdlib's path is a string that is freed again
LookedFor(name) ==
    LET path == nt_malloc(heap)
    IN IF name = "rstdlib" THEN nt_free(path, path.ptr) ELSE heap

\* An entry of the list, unless the library has no function Start
Opened(h, name, path) ==
    LET h1 == nt_malloc(h)
    IN \/ /\ Leave(h1)
          /\ natives' = Append(natives, [name |-> name, block |-> h1.ptr, path |-> path])
       \/ heap' = h1 /\ ended' = "exit" /\ UNCHANGED natives

\* load_native_library.  A library that is not found at once is looked for in the
\* VM's directory, and the string of that path stays.  A library that is loaded
\* again gets a second entry
LoadLib ==
    /\ Serves("native")
    /\ Len(natives) < MaxNatives
    /\ \E name \in NativeNames :
          LET fallback == nt_malloc(LookedFor(name))
          IN \/ Opened(LookedFor(name), name, Null)
             \/ Opened(fallback, name, fallback.ptr)
             \/ heap' = fallback /\ ended' = "exit" /\ UNCHANGED natives
    /\ UNCHANGED <<uses, streams, libs, memory, jobs, call, keys>>

\* LIBEXEC: returnhandle starts at head, which is NULL before the first library.
\* Without a handle, or without the function, the program ends
LibExec ==
    /\ Serves("native")
    /\ \E name \in NativeNames :
          ended' = IF natives = <<>> THEN "crash"
                   ELSE IF \E i \in DOMAIN natives : natives[i].name = name THEN "no"
                   ELSE "exit"
    /\ UNCHANGED <<uses, heap, machine, keys>>

\* r3x_dispatch_job: the structure, two stacks, and the first item of each
Dispatch ==
    /\ Between
    /\ \E j \in JobSlots \cap uses :
          LET h1 == nt_malloc(heap)
              h2 == nt_malloc(h1)
              h3 == nt_malloc(h2)
              h4 == nt_malloc(h3)
              h5 == nt_malloc(h4)
          IN /\ jobs[j] = NoJob
             /\ jobs' = [jobs EXCEPT ![j] =
                    [job |-> h1.ptr, Stack |-> h2.ptr, CallStack |-> h3.ptr,
                     content |-> h4.ptr, calls |-> h5.ptr]]
             /\ Leave(h5)
    /\ UNCHANGED <<uses, streams, libs, natives, memory, call, keys>>

\* PushtoStack: the new buffer comes before the old one goes
Grow ==
    /\ Serves("stack")
    /\ \E j \in JobSlots :
          LET h == nt_malloc(heap)
          IN /\ jobs[j] # NoJob
             /\ \/ /\ Leave(nt_free(h, jobs[j].content))
                   /\ jobs' = [jobs EXCEPT ![j].content = h.ptr]
                \/ /\ Leave(nt_free(h, jobs[j].calls))
                   /\ jobs' = [jobs EXCEPT ![j].calls = h.ptr]
    /\ UNCHANGED <<uses, streams, libs, natives, memory, call, keys>>

DestroyStack(h, content, stack) == nt_free(nt_free(h, content), stack)

\* r3x_exit_job: its blocks in the order they are freed
ExitJob ==
    /\ Between
    /\ \E j \in JobSlots \cap uses :
          LET h1 == DestroyStack(heap, jobs[j].content, jobs[j].Stack)
              h2 == DestroyStack(h1, jobs[j].calls, jobs[j].CallStack)
          IN /\ jobs[j] # NoJob
             /\ Leave(nt_free(h2, jobs[j].job))
             /\ jobs' = [jobs EXCEPT ![j] = NoJob]
    /\ UNCHANGED <<uses, streams, libs, natives, memory, call, keys>>

-----------------------------------------------------------------------------
(* The keyboard: is_read and keycode, without a lock.                      *)

KeyboardUnchanged == UNCHANGED <<uses, heap, machine, ended>>

\* SDL_WaitEvent: a key, or any other event
Event ==
    /\ ended = "no" /\ "keyboard" \in uses /\ keys.thread = "wait"
    /\ \/ /\ keys.pressed < MaxKeys
          /\ keys' = [keys EXCEPT !.pressed = @ + 1, !.event = keys.pressed + 1,
                                  !.thread = "check"]
       \/ keys' = [keys EXCEPT !.thread = "after"]
    /\ KeyboardUnchanged

\* Mutant: a key that has not been read is overwritten
AcceptsAlways(k) == TRUE

Accepts(k) == k.is_read

\* Another step of the thread.  raced: it writes keycode between GETC's two steps
ThreadStep ==
    /\ ended = "no" /\ keys.thread # "wait"
    /\ keys' =
         CASE keys.thread = "check" ->
                [keys EXCEPT !.thread = IF Accepts(keys) THEN "store" ELSE "after"]
           [] keys.thread = "store" ->
                [keys EXCEPT !.keycode = keys.event, !.thread = "release",
                             !.raced = @ \/ keys.getc = "read"]
           [] keys.thread = "release" ->
                [keys EXCEPT !.is_read = FALSE, !.thread = "after",
                             !.accepted = Append(@, keys.keycode)]
           [] keys.thread = "after" ->
                [keys EXCEPT !.thread = IF keys.is_read THEN "zero" ELSE "wait"]
           [] keys.thread = "zero" ->
                [keys EXCEPT !.keycode = 0, !.thread = "wait",
                             !.raced = @ \/ keys.getc = "read"]
    /\ KeyboardUnchanged

\* GETC: is_read is tested, then set, then keycode is pushed.  0 is no key
GetC ==
    /\ ended = "no" /\ "keyboard" \in uses
    /\ keys' =
         CASE keys.getc = "idle" -> [keys EXCEPT !.getc = IF keys.is_read THEN "idle" ELSE "take"]
           [] keys.getc = "take" -> [keys EXCEPT !.is_read = TRUE, !.getc = "read"]
           [] keys.getc = "read" ->
                [keys EXCEPT !.getc = "idle",
                             !.got = IF keys.keycode = 0 THEN @ ELSE Append(@, keys.keycode)]
    /\ KeyboardUnchanged

-----------------------------------------------------------------------------
Next ==
    \/ OpenStream \/ CloseStream
    \/ Alloc \/ LoadDynamic \/ CallDynamic
    \/ LoadLib \/ LibExec
    \/ Dispatch \/ Grow \/ ExitJob
    \/ Event \/ ThreadStep \/ GetC

Spec == Init /\ [][Next]_vars

-----------------------------------------------------------------------------
(* Properties.                                                             *)

\* The registry, the tables and the keyboard have the shapes the code gives them
TypeOK ==
    /\ heap.slot \in [0 .. heap.sz -> Blocks \cup {Null, Junk}]
    /\ heap.sz \in Nat /\ heap.allocs \in Int
    /\ DOMAIN streams.slot = 0 .. streams.total - 1
    /\ DOMAIN libs.slot = 0 .. libs.total - 1
    /\ memory.size \in 1 .. MaxPages /\ memory.size <= memory.actual
    /\ keys.is_read \in BOOLEAN /\ keys.keycode \in 0 .. MaxKeys
    /\ ended \in {"no", "exit", "crash", "fault"}

\* However jobs come and go, tables move and libraries are loaded, the allocator's
\* count agrees with its registry, so that the registry grows in time and no block
\* ends up behind it
RegistryExact == Exact(heap)

\* The blocks the machine holds
Held ==
    {streams.table, libs.table, memory.block, memory.root, memory.pages}
      \cup {libs.slot[i].block : i \in {n \in DOMAIN libs.slot : libs.slot[n] # Null}}
      \cup {natives[i].block : i \in DOMAIN natives}
      \cup UNION {{jobs[j].job, jobs[j].Stack, jobs[j].CallStack, jobs[j].content,
                   jobs[j].calls} : j \in {n \in JobSlots : jobs[n] # NoJob}}

\* The paths of the libraries that were found in the VM's directory
Left == {natives[i].path : i \in DOMAIN natives} \ {Null}

\* Every pointer the machine goes on to use is a block in use, though nt_realloc
\* moves blocks and RebuildMemoryBlock replaces them; and no block is in use that
\* nothing points to: what a job, a load or a growth has allocated on the way is
\* freed, but for the paths that load_native_library leaves (native.c:50-59)
PointersOwned ==
    ended = "no" => Held \cup Left = Registered(heap) /\ Held \cap Left = {}

\* used_streams counts the open streams, so a slot is always found for one more,
\* unless the slots that the growth added hold what was there before
StreamsCounted ==
    /\ streams.used = Cardinality({i \in DOMAIN streams.slot : streams.slot[i] \in Files})
    /\ ended = "fault" => \E i \in DOMAIN streams.slot : streams.slot[i] = Junk

\* A stream's handle stays with its file until that handle is closed: no growth of
\* the table and no other open or close moves it or gives it away
HandlesKept ==
    \A i \in DOMAIN streams.slot :
        streams.slot[i] \in Files =>
            \/ streams'.slot[i] = streams.slot[i]
            \/ streams'.slot[i] = Null /\ \A j \in DOMAIN streams.slot :
                                            j # i => streams'.slot[j] = streams.slot[j]

StreamHandlesKept == [][HandlesKept]_vars

Apart(a, b) == a[1] + a[2] <= b[1] \/ b[1] + b[2] <= a[1]

\* Libraries and allocated memory have places of their own inside the memory, in any
\* order of loads and allocations, the loads that found the table full included; a
\* name has one handle; and a call through CALLDYNAMIC goes as far behind the address
\* in R20 as the function is in its file, and that address is a library's
ImagesApart ==
    /\ \A a \in memory.areas : a[1] + a[2] <= memory.size
    /\ \A a, b \in memory.areas : a = b \/ Apart(a, b)
    /\ \A i, j \in DOMAIN libs.slot :
          libs.slot[i] # Null /\ libs.slot[j] # Null /\ libs.slot[i].name = libs.slot[j].name
            => i = j
    /\ call.target # 0 =>
          \E i \in DOMAIN libs.slot :
             /\ libs.slot[i] # Null /\ libs.slot[i].loadaddr = call.r20
             /\ call.target = (call.r20 + call.offset) % PageSpace

\* A key that the thread has taken reaches GETC once and in order, unless the thread
\* writes keycode after GETC has set is_read and before it has pushed the key: then
\* the key is lost, or the next one comes twice.  Even then none comes back
KeysOnce ==
    /\ ~keys.raced =>
          keys.accepted = keys.got \o IF ~keys.is_read \/ keys.getc = "read"
                                      THEN <<keys.keycode>> ELSE <<>>
    /\ \A i, j \in DOMAIN keys.got : i < j => keys.got[i] <= keys.got[j]
=============================================================================
