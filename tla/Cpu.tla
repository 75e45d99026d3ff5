-------------------------------- MODULE Cpu --------------------------------
(***************************************************************************)
(* The R3X machine running its domains: r3x_cpu_loop and the control part  *)
(* of r3x_emulate_instruction (src/src/cpu.c) over the table of Dispatcher *)
(* (src/src/dispatcher.c), with the debugger that every SIGSEGV and every  *)
(* Ctrl-C enters (src/src/exception.c).                                    *)
(*                                                                         *)
(* pc is where the loop is: fetch (the while condition and the execute     *)
(* permission of the instruction pointer), load and save (the tests of     *)
(* r3x_load_job_state and r3x_save_job_state), loading and saving (their   *)
(* copies, field by field), emulate (the test at the head of               *)
(* r3x_emulate_instruction), execute (the instruction), setisr (the rest   *)
(* of a LOADI that has complained) and advance.  A signal can arrive       *)
(* between any two steps, and the keyboard thread and the watchdog thread  *)
(* can set exitcalled between them.                                        *)
(***************************************************************************)
EXTENDS Dispatcher

CONSTANTS
    Exec,         \* the addresses in RX_EXEC blocks
    UseServer,    \* the machine runs under the server: no debugger
    Commands,     \* what the operator types in the debugger
    Signals       \* what comes from outside: "sigint", "quit"

ASSUME CpuAssumption ==
    /\ Exec \subseteq Addr
    /\ 0 \in Exec
    /\ UseServer \in BOOLEAN

VARIABLES
    cpu,         \* the register file and the pointer to the call stack
    cur,         \* RootDomain->CurrentJobID
    copy,        \* JobID of the copy in progress, and the fields it has done
    pc,          \* where the loop is
    resume,      \* where the debugger returns to, and what is then added to ip
    exitcalled,
    isr,         \* ISR_handlers, one vector
    fresh,       \* history: the jobs that have not had a turn yet
    torn         \* history: the operator has switched domains inside a copy

vars == <<jobs, total, active, callStack,
          cpu, cur, copy, pc, resume, exitcalled, isr, fresh, torn>>

LoopSteps == {"fetch", "load", "loading", "emulate", "execute", "setisr",
              "save", "saving", "advance"}

\* Where the loop is, or where it goes on after the debugger
Moment == IF pc = "debug" THEN resume.pc ELSE pc

NoCopy == [job |-> 0, done |-> 0]

NoResume == [pc |-> "fetch", add |-> 0]

CpuRecord == [ip : Addr, eflag : BOOLEAN, handlers : Handlers,
              reg : Registers, stk : Nat]

\* Type invariant
TypeOK ==
    /\ total \in Nat
    /\ active \in Nat
    /\ jobs \in [Slots -> Job \cup {NoJob, Wild}]
    /\ callStack \in [Slots -> Seq(Addr)]
    /\ cpu \in CpuRecord
    /\ cur \in Nat
    /\ copy \in [job : Nat, done : 0 .. LastField - 1]
    /\ pc \in LoopSteps \cup {"debug", "stopped"}
    /\ resume \in [pc : LoopSteps \cup {"stopped"}, add : Nat]
    /\ exitcalled \in BOOLEAN
    /\ isr \in Addr
    /\ fresh \subseteq Slots
    /\ torn \in BOOLEAN

\* main: r3x_init_domain; then the head of r3x_cpu_loop dispatches the BIOS,
\* loads it, sets Regs[0] to the program's entry point and saves it
Init ==
    LET bios == [NewJob(0, 0, TRUE) EXCEPT !.reg = Entry % JobRegisterSpace]
    IN  /\ total = Chunk
        /\ active = 1
        /\ jobs = [d \in 0 .. Chunk - 1 |-> IF d = 0 THEN bios ELSE NoJob]
        /\ callStack = [d \in 0 .. Chunk - 1 |-> IF d = 0 THEN <<0>> ELSE <<>>]
        /\ cpu = [ip |-> 0, eflag |-> FALSE, handlers |-> NoHandlers,
                  reg |-> Entry, stk |-> 0]
        /\ cur = 0
        /\ copy = NoCopy
        /\ pc = "fetch"
        /\ resume = NoResume
        /\ exitcalled = FALSE
        /\ isr = 0
        /\ fresh = {0}
        /\ torn = FALSE

-----------------------------------------------------------------------------
(* The context in the CPU.                                                  *)

\* The CPU holds the registers, the heap its call stack
Running == [ip |-> cpu.ip, eflag |-> cpu.eflag, handlers |-> cpu.handlers,
            reg |-> cpu.reg, calls |-> callStack[cpu.stk]]

Become(c) ==
    /\ cpu' = [cpu EXCEPT !.ip = c.ip, !.eflag = c.eflag,
                          !.handlers = c.handlers, !.reg = c.reg]
    /\ callStack' = [callStack EXCEPT ![cpu.stk] = c.calls]

\* raise(SIGSEGV): REX_EXCEPTION_HANDLER runs the debugger, or exits when the
\* machine runs under the server.  The loop goes on at step next, with n added
\* to the instruction pointer, once the operator continues
EnterDebugger(next, n) ==
    IF UseServer
    THEN pc' = "stopped" /\ resume' = NoResume
    ELSE pc' = "debug" /\ resume' = [pc |-> next, add |-> n]

\* The copy goes on with the next field; after the last one the loop goes on
\* at step next
NextField(next) ==
    IF copy.done + 1 = LastField
    THEN pc' = next /\ copy' = NoCopy
    ELSE pc' = pc /\ copy' = [copy EXCEPT !.done = @ + 1]

-----------------------------------------------------------------------------
(* One turn of r3x_cpu_loop.                                                *)

\* Mutant: the loop waits for the last job instead of the flag
LoopEndsWhenEmpty == active = 0

\* The while condition
LoopEnds == exitcalled

\* Mutant: any address in memory will do
InMemory == cpu.ip < MemorySize + 1

\* The execute permission of the address that is in the CPU NOW: the job whose
\* turn it is has not been loaded yet
Executable == cpu.ip \in Exec

Fetch ==
    /\ pc = "fetch"
    /\ \/ /\ LoopEnds
          /\ pc' = "stopped"
          /\ UNCHANGED resume
       \/ /\ ~LoopEnds
          /\ Executable
          /\ pc' = "load"
          /\ UNCHANGED resume
       \/ /\ ~LoopEnds
          /\ ~Executable
          /\ EnterDebugger("stopped", 0)
    /\ UNCHANGED <<tableVars, cpu, cur, copy, exitcalled, isr, fresh, torn>>

\* r3x_load_job_state is called, JobID by value
LoadTurn ==
    /\ pc = "load"
    /\ \/ /\ Loadable(cur) \/ LoadFaults(cur)
          /\ copy' = [job |-> cur, done |-> 0]
          /\ pc' = "loading"
       \/ /\ ~Loadable(cur) /\ ~LoadFaults(cur)
          /\ pc' = "advance"
          /\ UNCHANGED copy
    /\ UNCHANGED <<tableVars, cpu, cur, resume, exitcalled, isr, fresh, torn>>

\* A field is copied.  A pointer nobody has set is a fault, and the assignment
\* that faulted is tried again
LoadPart ==
    /\ pc = "loading"
    /\ \/ /\ Live(copy.job)
          /\ cpu' = LoadField(copy.done + 1, cpu, copy.job)
          /\ NextField("emulate")
          /\ UNCHANGED resume
       \/ /\ IsWild(copy.job)
          /\ EnterDebugger("loading", 0)
          /\ UNCHANGED <<cpu, copy>>
    /\ UNCHANGED <<tableVars, cur, exitcalled, isr, fresh, torn>>

\* r3x_save_job_state is called, JobID by value
Save ==
    /\ pc = "save"
    /\ \/ /\ Live(cur)
          /\ copy' = [job |-> cur, done |-> 0]
          /\ pc' = "saving"
       \/ /\ ~Live(cur)
          /\ pc' = "advance"
          /\ UNCHANGED copy
    /\ UNCHANGED <<tableVars, cpu, cur, resume, exitcalled, isr, fresh, torn>>

SavePart ==
    /\ pc = "saving"
    /\ SaveField(copy.done + 1, cpu, copy.job)
    /\ NextField("advance")
    /\ fresh' = IF pc' = "advance" THEN fresh \ {copy.job} ELSE fresh
    /\ UNCHANGED <<total, active, callStack, cpu, cur, resume, exitcalled, isr,
                   torn>>

\* Mutant: the scan does not know that the table has grown
NextSlotOfFirstTable == IF cur >= Chunk THEN 0 ELSE cur + 1

\* CurrentJobID is unsigned: -1 and the increment make it 0.  The comparison
\* lets it reach TotalNumberOfJobs, where no job can be loaded
NextSlot == IF cur >= total THEN 0 ELSE cur + 1

Advance ==
    /\ pc = "advance"
    /\ cur' = NextSlot
    /\ pc' = "fetch"
    /\ UNCHANGED <<tableVars, cpu, copy, resume, exitcalled, isr, fresh, torn>>

-----------------------------------------------------------------------------
(* r3x_emulate_instruction, by what the instruction does to the machine.    *)

\* The test at its head.  The other threads may set exitcalled after it
Emulate ==
    /\ pc = "emulate"
    /\ pc' = IF exitcalled \/ ~Live(cur) THEN "save" ELSE "execute"
    /\ UNCHANGED <<tableVars, cpu, cur, copy, resume, exitcalled, isr, fresh,
                   torn>>

Instruction ==
    /\ pc = "execute"
    /\ \E c \in Outcomes(Running, isr) : Become(c)
    /\ pc' = "save"
    /\ UNCHANGED <<jobs, total, active, cur, copy, resume, exitcalled, isr,
                   fresh, torn>>

\* LOADI: set_interrupt complains of an address out of memory before it sets it
LoadI ==
    /\ pc = "execute"
    /\ "loadi" \in Kinds
    /\ \E t \in Targets :
          \/ /\ t <= MemorySize
             /\ Become(Skip(Running, 6))
             /\ isr' = t
             /\ pc' = "save"
             /\ UNCHANGED resume
          \/ /\ t > MemorySize
             /\ Become(Skip(Running, 1))
             /\ EnterDebugger("setisr", 0)
             /\ UNCHANGED isr
    /\ UNCHANGED <<jobs, total, active, cur, copy, exitcalled, fresh, torn>>

\* set_interrupt reads the address again after it has complained, wherever the
\* operator has moved the instruction pointer to
Reread ==
    IF Commands \cap {"setip", "switchdomain"} # {}
    THEN Targets
    ELSE {t \in Targets : t > MemorySize}

\* and the process is still there: it sets it
SetIsr ==
    /\ pc = "setisr"
    /\ isr' \in Reread
    /\ cpu' = [cpu EXCEPT !.ip = Plus(@, 5)]
    /\ pc' = "save"
    /\ UNCHANGED <<tableVars, cur, copy, resume, exitcalled, fresh, torn>>

\* handle_cpu_exception, in the instruction that calls it
Raise ==
    /\ pc = "execute"
    /\ \E f \in Faults :
          LET c == Skip(Running, f.before) IN
          \E h \in HandlersOf(c, f.id) :
             \/ /\ EntersHandler(c, f.id, h)
                /\ Become(Skip(InHandler(c, h), f.after))
                /\ pc' = "save"
                /\ UNCHANGED resume
             \/ /\ ~EntersHandler(c, f.id, h)
                /\ Become(c)
                /\ EnterDebugger("save", f.after)
    /\ UNCHANGED <<jobs, total, active, cur, copy, exitcalled, isr, fresh, torn>>

\* SYSCALL_DISPATCH.  Every job is dispatched as a main job.  (An address out
\* of memory is a fault, of kind "fault")
Dispatch ==
    /\ pc = "execute"
    /\ "dispatch" \in Kinds
    /\ active < MaxJobs
    /\ \E a \in {t \in Targets : t <= MemorySize}, tail \in Tails :
          \/ /\ DispatchJob(a, TRUE, tail)
             /\ fresh' = fresh \cup {FirstFree(tail)}
             /\ cpu' = [cpu EXCEPT !.ip = Plus(@, 2)]
             /\ pc' = "save"
          \/ /\ NoFreeSlot(tail)
             /\ pc' = "stopped"
             /\ UNCHANGED <<cpu, fresh>>
    /\ UNCHANGED <<cur, copy, resume, exitcalled, isr, torn>>

\* EXIT tests the flag again.  A main job ends the machine; then the job goes in
\* any case
Exit ==
    /\ pc = "execute"
    /\ "exit" \in Kinds
    /\ \/ /\ ~exitcalled
          /\ exitcalled' = jobs[cur].ismain
          /\ ExitJob(cur)
          /\ fresh' = fresh \ {cur}
       \/ /\ exitcalled
          /\ UNCHANGED <<tableVars, exitcalled, fresh>>
    /\ pc' = "save"
    /\ UNCHANGED <<cpu, cur, copy, resume, isr, torn>>

Execute == Instruction \/ LoadI \/ Raise \/ Dispatch \/ Exit

-----------------------------------------------------------------------------
(* The debugger, inside the signal handler: the loop waits for it.          *)

Continue ==
    /\ pc = "debug"
    /\ pc' = resume.pc
    /\ cpu' = [cpu EXCEPT !.ip = Plus(@, resume.add)]
    /\ resume' = NoResume
    /\ UNCHANGED <<tableVars, cur, copy, exitcalled, isr, fresh, torn>>

QuitCommand ==
    /\ pc = "debug"
    /\ "quit" \in Commands
    /\ pc' = "stopped"
    /\ UNCHANGED <<tableVars, cpu, cur, copy, resume, exitcalled, isr, fresh, torn>>

\* setip says that an address is invalid, and sets it
SetIp ==
    /\ pc = "debug"
    /\ "setip" \in Commands
    /\ \E a \in Targets : cpu' = [cpu EXCEPT !.ip = a]
    /\ UNCHANGED <<tableVars, cur, copy, pc, resume, exitcalled, isr, fresh, torn>>

\* setreg: the value comes from atoi into an unsigned int
SetReg ==
    /\ pc = "debug"
    /\ "setreg" \in Commands
    /\ \E r \in 0 .. JobRegisterSpace - 1 : cpu' = [cpu EXCEPT !.reg = r]
    /\ UNCHANGED <<tableVars, cur, copy, pc, resume, exitcalled, isr, fresh, torn>>

\* Mutant: the loop still thinks it runs the other job
SwitchToUncurrent(d) == cpu' = LoadJobState(d) /\ UNCHANGED cur

InsideCopyOfOther(d) == Moment \in {"loading", "saving"} /\ d # copy.job

SwitchTo(d) == cpu' = LoadJobState(d) /\ cur' = d

\* switchdomain: the job in the CPU is not saved first.  When the domain asked
\* for does not exist the current one is loaded again, over what was in the CPU.
\* A slot nobody has set faults inside the handler of the same signal: the
\* process dies.  A copy that was under way goes on with its own JobID: then two
\* jobs may come to share a stack, and what they do to each other after one has
\* exited and freed it is not followed here
SwitchDomain ==
    /\ pc = "debug"
    /\ "switchdomain" \in Commands
    /\ \E d \in 0 .. total :
          \/ /\ Loadable(d)
             /\ SwitchTo(d)
             /\ torn' = (torn \/ InsideCopyOfOther(d))
             /\ UNCHANGED pc
          \/ /\ ~Loadable(d)
             /\ LoadFaults(d) \/ LoadFaults(cur)
             /\ pc' = "stopped"
             /\ UNCHANGED <<cpu, cur, torn>>
          \/ /\ ~Loadable(d) /\ ~LoadFaults(d) /\ ~LoadFaults(cur)
             /\ cpu' = IF Loadable(cur) THEN LoadJobState(cur) ELSE cpu
             /\ UNCHANGED <<cur, pc, torn>>
    /\ UNCHANGED <<tableVars, copy, resume, exitcalled, isr, fresh>>

Debugger == Continue \/ QuitCommand \/ SetIp \/ SetReg \/ SwitchDomain

-----------------------------------------------------------------------------
(* Outside the thread of the loop.                                          *)

\* Ctrl-C: SIGINT has the same handler
SigInt ==
    /\ "sigint" \in Signals
    /\ pc \in LoopSteps
    /\ EnterDebugger(pc, 0)
    /\ UNCHANGED <<tableVars, cpu, cur, copy, exitcalled, isr, fresh, torn>>

\* keyboard_thread gets SDL_QUIT: the window was closed
WindowClosed ==
    /\ "quit" \in Signals
    /\ pc # "stopped"
    /\ exitcalled' = TRUE
    /\ UNCHANGED <<tableVars, cpu, cur, copy, pc, resume, isr, fresh, torn>>

\* CPUDispatchThread, which is there with REX_OPTIMIZE only
Watchdog ==
    /\ Optimize
    /\ pc # "stopped"
    /\ cpu.ip > MemorySize
    /\ exitcalled' = TRUE
    /\ UNCHANGED <<tableVars, cpu, cur, copy, pc, resume, isr, fresh, torn>>

Turn ==
    \/ Fetch \/ LoadTurn \/ LoadPart \/ Emulate \/ Execute \/ SetIsr
    \/ Save \/ SavePart \/ Advance

Next == Turn \/ Debugger \/ SigInt \/ WindowClosed \/ Watchdog

Spec == Init /\ [][Next]_vars

\* The thread of the loop runs; the operator and the other threads need not
FairSpec == Spec /\ WF_vars(Turn)

-----------------------------------------------------------------------------
(* Properties.                                                              *)

\* NumberOfActiveJobs counts the jobs in the table, across growth and EXIT
\* (src/src/dispatcher.c:66 and :130): r3x_dispatch_job grows by this count
\* alone, without looking at the slots
JobsCounted == active = Cardinality(LiveJobs)

\* "Unable to find free pointer.  Please report this bug!"
\* (src/src/dispatcher.c:70) is never reached when nt_realloc's new slots are
\* NULL: whenever a program may dispatch, r3x_dispatch_job finds a slot
DispatchFindsSlot ==
    Wild \notin TailValues => \A tail \in Tails : FreeSlots(tail) # {}

\* In the middle of a turn: the CPU holds a context that will be written back
InTurn == Moment \in {"emulate", "execute", "setisr", "save", "saving"}

\* No two domains ever share a call stack, and the context that Save writes
\* into the slot of the current job is that job's own, wherever in the turn the
\* operator has switched to another domain, but for the inside of a copy
\* (dispatcher.c:105-107 copies the stack POINTERS back, exception.c:202-217
\* changes the CPU and CurrentJobID)
ContextOwned ==
    ~torn =>
        /\ \A d \in LiveJobs : jobs[d].stk = d
        /\ InTurn /\ Live(cur) => cpu.stk = cur

\* The loop checks the execute permission of the context it has just SAVED,
\* not of the one it is about to run (cpu.c:168 is before cpu.c:173).  It is
\* enough for every job except on its first turn, as long as the operator does
\* not move the instruction pointer or switch domains
FetchChecked == pc = "execute" => cpu.ip \in Exec \/ cur \in fresh

\* Every job gets its turn again and again until the machine stops or the
\* operator holds it, while the table grows under the scan (cpu.c:181-184)
EveryJobRuns ==
    \A d \in 0 .. MaxJobs + Chunk :
        [](Live(d) => <>(\/ pc = "execute" /\ cur = d
                        \/ pc \in {"debug", "stopped"}))

\* The machine ends after exitcalled is set, unless the operator holds it
ExitStops == exitcalled ~> pc \in {"debug", "stopped"}

=============================================================================
