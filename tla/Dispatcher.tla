----------------------------- MODULE Dispatcher -----------------------------
(***************************************************************************)
(* The table of domains (jobs) of the R3X machine: src/src/dispatcher.c.   *)
(*                                                                         *)
(* RootDomain->Jobs is an array of pointers.  A slot holds no job, a job,  *)
(* or Wild: nt_realloc does not clear the slots it adds, so a new slot     *)
(* holds whatever realloc(3) found there; TailValues says what that can be.*)
(* A job points to its call stack: stk is the pointer, callStack the heap. *)
(***************************************************************************)
EXTENDS Instructions, FiniteSets

CONSTANTS
    Chunk,             \* slots the table starts with and grows by: 16
    NoJob, Wild,       \* NULL, and a pointer nobody has set
    TailValues,        \* what a slot added by nt_realloc may hold
    JobRegisterSpace,  \* number of values of a saved register: 2^32
    MaxJobs            \* bound: jobs ever dispatched

VARIABLES
    jobs,       \* RootDomain->Jobs
    total,      \* RootDomain->TotalNumberOfJobs
    active,     \* RootDomain->NumberOfActiveJobs
    callStack   \* the call stacks on the heap, by pointer

tableVars == <<jobs, total, active, callStack>>

Job == [ip : Addr, eflag : BOOLEAN, handlers : Handlers,
        reg : 0 .. JobRegisterSpace - 1, stk : Nat, ismain : BOOLEAN]

ASSUME TableAssumption ==
    /\ Chunk \in Nat /\ Chunk > 1
    /\ MaxJobs \in Nat
    /\ TailValues \subseteq {NoJob, Wild}
    /\ NoJob # Wild

ASSUME SlotAssumption == NoJob \notin Job /\ Wild \notin Job

ASSUME JobRegisterAssumption ==
    /\ JobRegisterSpace \in Nat \ {0}
    /\ JobRegisterSpace <= RegisterSpace

Slots == 0 .. total - 1

Live(d) == d \in Slots /\ jobs[d] \notin {NoJob, Wild}

IsWild(d) == d \in Slots /\ jobs[d] = Wild

LiveJobs == {d \in Slots : Live(d)}

NewJob(a, d, main) ==
    [ip |-> a, eflag |-> FALSE, handlers |-> NoHandlers, reg |-> 0,
     stk |-> d, ismain |-> main]

-----------------------------------------------------------------------------
\* Mutant: the table grows one job too late
MustGrowLate == active > total

\* One slot is always kept in reserve: the table grows before it is full
MustGrow == active >= total - 1

NewTotal == IF MustGrow THEN total + Chunk ELSE total

Tails == [total .. NewTotal - 1 -> TailValues]

Table(tail) ==
    [d \in 0 .. NewTotal - 1 |-> IF d < total THEN jobs[d] ELSE tail[d]]

FreeSlots(tail) == {d \in 0 .. NewTotal - 1 : Table(tail)[d] = NoJob}

FirstFree(tail) ==
    CHOOSE d \in FreeSlots(tail) : \A e \in FreeSlots(tail) : d <= e

\* r3x_dispatch_job finds a slot
DispatchJob(a, main, tail) ==
    /\ FreeSlots(tail) # {}
    /\ total' = NewTotal
    /\ jobs' = [Table(tail) EXCEPT
                    ![FirstFree(tail)] = NewJob(a, FirstFree(tail), main)]
    /\ callStack' = [d \in 0 .. NewTotal - 1 |->
                        IF d = FirstFree(tail) THEN <<0>>
                        ELSE IF d < total THEN callStack[d] ELSE <<>>]
    /\ active' = active + 1

\* r3x_dispatch_job finds none: it prints "Unable to find free pointer.  Please
\* report this bug!" and the caller's process exits
NoFreeSlot(tail) ==
    /\ FreeSlots(tail) = {}
    /\ UNCHANGED tableVars

\* Mutant: the count is left alone
ExitJobUncounted(d) ==
    /\ jobs' = [jobs EXCEPT ![d] = NoJob]
    /\ callStack' = [callStack EXCEPT ![jobs[d].stk] = <<>>]
    /\ UNCHANGED <<total, active>>

\* r3x_exit_job
ExitJob(d) ==
    /\ jobs' = [jobs EXCEPT ![d] = NoJob]
    /\ callStack' = [callStack EXCEPT ![jobs[d].stk] = <<>>]
    /\ active' = active - 1
    /\ UNCHANGED total

\* r3x_load_job_state returns 0 only for these ids
Loadable(d) == active # 0 /\ Live(d)

\* It copies from a pointer nobody has set
LoadFaults(d) == active # 0 /\ IsWild(d)

-----------------------------------------------------------------------------
(* Copies.  A context is copied field by field, and a signal can arrive     *)
(* between two fields (the compare flags and the registers are one field).  *)

\* The last field of a context
LastField == 5

\* Field n of one context replaces that of the other, in the order of the
\* assignments
Moved(n, from, to) ==
    [to EXCEPT !.ip = IF n = 1 THEN from.ip ELSE @,
               !.stk = IF n = 2 THEN from.stk ELSE @,
               !.eflag = IF n = 3 THEN from.eflag ELSE @,
               !.handlers = IF n = 4 THEN from.handlers ELSE @,
               !.reg = IF n = 5 THEN from.reg ELSE @]

\* r3x_load_job_state copies a field into the CPU
LoadField(n, cpu, d) == Moved(n, jobs[d], cpu)

\* Regs is uint64_t in the CPU and uint32_t in the job
Cut(cpu) == [cpu EXCEPT !.reg = @ % JobRegisterSpace]

\* Mutant: the exception flag is not copied back
SaveFieldNoFlag(n, cpu, d) ==
    jobs' = [jobs EXCEPT ![d] = IF n = 3 THEN @ ELSE Moved(n, Cut(cpu), @)]

\* r3x_save_job_state copies a field back
SaveField(n, cpu, d) ==
    jobs' = [jobs EXCEPT ![d] = Moved(n, Cut(cpu), @)]

\* The whole of r3x_load_job_state, where nothing can come in between
LoadJobState(d) ==
    [ip |-> jobs[d].ip, eflag |-> jobs[d].eflag, handlers |-> jobs[d].handlers,
     reg |-> jobs[d].reg, stk |-> jobs[d].stk]
=============================================================================
