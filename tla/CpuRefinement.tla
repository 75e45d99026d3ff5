--------------------------- MODULE CpuRefinement ---------------------------
(***************************************************************************)
(* The machine of Cpu implements the private contexts of Domains.          *)
(***************************************************************************)
EXTENDS Cpu

\* Field n of the context of the current domain is in the CPU: it has been
\* loaded, and it has not been saved yet
InCpu(n) ==
    \/ Moment \in {"emulate", "execute", "setisr", "save"}
    \/ Moment = "loading" /\ n <= copy.done
    \/ Moment = "saving" /\ n > copy.done

\* What will still be added to the instruction pointer is accounted for already
Pending ==
    IF Moment = "setisr" THEN 5 ELSE IF pc = "debug" THEN resume.add ELSE 0

SavedContext(d) ==
    [ip |-> jobs[d].ip, eflag |-> jobs[d].eflag, handlers |-> jobs[d].handlers,
     reg |-> jobs[d].reg, calls |-> callStack[jobs[d].stk]]

\* The context of the domain whose turn it is, each field where it is now
CurrentContext ==
    [ip |-> IF InCpu(1) THEN Plus(cpu.ip, Pending) ELSE jobs[cur].ip,
     eflag |-> IF InCpu(3) THEN cpu.eflag ELSE jobs[cur].eflag,
     handlers |-> IF InCpu(4) THEN cpu.handlers ELSE jobs[cur].handlers,
     reg |-> IF InCpu(5) THEN cpu.reg % JobRegisterSpace ELSE jobs[cur].reg,
     calls |-> callStack[IF InCpu(2) THEN cpu.stk ELSE jobs[cur].stk]]

\* The refinement mapping
Ctx ==
    IF pc = "stopped"
    THEN <<>>
    ELSE [d \in LiveJobs |-> IF d = cur THEN CurrentContext ELSE SavedContext(d)]

\* A turn, from the first field loaded to the last one saved
MidTurn == Moment = "loading" \/ InTurn

Held == IF pc = "debug" /\ MidTurn /\ Live(cur) THEN {cur} ELSE {}

Owed == Moment = "setisr"

\* An instruction has passed the test of exitcalled and is not over: it is
\* executed, whatever the flag says meanwhile
InFlight == Moment \in {"execute", "setisr"}

Halted == pc = "stopped" \/ (exitcalled /\ ~InFlight)

D == INSTANCE Domains
       WITH ctx <- Ctx, held <- Held, owed <- Owed, halted <- Halted,
            Ids <- 0 .. MaxJobs + Chunk

\* The round robin, the register file that all domains share, the copies in and
\* out of it, field by field, and the growing table are invisible to the
\* domains, when the operator does not switch domains
\* (src/src/dispatcher.c:73-120, src/src/cpu.c:162-185); and after exitcalled is
\* set at most the instruction that has passed the test of cpu.c:212 is executed
ImplementsDomains == D!Spec
=============================================================================
