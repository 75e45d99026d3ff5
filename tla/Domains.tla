------------------------------ MODULE Domains ------------------------------
(***************************************************************************)
(* What the dispatcher and the CPU loop together promise a program: every  *)
(* domain owns a context, and a step of the machine is one instruction of  *)
(* one domain on ITS context, whatever the round-robin scheduler, the one  *)
(* physical register file and the copies between them do.  There is no     *)
(* table of slots here, no current job, no load and no save.               *)
(*                                                                         *)
(* A context changes in no other way, but by the operator's hand while the *)
(* debugger has stopped the machine in the middle of that domain's turn.   *)
(*                                                                         *)
(* The interrupt vector is shared by every domain, and EXIT in any domain  *)
(* halts the machine: that is what the code does.                          *)
(***************************************************************************)
EXTENDS Instructions

CONSTANTS
    Ids,                \* the names a domain may get
    JobRegisterSpace    \* number of register values that survive a turn

VARIABLES
    ctx,      \* the context of every domain there is
    isr,      \* the interrupt vector
    held,     \* the domain the operator has in hand: at most one
    owed,     \* a LOADI has complained, and will still set the vector
    halted    \* no domain executes another instruction

vars == <<ctx, isr, held, owed, halted>>

\* A context as it is kept between two instructions
Kept(c) == [c EXCEPT !.reg = @ % JobRegisterSpace]

Init ==
    /\ ctx = [d \in {0} |-> Kept([NewContext(0) EXCEPT !.reg = Entry])]
    /\ isr = 0
    /\ held = {}
    /\ owed = FALSE
    /\ halted = FALSE

Domain == DOMAIN ctx

\* Domain d moves to context c, and no other domain notices
Becomes(d, c) == ctx' = [ctx EXCEPT ![d] = Kept(c)]

-----------------------------------------------------------------------------
(* Instructions.  The machine may be told to halt while one is executed,    *)
(* which is then the last.                                                  *)

Ready == ~halted /\ ~owed /\ held = {}

MayHalt == halted' \in BOOLEAN

Execute(d) ==
    /\ Ready
    /\ \E c \in Outcomes(ctx[d], isr) : Becomes(d, c)
    /\ MayHalt
    /\ UNCHANGED <<isr, held, owed>>

SetInterrupt(d) ==
    /\ Ready
    /\ Becomes(d, Skip(ctx[d], 6))
    /\ isr' \in {t \in Targets : t <= MemorySize}
    /\ MayHalt
    /\ UNCHANGED <<held, owed>>

\* An address out of memory: the operator is told first,
Complain(d) ==
    /\ Ready
    /\ Becomes(d, Skip(ctx[d], 6))
    /\ held' = {d}
    /\ owed' = TRUE
    /\ UNCHANGED <<isr, halted>>

\* and then the vector is set
Settle ==
    /\ owed
    /\ ~halted
    /\ held = {}
    /\ isr' \in Targets
    /\ owed' = FALSE
    /\ MayHalt
    /\ UNCHANGED <<ctx, held>>

\* A fault enters the handler that is registered for it, or leaves the domain
\* where it is, in the hand of the operator
Trap(d) ==
    /\ Ready
    /\ \E f \in Faults :
          LET c == Skip(ctx[d], f.before) IN
          \E h \in HandlersOf(c, f.id) :
             \/ /\ EntersHandler(c, f.id, h)
                /\ Becomes(d, Skip(InHandler(c, h), f.after))
                /\ UNCHANGED held
             \/ /\ ~EntersHandler(c, f.id, h)
                /\ Becomes(d, Skip(c, f.after))
                /\ held' = {d}
    /\ MayHalt
    /\ UNCHANGED <<isr, owed>>

Dispatch(d) ==
    /\ Ready
    /\ \E a \in Targets, new \in Ids \ Domain :
          ctx' = [e \in Domain \cup {new} |->
                    IF e = d THEN Kept(Skip(ctx[d], 2))
                    ELSE IF e = new THEN NewContext(a) ELSE ctx[e]]
    /\ MayHalt
    /\ UNCHANGED <<isr, held, owed>>

Exit(d) ==
    /\ Ready
    /\ ctx' = [e \in Domain \ {d} |-> ctx[e]]
    /\ halted' = TRUE
    /\ UNCHANGED <<isr, held, owed>>

-----------------------------------------------------------------------------
(* The operator, and the end.                                               *)

\* Ctrl-C in the middle of a turn of domain d
Hold(d) ==
    /\ held = {}
    /\ held' = {d}
    /\ UNCHANGED <<ctx, isr, owed, halted>>

Release ==
    /\ held' = {}
    /\ UNCHANGED <<ctx, isr, owed, halted>>

\* The operator sets the instruction pointer or a register of the domain in hand
Operate(d) ==
    /\ d \in held
    /\ \/ \E a \in Addr : ctx' = [ctx EXCEPT ![d].ip = a]
       \/ \E r \in 0 .. JobRegisterSpace - 1 : ctx' = [ctx EXCEPT ![d].reg = r]
    /\ UNCHANGED <<isr, held, owed, halted>>

Quit ==
    /\ halted' = TRUE
    /\ UNCHANGED <<ctx, isr, held, owed>>

\* The process is gone, and the contexts with it
Stop ==
    /\ ctx' = <<>>
    /\ held' = {}
    /\ owed' = FALSE
    /\ halted' = TRUE
    /\ UNCHANGED isr

Next ==
    \/ \E d \in Domain :
          \/ Execute(d) \/ SetInterrupt(d) \/ Complain(d) \/ Trap(d)
          \/ Dispatch(d) \/ Exit(d)
          \/ Hold(d) \/ Operate(d)
    \/ Settle
    \/ Release
    \/ Quit
    \/ Stop

Spec == Init /\ [][Next]_vars
=============================================================================
