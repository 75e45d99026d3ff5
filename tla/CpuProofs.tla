------------------------------ MODULE CpuProofs ------------------------------
(***************************************************************************)
(* Theorems about the machine of Cpu, for every size of the address space, *)
(* of the table and of its chunks, for every program and every operator.   *)
(*                                                                         *)
(* Neither the type invariant nor the count of the jobs is inductive: that *)
(* active stays a natural number needs the count to be right, that the     *)
(* count stays right needs the job that exits to own its call stack, and   *)
(* that a job owns its call stack needs the CPU to hold the pointer of the *)
(* current job whenever Save will write it back.  IInv is all of it.       *)
(*                                                                         *)
(* First come the operators of Instructions and Dispatcher: instructions   *)
(* take a context to a context, the pointer stays an address and the call  *)
(* stack a sequence of addresses; r3x_dispatch_job and r3x_exit_job keep   *)
(* the set of live jobs and their count in step.                           *)
(***************************************************************************)
EXTENDS Cpu, SequenceTheorems, FiniteSetTheorems, TLAPS

-----------------------------------------------------------------------------
(* Instructions.                                                            *)

\* Unsigned arithmetic on the instruction pointer never leaves the address
\* space (InstructionPointer is an unsigned int)
LEMMA PlusIsAddr ==
  ASSUME NEW a \in Int, NEW n \in Int
  PROVE  Plus(a, n) \in Addr
BY AddressAssumption DEF Plus, Addr

\* -1 read from an empty call stack is an address
LEMMA UnderflowIsAddr == Underflow \in Addr
BY AddressAssumption DEF Underflow, Addr

LEMMA ZeroIsAddr == 0 \in Addr
BY AddressAssumption DEF Addr

LEMMA AddrIsInt == Addr \subseteq Int
BY AddressAssumption DEF Addr

\* Moving the instruction pointer keeps a context a context
LEMMA SkipType ==
  ASSUME NEW c \in Context, NEW n \in Int
  PROVE  Skip(c, n) \in Context
<1>1. c.ip \in Int BY AddrIsInt DEF Context
<1>2. Plus(c.ip, n) \in Addr BY <1>1, PlusIsAddr
<1> QED BY <1>2 DEF Skip, Context

\* Pushing on the call stack, popping it, and what the pop returns (Stack.Push
\* and Stack.Pop on CPU->CallStack)
LEMMA PushCallType ==
  ASSUME NEW c \in Context, NEW a \in Addr
  PROVE  PushCall(c, a) \in Context
<1>1. Append(c.calls, a) \in Seq(Addr) BY DEF Context
<1> QED BY <1>1 DEF PushCall, Context

LEMMA PopCallType ==
  ASSUME NEW c \in Context
  PROVE  /\ PopCall(c) \in Context
         /\ TopCall(c) \in Addr
<1>1. c.calls \in Seq(Addr) BY DEF Context
<1>2. CASE c.calls = <<>>
  BY <1>2, UnderflowIsAddr DEF PopCall, TopCall
<1>3. CASE c.calls # <<>>
  <2>1. Len(c.calls) \in Nat \ {0} BY <1>1, <1>3, EmptySeq
  <2>2. \A i \in 1 .. Len(c.calls) : c.calls[i] \in Addr
    BY <1>1, ElementOfSeq
  <2>3. SubSeq(c.calls, 1, Len(c.calls) - 1) \in Seq(Addr)
    BY <2>1, <2>2, SubSeqProperties
  <2>4. c.calls[Len(c.calls)] \in Addr BY <2>1, <2>2
  <2> QED BY <1>3, <2>3, <2>4 DEF PopCall, TopCall, Context
<1> QED BY <1>2, <1>3

LEMMA InHandlerType ==
  ASSUME NEW c \in Context, NEW h \in Addr
  PROVE  InHandler(c, h) \in Context
BY DEF InHandler, Context

\* The word handle_cpu_exception reads for a handler is an address, also past
\* the end of the array
LEMMA HandlersOfType ==
  ASSUME NEW c \in Context, NEW id
  PROVE  HandlersOf(c, id) \subseteq Addr
BY DEF HandlersOf, Context, Handlers

\* The offsets of the faulting instructions are numbers
LEMMA FaultType ==
  ASSUME NEW f \in Faults
  PROVE  f.before \in Nat /\ f.after \in Nat
BY DEF Faults

\* The instructions that stay in the context: arithmetic and moves, jumps, the
\* exception handlers
LEMMA StraightType ==
  ASSUME NEW c \in Context
  PROVE  /\ Ordinary(c) \subseteq Context
         /\ Jump(c) \subseteq Context
         /\ Catch(c) \subseteq Context
         /\ Handle(c) \subseteq Context
         /\ PopFlags(c) \subseteq Context
<1>1. \A n \in Int : Skip(c, n) \in Context BY SkipType
<1>2. Ordinary(c) \subseteq Context
  <2>0. OrdinarySizes \subseteq Int
    BY DEF OrdinarySizes, StackSizes, CompareSizes, ItemSizes, MemorySizes,
           BlockSizes, LogicSizes, RegisterSizes, FloatSizes, MathSizes,
           BooleanSizes, WideSizes
  <2>1. ASSUME NEW n \in OrdinarySizes, NEW r \in Registers
        PROVE  [Skip(c, n) EXCEPT !.reg = r] \in Context
    BY <1>1, <2>0 DEF Context
  <2> QED BY <2>1 DEF Ordinary
<1>3. Jump(c) \subseteq Context
  <2>1. ASSUME NEW t \in Targets PROVE [c EXCEPT !.ip = t] \in Context
    BY AddressAssumption DEF Context
  <2>2. Landings(c) \subseteq Context BY <1>1, <2>1 DEF Landings
  <2>3. IntoPushIp(c) \subseteq Context BY <2>2, SkipType DEF IntoPushIp
  <2> QED BY <2>2, <2>3 DEF Jump
<1>4. Catch(c) \subseteq Context
  <2>1. ASSUME NEW id \in 0 .. TotalExceptions, NEW t \in Targets \cup {0}
        PROVE  [Skip(c, 1) EXCEPT !.handlers[id] = t] \in Context
    <3>1. Skip(c, 1) \in Context BY <1>1
    <3>2. t \in Addr BY AddressAssumption, ZeroIsAddr
    <3> QED BY <3>1, <3>2 DEF Context, Handlers
  <2> QED BY <1>1, <2>1 DEF Catch
<1>5. Handle(c) \subseteq Context
  <2>1. Skip(c, 1) \in Context BY <1>1
  <2>2. [Skip(c, 1) EXCEPT !.eflag = FALSE] \in Context BY <2>1 DEF Context
  <2> QED BY <2>2 DEF Handle
<1>6. PopFlags(c) \subseteq Context
  <2> DEFINE After(r, b) == [Skip(c, 1) EXCEPT !.reg = r, !.eflag = b]
  <2>1. Skip(c, 1) \in Context BY <1>1
  <2>2. ASSUME NEW r \in Registers, NEW b \in BOOLEAN
        PROVE  After(r, b) \in Context
    <3>1. CASE b = TRUE BY <2>1, <3>1 DEF Context
    <3>2. CASE b = FALSE BY <2>1, <3>2 DEF Context
    <3> QED BY <3>1, <3>2
  <2>3. PopFlags(c) = {After(r, b) : r \in Registers, b \in BOOLEAN}
    BY DEF PopFlags
  <2> HIDE DEF After
  <2> QED BY <2>2, <2>3
<1> QED BY <1>2, <1>3, <1>4, <1>5, <1>6

\* The instructions that work on the call stack: CALL, RET, PUSHA, POPA, INT
LEMMA CallStackType ==
  ASSUME NEW c \in Context, NEW vector \in Addr
  PROVE  /\ Call(c) \subseteq Context
         /\ Return(c) \subseteq Context
         /\ PushAddress(c) \subseteq Context
         /\ PopAddress(c) \subseteq Context
         /\ Interrupt(c, vector) \subseteq Context
<1>1. \A n \in Int : Plus(c.ip, n) \in Addr BY PlusIsAddr, AddrIsInt DEF Context
<1>2. \A d \in Context, a \in Addr : [d EXCEPT !.ip = a] \in Context
  BY DEF Context
<1>3. \A t \in Targets : t \in Addr BY AddressAssumption
<1>4. Call(c) \subseteq Context
  <2>1. PushCall(c, Plus(c.ip, 5)) \in Context BY <1>1, PushCallType
  <2>2. \A t \in Targets : [PushCall(c, Plus(c.ip, 5)) EXCEPT !.ip = t] \in Context
    BY <1>2, <1>3, <2>1
  <2> QED BY <2>2 DEF Call
<1>5. Return(c) \subseteq Context
  <2>1. [PopCall(c) EXCEPT !.ip = TopCall(c)] \in Context BY <1>2, PopCallType
  <2> QED BY <2>1 DEF Return
<1>6. PushAddress(c) \subseteq Context
  <2>1. ASSUME NEW t \in Targets, NEW n \in {2, 5}
        PROVE  Skip(PushCall(c, t), n) \in Context
    BY <1>3, PushCallType, SkipType
  <2> QED BY <2>1 DEF PushAddress
<1>7. PopAddress(c) \subseteq Context
  <2>1. Skip(PopCall(c), 1) \in Context BY PopCallType, SkipType
  <2>2. ASSUME NEW r \in Registers
        PROVE  [Skip(PopCall(c), 2) EXCEPT !.reg = r] \in Context
    <3>1. Skip(PopCall(c), 2) \in Context BY PopCallType, SkipType
    <3> QED BY <3>1 DEF Context
  <2> QED BY <2>1, <2>2 DEF PopAddress
<1>8. Interrupt(c, vector) \subseteq Context
  <2>1. Skip(c, 2) \in Context BY SkipType
  <2>2. PushCall(c, Plus(c.ip, 2)) \in Context BY <1>1, PushCallType
  <2>3. [PushCall(c, Plus(c.ip, 2)) EXCEPT !.ip = vector] \in Context
    BY <1>2, <2>2
  <2> QED BY <2>1, <2>3 DEF Interrupt
<1> QED BY <1>4, <1>5, <1>6, <1>7, <1>8

\* No instruction, of any program, leaves the set of contexts: the pointer wraps
\* at the address space and an empty call stack gives an address (cpu.c:222-1896)
THEOREM OutcomesType ==
  ASSUME NEW c \in Context, NEW vector \in Addr
  PROVE  Outcomes(c, vector) \subseteq Context
<1>1. SUFFICES ASSUME NEW d \in Outcomes(c, vector) PROVE d \in Context
  OBVIOUS
<1>2. \/ d \in Ordinary(c) \/ d \in Jump(c) \/ d \in Call(c)
      \/ d \in Return(c) \/ d \in PushAddress(c) \/ d \in PopAddress(c)
      \/ d \in Interrupt(c, vector) \/ d \in Catch(c) \/ d \in Handle(c)
      \/ d \in PopFlags(c)
  BY <1>1 DEF Outcomes
<1> QED BY <1>2, StraightType, CallStackType

-----------------------------------------------------------------------------
(* The table.                                                               *)

\* The part of the type invariant that concerns the table
TableTypeOK ==
    /\ total \in Nat
    /\ active \in Nat
    /\ jobs \in [Slots -> Job \cup {NoJob, Wild}]
    /\ callStack \in [Slots -> Seq(Addr)]

\* The first of the free slots exists: a non-empty set of numbers has a least
\* element, because the intervals below its elements are ordered by inclusion
LEMMA LeastElement ==
  ASSUME NEW S \in SUBSET Nat, S # {}
  PROVE  \E d \in S : \A e \in S : d <= e
<1> PICK top \in S : TRUE OBVIOUS
<1> DEFINE Below(d) == 0 .. d - 1
           T == {Below(d) : d \in {e \in S : e <= top}}
<1>1. T \subseteq SUBSET (0 .. top) /\ T # {} OBVIOUS
<1>2. IsWellFoundedOn(StrictSubsetOrdering(0 .. top), SUBSET (0 .. top))
  <2>1. IsFiniteSet(0 .. top) BY FS_Interval
  <2>2. FiniteSubsetsOf(0 .. top) = SUBSET (0 .. top)
    BY <2>1, FS_FiniteSubsetsOfFinite
  <2> QED BY <2>2, FS_StrictSubsetOrderingWellFounded
<1>3. PICK x \in T : \A y \in T : <<y, x>> \notin StrictSubsetOrdering(0 .. top)
  BY <1>1, <1>2, WFMin
<1>4. PICK d \in S : d <= top /\ x = Below(d) BY <1>3
<1>5. ASSUME NEW e \in S, e < d PROVE FALSE
  <2>1. Below(e) \in T BY <1>4, <1>5
  <2>2. Below(e) \subseteq x /\ Below(e) # x
    <3>1. e \in Below(d) /\ e \notin Below(e) BY <1>5
    <3> QED BY <1>4, <1>5, <3>1
  <2> QED BY <1>1, <1>3, <2>1, <2>2 DEF StrictSubsetOrdering
<1> QED BY <1>4, <1>5

\* The live jobs are finitely many
LEMMA LiveFinite ==
  ASSUME TableTypeOK
  PROVE  /\ IsFiniteSet(Slots)
         /\ Cardinality(Slots) = total
         /\ IsFiniteSet(LiveJobs)
         /\ Cardinality(LiveJobs) <= total
<1>1. IsFiniteSet(Slots) /\ Cardinality(Slots) = total
  BY FS_Interval DEF Slots, TableTypeOK
<1>2. LiveJobs \in SUBSET Slots BY DEF LiveJobs
<1> QED BY <1>1, <1>2, FS_Subset

\* The table never shrinks, and is a table after it has grown
LEMMA TableType ==
  ASSUME TableTypeOK, NEW tail \in Tails
  PROVE  /\ NewTotal \in Nat
         /\ total <= NewTotal
         /\ Table(tail) \in [0 .. NewTotal - 1 -> Job \cup {NoJob, Wild}]
<1>1. NewTotal \in Nat /\ total <= NewTotal
  BY TableAssumption DEF NewTotal, TableTypeOK
<1>2. \A d \in 0 .. NewTotal - 1 :
         (IF d < total THEN jobs[d] ELSE tail[d]) \in Job \cup {NoJob, Wild}
  <2>1. TAKE d \in 0 .. NewTotal - 1
  <2>2. CASE d < total
    BY <1>1, <2>2 DEF TableTypeOK, Slots
  <2>3. CASE ~(d < total)
    <3>1. d \in total .. NewTotal - 1 BY <1>1, <2>3 DEF TableTypeOK
    <3>2. tail[d] \in TailValues BY <3>1 DEF Tails
    <3> QED BY <2>3, <3>2, TableAssumption
  <2> QED BY <2>2, <2>3
<1> QED BY <1>1, <1>2 DEF Table

\* The slot a new job gets was free
LEMMA FirstFreeIsFree ==
  ASSUME TableTypeOK, NEW tail \in Tails, FreeSlots(tail) # {}
  PROVE  /\ FirstFree(tail) \in 0 .. NewTotal - 1
         /\ Table(tail)[FirstFree(tail)] = NoJob
<1>1. FreeSlots(tail) \in SUBSET Nat BY TableType DEF FreeSlots
<1>2. \E d \in FreeSlots(tail) : \A e \in FreeSlots(tail) : d <= e
  BY <1>1, LeastElement
<1>3. FirstFree(tail) \in FreeSlots(tail) BY <1>2 DEF FirstFree
<1> QED BY <1>3 DEF FreeSlots

\* As long as the new slots are NULL, the reserve slot is really there: a count
\* that is right makes "Unable to find free pointer" (dispatcher.c:70) dead code
LEMMA CountMakesRoom ==
  ASSUME TableTypeOK, NEW tail \in Tails,
         active = Cardinality(LiveJobs),
         Wild \notin TailValues, \A d \in Slots : jobs[d] # Wild
  PROVE  FreeSlots(tail) # {}
<1>1. CASE MustGrow
  <2>1. NewTotal = total + Chunk BY <1>1 DEF NewTotal
  <2>2. total \in 0 .. NewTotal - 1 /\ total \in total .. NewTotal - 1
    BY <2>1, TableAssumption DEF TableTypeOK
  <2>3. tail[total] = NoJob BY <2>2, TableAssumption DEF Tails
  <2>4. Table(tail)[total] = NoJob BY <2>2, <2>3 DEF Table, TableTypeOK
  <2> QED BY <2>2, <2>4 DEF FreeSlots
<1>2. CASE ~MustGrow
  <2>1. NewTotal = total BY <1>2 DEF NewTotal
  <2>2. Cardinality(LiveJobs) < total
    BY <1>2 DEF MustGrow, TableTypeOK
  <2>3. LiveJobs # Slots BY <2>2, LiveFinite DEF TableTypeOK
  <2>4. PICK d \in Slots : d \notin LiveJobs BY <2>3 DEF LiveJobs
  <2>5. jobs[d] = NoJob BY <2>4 DEF LiveJobs, Live
  <2>6. Table(tail)[d] = NoJob BY <2>1, <2>5 DEF Table, Slots, TableTypeOK
  <2> QED BY <2>1, <2>6 DEF FreeSlots, Slots
<1> QED BY <1>1, <1>2

\* r3x_dispatch_job: every job stays where it is, the new one gets a slot of its
\* own and a call stack of its own, and the count is right
LEMMA DispatchJobEffect ==
  ASSUME TableTypeOK, NEW a \in Addr, NEW main \in BOOLEAN, NEW tail \in Tails,
         DispatchJob(a, main, tail), active = Cardinality(LiveJobs)
  PROVE  /\ TableTypeOK'
         /\ active' = Cardinality(LiveJobs)'
         /\ Slots \subseteq Slots'
         /\ \A d \in Slots' : Live(d)' <=> Live(d) \/ d = FirstFree(tail)
         /\ \A d \in LiveJobs : jobs'[d] = jobs[d] /\ callStack'[d] = callStack[d]
         /\ FirstFree(tail) \in Slots' /\ FirstFree(tail) \notin LiveJobs
         /\ jobs'[FirstFree(tail)] = NewJob(a, FirstFree(tail), main)
         /\ \A d \in Slots' : jobs'[d] = Wild
              => Wild \in TailValues \/ (d \in Slots /\ jobs[d] = Wild)
<1> DEFINE f == FirstFree(tail)
<1>1. f \in 0 .. NewTotal - 1 /\ Table(tail)[f] = NoJob
  BY FirstFreeIsFree DEF DispatchJob
<1>2. total' = NewTotal /\ Slots' = 0 .. NewTotal - 1
  BY DEF DispatchJob, Slots
<1>3. Slots \subseteq Slots' BY <1>2, TableType DEF Slots, TableTypeOK
<1>4. NewJob(a, f, main) \in Job
  <2>1. 0 \in Addr BY AddressAssumption DEF Addr
  <2>2. NoHandlers \in Handlers BY <2>1 DEF NoHandlers, Handlers
  <2>3. 0 \in 0 .. JobRegisterSpace - 1 BY JobRegisterAssumption
  <2>4. f \in Nat BY <1>1, TableType
  <2> QED BY <2>2, <2>3, <2>4 DEF NewJob, Job
<1>5. /\ jobs' \in [Slots' -> Job \cup {NoJob, Wild}]
      /\ jobs'[f] = NewJob(a, f, main)
      /\ \A d \in Slots' : d # f => jobs'[d] = Table(tail)[d]
  BY <1>1, <1>2, <1>4, TableType DEF DispatchJob
<1>6. callStack' \in [Slots' -> Seq(Addr)]
  <2>1. <<0>> \in Seq(Addr) /\ <<>> \in Seq(Addr)
    BY AddressAssumption DEF Addr
  <2>2. \A d \in Slots' : d < total => callStack[d] \in Seq(Addr)
    BY <1>2 DEF TableTypeOK, Slots
  <2> QED BY <1>2, <2>1, <2>2 DEF DispatchJob
<1>7. \A d \in Slots : Table(tail)[d] = jobs[d]
  BY <1>2, <1>3 DEF Table, Slots, TableTypeOK
<1>8. f \notin LiveJobs BY <1>1, <1>7 DEF LiveJobs, Live
<1>9. \A d \in LiveJobs : jobs'[d] = jobs[d] /\ callStack'[d] = callStack[d]
  <2>1. TAKE d \in LiveJobs
  <2>2. d \in Slots /\ d \in Slots' /\ d # f BY <1>3, <1>8 DEF LiveJobs
  <2>3. d < total /\ d \in 0 .. NewTotal - 1 BY <1>2, <2>2 DEF Slots, TableTypeOK
  <2> QED BY <1>5, <1>7, <2>2, <2>3 DEF DispatchJob
<1>10. \A d \in Slots' : Live(d)' <=> Live(d) \/ d = f
  <2>1. TAKE d \in Slots'
  <2>2. CASE d = f
    BY <1>1, <1>2, <1>4, <1>5, <2>2, SlotAssumption DEF Live
  <2>3. CASE d # f /\ d \in Slots
    BY <1>5, <1>7, <2>1, <2>3 DEF Live
  <2>4. CASE d # f /\ d \notin Slots
    <3>1. ~(d < total) BY <1>2, <2>1, <2>4 DEF Slots, TableTypeOK
    <3>2. d \in total .. NewTotal - 1
      BY <1>2, <2>1, <3>1, TableType DEF TableTypeOK
    <3>3. Table(tail)[d] = tail[d] BY <1>2, <2>1, <3>1 DEF Table
    <3>4. tail[d] \in {NoJob, Wild} BY <3>2, TableAssumption DEF Tails
    <3> QED BY <1>5, <2>1, <2>4, <3>3, <3>4 DEF Live
  <2> QED BY <2>2, <2>3, <2>4
<1>11. LiveJobs' = LiveJobs \cup {f}
  BY <1>1, <1>2, <1>3, <1>10 DEF LiveJobs, Live
<1>12. Cardinality(LiveJobs)' = active + 1
  BY <1>8, <1>11, LiveFinite, FS_AddElement
<1>13. active' = active + 1 BY DEF DispatchJob
<1>14. \A d \in Slots' : jobs'[d] = Wild
         => Wild \in TailValues \/ (d \in Slots /\ jobs[d] = Wild)
  <2>1. TAKE d \in Slots'
  <2>2. HAVE jobs'[d] = Wild
  <2>3. d # f BY <1>4, <1>5, <2>2, SlotAssumption
  <2>4. CASE d \in Slots BY <1>5, <1>7, <2>1, <2>2, <2>3, <2>4
  <2>5. CASE d \notin Slots
    <3>1. ~(d < total) BY <1>2, <2>1, <2>5 DEF Slots, TableTypeOK
    <3>2. d \in total .. NewTotal - 1
      BY <1>2, <2>1, <3>1, TableType DEF TableTypeOK
    <3>3. Table(tail)[d] = tail[d] BY <1>2, <2>1, <3>1 DEF Table
    <3>4. tail[d] \in TailValues BY <3>2 DEF Tails
    <3> QED BY <1>5, <2>1, <2>2, <2>3, <3>3, <3>4
  <2> QED BY <2>4, <2>5
<1> QED BY <1>1, <1>2, <1>3, <1>5, <1>6, <1>8, <1>9, <1>10, <1>12, <1>13, <1>14,
           TableType
        DEF TableTypeOK

\* r3x_exit_job: the job that exits goes, no other does, and the count is right
LEMMA ExitJobEffect ==
  ASSUME TableTypeOK, NEW d \in LiveJobs, ExitJob(d),
         active = Cardinality(LiveJobs)
  PROVE  /\ TableTypeOK'
         /\ active' = Cardinality(LiveJobs)'
         /\ LiveJobs' = LiveJobs \ {d}
         /\ \A e \in LiveJobs' : jobs'[e] = jobs[e]
         /\ jobs[d].stk = d => \A e \in LiveJobs' : callStack'[e] = callStack[e]
<1>1. d \in Slots /\ Slots' = Slots /\ total' = total
  BY DEF LiveJobs, ExitJob, Slots
<1>2. /\ jobs' \in [Slots' -> Job \cup {NoJob, Wild}]
      /\ \A e \in Slots : jobs'[e] = IF e = d THEN NoJob ELSE jobs[e]
  BY <1>1 DEF ExitJob, TableTypeOK
<1>3. callStack' \in [Slots' -> Seq(Addr)]
  <2>1. <<>> \in Seq(Addr) OBVIOUS
  <2> QED BY <1>1, <2>1 DEF ExitJob, TableTypeOK
<1>4. LiveJobs' = LiveJobs \ {d}
  BY <1>1, <1>2 DEF LiveJobs, Live
<1>5. Cardinality(LiveJobs)' = active - 1
  BY <1>4, LiveFinite, FS_RemoveElement
<1>6. active' = active - 1 /\ active # 0
  <2>1. LiveJobs # {} OBVIOUS
  <2> QED BY <2>1, LiveFinite, FS_EmptySet DEF ExitJob
<1>7. /\ \A e \in LiveJobs' : jobs'[e] = jobs[e]
      /\ jobs[d].stk = d => \A e \in LiveJobs' : callStack'[e] = callStack[e]
  BY <1>1, <1>2, <1>4 DEF LiveJobs, ExitJob, TableTypeOK
<1> QED BY <1>1, <1>2, <1>3, <1>4, <1>5, <1>6, <1>7 DEF TableTypeOK

-----------------------------------------------------------------------------
(* The machine.                                                             *)

\* The call stack of the CPU, and that of every job, is one of the table's, also
\* after a switch inside a copy has mixed them
Stacked ==
    /\ cpu.stk \in Slots
    /\ \A d \in LiveJobs : jobs[d].stk \in Slots

\* A copy works on a slot that is there, and an instruction on a job.  If the
\* operator has not switched domains inside a copy it is the current job's, and
\* the pointer is in the CPU from the second field on
Placed ==
    /\ Moment = "loading" => Live(copy.job) \/ IsWild(copy.job)
    /\ Moment = "saving" => Live(copy.job)
    /\ Moment \in {"execute", "setisr"} => Live(cur)
    /\ ~torn =>
          /\ Moment \in {"loading", "saving"} => copy.job = cur
          /\ Moment = "loading" /\ copy.done >= 2 => cpu.stk = cur

\* No slot is wild when nt_realloc's new slots are NULL
NoWild == Wild \notin TailValues => \A d \in Slots : jobs[d] # Wild

IInv == TypeOK /\ ContextOwned /\ Stacked /\ Placed /\ JobsCounted /\ NoWild

-----------------------------------------------------------------------------
LEMMA TypeOKTable ==
  ASSUME TypeOK PROVE TableTypeOK
BY DEF TypeOK, TableTypeOK

\* What the CPU holds is a context
LEMMA RunningIsContext ==
  ASSUME TypeOK, Stacked
  PROVE  Running \in Context
<1>1. callStack[cpu.stk] \in Seq(Addr) BY DEF TypeOK, Stacked
<1> QED BY <1>1 DEF TypeOK, CpuRecord, Running, Context

\* An instruction that leaves a context in the CPU leaves everything typed,
\* and the pointer to the call stack alone
LEMMA BecomeType ==
  ASSUME TypeOK, NEW c \in Context, Become(c), total' = total
  PROVE  /\ cpu' \in CpuRecord
         /\ cpu'.stk = cpu.stk
         /\ callStack' \in [Slots' -> Seq(Addr)]
<1>1. cpu' \in CpuRecord /\ cpu'.stk = cpu.stk
  BY DEF TypeOK, Become, CpuRecord, Context
<1>2. c.calls \in Seq(Addr) BY DEF Context
<1>3. callStack' \in [Slots' -> Seq(Addr)]
  BY <1>2 DEF TypeOK, Become, Slots
<1> QED BY <1>1, <1>3

\* The debugger stands where the loop will go on
LEMMA EnterDebuggerType ==
  ASSUME NEW next \in LoopSteps \cup {"stopped"}, NEW n \in Nat,
         EnterDebugger(next, n)
  PROVE  /\ pc' \in {"debug", "stopped"}
         /\ resume' \in [pc : LoopSteps \cup {"stopped"}, add : Nat]
         /\ pc' = "debug" => resume' = [pc |-> next, add |-> n]
         /\ Moment' = IF pc' = "debug" THEN next ELSE "stopped"
BY DEF EnterDebugger, NoResume, LoopSteps, Moment

\* What is loaded from a live job fits the CPU, as a whole
LEMMA LoadType ==
  ASSUME TypeOK, Stacked, NEW d \in LiveJobs
  PROVE  /\ LoadJobState(d) \in CpuRecord
         /\ LoadJobState(d).stk = jobs[d].stk
         /\ jobs[d].stk \in Slots
         /\ d \in Slots
<1>1. d \in Slots /\ jobs[d] \in Job BY DEF LiveJobs, Live, TypeOK
<1>2. jobs[d].reg \in Registers
  BY <1>1, JobRegisterAssumption, RegisterAssumption DEF Job, Registers
<1>3. LoadJobState(d) \in CpuRecord
  BY <1>1, <1>2 DEF LoadJobState, CpuRecord, Job
<1> QED BY <1>1, <1>3 DEF LoadJobState, Stacked

\* and field by field
LEMMA LoadFieldType ==
  ASSUME TypeOK, NEW d \in LiveJobs, NEW n \in 1 .. LastField,
         cpu' = LoadField(n, cpu, d)
  PROVE  /\ cpu' \in CpuRecord
         /\ cpu'.ip = IF n = 1 THEN jobs[d].ip ELSE cpu.ip
         /\ cpu'.stk = IF n = 2 THEN jobs[d].stk ELSE cpu.stk
         /\ cpu'.eflag = IF n = 3 THEN jobs[d].eflag ELSE cpu.eflag
         /\ cpu'.handlers = IF n = 4 THEN jobs[d].handlers ELSE cpu.handlers
         /\ cpu'.reg = IF n = 5 THEN jobs[d].reg ELSE cpu.reg
<1>1. jobs[d] \in Job /\ cpu \in CpuRecord BY DEF LiveJobs, Live, TypeOK
<1>2. jobs[d].reg \in Registers
  BY <1>1, JobRegisterAssumption, RegisterAssumption DEF Job, Registers
<1> QED BY <1>1, <1>2 DEF LoadField, Moved, CpuRecord, Job

\* A field is saved into one job, and fits it
LEMMA SaveFieldType ==
  ASSUME TypeOK, NEW d \in LiveJobs, NEW n \in 1 .. LastField,
         SaveField(n, cpu, d), total' = total
  PROVE  /\ jobs' \in [Slots -> Job \cup {NoJob, Wild}]
         /\ \A e \in Slots : e # d => jobs'[e] = jobs[e]
         /\ d \in Slots /\ jobs'[d] \in Job /\ jobs[d] \in Job
         /\ jobs'[d].ip = IF n = 1 THEN cpu.ip ELSE jobs[d].ip
         /\ jobs'[d].stk = IF n = 2 THEN cpu.stk ELSE jobs[d].stk
         /\ jobs'[d].eflag = IF n = 3 THEN cpu.eflag ELSE jobs[d].eflag
         /\ jobs'[d].handlers = IF n = 4 THEN cpu.handlers ELSE jobs[d].handlers
         /\ jobs'[d].reg = IF n = 5 THEN cpu.reg % JobRegisterSpace
                                    ELSE jobs[d].reg
         /\ jobs'[d].ismain = jobs[d].ismain
         /\ LiveJobs' = LiveJobs /\ \A e : Live(e)' <=> Live(e)
         /\ \A e : IsWild(e)' <=> IsWild(e)
<1> DEFINE j == Moved(n, Cut(cpu), jobs[d])
<1>1. d \in Slots /\ jobs[d] \in Job /\ cpu \in CpuRecord
  BY DEF LiveJobs, Live, TypeOK
<1>2. cpu.reg % JobRegisterSpace \in 0 .. JobRegisterSpace - 1
  BY <1>1, RegisterAssumption, JobRegisterAssumption DEF CpuRecord, Registers
<1>3. /\ Cut(cpu).ip = cpu.ip /\ Cut(cpu).stk = cpu.stk
      /\ Cut(cpu).eflag = cpu.eflag /\ Cut(cpu).handlers = cpu.handlers
      /\ Cut(cpu).reg = cpu.reg % JobRegisterSpace
  BY <1>1 DEF Cut, CpuRecord
<1>4. /\ j \in Job
      /\ j.ip = IF n = 1 THEN cpu.ip ELSE jobs[d].ip
      /\ j.stk = IF n = 2 THEN cpu.stk ELSE jobs[d].stk
      /\ j.eflag = IF n = 3 THEN cpu.eflag ELSE jobs[d].eflag
      /\ j.handlers = IF n = 4 THEN cpu.handlers ELSE jobs[d].handlers
      /\ j.reg = IF n = 5 THEN cpu.reg % JobRegisterSpace ELSE jobs[d].reg
      /\ j.ismain = jobs[d].ismain
  BY <1>1, <1>2, <1>3 DEF Moved, Job, CpuRecord
<1> HIDE DEF j
<1>5. jobs' = [jobs EXCEPT ![d] = j] BY DEF SaveField, j
<1>6. /\ jobs' \in [Slots -> Job \cup {NoJob, Wild}] /\ jobs'[d] = j
      /\ \A e \in Slots : e # d => jobs'[e] = jobs[e]
  BY <1>1, <1>4, <1>5 DEF TypeOK
<1>7. Slots' = Slots BY DEF Slots
<1>8. (\A e : Live(e)' <=> Live(e)) /\ (\A e : IsWild(e)' <=> IsWild(e))
  BY <1>1, <1>4, <1>6, <1>7, SlotAssumption DEF Live, IsWild
<1>9. LiveJobs' = LiveJobs BY <1>7, <1>8 DEF LiveJobs
<1> QED BY <1>1, <1>4, <1>6, <1>8, <1>9

-----------------------------------------------------------------------------
(* What a step can disturb.                                                 *)

\* When the table is untouched only the CPU, the loop and fresh are in question
LEMMA SameTable ==
  ASSUME IInv, UNCHANGED <<jobs, total, active>>
  PROVE  JobsCounted' /\ NoWild' /\ Slots' = Slots
         /\ LiveJobs' = LiveJobs
         /\ \A d : Live(d)' <=> Live(d)
BY DEF IInv, JobsCounted, NoWild, LiveJobs, Live, Slots

\* A step between two turns
LEMMA BetweenTurns ==
  ASSUME IInv, UNCHANGED <<jobs, total, active, torn>>, TypeOK',
         cpu'.stk = cpu.stk, Moment' \in {"fetch", "load", "advance", "stopped"}
  PROVE  IInv'
<1>1. JobsCounted' /\ NoWild' /\ Slots' = Slots /\ LiveJobs' = LiveJobs
  BY SameTable
<1>2. ~InTurn' BY DEF InTurn
<1>3. ContextOwned' BY <1>1, <1>2 DEF IInv, ContextOwned
<1>4. Stacked' BY <1>1 DEF IInv, Stacked
<1>5. Placed' BY DEF Placed
<1> QED BY <1>1, <1>3, <1>4, <1>5 DEF IInv

\* A step in the middle of a turn, on the job that is in the CPU
LEMMA WithinTurn ==
  ASSUME IInv, UNCHANGED <<jobs, total, active, cur, torn>>, TypeOK',
         cpu'.stk = cpu.stk, InTurn,
         Moment' \in {"emulate", "execute", "setisr", "save"},
         Moment' \in {"execute", "setisr"} => Live(cur)
  PROVE  IInv'
<1>1. JobsCounted' /\ NoWild' /\ Slots' = Slots /\ LiveJobs' = LiveJobs
      /\ (Live(cur)' <=> Live(cur))
  BY SameTable DEF Live, Slots
<1>2. ContextOwned' BY <1>1 DEF IInv, ContextOwned
<1>3. Stacked' BY <1>1 DEF IInv, Stacked
<1>4. Placed' BY <1>1 DEF Placed
<1> QED BY <1>1, <1>2, <1>3, <1>4 DEF IInv

\* A step that leaves the loop where it is
LEMMA SameMoment ==
  ASSUME IInv, UNCHANGED <<jobs, total, active, cur, copy, torn>>, TypeOK',
         cpu'.stk = cpu.stk, Moment' = Moment
  PROVE  IInv'
<1>1. JobsCounted' /\ NoWild' /\ Slots' = Slots /\ LiveJobs' = LiveJobs
  BY SameTable
<1>2. /\ Live(cur)' <=> Live(cur)
      /\ Live(copy.job)' <=> Live(copy.job)
      /\ IsWild(copy.job)' <=> IsWild(copy.job)
  BY DEF Live, IsWild, Slots
<1>3. InTurn' <=> InTurn BY DEF InTurn
<1>4. ContextOwned' BY <1>1, <1>2, <1>3 DEF IInv, ContextOwned
<1>5. Stacked' BY <1>1 DEF IInv, Stacked
<1>6. Placed' BY <1>2 DEF IInv, Placed
<1> QED BY <1>1, <1>4, <1>5, <1>6 DEF IInv

-----------------------------------------------------------------------------
(* The actions, one by one.  In most of them the table does not change.     *)

\* An instruction, whatever it does, on the context in the CPU
LEMMA StepOnContext ==
  ASSUME IInv, pc = "execute", NEW c \in Context, Become(c),
         UNCHANGED <<jobs, total, active, cur, copy, exitcalled, fresh, torn>>,
         isr' \in Addr, pc' \in LoopSteps \cup {"debug", "stopped"},
         resume' \in [pc : LoopSteps \cup {"stopped"}, add : Nat],
         Moment' \in {"setisr", "save", "stopped"}
  PROVE  IInv'
<1>1. Slots' = Slots BY SameTable
<1>2. cpu' \in CpuRecord /\ cpu'.stk = cpu.stk /\ callStack' \in [Slots' -> Seq(Addr)]
  BY BecomeType DEF IInv
<1>3. TypeOK' BY <1>1, <1>2 DEF IInv, TypeOK
<1>4. InTurn /\ Live(cur)
  <2>1. Moment = "execute" BY DEF Moment
  <2> QED BY <2>1 DEF IInv, Placed, InTurn
<1>5. CASE Moment' = "stopped" BY <1>2, <1>3, <1>5, BetweenTurns
<1>6. CASE Moment' # "stopped" BY <1>2, <1>3, <1>4, <1>6, WithinTurn
<1> QED BY <1>5, <1>6

LEMMA InitHolds == Init => IInv
<1> SUFFICES ASSUME Init PROVE IInv OBVIOUS
<1> DEFINE bios == [NewJob(0, 0, TRUE) EXCEPT !.reg = Entry % JobRegisterSpace]
<1>1. 0 \in Addr /\ NoHandlers \in Handlers
  BY ZeroIsAddr DEF NoHandlers, Handlers
<1>2. bios \in Job /\ bios.stk = 0
  <2>1. Entry % JobRegisterSpace \in 0 .. JobRegisterSpace - 1
    BY RegisterAssumption, JobRegisterAssumption DEF Registers
  <2> QED BY <1>1, <2>1 DEF NewJob, Job
<1>3. Slots = 0 .. Chunk - 1 /\ 0 \in Slots /\ total \in Nat
  BY TableAssumption DEF Init, Slots
<1>4. jobs = [d \in Slots |-> IF d = 0 THEN bios ELSE NoJob]
  BY <1>3 DEF Init
<1>5. LiveJobs = {0}
  BY <1>2, <1>3, <1>4, SlotAssumption DEF LiveJobs, Live
<1>6. TypeOK
  <2>1. jobs \in [Slots -> Job \cup {NoJob, Wild}] BY <1>2, <1>4
  <2>2. callStack \in [Slots -> Seq(Addr)]
    BY <1>1, <1>3 DEF Init
  <2>3. cpu \in CpuRecord
    BY <1>1, RegisterAssumption DEF Init, CpuRecord
  <2>4. resume \in [pc : LoopSteps \cup {"stopped"}, add : Nat]
    BY DEF Init, NoResume, LoopSteps
  <2>5. copy \in [job : Nat, done : 0 .. LastField - 1]
    BY DEF Init, NoCopy, LastField
  <2> QED
    BY <1>1, <1>3, <2>1, <2>2, <2>3, <2>4, <2>5 DEF Init, TypeOK, LoopSteps
<1>7. Moment = "fetch" /\ ~InTurn BY DEF Init, Moment, InTurn
<1>8. ContextOwned
  BY <1>2, <1>3, <1>4, <1>5, <1>7 DEF ContextOwned
<1>9. Stacked BY <1>2, <1>3, <1>4, <1>5 DEF Init, Stacked
<1>10. Placed BY <1>7 DEF Placed
<1>11. JobsCounted BY <1>5, FS_Singleton DEF JobsCounted, Init
<1>12. NoWild
  BY <1>2, <1>4, TableAssumption, SlotAssumption DEF NoWild
<1> QED BY <1>6, <1>8, <1>9, <1>10, <1>11, <1>12 DEF IInv

LEMMA FetchHolds == IInv /\ Fetch => IInv'
<1> SUFFICES ASSUME IInv, Fetch PROVE IInv' OBVIOUS
<1>1. pc = "fetch" /\ UNCHANGED <<jobs, total, active, callStack, cpu, cur,
                                  copy, exitcalled, isr, fresh, torn>>
  BY DEF Fetch, tableVars
<1>2. /\ pc' \in {"load", "debug", "stopped"}
      /\ resume' \in [pc : LoopSteps \cup {"stopped"}, add : Nat]
      /\ Moment' \in {"load", "stopped"}
  <2>1. CASE EnterDebugger("stopped", 0) BY <2>1, EnterDebuggerType
  <2>2. CASE ~EnterDebugger("stopped", 0)
    BY <2>2 DEF Fetch, Moment, IInv, TypeOK
  <2> QED BY <2>1, <2>2
<1>3. TypeOK' BY <1>1, <1>2 DEF IInv, TypeOK, LoopSteps, Slots
<1> QED BY <1>1, <1>2, <1>3, BetweenTurns

LEMMA LoadTurnHolds == IInv /\ LoadTurn => IInv'
<1> SUFFICES ASSUME IInv, LoadTurn PROVE IInv' OBVIOUS
<1>1. /\ pc = "load"
      /\ UNCHANGED <<jobs, total, active, callStack, cpu, cur, resume,
                     exitcalled, isr, fresh, torn>>
  BY DEF LoadTurn, tableVars
<1>2. CASE pc' = "advance" /\ UNCHANGED copy
  <2>1. TypeOK' BY <1>1, <1>2 DEF IInv, TypeOK, LoopSteps, Slots
  <2> QED BY <1>1, <1>2, <2>1, BetweenTurns DEF Moment
<1>3. CASE /\ Loadable(cur) \/ LoadFaults(cur)
           /\ copy' = [job |-> cur, done |-> 0]
           /\ pc' = "loading"
  <2>1. TypeOK'
    BY <1>1, <1>3 DEF IInv, TypeOK, LoopSteps, Slots, LastField
  <2>2. JobsCounted' /\ NoWild' /\ Slots' = Slots /\ LiveJobs' = LiveJobs
    BY <1>1, SameTable
  <2>3. Moment' = "loading" /\ ~InTurn' BY <1>3 DEF Moment, InTurn
  <2>4. ContextOwned' BY <1>1, <2>2, <2>3 DEF IInv, ContextOwned
  <2>5. Live(cur) \/ IsWild(cur) BY <1>3 DEF Loadable, LoadFaults
  <2>6. Placed'
    BY <1>1, <1>3, <2>3, <2>5 DEF Placed, Live, IsWild, Slots
  <2> QED BY <1>1, <2>1, <2>2, <2>4, <2>6 DEF IInv, Stacked
<1> QED BY <1>2, <1>3 DEF LoadTurn

\* The copy goes on, or is over
LEMMA NextFieldType ==
  ASSUME TypeOK, NEW next \in LoopSteps, NextField(next), pc \in LoopSteps
  PROVE  /\ copy' \in [job : Nat, done : 0 .. LastField - 1]
         /\ pc' \in LoopSteps
         /\ copy.done + 1 \in 1 .. LastField
         /\ \/ pc' = next /\ copy.done + 1 = LastField
            \/ /\ pc' = pc /\ copy.done + 1 < LastField
               /\ copy'.job = copy.job /\ copy'.done = copy.done + 1
<1>1. copy.job \in Nat /\ copy.done \in 0 .. LastField - 1 /\ LastField = 5
      /\ copy = [job |-> copy.job, done |-> copy.done]
  BY DEF TypeOK, LastField
<1>2. CASE copy.done + 1 = LastField
  BY <1>1, <1>2 DEF NextField, NoCopy
<1>3. CASE copy.done + 1 # LastField
  <2>1. pc' = pc /\ copy' = [copy EXCEPT !.done = @ + 1]
    BY <1>3 DEF NextField
  <2>2. copy' = [job |-> copy.job, done |-> copy.done + 1] BY <1>1, <2>1
  <2> QED BY <1>1, <1>3, <2>1, <2>2
<1> QED BY <1>2, <1>3

LEMMA LoadPartHolds == IInv /\ LoadPart => IInv'
<1> SUFFICES ASSUME IInv, LoadPart PROVE IInv' OBVIOUS
<1>1. /\ pc = "loading" /\ Moment = "loading"
      /\ UNCHANGED <<jobs, total, active, callStack, cur, exitcalled, isr,
                     fresh, torn>>
  BY DEF LoadPart, tableVars, Moment
<1>2. CASE EnterDebugger("loading", 0) /\ UNCHANGED <<cpu, copy>>
  <2>1. /\ pc' \in {"debug", "stopped"}
        /\ resume' \in [pc : LoopSteps \cup {"stopped"}, add : Nat]
        /\ Moment' \in {"loading", "stopped"}
    BY <1>2, EnterDebuggerType DEF LoopSteps
  <2>2. TypeOK' BY <1>1, <1>2, <2>1 DEF IInv, TypeOK, Slots
  <2>3. CASE Moment' = "stopped" BY <1>1, <1>2, <2>2, <2>3, BetweenTurns
  <2>4. CASE Moment' = "loading" BY <1>1, <1>2, <2>2, <2>4, SameMoment
  <2> QED BY <2>1, <2>3, <2>4
<1>3. CASE /\ Live(copy.job)
           /\ cpu' = LoadField(copy.done + 1, cpu, copy.job)
           /\ NextField("emulate")
           /\ UNCHANGED resume
  <2> DEFINE n == copy.done + 1
             k == copy.job
  <2>1. /\ copy' \in [job : Nat, done : 0 .. LastField - 1]
        /\ pc' \in LoopSteps /\ n \in 1 .. LastField
        /\ \/ pc' = "emulate" /\ n = LastField
           \/ pc' = "loading" /\ n < LastField /\ copy'.job = k /\ copy'.done = n
    BY <1>1, <1>3, NextFieldType DEF IInv, LoopSteps
  <2>2. k \in LiveJobs /\ k \in Slots BY <1>3 DEF LiveJobs, Live
  <2>3. cpu' \in CpuRecord /\ cpu'.stk = IF n = 2 THEN jobs[k].stk ELSE cpu.stk
    BY <1>3, <2>1, <2>2, LoadFieldType DEF IInv
  <2>4. JobsCounted' /\ NoWild' /\ Slots' = Slots /\ LiveJobs' = LiveJobs
    BY <1>1, SameTable
  <2>5. TypeOK' BY <1>1, <1>3, <2>1, <2>3, <2>4 DEF IInv, TypeOK
  <2>6. Stacked' BY <1>1, <2>2, <2>3, <2>4 DEF IInv, Stacked
  <2>7. ~torn => k = cur /\ jobs[k].stk = k /\ (n >= 2 => cpu'.stk = cur)
    <3>1. SUFFICES ASSUME ~torn
                   PROVE  k = cur /\ jobs[k].stk = k /\ (n >= 2 => cpu'.stk = cur)
      OBVIOUS
    <3>2. k = cur /\ jobs[k].stk = k
      BY <1>1, <2>2, <3>1 DEF IInv, Placed, ContextOwned
    <3>3. CASE n > 2
      <4>1. copy.done >= 2 BY <2>1, <3>3 DEF IInv, TypeOK
      <4> QED BY <1>1, <2>3, <3>1, <3>2, <3>3, <4>1 DEF IInv, Placed
    <3>4. CASE n <= 2 BY <2>1, <2>3, <3>2, <3>4
    <3> QED BY <2>1, <3>2, <3>3, <3>4
  <2>8. Moment' = pc' BY <2>1 DEF Moment, LoopSteps
  <2>9. CASE pc' = "emulate" /\ n = LastField
    <3>1. ~torn => cpu'.stk = cur BY <2>1, <2>7, <2>9 DEF LastField
    <3>2. ContextOwned' BY <1>1, <2>4, <3>1 DEF IInv, ContextOwned
    <3>3. Placed' BY <2>8, <2>9 DEF Placed
    <3> QED BY <2>4, <2>5, <2>6, <3>2, <3>3 DEF IInv
  <2>10. CASE pc' = "loading" /\ copy'.job = k /\ copy'.done = n
    <3>1. ~InTurn' BY <2>8, <2>10 DEF InTurn
    <3>2. ContextOwned' BY <1>1, <2>4, <3>1 DEF IInv, ContextOwned
    <3>3. Live(copy.job)' BY <1>3, <2>10 , <1>1 DEF Live, Slots
    <3>4. Placed' BY <1>1, <2>7, <2>8, <2>10, <3>3 DEF Placed
    <3> QED BY <2>4, <2>5, <2>6, <3>2, <3>4 DEF IInv
  <2> QED BY <2>1, <2>9, <2>10
<1> QED BY <1>2, <1>3 DEF LoadPart

LEMMA SaveHolds == IInv /\ Save => IInv'
<1> SUFFICES ASSUME IInv, Save PROVE IInv' OBVIOUS
<1>1. /\ pc = "save" /\ Moment = "save"
      /\ UNCHANGED <<jobs, total, active, callStack, cpu, cur, resume,
                     exitcalled, isr, fresh, torn>>
  BY DEF Save, tableVars, Moment
<1>2. CASE pc' = "advance" /\ UNCHANGED copy
  <2>1. TypeOK' BY <1>1, <1>2 DEF IInv, TypeOK, LoopSteps, Slots
  <2> QED BY <1>1, <1>2, <2>1, BetweenTurns DEF Moment
<1>3. CASE /\ Live(cur)
           /\ copy' = [job |-> cur, done |-> 0]
           /\ pc' = "saving"
  <2>1. TypeOK'
    BY <1>1, <1>3 DEF IInv, TypeOK, LoopSteps, Slots, LastField
  <2>2. JobsCounted' /\ NoWild' /\ Slots' = Slots /\ LiveJobs' = LiveJobs
    BY <1>1, SameTable
  <2>3. Moment' = "saving" BY <1>3 DEF Moment
  <2>4. ~torn => cpu.stk = cur BY <1>1, <1>3 DEF IInv, ContextOwned, InTurn
  <2>5. ContextOwned' BY <1>1, <2>2, <2>4 DEF IInv, ContextOwned
  <2>6. Placed'
    BY <1>1, <1>3, <2>3 DEF Placed, Live, Slots
  <2> QED BY <1>1, <2>1, <2>2, <2>5, <2>6 DEF IInv, Stacked
<1> QED BY <1>2, <1>3 DEF Save

LEMMA SavePartHolds == IInv /\ SavePart => IInv'
<1> SUFFICES ASSUME IInv, SavePart PROVE IInv' OBVIOUS
<1> DEFINE n == copy.done + 1
           k == copy.job
<1>1. /\ pc = "saving" /\ Moment = "saving" /\ InTurn
      /\ SaveField(n, cpu, k) /\ NextField("advance")
      /\ fresh' \subseteq fresh
      /\ UNCHANGED <<total, active, callStack, cpu, cur, resume, exitcalled,
                     isr, torn>>
  BY DEF SavePart, Moment, InTurn
<1>2. /\ copy' \in [job : Nat, done : 0 .. LastField - 1]
      /\ pc' \in LoopSteps /\ n \in 1 .. LastField
      /\ \/ pc' = "advance"
         \/ pc' = "saving" /\ copy'.job = k
  BY <1>1, NextFieldType DEF IInv, LoopSteps
<1>3. Live(k) /\ k \in LiveJobs BY <1>1 DEF IInv, Placed, LiveJobs, Live
<1>4. /\ jobs' \in [Slots -> Job \cup {NoJob, Wild}]
      /\ \A e \in Slots : e # k => jobs'[e] = jobs[e]
      /\ k \in Slots /\ jobs'[k] \in Job
      /\ jobs'[k].stk = IF n = 2 THEN cpu.stk ELSE jobs[k].stk
      /\ LiveJobs' = LiveJobs /\ \A e : Live(e)' <=> Live(e)
  BY <1>1, <1>2, <1>3, SaveFieldType DEF IInv
<1>5. Slots' = Slots BY <1>1 DEF Slots
<1>6. TypeOK' BY <1>1, <1>2, <1>4, <1>5 DEF IInv, TypeOK
<1>7. Stacked'
  <2>1. cpu'.stk \in Slots' BY <1>1, <1>5 DEF IInv, Stacked
  <2>2. ASSUME NEW d \in LiveJobs' PROVE jobs'[d].stk \in Slots'
    <3>1. d \in LiveJobs /\ d \in Slots BY <1>4 DEF LiveJobs
    <3> QED BY <1>4, <1>5, <3>1 DEF IInv, Stacked
  <2> QED BY <2>1, <2>2 DEF Stacked
<1>8. ASSUME ~torn PROVE k = cur /\ cpu.stk = k /\ jobs[k].stk = k
  BY <1>1, <1>3, <1>8 DEF IInv, Placed, ContextOwned
<1>9. ContextOwned'
  <2>1. SUFFICES ASSUME ~torn'
                 PROVE  /\ \A d \in LiveJobs' : jobs'[d].stk = d
                        /\ cpu'.stk = cur'
    BY DEF ContextOwned
  <2>2. k = cur /\ cpu.stk = k /\ jobs[k].stk = k BY <1>1, <1>8, <2>1
  <2>3. ASSUME NEW d \in LiveJobs' PROVE jobs'[d].stk = d
    <3>1. d \in LiveJobs /\ d \in Slots /\ jobs[d].stk = d
      BY <1>1, <1>4, <2>1 DEF LiveJobs, IInv, ContextOwned
    <3> QED BY <1>4, <2>2, <3>1
  <2> QED BY <1>1, <2>2, <2>3
<1>10. Placed'
  <2>1. Moment' = pc' BY <1>2 DEF Moment, LoopSteps
  <2>2. CASE pc' = "advance" BY <2>1, <2>2 DEF Placed
  <2>3. CASE pc' = "saving" /\ copy'.job = k
    <3>1. Live(copy.job)' BY <1>3, <1>4, <2>3 DEF Live
    <3> QED BY <1>1, <1>8, <2>1, <2>3, <3>1 DEF Placed
  <2> QED BY <1>2, <2>2, <2>3
<1>11. JobsCounted' BY <1>1, <1>4 DEF IInv, JobsCounted
<1>12. NoWild' BY <1>4, <1>5, SlotAssumption DEF IInv, NoWild
<1> QED BY <1>6, <1>7, <1>9, <1>10, <1>11, <1>12 DEF IInv

LEMMA AdvanceHolds == IInv /\ Advance => IInv'
<1> SUFFICES ASSUME IInv, Advance PROVE IInv' OBVIOUS
<1>1. UNCHANGED <<jobs, total, active, callStack, cpu, copy, resume, exitcalled,
                  isr, fresh, torn>>
      /\ pc' = "fetch"
  BY DEF Advance, tableVars
<1>2. cur' \in Nat BY DEF Advance, NextSlot, IInv, TypeOK
<1>3. TypeOK' BY <1>1, <1>2 DEF IInv, TypeOK, LoopSteps, Slots
<1> QED BY <1>1, <1>3, BetweenTurns DEF Moment

LEMMA EmulateHolds == IInv /\ Emulate => IInv'
<1> SUFFICES ASSUME IInv, Emulate PROVE IInv' OBVIOUS
<1>1. /\ pc = "emulate" /\ pc' \in {"save", "execute"}
      /\ pc' = "execute" => Live(cur)
      /\ UNCHANGED <<jobs, total, active, callStack, cpu, cur, copy, resume,
                     exitcalled, isr, fresh, torn>>
  BY DEF Emulate, tableVars
<1>2. InTurn /\ Moment' = pc' BY <1>1 DEF InTurn, Moment
<1>3. TypeOK' BY <1>1 DEF IInv, TypeOK, LoopSteps, Slots
<1> QED BY <1>1, <1>2, <1>3, WithinTurn

LEMMA SetIsrHolds == IInv /\ SetIsr => IInv'
<1> SUFFICES ASSUME IInv, SetIsr PROVE IInv' OBVIOUS
<1>1. /\ pc = "setisr" /\ pc' = "save" /\ isr' \in Reread
      /\ cpu' = [cpu EXCEPT !.ip = Plus(@, 5)]
      /\ UNCHANGED <<jobs, total, active, callStack, cur, copy, resume,
                     exitcalled, fresh, torn>>
  BY DEF SetIsr, tableVars
<1>2. isr' \in Addr BY <1>1, AddressAssumption DEF Reread
<1>3. cpu' \in CpuRecord /\ cpu'.stk = cpu.stk
  <2>1. cpu \in CpuRecord BY DEF IInv, TypeOK
  <2>2. cpu.ip \in Int BY <2>1, AddrIsInt DEF CpuRecord
  <2>3. Plus(cpu.ip, 5) \in Addr BY <2>2, PlusIsAddr
  <2> QED BY <1>1, <2>1, <2>3 DEF CpuRecord
<1>4. TypeOK' BY <1>1, <1>2, <1>3 DEF IInv, TypeOK, LoopSteps, Slots
<1>5. InTurn /\ Moment' = "save" BY <1>1 DEF InTurn, Moment
<1> QED BY <1>1, <1>3, <1>4, <1>5, WithinTurn

LEMMA DispatchHolds == IInv /\ Dispatch => IInv'
<1> SUFFICES ASSUME IInv, Dispatch PROVE IInv' OBVIOUS
<1>1. pc = "execute" /\ UNCHANGED <<cur, copy, resume, exitcalled, isr, torn>>
  BY DEF Dispatch
<1>2. Moment = "execute" /\ InTurn /\ Live(cur) /\ (~torn => cpu.stk = cur)
  <2>1. Moment = "execute" /\ InTurn BY <1>1 DEF Moment, InTurn
  <2> QED BY <2>1 DEF IInv, Placed, ContextOwned
<1>3. PICK a \in {t \in Targets : t <= MemorySize}, tail \in Tails :
          \/ /\ DispatchJob(a, TRUE, tail)
             /\ fresh' = fresh \cup {FirstFree(tail)}
             /\ cpu' = [cpu EXCEPT !.ip = Plus(@, 2)]
             /\ pc' = "save"
          \/ /\ NoFreeSlot(tail)
             /\ pc' = "stopped"
             /\ UNCHANGED <<cpu, fresh>>
  BY DEF Dispatch
<1>4. CASE /\ DispatchJob(a, TRUE, tail)
           /\ fresh' = fresh \cup {FirstFree(tail)}
           /\ cpu' = [cpu EXCEPT !.ip = Plus(@, 2)]
           /\ pc' = "save"
  <2> DEFINE f == FirstFree(tail)
  <2>1. a \in Addr BY AddressAssumption
  <2>2. TableTypeOK /\ active = Cardinality(LiveJobs)
    BY TypeOKTable DEF IInv, JobsCounted
  <2>3. /\ TableTypeOK'
        /\ active' = Cardinality(LiveJobs)'
        /\ Slots \subseteq Slots'
        /\ \A d \in Slots' : Live(d)' <=> Live(d) \/ d = f
        /\ \A d \in LiveJobs : jobs'[d] = jobs[d]
        /\ f \in Slots'
        /\ jobs'[f] = NewJob(a, f, TRUE)
        /\ \A d \in Slots' : jobs'[d] = Wild
             => Wild \in TailValues \/ (d \in Slots /\ jobs[d] = Wild)
    BY <1>3, <1>4, <2>1, <2>2, DispatchJobEffect
  <2>4. cpu' \in CpuRecord /\ cpu'.stk = cpu.stk
    <3>1. cpu \in CpuRecord BY DEF IInv, TypeOK
    <3>2. cpu.ip \in Int BY <3>1, AddrIsInt DEF CpuRecord
    <3>3. Plus(cpu.ip, 2) \in Addr BY <3>2, PlusIsAddr
    <3> QED BY <1>4, <3>1, <3>3 DEF CpuRecord
  <2>5. fresh' \subseteq Slots' BY <1>4, <2>3 DEF IInv, TypeOK
  <2>6. TypeOK'
    BY <1>1, <1>4, <2>3, <2>4, <2>5 DEF IInv, TypeOK, TableTypeOK, LoopSteps
  <2>7. \A d \in LiveJobs' : d = f \/ d \in LiveJobs
    BY <2>3 DEF LiveJobs, Live
  <2>8. jobs'[f].stk = f BY <2>3 DEF NewJob
  <2>9. ContextOwned'
    BY <1>1, <1>2, <2>3, <2>4, <2>7, <2>8 DEF IInv, ContextOwned
  <2>10. Stacked'
    <3>1. cpu'.stk \in Slots' BY <2>3, <2>4 DEF IInv, Stacked
    <3>2. \A d \in LiveJobs : jobs[d].stk \in Slots BY DEF IInv, Stacked
    <3>3. \A d \in LiveJobs' : jobs'[d].stk \in Slots'
      BY <2>3, <2>7, <2>8, <3>2
    <3> QED BY <3>1, <3>3 DEF Stacked
  <2>11. Placed' BY <1>4 DEF Placed, Moment
  <2>12. JobsCounted' BY <2>3 DEF JobsCounted
  <2>13. NoWild' BY <2>3 DEF IInv, NoWild
  <2> QED BY <2>6, <2>9, <2>10, <2>11, <2>12, <2>13 DEF IInv
<1>5. CASE NoFreeSlot(tail) /\ pc' = "stopped" /\ UNCHANGED <<cpu, fresh>>
  <2>1. UNCHANGED <<jobs, total, active, callStack>>
    BY <1>5 DEF NoFreeSlot, tableVars
  <2>2. TypeOK' BY <1>1, <1>5, <2>1 DEF IInv, TypeOK, Slots
  <2> QED BY <1>1, <1>5, <2>1, <2>2, BetweenTurns DEF Moment
<1> QED BY <1>3, <1>4, <1>5

LEMMA ExitHolds == IInv /\ Exit => IInv'
<1> SUFFICES ASSUME IInv, Exit PROVE IInv' OBVIOUS
<1>1. /\ pc = "execute" /\ pc' = "save"
      /\ UNCHANGED <<cpu, cur, copy, resume, isr, torn>>
  BY DEF Exit
<1>2. Moment = "execute" /\ InTurn /\ Moment' = "save"
  BY <1>1 DEF Moment, InTurn
<1>3. cur \in LiveJobs /\ jobs[cur] \in Job
  BY <1>2 DEF IInv, Placed, TypeOK, LiveJobs, Live
<1>4. CASE UNCHANGED <<tableVars, exitcalled, fresh>>
  <2>1. UNCHANGED <<jobs, total, active, callStack, exitcalled, fresh>>
    BY <1>4 DEF tableVars
  <2>2. TypeOK' BY <1>1, <2>1 DEF IInv, TypeOK, LoopSteps, Slots
  <2> QED BY <1>1, <1>2, <2>1, <2>2, WithinTurn
<1>5. CASE /\ exitcalled' = jobs[cur].ismain
           /\ ExitJob(cur)
           /\ fresh' = fresh \ {cur}
  <2>1. /\ TableTypeOK'
        /\ active' = Cardinality(LiveJobs)'
        /\ LiveJobs' = LiveJobs \ {cur}
        /\ \A d \in LiveJobs' : jobs'[d] = jobs[d]
    BY <1>3, <1>5, TypeOKTable, ExitJobEffect DEF IInv, JobsCounted
  <2>2. Slots' = Slots BY <1>5 DEF ExitJob, Slots
  <2>3. exitcalled' \in BOOLEAN BY <1>3, <1>5 DEF Job
  <2>4. TypeOK'
    BY <1>1, <1>5, <2>1, <2>2, <2>3 DEF IInv, TypeOK, TableTypeOK, LoopSteps
  <2>5. ~Live(cur)'
    <3>1. cur' = cur /\ cur \notin LiveJobs' BY <1>1, <2>1
    <3>2. Live(cur)' => cur' \in LiveJobs' BY DEF LiveJobs, Live
    <3> QED BY <3>1, <3>2
  <2>6. ContextOwned' BY <1>1, <2>1, <2>5 DEF IInv, ContextOwned
  <2>7. Stacked' BY <1>1, <2>1, <2>2 DEF IInv, Stacked
  <2>8. Placed' BY <1>2 DEF Placed
  <2>9. NoWild'
    <3>1. \A d \in Slots : jobs'[d] = IF d = cur THEN NoJob ELSE jobs[d]
      BY <1>5 DEF ExitJob, IInv, TypeOK
    <3> QED BY <2>2, <3>1, TableAssumption DEF IInv, NoWild
  <2> QED BY <2>1, <2>4, <2>6, <2>7, <2>8, <2>9 DEF IInv, JobsCounted
<1> QED BY <1>4, <1>5 DEF Exit


LEMMA InstructionHolds == IInv /\ Instruction => IInv'
<1> SUFFICES ASSUME IInv, Instruction PROVE IInv' OBVIOUS
<1>1. PICK c \in Outcomes(Running, isr) : Become(c) BY DEF Instruction
<1>2. isr \in Addr BY DEF IInv, TypeOK
<1>3. c \in Context BY <1>1, <1>2, RunningIsContext, OutcomesType DEF IInv
<1>4. /\ pc = "execute" /\ pc' = "save" /\ isr' = isr /\ resume' = resume
      /\ UNCHANGED <<jobs, total, active, cur, copy, exitcalled, fresh, torn>>
  BY DEF Instruction
<1>5. resume' \in [pc : LoopSteps \cup {"stopped"}, add : Nat]
  BY <1>4 DEF IInv, TypeOK
<1>6. Moment' = "save" BY <1>4 DEF Moment
<1> QED BY <1>1, <1>2, <1>3, <1>4, <1>5, <1>6, StepOnContext DEF LoopSteps

LEMMA LoadIHolds == IInv /\ LoadI => IInv'
<1> SUFFICES ASSUME IInv, LoadI PROVE IInv' OBVIOUS
<1>1. pc = "execute"
      /\ UNCHANGED <<jobs, total, active, cur, copy, exitcalled, fresh, torn>>
  BY DEF LoadI
<1>2. PICK t \in Targets :
        \/ /\ Become(Skip(Running, 6))
           /\ isr' = t /\ pc' = "save" /\ UNCHANGED resume
        \/ /\ Become(Skip(Running, 1))
           /\ EnterDebugger("setisr", 0)
           /\ UNCHANGED isr
  BY DEF LoadI
<1>3. isr' \in Addr BY <1>2, AddressAssumption DEF IInv, TypeOK
<1>4. Skip(Running, 1) \in Context /\ Skip(Running, 6) \in Context
  BY RunningIsContext, SkipType DEF IInv
<1>5. CASE Become(Skip(Running, 6)) /\ pc' = "save" /\ UNCHANGED resume
  <2>1. resume' \in [pc : LoopSteps \cup {"stopped"}, add : Nat]
    BY <1>5 DEF IInv, TypeOK
  <2>2. Moment' = "save" BY <1>5 DEF Moment
  <2> QED BY <1>1, <1>3, <1>4, <1>5, <2>1, <2>2, StepOnContext DEF LoopSteps
<1>6. CASE Become(Skip(Running, 1)) /\ EnterDebugger("setisr", 0)
  <2>1. /\ pc' \in {"debug", "stopped"}
        /\ resume' \in [pc : LoopSteps \cup {"stopped"}, add : Nat]
        /\ Moment' \in {"setisr", "stopped"}
    BY <1>6, EnterDebuggerType DEF LoopSteps
  <2> QED BY <1>1, <1>3, <1>4, <1>6, <2>1, StepOnContext
<1> QED BY <1>2, <1>5, <1>6

LEMMA RaiseHolds == IInv /\ Raise => IInv'
<1> SUFFICES ASSUME IInv, Raise PROVE IInv' OBVIOUS
<1>1. /\ pc = "execute"
      /\ UNCHANGED <<jobs, total, active, cur, copy, exitcalled, fresh, torn>>
      /\ isr' \in Addr
  BY DEF Raise, IInv, TypeOK
<1>2. PICK f \in Faults :
        LET c == Skip(Running, f.before) IN
        \E h \in HandlersOf(c, f.id) :
           \/ /\ Become(Skip(InHandler(c, h), f.after))
              /\ pc' = "save"
              /\ UNCHANGED resume
           \/ /\ Become(c)
              /\ EnterDebugger("save", f.after)
  BY DEF Raise
<1> DEFINE c == Skip(Running, f.before)
<1>3. f.before \in Nat /\ f.after \in Nat BY FaultType
<1>4. c \in Context BY <1>3, RunningIsContext, SkipType DEF IInv
<1>5. PICK h \in HandlersOf(c, f.id) :
        \/ /\ Become(Skip(InHandler(c, h), f.after))
           /\ pc' = "save"
           /\ UNCHANGED resume
        \/ /\ Become(c)
           /\ EnterDebugger("save", f.after)
  BY <1>2
<1>6. h \in Addr BY <1>4, <1>5, HandlersOfType
<1>7. CASE Become(Skip(InHandler(c, h), f.after)) /\ pc' = "save" /\ UNCHANGED resume
  <2>1. Skip(InHandler(c, h), f.after) \in Context
    BY <1>3, <1>4, <1>6, InHandlerType, SkipType
  <2>2. resume' \in [pc : LoopSteps \cup {"stopped"}, add : Nat]
    BY <1>7 DEF IInv, TypeOK
  <2>3. Moment' = "save" BY <1>7 DEF Moment
  <2> QED BY <1>1, <1>7, <2>1, <2>2, <2>3, StepOnContext DEF LoopSteps
<1>8. CASE Become(c) /\ EnterDebugger("save", f.after)
  <2>1. /\ pc' \in {"debug", "stopped"}
        /\ resume' \in [pc : LoopSteps \cup {"stopped"}, add : Nat]
        /\ Moment' \in {"save", "stopped"}
    BY <1>3, <1>8, EnterDebuggerType DEF LoopSteps
  <2> QED BY <1>1, <1>4, <1>8, <2>1, StepOnContext
<1> QED BY <1>5, <1>7, <1>8

-----------------------------------------------------------------------------
\* switchdomain, also inside a copy: the CPU gets the whole context of a live
\* job, and the loop takes that job for its own
LEMMA SwitchDomainHolds == IInv /\ SwitchDomain => IInv'
<1> SUFFICES ASSUME IInv, SwitchDomain PROVE IInv' OBVIOUS
<1>1. /\ pc = "debug"
      /\ UNCHANGED <<jobs, total, active, callStack, copy, resume, exitcalled,
                     isr, fresh>>
  BY DEF SwitchDomain, tableVars
<1>2. JobsCounted' /\ NoWild' /\ Slots' = Slots /\ LiveJobs' = LiveJobs
      /\ \A d : Live(d)' <=> Live(d)
  BY <1>1, SameTable
<1>3. \A e : Loadable(e) => Live(e) /\ e \in LiveJobs
  BY DEF Loadable, LiveJobs, Live
<1>4. PICK d \in 0 .. total :
        \/ /\ Loadable(d) /\ cpu' = LoadJobState(d) /\ cur' = d
           /\ torn' = (torn \/ InsideCopyOfOther(d)) /\ UNCHANGED pc
        \/ pc' = "stopped" /\ UNCHANGED <<cpu, cur, torn>>
        \/ /\ cpu' = IF Loadable(cur) THEN LoadJobState(cur) ELSE cpu
           /\ UNCHANGED <<cur, pc, torn>>
  BY DEF SwitchDomain, SwitchTo
<1>5. CASE /\ Loadable(d) /\ cpu' = LoadJobState(d) /\ cur' = d
           /\ torn' = (torn \/ InsideCopyOfOther(d)) /\ UNCHANGED pc
  <2>1. /\ cpu' \in CpuRecord /\ cpu'.stk = jobs[d].stk
        /\ jobs[d].stk \in Slots /\ Live(d) /\ d \in LiveJobs
    BY <1>3, <1>5, LoadType DEF IInv
  <2>2. d \in Nat /\ torn' \in BOOLEAN BY <1>4, <1>5 DEF IInv, TypeOK
  <2>3. TypeOK' BY <1>1, <1>2, <1>5, <2>1, <2>2 DEF IInv, TypeOK
  <2>4. Moment' = Moment BY <1>1, <1>5 DEF Moment
  <2>5. ASSUME ~torn' PROVE ~torn /\ cpu'.stk = d /\ ~InsideCopyOfOther(d)
    BY <1>5, <2>1, <2>5 DEF IInv, ContextOwned
  <2>6. ContextOwned' BY <1>1, <1>2, <1>5, <2>5 DEF IInv, ContextOwned
  <2>7. Stacked' BY <1>1, <1>2, <2>1 DEF IInv, Stacked
  <2>8. Placed'
    <3>1. (IsWild(copy.job)' <=> IsWild(copy.job))
          /\ (Live(copy.job)' <=> Live(copy.job))
      BY <1>1 DEF IsWild, Live, Slots
    <3>2. Live(cur)' BY <1>1, <1>5, <2>1 DEF Live, Slots
    <3>3. ~torn' => /\ Moment' \in {"loading", "saving"} => copy.job = d
                    /\ cpu'.stk = d
      BY <2>4, <2>5 DEF InsideCopyOfOther
    <3> QED BY <1>1, <1>5, <2>4, <3>1, <3>2, <3>3 DEF IInv, Placed
  <2> QED BY <1>2, <2>3, <2>6, <2>7, <2>8 DEF IInv
<1>6. CASE pc' = "stopped" /\ UNCHANGED <<cpu, cur, torn>>
  <2>1. TypeOK' BY <1>1, <1>2, <1>6 DEF IInv, TypeOK
  <2> QED BY <1>1, <1>6, <2>1, BetweenTurns DEF Moment
<1>7. CASE /\ cpu' = IF Loadable(cur) THEN LoadJobState(cur) ELSE cpu
           /\ UNCHANGED <<cur, pc, torn>>
  <2>1. Moment' = Moment BY <1>1, <1>7 DEF Moment
  <2>2. CASE ~Loadable(cur)
    <3>1. TypeOK' BY <1>1, <1>2, <1>7, <2>2 DEF IInv, TypeOK
    <3> QED BY <1>1, <1>7, <2>1, <2>2, <3>1, SameMoment
  <2>3. CASE Loadable(cur)
    <3>1. /\ cpu' \in CpuRecord /\ cpu'.stk = jobs[cur].stk
          /\ jobs[cur].stk \in Slots /\ cur \in LiveJobs
      BY <1>3, <1>7, <2>3, LoadType DEF IInv
    <3>2. TypeOK' BY <1>1, <1>2, <1>7, <3>1 DEF IInv, TypeOK
    <3>3. ~torn => cpu'.stk = cur BY <3>1 DEF IInv, ContextOwned
    <3>4. ContextOwned' BY <1>1, <1>2, <1>7, <3>3 DEF IInv, ContextOwned
    <3>5. Stacked' BY <1>1, <1>2, <3>1 DEF IInv, Stacked
    <3>6. /\ IsWild(copy.job)' <=> IsWild(copy.job)
          /\ Live(copy.job)' <=> Live(copy.job)
          /\ Live(cur)' <=> Live(cur)
      BY <1>1, <1>7 DEF IsWild, Live, Slots
    <3>7. Placed' BY <1>1, <1>7, <2>1, <3>3, <3>6 DEF IInv, Placed
    <3> QED BY <1>2, <3>2, <3>4, <3>5, <3>7 DEF IInv
  <2> QED BY <2>2, <2>3
<1> QED BY <1>4, <1>5, <1>6, <1>7

\* The other commands of the debugger and the threads outside the loop
LEMMA OutsideHolds == IInv /\ (Debugger \/ SigInt \/ WindowClosed \/ Watchdog) => IInv'
<1> SUFFICES ASSUME IInv, Debugger \/ SigInt \/ WindowClosed \/ Watchdog,
                    ~SwitchDomain
             PROVE  IInv'
  BY SwitchDomainHolds
<1>1. UNCHANGED <<jobs, total, active, callStack, cur, copy, isr, fresh, torn>>
  BY DEF Debugger, Continue, QuitCommand, SetIp, SetReg, SigInt,
         WindowClosed, Watchdog, tableVars
<1>2. Slots' = Slots BY <1>1, SameTable
<1>3. cpu \in CpuRecord BY DEF IInv, TypeOK
<1>4. CASE Continue
  <2>1. pc = "debug" /\ pc' = resume.pc /\ resume' = NoResume
        /\ cpu' = [cpu EXCEPT !.ip = Plus(@, resume.add)]
        /\ UNCHANGED exitcalled
    BY <1>4 DEF Continue
  <2>2. Plus(cpu.ip, resume.add) \in Addr
    <3>1. cpu.ip \in Int BY <1>3, AddrIsInt DEF CpuRecord
    <3>2. resume.add \in Int BY DEF IInv, TypeOK
    <3> QED BY <3>1, <3>2, PlusIsAddr
  <2>3. cpu' \in CpuRecord /\ cpu'.stk = cpu.stk
    BY <1>3, <2>1, <2>2 DEF CpuRecord
  <2>4. TypeOK'
    BY <1>1, <1>2, <2>1, <2>3 DEF IInv, TypeOK, NoResume, LoopSteps
  <2>5. Moment' = Moment
    BY <2>1 DEF Moment, IInv, TypeOK, LoopSteps
  <2> QED BY <1>1, <2>3, <2>4, <2>5, SameMoment
<1>5. CASE QuitCommand
  <2>1. TypeOK' BY <1>1, <1>2, <1>5 DEF QuitCommand, IInv, TypeOK
  <2> QED BY <1>1, <1>5, <2>1, BetweenTurns DEF QuitCommand, Moment
<1>6. CASE SetIp \/ SetReg
  <2>1. 0 .. JobRegisterSpace - 1 \subseteq Registers
    BY RegisterAssumption, JobRegisterAssumption DEF Registers
  <2>2. cpu' \in CpuRecord /\ cpu'.stk = cpu.stk
    BY <1>3, <1>6, <2>1, AddressAssumption DEF SetIp, SetReg, CpuRecord
  <2>3. UNCHANGED <<pc, resume, exitcalled>> BY <1>6 DEF SetIp, SetReg
  <2>4. TypeOK' BY <1>1, <1>2, <2>2, <2>3 DEF IInv, TypeOK
  <2>5. Moment' = Moment BY <2>3 DEF Moment
  <2> QED BY <1>1, <2>2, <2>4, <2>5, SameMoment
<1>7. CASE SigInt
  <2>1. pc \in LoopSteps /\ EnterDebugger(pc, 0) /\ UNCHANGED <<cpu, exitcalled>>
    BY <1>7 DEF SigInt
  <2>2. /\ pc' \in {"debug", "stopped"}
        /\ resume' \in [pc : LoopSteps \cup {"stopped"}, add : Nat]
        /\ Moment' \in {pc, "stopped"}
    BY <2>1, EnterDebuggerType
  <2>3. Moment = pc BY <2>1 DEF Moment, LoopSteps
  <2>4. TypeOK' BY <1>1, <1>2, <2>1, <2>2 DEF IInv, TypeOK
  <2>5. CASE Moment' = "stopped" BY <1>1, <2>1, <2>4, <2>5, BetweenTurns
  <2>6. CASE Moment' = pc BY <1>1, <2>1, <2>3, <2>4, <2>6, SameMoment
  <2> QED BY <2>2, <2>5, <2>6
<1>8. CASE WindowClosed \/ Watchdog
  <2>1. exitcalled' = TRUE /\ UNCHANGED <<cpu, pc, resume>>
    BY <1>8 DEF WindowClosed, Watchdog
  <2>2. TypeOK' BY <1>1, <1>2, <2>1 DEF IInv, TypeOK
  <2>3. Moment' = Moment BY <2>1 DEF Moment
  <2> QED BY <1>1, <2>1, <2>2, <2>3, SameMoment
<1> QED BY <1>4, <1>5, <1>6, <1>7, <1>8 DEF Debugger

LEMMA StepHolds == IInv /\ [Next]_vars => IInv'
<1>1. IInv /\ Turn => IInv'
  BY FetchHolds, LoadTurnHolds, LoadPartHolds, EmulateHolds, InstructionHolds,
     LoadIHolds, RaiseHolds, DispatchHolds, ExitHolds, SetIsrHolds, SaveHolds,
     SavePartHolds, AdvanceHolds
  DEF Turn, Execute
<1>2. IInv /\ UNCHANGED vars => IInv'
  <2> SUFFICES ASSUME IInv, UNCHANGED vars PROVE IInv' OBVIOUS
  <2>1. UNCHANGED <<jobs, total, active, callStack, cpu, cur, copy, pc, resume,
                    exitcalled, isr, fresh, torn>>
    BY DEF vars
  <2>2. TypeOK' BY <2>1 DEF IInv, TypeOK, Slots
  <2> QED BY <2>1, <2>2, SameMoment DEF Moment
<1> QED BY <1>1, <1>2, OutsideHolds DEF Next

-----------------------------------------------------------------------------
(* The theorems.                                                            *)

\* The inductive invariant
THEOREM Invariance == Spec => []IInv
BY InitHolds, StepHolds, PTL DEF Spec

\* Every variable of the machine keeps its type: the instruction pointer wraps
\* inside the address space, registers stay below 2^64, the number of jobs
\* never becomes negative (src/src/dispatcher.c:130)
THEOREM TypeCorrect == Spec => []TypeOK
<1>1. IInv => TypeOK BY DEF IInv
<1> QED BY <1>1, Invariance, PTL

\* Every domain has a call stack of its own, and the context that is copied back
\* belongs to the job it is copied to, for every program and for every operator
\* who has not switched to another domain inside a copy: not at one of the other
\* places of the turn, nor to the same domain inside it (dispatcher.c:73-120)
THEOREM OwnedContexts == Spec => []ContextOwned
<1>1. IInv => ContextOwned BY DEF IInv
<1> QED BY <1>1, Invariance, PTL

\* NumberOfActiveJobs is the number of jobs in the table (dispatcher.c:66, :130)
THEOREM CountedJobs == Spec => []JobsCounted
<1>1. IInv => JobsCounted BY DEF IInv
<1> QED BY <1>1, Invariance, PTL

\* "Unable to find free pointer.  Please report this bug!" (dispatcher.c:70) is
\* unreachable if realloc's new slots are NULL, for every chunk above 1
THEOREM RoomForEveryJob == Spec => []DispatchFindsSlot
<1>1. IInv => DispatchFindsSlot
  BY CountMakesRoom, TypeOKTable DEF IInv, JobsCounted, NoWild, DispatchFindsSlot
<1> QED BY <1>1, Invariance, PTL

-----------------------------------------------------------------------------
(* Why a permission check on the wrong instruction pointer is almost       *)
(* enough: r3x_cpu_loop checks the pointer of the job it saved last, and   *)
(* only then loads the next one (cpu.c:168 and :173).  FetchInv says that  *)
(* every job that has had a turn was saved with a pointer that the next    *)
(* check has passed, or is about to see, and that a copy in either         *)
(* direction has the pointer across from its first field on.               *)

\* Jobs that have been saved by the loop
Seasoned == LiveJobs \ fresh

ResumeAdds == resume.pc # "save" => resume.add = 0

\* After Save, until the check
Pointers == \A d \in Seasoned : jobs[d].ip \in Exec \/ jobs[d].ip = cpu.ip

\* From the check to Save
Checked == \A d \in Seasoned : jobs[d].ip \in Exec

\* In Save
Saved ==
    /\ \A d \in Seasoned : jobs[d].ip \in Exec \/ d = copy.job
    /\ copy.done >= 1 => jobs[copy.job].ip = cpu.ip

FetchInv ==
    /\ ~torn
    /\ ResumeAdds
    /\ Moment \in {"advance", "fetch"} => Pointers
    /\ Moment \in {"load", "loading", "emulate", "execute", "setisr", "save"}
          => Checked
    /\ Moment = "saving" => Saved
    /\ Moment = "loading" /\ copy.done >= 1 => cpu.ip = jobs[copy.job].ip
    /\ Moment \in {"emulate", "execute"} /\ Live(cur) => cpu.ip = jobs[cur].ip

\* The operator neither moves the instruction pointer nor switches domains
NoMoves == {"setip", "switchdomain"} \cap Commands = {}

LEMMA FetchInit == Init => FetchInv
<1> SUFFICES ASSUME Init PROVE FetchInv OBVIOUS
<1>1. Seasoned = {}
  <2>1. \A d : Live(d) => d = 0 BY TableAssumption DEF Init, Live, Slots
  <2> QED BY <2>1 DEF Seasoned, LiveJobs, Init
<1>2. Moment = "fetch" BY DEF Moment, Init
<1>3. ResumeAdds BY DEF ResumeAdds, Init, NoResume
<1>4. ~torn BY DEF Init
<1> QED BY <1>1, <1>2, <1>3, <1>4 DEF FetchInv, Pointers

\* The debugger is entered with nothing to add, but from an instruction
LEMMA EnterDebuggerAdds ==
  ASSUME NEW next \in LoopSteps \cup {"stopped"}, NEW n \in Nat,
         EnterDebugger(next, n), next # "save" => n = 0
  PROVE  ResumeAdds' /\ Moment' \in {next, "stopped"}
BY DEF EnterDebugger, ResumeAdds, Moment, NoResume

\* The jobs of the table, and those that have been saved, stay what they were
LEMMA SameSeasoned ==
  ASSUME UNCHANGED <<jobs, total, fresh>>
  PROVE  Seasoned' = Seasoned /\ \A d : Live(d)' <=> Live(d)
BY DEF Seasoned, LiveJobs, Live, Slots

\* An instruction leaves the loop at Save, or holds it there; no job but the one
\* it runs goes, and the new one is fresh
LEMMA FetchExecute == IInv /\ FetchInv /\ Execute => FetchInv'
<1> SUFFICES ASSUME IInv, FetchInv, Execute PROVE FetchInv' OBVIOUS
<1>1. pc = "execute" /\ Moment = "execute"
  BY DEF Execute, Instruction, LoadI, Raise, Dispatch, Exit, Moment
<1>2. Moment' \in {"setisr", "save", "stopped"} /\ ResumeAdds'
  <2>1. CASE Instruction \/ Exit
    BY <2>1 DEF Instruction, Exit, Moment, ResumeAdds, FetchInv
  <2>2. CASE Dispatch
    BY <2>2 DEF Dispatch, Moment, ResumeAdds, FetchInv
  <2>3. CASE LoadI
    <3>1. \/ EnterDebugger("setisr", 0)
          \/ pc' = "save" /\ UNCHANGED resume
      BY <2>3 DEF LoadI
    <3>2. CASE EnterDebugger("setisr", 0)
      BY <3>2, EnterDebuggerAdds DEF LoopSteps
    <3>3. CASE pc' = "save" /\ UNCHANGED resume
      BY <3>3 DEF Moment, ResumeAdds, FetchInv
    <3> QED BY <3>1, <3>2, <3>3
  <2>4. CASE Raise
    <3>1. \/ \E f \in Faults : EnterDebugger("save", f.after)
          \/ pc' = "save" /\ UNCHANGED resume
      BY <2>4 DEF Raise
    <3>2. ASSUME NEW f \in Faults, EnterDebugger("save", f.after)
          PROVE  Moment' \in {"save", "stopped"} /\ ResumeAdds'
      BY <3>2, FaultType, EnterDebuggerAdds DEF LoopSteps
    <3>3. CASE pc' = "save" /\ UNCHANGED resume
      BY <3>3 DEF Moment, ResumeAdds, FetchInv
    <3> QED BY <3>1, <3>2, <3>3
  <2> QED BY <2>1, <2>2, <2>3, <2>4 DEF Execute
<1>3. \A d \in Seasoned' : d \in Seasoned /\ jobs'[d] = jobs[d]
  <2>1. CASE UNCHANGED <<jobs, total, fresh>> BY <2>1, SameSeasoned
  <2>2. CASE Dispatch
    <3>1. PICK a \in {t \in Targets : t <= MemorySize}, tail \in Tails :
            \/ /\ DispatchJob(a, TRUE, tail)
               /\ fresh' = fresh \cup {FirstFree(tail)}
            \/ NoFreeSlot(tail) /\ UNCHANGED fresh
      BY <2>2 DEF Dispatch
    <3>2. CASE /\ DispatchJob(a, TRUE, tail)
               /\ fresh' = fresh \cup {FirstFree(tail)}
      <4>1. a \in Addr BY AddressAssumption
      <4>2. TableTypeOK /\ active = Cardinality(LiveJobs)
        BY TypeOKTable DEF IInv, JobsCounted
      <4>3. /\ \A d \in Slots' : Live(d)' <=> Live(d) \/ d = FirstFree(tail)
            /\ \A d \in LiveJobs : jobs'[d] = jobs[d]
        BY <3>2, <4>1, <4>2, DispatchJobEffect
      <4>4. \A d \in Seasoned' : d \in LiveJobs /\ d \notin fresh
        BY <3>2, <4>3 DEF Seasoned, LiveJobs, Live
      <4> QED BY <4>3, <4>4 DEF Seasoned
    <3>3. CASE NoFreeSlot(tail) /\ UNCHANGED fresh
      BY <2>1, <3>3 DEF NoFreeSlot, tableVars
    <3> QED BY <3>1, <3>2, <3>3
  <2>3. CASE ExitJob(cur) /\ fresh' = fresh \ {cur}
    <3>1. cur \in LiveJobs BY <1>1 DEF IInv, Placed, LiveJobs, Live
    <3>2. LiveJobs' = LiveJobs \ {cur} /\ \A d \in LiveJobs' : jobs'[d] = jobs[d]
      BY <2>3, <3>1, TypeOKTable, ExitJobEffect DEF IInv, JobsCounted
    <3> QED BY <2>3, <3>1, <3>2 DEF Seasoned
  <2>4. CASE Exit BY <2>1, <2>3, <2>4 DEF Exit, tableVars
  <2>5. CASE Instruction \/ LoadI \/ Raise
    BY <2>1, <2>5 DEF Instruction, LoadI, Raise
  <2> QED BY <2>2, <2>4, <2>5 DEF Execute
<1>4. Checked BY <1>1 DEF FetchInv
<1>5. Checked' BY <1>3, <1>4 DEF Checked
<1>6. torn' = torn
  BY DEF Execute, Instruction, LoadI, Raise, Dispatch, Exit
<1> QED BY <1>2, <1>5, <1>6 DEF FetchInv

\* The copy into the CPU has the pointer across from its first field on
LEMMA FetchLoadPart == IInv /\ FetchInv /\ LoadPart => FetchInv'
<1> SUFFICES ASSUME IInv, FetchInv, LoadPart PROVE FetchInv' OBVIOUS
<1>1. /\ pc = "loading" /\ Moment = "loading" /\ copy.job = cur
      /\ UNCHANGED <<jobs, total, cur, fresh, torn>>
  BY DEF LoadPart, tableVars, Moment, IInv, Placed, FetchInv
<1>2. Seasoned' = Seasoned /\ (Live(cur)' <=> Live(cur))
  BY <1>1, SameSeasoned DEF Live, Slots
<1>3. Checked' BY <1>1, <1>2 DEF FetchInv, Checked
<1>4. CASE EnterDebugger("loading", 0) /\ UNCHANGED <<cpu, copy>>
  <2>1. ResumeAdds' /\ Moment' \in {"loading", "stopped"}
    BY <1>4, EnterDebuggerAdds DEF LoopSteps
  <2> QED BY <1>1, <1>3, <1>4, <2>1 DEF FetchInv
<1>5. CASE /\ Live(copy.job)
           /\ cpu' = LoadField(copy.done + 1, cpu, copy.job)
           /\ NextField("emulate")
           /\ UNCHANGED resume
  <2> DEFINE n == copy.done + 1
  <2>1. /\ n \in 1 .. LastField /\ pc' \in LoopSteps
        /\ \/ pc' = "emulate" /\ n = LastField
           \/ pc' = "loading" /\ copy'.job = copy.job
    BY <1>1, <1>5, NextFieldType DEF IInv, LoopSteps
  <2>2. cpu'.ip = IF n = 1 THEN jobs[cur].ip ELSE cpu.ip
    BY <1>1, <1>5, <2>1, LoadFieldType DEF IInv, LiveJobs, Live
  <2>3. cpu'.ip = jobs[cur].ip
    BY <1>1, <2>1, <2>2 DEF FetchInv, IInv, TypeOK
  <2>4. Moment' = pc' BY <2>1 DEF Moment, LoopSteps
  <2>5. ResumeAdds' BY <1>5 DEF FetchInv, ResumeAdds
  <2> QED BY <1>1, <1>3, <2>1, <2>3, <2>4, <2>5 DEF FetchInv
<1> QED BY <1>4, <1>5 DEF LoadPart

\* and so has the copy out of it, until the check that comes next
LEMMA FetchSavePart == IInv /\ FetchInv /\ SavePart => FetchInv'
<1> SUFFICES ASSUME IInv, FetchInv, SavePart PROVE FetchInv' OBVIOUS
<1> DEFINE n == copy.done + 1
           k == copy.job
<1>1. /\ pc = "saving" /\ Moment = "saving"
      /\ SaveField(n, cpu, k) /\ NextField("advance")
      /\ fresh' = IF pc' = "advance" THEN fresh \ {k} ELSE fresh
      /\ UNCHANGED <<total, cpu, resume, torn>>
  BY DEF SavePart, Moment
<1>2. /\ n \in 1 .. LastField /\ pc' \in LoopSteps
      /\ \/ pc' = "advance"
         \/ pc' = "saving" /\ copy'.job = k
  BY <1>1, NextFieldType DEF IInv, LoopSteps
<1>3. k \in LiveJobs BY <1>1 DEF IInv, Placed, LiveJobs, Live
<1>4. /\ \A e \in Slots : e # k => jobs'[e] = jobs[e]
      /\ jobs'[k].ip = IF n = 1 THEN cpu.ip ELSE jobs[k].ip
      /\ LiveJobs' = LiveJobs
  BY <1>1, <1>2, <1>3, SaveFieldType DEF IInv
<1>5. jobs'[k].ip = cpu'.ip
  BY <1>1, <1>2, <1>4 DEF FetchInv, Saved, IInv, TypeOK
<1>6. \A d \in Seasoned' : d # k => jobs'[d].ip \in Exec
  <2>1. TAKE d \in Seasoned'
  <2>2. HAVE d # k
  <2>3. d \in Seasoned /\ d \in Slots
    BY <1>1, <1>4, <2>2 DEF Seasoned, LiveJobs
  <2> QED BY <1>1, <1>4, <2>2, <2>3 DEF FetchInv, Saved
<1>7. Moment' = pc' /\ ResumeAdds'
  BY <1>1, <1>2 DEF Moment, LoopSteps, FetchInv, ResumeAdds
<1>8. CASE pc' = "advance"
  <2>1. Pointers' BY <1>5, <1>6 DEF Pointers
  <2> QED BY <1>1, <1>7, <1>8, <2>1 DEF FetchInv
<1>9. CASE pc' = "saving" /\ copy'.job = k
  <2>1. Saved' BY <1>5, <1>6, <1>9 DEF Saved
  <2> QED BY <1>1, <1>7, <1>9, <2>1 DEF FetchInv
<1> QED BY <1>2, <1>8, <1>9

LEMMA FetchTurn == IInv /\ FetchInv /\ Turn => FetchInv'
<1> SUFFICES ASSUME IInv, FetchInv, Turn PROVE FetchInv' OBVIOUS
<1>1. CASE Fetch
  <2>1. UNCHANGED <<jobs, total, cpu, cur, fresh, torn>> /\ Moment = "fetch"
    BY <1>1 DEF Fetch, tableVars, Moment
  <2>2. Seasoned' = Seasoned BY <2>1, SameSeasoned
  <2>3. CASE Executable /\ pc' = "load" /\ UNCHANGED resume
    <3>1. Checked' BY <2>1, <2>2, <2>3 DEF FetchInv, Pointers, Checked, Executable
    <3> QED BY <2>1, <2>3, <3>1 DEF FetchInv, Moment, ResumeAdds
  <2>4. CASE EnterDebugger("stopped", 0)
    BY <2>1, <2>4, EnterDebuggerAdds DEF FetchInv
  <2>5. CASE pc' = "stopped" /\ UNCHANGED resume
    BY <2>1, <2>5 DEF FetchInv, Moment, ResumeAdds
  <2> QED BY <1>1, <2>3, <2>4, <2>5 DEF Fetch
<1>2. CASE LoadTurn
  <2>1. /\ UNCHANGED <<jobs, total, cpu, cur, resume, fresh, torn>>
        /\ Moment = "load" /\ Moment' \in {"loading", "advance"}
        /\ Moment' = "loading" => copy' = [job |-> cur, done |-> 0]
    BY <1>2 DEF LoadTurn, tableVars, Moment
  <2>2. Seasoned' = Seasoned BY <2>1, SameSeasoned
  <2>3. Checked' /\ Pointers'
    BY <2>1, <2>2 DEF FetchInv, Checked, Pointers
  <2> QED BY <2>1, <2>3 DEF FetchInv, ResumeAdds
<1>3. CASE Emulate
  <2>1. UNCHANGED <<jobs, total, cpu, cur, resume, fresh, torn>>
        /\ Moment = "emulate" /\ Moment' \in {"save", "execute"}
    BY <1>3 DEF Emulate, tableVars, Moment
  <2>2. Seasoned' = Seasoned /\ (Live(cur)' <=> Live(cur))
    BY <2>1, SameSeasoned DEF Live, Slots
  <2>3. Checked' BY <2>1, <2>2 DEF FetchInv, Checked
  <2> QED BY <2>1, <2>2, <2>3 DEF FetchInv, ResumeAdds, Live, Slots
<1>4. CASE SetIsr
  <2>1. UNCHANGED <<jobs, total, resume, fresh, torn>>
        /\ Moment = "setisr" /\ Moment' = "save"
    BY <1>4 DEF SetIsr, tableVars, Moment
  <2>2. Seasoned' = Seasoned BY <2>1, SameSeasoned
  <2>3. Checked' BY <2>1, <2>2 DEF FetchInv, Checked
  <2> QED BY <2>1, <2>3 DEF FetchInv, ResumeAdds
<1>5. CASE Save
  <2>1. /\ UNCHANGED <<jobs, total, cpu, cur, resume, fresh, torn>>
        /\ Moment = "save" /\ Moment' \in {"saving", "advance"}
        /\ Moment' = "saving" => copy' = [job |-> cur, done |-> 0]
    BY <1>5 DEF Save, tableVars, Moment
  <2>2. Seasoned' = Seasoned BY <2>1, SameSeasoned
  <2>3. Checked' /\ Pointers'
    BY <2>1, <2>2 DEF FetchInv, Checked, Pointers
  <2>4. Moment' = "saving" => Saved' BY <2>1, <2>3 DEF Saved, Checked
  <2> QED BY <2>1, <2>3, <2>4 DEF FetchInv, ResumeAdds
<1>6. CASE Advance
  <2>1. UNCHANGED <<jobs, total, cpu, resume, fresh, torn>>
        /\ Moment = "advance" /\ Moment' = "fetch"
    BY <1>6 DEF Advance, tableVars, Moment
  <2>2. Seasoned' = Seasoned BY <2>1, SameSeasoned
  <2>3. Pointers' BY <2>1, <2>2 DEF FetchInv, Pointers
  <2> QED BY <2>1, <2>3 DEF FetchInv, ResumeAdds
<1> QED
  BY <1>1, <1>2, <1>3, <1>4, <1>5, <1>6, FetchLoadPart, FetchSavePart, FetchExecute
  DEF Turn

\* A step after which the loop is where it was, and the pointer is what it was
LEMMA FetchSame ==
  ASSUME FetchInv, UNCHANGED <<jobs, total, fresh, cur, copy, torn>>,
         Moment' = Moment, ResumeAdds',
         Moment = "save" \/ cpu'.ip = cpu.ip
  PROVE  FetchInv'
<1>1. Seasoned' = Seasoned /\ (Live(cur)' <=> Live(cur))
  BY SameSeasoned DEF Live, Slots
<1>2. Checked' <=> Checked BY <1>1 DEF Checked
<1>3. cpu'.ip = cpu.ip => (Pointers' <=> Pointers) /\ (Saved' <=> Saved)
  BY <1>1 DEF Pointers, Saved
<1> QED BY <1>1, <1>2, <1>3 DEF FetchInv

LEMMA FetchOutside ==
  ASSUME NoMoves, IInv, FetchInv,
         Debugger \/ SigInt \/ WindowClosed \/ Watchdog \/ UNCHANGED vars
  PROVE  FetchInv'
<1>1. UNCHANGED <<jobs, total, fresh, cur, copy, torn>>
  BY DEF Debugger, Continue, QuitCommand, SetIp, SetReg, SwitchDomain, SigInt,
         WindowClosed, Watchdog, tableVars, NoMoves, vars
<1>2. CASE Continue
  <2>1. Moment' = Moment /\ Moment = resume.pc
    BY <1>2 DEF Continue, Moment, IInv, TypeOK, LoopSteps
  <2>2. ResumeAdds' BY <1>2 DEF Continue, ResumeAdds, NoResume
  <2>3. CASE resume.pc = "save" BY <1>1, <2>1, <2>2, <2>3, FetchSame
  <2>4. CASE resume.pc # "save"
    <3>1. resume.add = 0 BY <2>4 DEF FetchInv, ResumeAdds
    <3>2. cpu.ip \in Addr /\ cpu \in CpuRecord BY DEF IInv, TypeOK, CpuRecord
    <3>3. Plus(cpu.ip, 0) = cpu.ip BY <3>2, AddressAssumption DEF Plus, Addr
    <3>4. cpu'.ip = cpu.ip
      BY <1>2, <3>1, <3>2, <3>3 DEF Continue, CpuRecord
    <3> QED BY <1>1, <2>1, <2>2, <3>4, FetchSame
  <2> QED BY <2>3, <2>4
<1>3. CASE SetReg
  <2>1. cpu'.ip = cpu.ip /\ UNCHANGED <<pc, resume>>
    BY <1>3 DEF SetReg, IInv, TypeOK, CpuRecord
  <2>2. Moment' = Moment /\ ResumeAdds' BY <2>1 DEF Moment, ResumeAdds, FetchInv
  <2> QED BY <1>1, <2>1, <2>2, FetchSame
<1>4. CASE QuitCommand
  BY <1>1, <1>4 DEF QuitCommand, FetchInv, Moment, ResumeAdds
<1>5. CASE SigInt
  <2>1. pc \in LoopSteps /\ EnterDebugger(pc, 0) /\ UNCHANGED cpu
    BY <1>5 DEF SigInt
  <2>2. ResumeAdds' /\ Moment' \in {pc, "stopped"}
    BY <2>1, EnterDebuggerAdds
  <2>3. Moment = pc BY <2>1 DEF Moment, LoopSteps
  <2>4. CASE Moment' = pc BY <1>1, <2>1, <2>2, <2>3, <2>4, FetchSame
  <2>5. CASE Moment' = "stopped" BY <1>1, <2>2, <2>5 DEF FetchInv
  <2> QED BY <2>2, <2>4, <2>5
<1>6. CASE WindowClosed \/ Watchdog \/ UNCHANGED vars
  <2>1. UNCHANGED <<cpu, pc, resume>>
    BY <1>6 DEF WindowClosed, Watchdog, vars
  <2>2. Moment' = Moment /\ ResumeAdds' BY <2>1 DEF Moment, ResumeAdds, FetchInv
  <2> QED BY <1>1, <2>1, <2>2, FetchSame
<1> QED BY <1>2, <1>3, <1>4, <1>5, <1>6
        DEF Debugger, SetIp, SwitchDomain, NoMoves

-----------------------------------------------------------------------------
\* Every instruction is executed from an executable address but the first of a
\* job, for every program, if the operator neither moves the instruction
\* pointer nor switches domains (cpu.c:162-184)
THEOREM FetchCheckSuffices == ASSUME NoMoves PROVE Spec => []FetchChecked
<1>1. Init => IInv /\ FetchInv BY InitHolds, FetchInit
<1>2. IInv /\ FetchInv /\ [Next]_vars => (IInv /\ FetchInv)'
  BY StepHolds, FetchTurn, FetchOutside, NoMoves DEF Next
<1>3. IInv /\ FetchInv => FetchChecked
  <2> SUFFICES ASSUME IInv, FetchInv, pc = "execute", cur \notin fresh
               PROVE  cpu.ip \in Exec
    BY DEF FetchChecked
  <2>1. Moment = "execute" BY DEF Moment
  <2>2. Live(cur) /\ cur \in Seasoned
    BY <2>1 DEF IInv, Placed, Seasoned, LiveJobs, Live
  <2> QED BY <2>1, <2>2 DEF FetchInv, Checked
<1> QED BY <1>1, <1>2, <1>3, PTL DEF Spec
=============================================================================
